---------------------------- MODULE TrackProofs ----------------------------
(***************************************************************************)
(* The first part is about TrackServer.  For every track, every set of     *)
(* engineers and every request: no place is reserved in both directions,   *)
(* and a request takes nothing from an engineer but its sender.            *)
(*                                                                         *)
(* The second part is about Reservation.  For every track: what engineers  *)
(* send are requests of the server; a moving train whose nodes nobody has  *)
(* given back has its way reserved, and two such trains that start apart   *)
(* never come onto the same stretch.                                       *)
(***************************************************************************)
EXTENDS Reservation, SequenceTheorems, WellFoundedInduction, TLAPS

Owners == [Nodes -> Engineers \cup {NoOne}]

OneDirection(o) == \A n \in Nodes : o[n] = NoOne \/ o[Reverse[n]] = NoOne

LEMMA NoOneIsNoEngineer == NoOne \notin Engineers
  BY TrackAssumption DEF NoOne

(* The loop leaves at one place: the first node that is not to be had, or  *)
(* the end.                                                                *)
LEMMA LoopEnds ==
    ASSUME NEW o, NEW nodes \in Seq(Nodes), NEW t
    PROVE  /\ Taken(o, nodes, t) \in 0 .. Len(nodes)
           /\ \/ Taken(o, nodes, t) = Len(nodes)
              \/ Stops(o, nodes, t, Taken(o, nodes, t))
           /\ \A j \in 0 .. Taken(o, nodes, t) - 1 : ~Stops(o, nodes, t, j)
  <1> DEFINE Ends == {k \in 0 .. Len(nodes) : k = Len(nodes) \/ Stops(o, nodes, t, k)}
  <1>1. /\ Len(nodes) \in Nat /\ Len(nodes) \in Ends /\ Ends \subseteq Nat
        /\ \A x \in Ends : x <= Len(nodes)
        /\ \A x \in 0 .. Len(nodes) : Stops(o, nodes, t, x) => x \in Ends
        /\ \A x \in Ends : x = Len(nodes) \/ Stops(o, nodes, t, x)
    OBVIOUS
  <1> HIDE DEF Ends
  <1>2. \E k \in Ends : \A j \in Ends : ~(<<j, k>> \in OpToRel(<, Nat))
    BY <1>1, NatLessThanWellFounded, WFMin
  <1>3. PICK k \in Ends : \A j \in Ends : ~(<<j, k>> \in OpToRel(<, Nat))
    BY <1>2
  <1>4. ASSUME NEW j \in 0 .. k - 1
        PROVE  ~Stops(o, nodes, t, j)
    <2>1. j \in 0 .. Len(nodes) /\ j < k /\ j \in Nat /\ k \in Nat
      BY <1>1
    <2>2. <<j, k>> \in OpToRel(<, Nat)
      BY <2>1 DEF OpToRel
    <2> QED BY <1>1, <1>3, <2>1, <2>2
  <1>5. /\ k \in 0 .. Len(nodes)
        /\ k = Len(nodes) \/ Stops(o, nodes, t, k)
        /\ \A j \in 0 .. k - 1 : ~Stops(o, nodes, t, j)
    BY <1>1, <1>4
  <1> QED BY <1>5 DEF Taken

(* Every node granted was reservable when its turn came. *)
LEMMA GrantedWereFree ==
    ASSUME NEW o, NEW nodes \in Seq(Nodes), NEW t,
           NEW i \in 1 .. Taken(o, nodes, t)
    PROVE  /\ nodes[i] \in Nodes
           /\ IsReservable(Granted(o, nodes, t, i - 1), nodes[i], t)
  <1>1. Taken(o, nodes, t) \in 0 .. Len(nodes) /\ ~Stops(o, nodes, t, i - 1)
    BY LoopEnds
  <1>2. i - 1 < Len(nodes) /\ (i - 1) + 1 = i /\ i \in 1 .. Len(nodes)
    BY <1>1
  <1> QED BY <1>1, <1>2 DEF Stops

(* What the loop grants never leaves both directions of a place taken. *)
LEMMA GrantedOneDirection ==
    ASSUME NEW o \in Owners, OneDirection(o), NEW nodes \in Seq(Nodes),
           NEW t \in Engineers
    PROVE  /\ Granted(o, nodes, t, Taken(o, nodes, t)) \in Owners
           /\ OneDirection(Granted(o, nodes, t, Taken(o, nodes, t)))
  <1>1. PICK k : k = Taken(o, nodes, t)
    OBVIOUS
  <1>2. k \in 0 .. Len(nodes)
    BY <1>1, LoopEnds
  <1> DEFINE g == Granted(o, nodes, t, k)
             Given(n, j) == \E i \in 1 .. j : nodes[i] = n
  <1>3. \A j, n : n \in Nodes =>
           Granted(o, nodes, t, j)[n] = IF Given(n, j) THEN t ELSE o[n]
    BY DEF Granted
  <1>4. g \in Owners
    BY DEF Owners, Granted
  <1>5. \A i \in 1 .. k : /\ nodes[i] \in Nodes
                          /\ Granted(o, nodes, t, i - 1)[Reverse[nodes[i]]] = NoOne
    BY <1>1, GrantedWereFree DEF IsReservable
  <1>6. \A n \in Nodes : Reverse[n] \in Nodes /\ Reverse[Reverse[n]] = n
    BY TrackAssumption
  <1>7. \A i \in 1 .. k, j \in 1 .. k : nodes[j] # Reverse[nodes[i]]
    <2>1. ASSUME NEW i \in 1 .. k, NEW j \in 1 .. k, nodes[j] = Reverse[nodes[i]], i < j
          PROVE  FALSE
      <3>1. Reverse[nodes[j]] = nodes[i] /\ nodes[i] \in Nodes
        BY <1>5, <1>6, <2>1
      <3>2. i \in 1 .. j - 1
        BY <2>1, <1>2
      <3>3. Granted(o, nodes, t, j - 1)[nodes[i]] = t
        BY <1>3, <3>1, <3>2
      <3> QED BY <1>5, <3>1, <3>3, NoOneIsNoEngineer
    <2>2. ASSUME NEW i \in 1 .. k, NEW j \in 1 .. k, nodes[j] = Reverse[nodes[i]], j < i
          PROVE  FALSE
      <3>1. j \in 1 .. i - 1 /\ nodes[j] \in Nodes
        BY <2>2, <1>2, <1>5
      <3>2. Granted(o, nodes, t, i - 1)[nodes[j]] = t
        BY <1>3, <3>1
      <3> QED BY <1>5, <2>2, <3>2, NoOneIsNoEngineer
    <2>3. \A n \in Nodes : Reverse[n] # n
      BY TrackAssumption
    <2>4. \A i \in 1 .. k, j \in 1 .. k : i < j \/ j < i \/ i = j
      BY <1>2
    <2> QED BY <1>5, <2>1, <2>2, <2>3, <2>4
  <1>8. ASSUME NEW i \in 1 .. k
        PROVE  o[Reverse[nodes[i]]] = NoOne
    <2>1. Reverse[nodes[i]] \in Nodes
      BY <1>5, <1>6
    <2>2. \A j \in 1 .. i - 1 : j \in 1 .. k
      BY <1>2
    <2>3. ~Given(Reverse[nodes[i]], i - 1)
      BY <1>7, <2>2
    <2> QED BY <1>3, <1>5, <2>1, <2>3
  <1>9. ASSUME NEW n \in Nodes
        PROVE  g[n] = NoOne \/ g[Reverse[n]] = NoOne
    <2>1. CASE Given(n, k)
      <3>1. PICK i \in 1 .. k : nodes[i] = n
        BY <2>1
      <3>2. ~Given(Reverse[n], k) /\ o[Reverse[n]] = NoOne
        BY <1>7, <1>8, <3>1
      <3> QED BY <1>3, <1>6, <3>2
    <2>2. CASE Given(Reverse[n], k)
      <3>1. PICK i \in 1 .. k : nodes[i] = Reverse[n]
        BY <2>2
      <3>2. ~Given(n, k) /\ o[n] = NoOne
        BY <1>6, <1>7, <1>8, <3>1
      <3> QED BY <1>3, <3>2
    <2>3. CASE ~Given(n, k) /\ ~Given(Reverse[n], k)
      <3>1. g[n] = o[n] /\ g[Reverse[n]] = o[Reverse[n]]
        BY <1>3, <1>6, <2>3
      <3> QED BY <3>1 DEF OneDirection
    <2> QED BY <2>1, <2>2, <2>3
  <1> QED BY <1>1, <1>4, <1>9 DEF OneDirection

(* A release keeps the track in one direction too. *)
LEMMA ReleasedOneDirection ==
    ASSUME NEW o \in Owners, OneDirection(o), NEW nodes
    PROVE  Released(o, nodes) \in Owners /\ OneDirection(Released(o, nodes))
  <1>1. Released(o, nodes) \in Owners
    BY DEF Released, Owners
  <1>2. \A n \in Nodes : Reverse[n] \in Nodes
    BY TrackAssumption
  <1>3. \A n \in Nodes : Released(o, nodes)[n] \in {NoOne, o[n]}
    BY DEF Released
  <1> QED BY <1>1, <1>2, <1>3 DEF OneDirection
-----------------------------------------------------------------------------
IInv == TypeOK /\ NoHeadOn

LEMMA RequestKeepsIInv ==
    ASSUME IInv, NEW t \in Engineers, NEW releases \in Seq(Nodes), NEW reserves \in Seq(Nodes),
           Request(t, releases, reserves)
    PROVE  IInv'
  <1> DEFINE free == Released(owner, releases)
             k    == Taken(free, reserves, t)
  <1>2. owner \in Owners /\ OneDirection(owner)
    BY DEF IInv, TypeOK, NoHeadOn, Owners, OneDirection
  <1>3. free \in Owners /\ OneDirection(free)
    BY <1>2, ReleasedOneDirection
  <1>4. owner' = Granted(free, reserves, t, k)
    BY DEF Request
  <1>5. owner' \in Owners /\ OneDirection(owner')
    BY <1>3, <1>4, GrantedOneDirection
  <1>6. reply' \in Replies
    BY DEF Request, Replies, Answer
  <1>7. /\ request'.tid \in Engineers \cup {NoOne}
        /\ request'.releases \in Seq(Nodes) /\ request'.reserves \in Seq(Nodes)
    BY DEF Request
  <1> QED BY <1>5, <1>6, <1>7 DEF IInv, TypeOK, NoHeadOn, Owners, OneDirection

(* A granted node belonged to nobody or to the one it is granted to. *)
LEMMA GrantsOnlyFree ==
    ASSUME NEW o \in Owners, NEW nodes \in Seq(Nodes), NEW t \in Engineers,
           NEW n \in Nodes, NEW i \in 1 .. Taken(o, nodes, t), nodes[i] = n
    PROVE  o[n] \in {t, NoOne}
  <1> DEFINE At == {j \in 1 .. Taken(o, nodes, t) : nodes[j] = n}
  <1>1. Taken(o, nodes, t) \in Nat /\ i \in At /\ At \subseteq Nat
    BY LoopEnds
  <1>2. PICK f \in At : \A j \in At : ~(<<j, f>> \in OpToRel(<, Nat))
    BY <1>1, NatLessThanWellFounded, WFMin
  <1>3. \A j \in 1 .. f - 1 : nodes[j] # n
    <2>1. \A j \in 1 .. f - 1 : j \in Nat /\ j < f /\ j \in 1 .. Taken(o, nodes, t)
      BY <1>1
    <2>2. \A j \in 1 .. f - 1 : <<j, f>> \in OpToRel(<, Nat)
      BY <1>1, <2>1 DEF OpToRel
    <2> QED BY <1>2, <2>1, <2>2
  <1>4. Granted(o, nodes, t, f - 1)[n] \in {NoOne, t}
    BY <1>2, GrantedWereFree DEF IsReservable
  <1> QED BY <1>3, <1>4 DEF Granted

(* A request takes only what it gives back itself, and gets only what it   *)
(* asks for.                                                               *)
LEMMA RequestTakesNone ==
    ASSUME IInv, NEW t \in Engineers, NEW releases, NEW reserves \in Seq(Nodes),
           Request(t, releases, reserves), NEW n \in Nodes, owner'[n] # owner[n]
    PROVE  /\ owner[n] # NoOne => \E i \in DOMAIN releases : releases[i] = n
           /\ owner'[n] # NoOne => owner'[n] = t /\ \E i \in DOMAIN reserves : reserves[i] = n
  <1>1. PICK free : free = Released(owner, releases)
    OBVIOUS
  <1>2. PICK k : k = Taken(free, reserves, t)
    OBVIOUS
  <1>3. owner' = Granted(free, reserves, t, k)
    BY <1>1, <1>2 DEF Request
  <1>4. free \in Owners
    BY <1>1 DEF Released, Owners, IInv, TypeOK
  <1>5. /\ (\E i \in DOMAIN releases : releases[i] = n) => free[n] = NoOne
        /\ ~(\E i \in DOMAIN releases : releases[i] = n) => free[n] = owner[n]
    BY <1>1 DEF Released
  <1>6. CASE \E i \in 1 .. k : reserves[i] = n
    <2>1. owner'[n] = t
      BY <1>3, <1>6 DEF Granted
    <2>2. free[n] \in {t, NoOne}
      BY <1>2, <1>4, <1>6, GrantsOnlyFree
    <2>3. k \in 0 .. Len(reserves)
      BY <1>2, LoopEnds
    <2>4. \A i \in 1 .. k : i \in DOMAIN reserves
      BY <2>3
    <2> QED BY <1>5, <1>6, <2>1, <2>2, <2>4
  <1>7. CASE ~\E i \in 1 .. k : reserves[i] = n
    BY <1>3, <1>5, <1>7 DEF Granted
  <1> QED BY <1>6, <1>7

(* The invariant holds in every reachable state. *)
THEOREM Inductive == Spec => []IInv
  <1>1. Init => IInv
    <2>1. \A n \in Nodes : Reverse[n] \in Nodes
      BY TrackAssumption
    <2>2. <<>> \in Seq(Nodes)
      OBVIOUS
    <2> QED BY <2>1, <2>2 DEF Init, IInv, TypeOK, NoHeadOn, Replies
  <1>2. IInv /\ [Next]_vars => IInv'
    <2>1. CASE Next
      BY <2>1, RequestKeepsIInv DEF Next
    <2>2. CASE UNCHANGED vars
      BY <2>2 DEF vars, IInv, TypeOK, NoHeadOn
    <2> QED BY <2>1, <2>2
  <1> QED BY <1>1, <1>2, PTL DEF Spec

(* Every owner is an engineer or nobody, and every reply one of the codes  *)
(* of trackserver.h.                                                       *)
THEOREM TypeCorrect == Spec => []TypeOK
  <1>1. IInv => TypeOK
    BY DEF IInv
  <1> QED BY <1>1, Inductive, PTL

(* No place of the track is ever reserved in both directions. *)
THEOREM NeverHeadOn == Spec => []NoHeadOn
  <1>1. IInv => NoHeadOn
    BY DEF IInv
  <1> QED BY <1>1, Inductive, PTL

(* A node leaves its engineer only by being given back, and comes to one   *)
(* only if he asks for it, whatever the engineers send.                    *)
THEOREM NobodyIsRobbed == Spec => NoneTaken
  <1>1. IInv /\ [Next]_vars =>
            [\A n \in Nodes : owner'[n] # owner[n] =>
                /\ owner[n] # NoOne => GivenBack(n)'
                /\ owner'[n] # NoOne => owner'[n] = request'.tid /\ Reserved(n)']_vars
    <2> SUFFICES ASSUME IInv, Next, NEW n \in Nodes, owner'[n] # owner[n]
                 PROVE  /\ owner[n] # NoOne => GivenBack(n)'
                        /\ owner'[n] # NoOne => owner'[n] = request'.tid /\ Reserved(n)'
      OBVIOUS
    <2>1. PICK t \in Engineers, releases \in Seq(Nodes), reserves \in Seq(Nodes) :
             Request(t, releases, reserves)
      BY DEF Next
    <2>2. request'.tid = t /\ request'.releases = releases /\ request'.reserves = reserves
      BY <2>1 DEF Request
    <2> QED BY <2>1, <2>2, RequestTakesNone DEF GivenBack, Reserved
  <1> QED BY <1>1, Inductive, PTL DEF Spec, NoneTaken

(* What a request is answered, by how far the loop got.                    *)
LEMMA AnswerTells ==
    ASSUME NEW t \in Engineers, NEW releases, NEW reserves \in Seq(Nodes),
           Request(t, releases, reserves)
    PROVE  \/ /\ reply' = "Success"
              /\ \A i \in DOMAIN reserves : owner'[reserves[i]] = t
           \/ \E i \in DOMAIN reserves :
                 /\ reserves[i] \in Nodes
                 /\ ~IsReservable(owner', reserves[i], t)
                 /\ reply' = Answer(owner', reserves[i], t)
  <1>1. PICK free, k : free = Released(owner, releases) /\ k = Taken(free, reserves, t)
    OBVIOUS
  <1>2. owner' = Granted(free, reserves, t, k)
    BY <1>1 DEF Request
  <1>3. reply' = IF k = Len(reserves) THEN "Success"
                 ELSE Answer(owner', reserves[k + 1], t)
    BY <1>1 DEF Request
  <1>4. k \in 0 .. Len(reserves)
    BY <1>1, <1>2, LoopEnds
  <1>5. k = Len(reserves) \/ Stops(free, reserves, t, k)
    BY <1>1, <1>2, LoopEnds
  <1>6. /\ DOMAIN reserves = 1 .. Len(reserves) /\ Len(reserves) \in Nat
        /\ \A i \in DOMAIN reserves : reserves[i] \in Nodes
    OBVIOUS
  <1>7. CASE k = Len(reserves)
    <2>1. \A i \in DOMAIN reserves : owner'[reserves[i]] = t
      BY <1>2, <1>6, <1>7 DEF Granted
    <2> QED BY <1>3, <1>7, <2>1
  <1>8. CASE k # Len(reserves)
    <2>1. k + 1 \in DOMAIN reserves
      <3>1. PICK m \in Nat : m = Len(reserves) /\ DOMAIN reserves = 1 .. m
        BY <1>6
      <3>2. k \in 0 .. m /\ k # m
        BY <1>4, <1>8, <3>1
      <3>3. k + 1 \in 1 .. m
        BY <3>2
      <3> QED BY <3>1, <3>3
    <2>2. ~IsReservable(owner', reserves[k + 1], t)
      BY <1>2, <1>8, <1>5 DEF Stops
    <2> QED BY <1>3, <1>6, <1>8, <2>1, <2>2
  <1> QED BY <1>7, <1>8

LEMMA AnswerHolds ==
    ASSUME NEW t \in Engineers, NEW releases, NEW reserves \in Seq(Nodes),
           Request(t, releases, reserves)
    PROVE  AnswerIsTrue'
  <1>1. /\ request'.tid = t /\ request'.reserves = reserves /\ t # NoOne
        /\ \A n : Reserved(n)' <=> \E i \in DOMAIN reserves : reserves[i] = n
    BY NoOneIsNoEngineer DEF Request, Reserved
  <1>2. CASE /\ reply' = "Success"
             /\ \A i \in DOMAIN reserves : owner'[reserves[i]] = t
    BY <1>1, <1>2 DEF AnswerIsTrue
  <1>3. ASSUME NEW i \in DOMAIN reserves, reserves[i] \in Nodes,
               ~IsReservable(owner', reserves[i], t),
               reply' = Answer(owner', reserves[i], t),
               owner'[reserves[i]] \notin {t, NoOne}
        PROVE  AnswerIsTrue'
    <2>1. reply' = "ReserveFailSameDir"
      BY <1>3 DEF Answer
    <2> QED BY <1>1, <1>3, <2>1 DEF AnswerIsTrue
  <1>4. ASSUME NEW i \in DOMAIN reserves, reserves[i] \in Nodes,
               ~IsReservable(owner', reserves[i], t),
               reply' = Answer(owner', reserves[i], t),
               owner'[reserves[i]] \in {t, NoOne}
        PROVE  AnswerIsTrue'
    <2>1. reply' = "ReserveFailOppositeDir" /\ owner'[Reverse[reserves[i]]] # NoOne
      BY <1>4 DEF Answer, IsReservable
    <2> QED BY <1>1, <1>4, <2>1 DEF AnswerIsTrue
  <1> QED BY <1>2, <1>3, <1>4, AnswerTells

(* An engineer that is told Success owns all it asked for; one that is     *)
(* refused finds the node in question taken, in the direction it is told   *)
(* (trackserver.c:66-88).                                                  *)
THEOREM AnswersAreTrue == Spec => []AnswerIsTrue
  <1>1. Init => AnswerIsTrue
    BY DEF Init, AnswerIsTrue
  <1>2. AnswerIsTrue /\ [Next]_vars => AnswerIsTrue'
    <2>1. CASE Next
      BY <2>1, AnswerHolds DEF Next
    <2>2. CASE UNCHANGED vars
      BY <2>2 DEF vars, AnswerIsTrue, Reserved
    <2> QED BY <2>1, <2>2
  <1> QED BY <1>1, <1>2, PTL DEF Spec
-----------------------------------------------------------------------------
(* Walks over the track. *)
LEMMA LeastExists ==
    ASSUME NEW S, S \subseteq Nat, S # {}
    PROVE  \E k \in S : \A j \in S : k <= j
  <1>1. PICK k \in S : \A j \in S : ~(<<j, k>> \in OpToRel(<, Nat))
    BY NatLessThanWellFounded, WFMin
  <1>2. \A j \in S : ~(j < k)
    BY <1>1 DEF OpToRel
  <1>3. k \in Nat /\ \A j \in S : j \in Nat
    OBVIOUS
  <1>4. \A j \in S : k <= j
    BY <1>2, <1>3
  <1> QED BY <1>4

(* f is the walk of k nodes from n. *)
Steps(next, n, k, f) == f = [j \in 1 .. k |-> IF j = 1 THEN n ELSE next[f[j - 1]]]

LEMMA StepsAgree ==
    ASSUME NEW next, NEW n, NEW k \in Nat, NEW l \in Nat, NEW f, NEW g,
           Steps(next, n, k, f), Steps(next, n, l, g), NEW i \in Nat, i >= 1, i <= k, i <= l
    PROVE  f[i] = g[i]
  <1> DEFINE Bad == {j \in Nat : j >= 1 /\ j <= k /\ j <= l /\ f[j] # g[j]}
  <1>1. SUFFICES ASSUME Bad # {} PROVE FALSE
    OBVIOUS
  <1>2. PICK b \in Bad : \A j \in Bad : b <= j
    BY <1>1, LeastExists
  <1>3. b \in 1 .. k /\ b \in 1 .. l /\ f[b] # g[b]
    OBVIOUS
  <1>4. f[b] = (IF b = 1 THEN n ELSE next[f[b - 1]])
    BY <1>3 DEF Steps
  <1>5. g[b] = (IF b = 1 THEN n ELSE next[g[b - 1]])
    BY <1>3 DEF Steps
  <1>6. b # 1
    BY <1>3, <1>4, <1>5
  <1>7. b - 1 \in Nat /\ b - 1 >= 1 /\ b - 1 <= k /\ b - 1 <= l /\ ~(b <= b - 1)
    BY <1>6
  <1>8. b - 1 \in Bad
    BY <1>3, <1>4, <1>5, <1>6, <1>7
  <1> QED BY <1>2, <1>7, <1>8

LEMMA StepsExist ==
    ASSUME NEW S, NEW next \in [S -> S], NEW n \in S, NEW k \in Nat
    PROVE  \E f \in [1 .. k -> S] : Steps(next, n, k, f)
  <1> DEFINE Bad == {j \in Nat : ~\E f \in [1 .. j -> S] : Steps(next, n, j, f)}
  <1>1. SUFFICES ASSUME Bad # {} PROVE FALSE
    OBVIOUS
  <1>2. PICK b \in Bad : \A j \in Bad : b <= j
    BY <1>1, LeastExists
  <1>3. CASE b = 0
    <2>1. PICK f : f = [j \in 1 .. 0 |-> n]
      OBVIOUS
    <2>2. \A j : j \notin 1 .. 0
      OBVIOUS
    <2>3. f \in [1 .. 0 -> S]
      BY <2>1
    <2>4. f = [j \in 1 .. 0 |-> IF j = 1 THEN n ELSE next[f[j - 1]]]
      BY <2>1, <2>2, Zenon
    <2> QED BY <1>3, <2>3, <2>4 DEF Steps
  <1>4. CASE b # 0
    <2>1. b \in Nat /\ b - 1 \in Nat /\ ~(b <= b - 1)
      BY <1>4
    <2>2. PICK f \in [1 .. b - 1 -> S] : Steps(next, n, b - 1, f)
      BY <1>2, <2>1
    <2>3. PICK g : g = [j \in 1 .. b |->
                          IF j < b THEN f[j] ELSE IF j = 1 THEN n ELSE next[f[b - 1]]]
      OBVIOUS
    <2>4. \A j \in 1 .. b - 1 : f[j] = (IF j = 1 THEN n ELSE next[f[j - 1]])
      BY <2>2, Zenon DEF Steps
    <2>5. g \in [1 .. b -> S]
      <3>1. ASSUME NEW j \in 1 .. b
            PROVE  (IF j < b THEN f[j] ELSE IF j = 1 THEN n ELSE next[f[b - 1]]) \in S
        <4>1. j < b => j \in 1 .. b - 1
          BY <2>1
        <4>2. j >= b /\ j # 1 => b - 1 \in 1 .. b - 1
          BY <2>1
        <4> QED BY <2>1, <4>1, <4>2
      <3> QED BY <2>3, <3>1
    <2>6. ASSUME NEW j \in 1 .. b
          PROVE  g[j] = IF j = 1 THEN n ELSE next[g[j - 1]]
      <3>1. CASE j = b
        <4>1. j # 1 => j - 1 \in 1 .. b /\ j - 1 < b
          BY <2>1, <3>1
        <4>2. j # 1 => g[j - 1] = f[b - 1]
          BY <2>3, <3>1, <4>1
        <4>3. ~(j < b)
          BY <2>1, <3>1
        <4> QED BY <2>3, <3>1, <4>2, <4>3
      <3>2. CASE j # b
        <4>1. /\ j \in 1 .. b - 1 /\ j < b
              /\ j # 1 => j - 1 \in 1 .. b /\ j - 1 < b
          BY <2>1, <3>2
        <4>2. g[j] = f[j] /\ (j # 1 => g[j - 1] = f[j - 1])
          BY <2>3, <4>1
        <4> QED BY <2>4, <4>1, <4>2
      <3> QED BY <3>1, <3>2
    <2>7. g = [j \in 1 .. b |-> g[j]]
      BY <2>3
    <2>8. Steps(next, n, b, g)
      BY <2>6, <2>7 DEF Steps
    <2> QED BY <2>5, <2>8
  <1> QED BY <1>3, <1>4

(* Walk takes its first step to from, and every other along next. *)
LEMMA WalkSteps ==
    ASSUME NEW S, NEW next \in [S -> S], NEW n \in S, NEW k \in Nat
    PROVE  /\ Steps(next, n, k, Walk(next, n, k))
           /\ Walk(next, n, k) \in [1 .. k -> S]
           /\ k > 0 => Walk(next, n, k)[1] = n
  <1>1. PICK w : w = CHOOSE f : Steps(next, n, k, f)
    OBVIOUS
  <1>2. Steps(next, n, k, w)
    BY <1>1, StepsExist, Zenon
  <1>3. Walk(next, n, k) = [j \in 1 .. k |-> w[j]]
    BY <1>1 DEF Walk, Steps
  <1>4. w = [j \in 1 .. k |-> w[j]]
    BY <1>2, Zenon DEF Steps
  <1>5. Walk(next, n, k) = w
    BY <1>3, <1>4
  <1>6. PICK f \in [1 .. k -> S] : Steps(next, n, k, f)
    BY StepsExist
  <1>7. ASSUME NEW j \in 1 .. k PROVE w[j] = f[j]
    <2>1. j \in Nat /\ j >= 1 /\ j <= k
      OBVIOUS
    <2> QED BY <1>2, <1>6, <2>1, StepsAgree
  <1>8. w \in [1 .. k -> S]
    BY <1>4, <1>6, <1>7
  <1>9. \A j \in 1 .. k : w[j] = IF j = 1 THEN n ELSE next[w[j - 1]]
    BY <1>2, Zenon DEF Steps
  <1>10. k > 0 => 1 \in 1 .. k
    OBVIOUS
  <1> QED BY <1>2, <1>5, <1>8, <1>9, <1>10, Zenon

LEMMA WalkStep ==
    ASSUME NEW S, NEW next \in [S -> S], NEW n \in S, NEW k \in Nat, NEW j \in 1 .. k, j # 1
    PROVE  j - 1 \in 1 .. k /\ Walk(next, n, k)[j] = next[Walk(next, n, k)[j - 1]]
  <1>1. PICK w : w = Walk(next, n, k)
    OBVIOUS
  <1>2. Steps(next, n, k, w)
    BY <1>1, WalkSteps
  <1>3. w[j] = next[w[j - 1]]
    BY <1>2, Zenon DEF Steps
  <1> QED BY <1>1, <1>3

(* A longer walk begins with the shorter one. *)
LEMMA WalksAgree ==
    ASSUME NEW S, NEW next \in [S -> S], NEW n \in S, NEW k \in Nat, NEW l \in Nat,
           NEW i \in 1 .. k, i <= l
    PROVE  Walk(next, n, k)[i] = Walk(next, n, l)[i]
  <1>1. i \in Nat /\ i >= 1 /\ i <= k
    OBVIOUS
  <1>2. Steps(next, n, k, Walk(next, n, k)) /\ Steps(next, n, l, Walk(next, n, l))
    BY WalkSteps
  <1> QED BY <1>1, <1>2, StepsAgree

(* The walk from the next node is the rest of the walk. *)
LEMMA WalkOn ==
    ASSUME NEW S, NEW next \in [S -> S], NEW n \in S, NEW k \in Nat, NEW i \in 1 .. k
    PROVE  i + 1 \in 1 .. k + 1 /\ Walk(next, next[n], k)[i] = Walk(next, n, k + 1)[i + 1]
  <1>0. PICK l \in Nat : l = k + 1
    OBVIOUS
  <1>1. PICK w : w = Walk(next, n, l)
    OBVIOUS
  <1>2. k + 1 \in Nat /\ k + 1 > 0 /\ \A j \in 1 .. k : j + 1 \in 1 .. k + 1 /\ j + 1 # 1 /\ (j + 1) - 1 = j
    OBVIOUS
  <1>3. /\ w \in [1 .. k + 1 -> S] /\ w[1] = n
        /\ \A j \in 1 .. k + 1 : j # 1 => w[j] = next[w[j - 1]]
    <2>1. l > 0
      BY <1>0
    <2>2. Walk(next, n, l) \in [1 .. l -> S] /\ Walk(next, n, l)[1] = n
      BY <2>1, WalkSteps
    <2>3. \A j \in 1 .. l : j # 1 => Walk(next, n, l)[j] = next[Walk(next, n, l)[j - 1]]
      BY WalkStep
    <2> QED BY <1>0, <1>1, <2>2, <2>3
  <1>4. PICK f : f = [j \in 1 .. k |-> w[j + 1]]
    OBVIOUS
  <1>5. ASSUME NEW j \in 1 .. k
        PROVE  f[j] = IF j = 1 THEN next[n] ELSE next[f[j - 1]]
    <2>1. f[j] = next[w[j]]
      BY <1>2, <1>3, <1>4
    <2>2. j # 1 => j - 1 \in 1 .. k /\ (j - 1) + 1 = j
      OBVIOUS
    <2>3. j # 1 => f[j - 1] = w[j]
      BY <1>4, <2>2
    <2> QED BY <1>3, <2>1, <2>3
  <1>6. f = [j \in 1 .. k |-> f[j]]
    BY <1>4
  <1>7. Steps(next, next[n], k, f)
    BY <1>5, <1>6 DEF Steps
  <1>8. i \in Nat /\ i >= 1 /\ i <= k /\ next[n] \in S
    OBVIOUS
  <1>9. Walk(next, next[n], k)[i] = f[i]
    BY <1>7, <1>8, WalkSteps, StepsAgree
  <1>10. w = Walk(next, n, k + 1)
    BY <1>0, <1>1
  <1> QED BY <1>2, <1>4, <1>9, <1>10

(* What a walk comes to: a node, or nowhere. *)
Places == Nodes \cup {Nowhere}

LEMMA NextIsPlace ==
    /\ \A c : NextNodes(c) \in [Places -> Places]
    /\ \A c : NextNodes(c)[Nowhere] = Nowhere
    /\ \A c : \A n \in Nodes : ~IsExit(n) =>
          /\ NextNodes(c)[n] \in Nodes
          /\ \E e \in DOMAIN Edges[n] : NextNodes(c)[n] = Edges[n][e]
    /\ \A n \in Nodes : Reverse[n] \in Nodes /\ Reverse[Reverse[n]] = n
    /\ Nowhere \in Places /\ \A n \in Nodes : n \in Places /\ n # Nowhere
  <1>1. ASSUME NEW c, NEW n \in Nodes, ~IsExit(n)
        PROVE  /\ Edges[n][IF IsBranch(n) /\ n \in c THEN 2 ELSE 1] \in Nodes
               /\ (IF IsBranch(n) /\ n \in c THEN 2 ELSE 1) \in DOMAIN Edges[n]
    <2>1. Edges[n] \in Seq(Nodes) /\ (Len(Edges[n]) = 1 \/ Len(Edges[n]) = 2)
      BY <1>1, ReservationAssumption DEF IsExit
    <2>2. 1 \in DOMAIN Edges[n] /\ (IsBranch(n) => 2 \in DOMAIN Edges[n])
      BY <2>1 DEF IsBranch
    <2> QED BY <2>1, <2>2
  <1>2. \A n \in Nodes : n # Nowhere
    BY NowhereAssumption
  <1>3. ASSUME NEW c, NEW n \in Nodes
        PROVE  NextNodes(c)[n] = IF IsExit(n) THEN Nowhere
                                 ELSE Edges[n][IF IsBranch(n) /\ n \in c THEN 2 ELSE 1]
    BY <1>2 DEF NextNodes
  <1>4. \A c : NextNodes(c)[Nowhere] = Nowhere
    BY DEF NextNodes
  <1>5. \A c : \A n \in Nodes : ~IsExit(n) =>
           /\ NextNodes(c)[n] \in Nodes
           /\ \E e \in DOMAIN Edges[n] : NextNodes(c)[n] = Edges[n][e]
    BY <1>1, <1>3
  <1>6. \A c : \A p \in Places : NextNodes(c)[p] \in Places
    BY <1>3, <1>4, <1>5 DEF Places
  <1>7. \A c : NextNodes(c) = [p \in Places |-> NextNodes(c)[p]]
    BY DEF NextNodes, Places
  <1> QED BY <1>2, <1>4, <1>5, <1>6, <1>7, TrackAssumption DEF Places

(* What a train on its way from n will pass, i nodes from now. *)
Ahead(c, n, i) == Walk(NextNodes(c), n, i + 1)[i + 1]

LEMMA AheadIs ==
    ASSUME NEW c, NEW n \in Places, NEW i \in Nat
    PROVE  /\ Ahead(c, n, 0) = n /\ Ahead(c, n, i) \in Places
           /\ Ahead(c, n, i + 1) = NextNodes(c)[Ahead(c, n, i)]
           /\ Ahead(c, NextNodes(c)[n], i) = Ahead(c, n, i + 1)
  <1>1. PICK next \in [Places -> Places] : next = NextNodes(c)
    BY NextIsPlace
  <1>2. PICK j \in Nat : j = i + 1
    OBVIOUS
  <1>3. j > 0 /\ j \in 1 .. j /\ j + 1 \in Nat /\ j + 1 > 0 /\ j + 1 \in 1 .. j + 1 /\ j + 1 # 1 /\ (j + 1) - 1 = j
    BY <1>2
  <1>4. Walk(next, n, 1)[1] = n
    BY WalkSteps
  <1>5. Walk(next, n, j)[j] \in Places
    <2>1. Walk(next, n, j) \in [1 .. j -> Places]
      BY WalkSteps
    <2> QED BY <1>3, <2>1
  <1>6. PICK l \in Nat : l = j + 1
    OBVIOUS
  <1>7. l \in 1 .. l /\ l # 1 /\ l - 1 = j /\ i < l
    BY <1>2, <1>6
  <1>8. Walk(next, n, l)[l] = next[Walk(next, n, j)[j]]
    <2>1. Walk(next, n, l)[l] = next[Walk(next, n, l)[l - 1]]
      BY <1>7, WalkStep
    <2>2. Walk(next, n, l)[j] = Walk(next, n, j)[j]
      <3>1. j \in 1 .. l /\ j <= j
        BY <1>6, <1>7
      <3> QED BY <3>1, WalksAgree
    <2> QED BY <1>7, <2>1, <2>2
  <1>9. Walk(next, next[n], j)[j] = Walk(next, n, l)[l]
    BY <1>3, <1>6, WalkOn
  <1> QED BY <1>1, <1>2, <1>4, <1>5, <1>6, <1>8, <1>9 DEF Ahead

LEMMA AheadInWalk ==
    ASSUME NEW c, NEW n \in Places, NEW i \in Nat, NEW k \in Nat, i < k
    PROVE  Walk(NextNodes(c), n, k)[i + 1] = Ahead(c, n, i)
  <1>1. PICK next \in [Places -> Places] : next = NextNodes(c)
    BY NextIsPlace
  <1>2. PICK j \in Nat : j = i + 1 /\ j \in 1 .. k /\ j <= j
    OBVIOUS
  <1>3. Walk(next, n, k)[j] = Walk(next, n, j)[j]
    BY <1>2, WalksAgree
  <1> QED BY <1>1, <1>2, <1>3 DEF Ahead

LEMMA FirstAhead ==
    ASSUME NEW c, NEW n \in Places
    PROVE  Ahead(c, n, 0 + 1) = NextNodes(c)[n]
  <1>1. Ahead(c, n, 0 + 1) = NextNodes(c)[Ahead(c, n, 0)]
    BY AheadIs
  <1>2. Ahead(c, n, 0) = n
    BY AheadIs
  <1> QED BY <1>1, <1>2

(* Behind the end of the track there is nothing. *)
LEMMA NowhereStays ==
    ASSUME NEW c, NEW n \in Places, NEW i \in Nat, NEW j \in Nat, i <= j,
           Ahead(c, n, i) = Nowhere
    PROVE  Ahead(c, n, j) = Nowhere
  <1> DEFINE Bad == {l \in Nat : i <= l /\ Ahead(c, n, l) # Nowhere}
  <1>1. SUFFICES ASSUME Bad # {} PROVE FALSE
    OBVIOUS
  <1>2. PICK b \in Bad : \A l \in Bad : b <= l
    BY <1>1, LeastExists
  <1>3. PICK a \in Nat : a + 1 = b /\ i <= a /\ ~(b <= a)
    <2>1. b # i /\ b \in Nat /\ i <= b
      BY <1>2
    <2>2. b - 1 \in Nat /\ (b - 1) + 1 = b /\ i <= b - 1 /\ ~(b <= b - 1)
      BY <2>1
    <2> QED BY <2>2
  <1>4. Ahead(c, n, a) = Nowhere
    BY <1>2, <1>3
  <1>5. Ahead(c, n, a + 1) = NextNodes(c)[Ahead(c, n, a)]
    BY AheadIs
  <1>6. Ahead(c, n, b) = Nowhere
    BY <1>3, <1>4, <1>5, NextIsPlace
  <1> QED BY <1>2, <1>6
-----------------------------------------------------------------------------
(* What an engineer asks for, and gives back: the walk as far as it goes.  *)
LEMMA KnownIs ==
    ASSUME NEW L \in Nat, NEW w, Len(w) = L
    PROVE  /\ Known(w) \in 0 .. L
           /\ Known(w) = L \/ w[Known(w) + 1] = Nowhere
           /\ \A j \in 1 .. Known(w) : w[j] # Nowhere
  <1> DEFINE Ends == {k \in Nat : k <= L /\ (k = L \/ w[k + 1] = Nowhere)}
  <1>1. L \in Ends /\ Ends \subseteq Nat
    OBVIOUS
  <1>2. PICK k \in Ends : \A j \in Ends : k <= j
    BY <1>1, LeastExists
  <1>3. k \in 0 .. L /\ (k = L \/ w[k + 1] = Nowhere)
    OBVIOUS
  <1>4. ASSUME NEW j \in 1 .. k, w[j] = Nowhere PROVE FALSE
    <2>1. j - 1 \in Nat /\ j - 1 <= L /\ (j - 1) + 1 = j /\ ~(k <= j - 1)
      BY <1>3
    <2>2. j - 1 \in Ends
      BY <1>4, <2>1
    <2> QED BY <1>2, <2>1, <2>2
  <1>5. \E m \in 0 .. L : (m = L \/ w[m + 1] = Nowhere) /\ \A j \in 1 .. m : w[j] # Nowhere
    BY <1>3, <1>4
  <1> QED BY <1>5, Zenon DEF Known

LEMMA StretchIs ==
    ASSUME NEW next \in [Places -> Places], NEW n \in Places, NEW k \in Nat
    PROVE  \E m \in 0 .. k :
              /\ Stretch(next, n, k) \in Seq(Nodes)
              /\ Len(Stretch(next, n, k)) = m /\ DOMAIN Stretch(next, n, k) = 1 .. m
              /\ \A i \in 1 .. m : Stretch(next, n, k)[i] = Walk(next, n, k)[i]
              /\ m = k \/ Walk(next, n, k)[m + 1] = Nowhere
  <1>1. PICK w : w = Walk(next, n, k)
    OBVIOUS
  <1>2. w \in [1 .. k -> Places]
    BY <1>1, WalkSteps
  <1>3. w \in Seq(Places) /\ Len(w) = k
    BY <1>2
  <1>4. /\ Known(w) \in 0 .. k
        /\ Known(w) = k \/ w[Known(w) + 1] = Nowhere
        /\ \A j \in 1 .. Known(w) : w[j] # Nowhere
    BY <1>3, KnownIs
  <1>5. PICK m \in Nat : m = Known(w) /\ m \in 0 .. k /\ m <= k
    BY <1>4
  <1>6. \A j \in 1 .. m : w[j] \in Nodes
    <2>1. \A j \in 1 .. m : j \in 1 .. k
      BY <1>5
    <2> QED BY <1>2, <1>4, <1>5, <2>1 DEF Places
  <1>7. PICK s : s = SubSeq(w, 1, m)
    OBVIOUS
  <1>8. s \in Seq(Nodes) /\ Len(s) = m
    <2>1. s \in Seq(Nodes) /\ Len(s) = IF 1 <= m THEN m - 1 + 1 ELSE 0
      BY <1>6, <1>7, SubSeqProperties
    <2> QED BY <1>5, <2>1
  <1>9. DOMAIN s = 1 .. m
    BY <1>8
  <1>10. ASSUME NEW i \in 1 .. m PROVE s[i] = w[i]
    <2>1. \A j \in 1 .. m - 1 + 1 : s[j] = w[1 + j - 1]
      BY <1>6, <1>7, SubSeqProperties
    <2>2. i \in 1 .. m - 1 + 1 /\ 1 + i - 1 = i
      BY <1>5, <1>10
    <2>3. s[i] = w[1 + i - 1]
      BY <2>1, <2>2, Zenon
    <2> QED BY <2>2, <2>3
  <1>11. Stretch(next, n, k) = s
    BY <1>1, <1>5, <1>7 DEF Stretch
  <1> QED BY <1>1, <1>4, <1>5, <1>8, <1>9, <1>10, <1>11

LEMMA PrevOwnedIs == \A t : PrevOwnedNodes(t) \in [Places -> Places]
  <1>1. ASSUME NEW t, NEW n \in Nodes
        PROVE  PrevOwnedNode(n, t) \in Places
    <2>1. PICK b \in Nodes : b = Reverse[n]
      BY NextIsPlace
    <2>2. CASE IsExit(n) \/ IsExit(b)
      BY <2>1, <2>2 DEF PrevOwnedNode, Places
    <2>3. CASE ~IsExit(n) /\ ~IsExit(b)
      <3>1. Edges[b] \in Seq(Nodes) /\ (Len(Edges[b]) = 1 \/ Len(Edges[b]) = 2)
        BY <2>3, ReservationAssumption DEF IsExit
      <3>2. 1 \in DOMAIN Edges[b] /\ (IsBranch(b) => 2 \in DOMAIN Edges[b])
        BY <3>1 DEF IsBranch
      <3>3. \A e \in DOMAIN Edges[b] : Reverse[Edges[b][e]] \in Nodes
        BY <3>1, NextIsPlace
      <3> QED BY <2>1, <2>3, <3>2, <3>3 DEF PrevOwnedNode, Places
    <2> QED BY <2>2, <2>3
  <1> QED BY <1>1, NextIsPlace DEF PrevOwnedNodes, Places

LEMMA ReleasesFit ==
    ASSUME NEW t, NEW n \in Nodes
    PROVE  /\ ReleaseNodes(n, t) \in Seq(Nodes)
           /\ Len(ReleaseNodes(n, t)) <= MaxRelease
  <1>1. MaxRelease \in Nat /\ Len(<<>>) <= MaxRelease /\ <<>> \in Seq(Nodes) /\ n \in Places
    BY ReservationAssumption, NextIsPlace
  <1>2. PICK next \in [Places -> Places] : next = PrevOwnedNodes(t)
    BY PrevOwnedIs
  <1>3. \E m \in 0 .. MaxRelease :
           /\ Stretch(next, n, MaxRelease) \in Seq(Nodes)
           /\ Len(Stretch(next, n, MaxRelease)) = m
    BY <1>1, StretchIs
  <1>4. /\ Stretch(next, n, MaxRelease) \in Seq(Nodes)
        /\ Len(Stretch(next, n, MaxRelease)) <= MaxRelease
    BY <1>1, <1>3
  <1> QED BY <1>1, <1>2, <1>4 DEF ReleaseNodes

(* The nodes asked for are those ahead, up to the end of the track, and    *)
(* fit into a message.                                                     *)
LEMMA ReservesAre ==
    ASSUME NEW n \in Nodes, NEW d \in Nat, d <= StopDistance
    PROVE  /\ ReserveNodes(NextNode(n), d) \in Seq(Nodes)
           /\ Len(ReserveNodes(NextNode(n), d)) < MaxReserve
           /\ Len(ReserveNodes(NextNode(n), d)) <= d + 1
           /\ \A i \in Nat : i <= d /\ Ahead(curved, n, i + 1) # Nowhere =>
                 /\ i + 1 \in DOMAIN ReserveNodes(NextNode(n), d)
                 /\ ReserveNodes(NextNode(n), d)[i + 1] = Ahead(curved, n, i + 1)
  <1>1. PICK k \in Nat : k = d + 1
    OBVIOUS
  <1>2. PICK next \in [Places -> Places] : next = NextNodes(curved)
    BY NextIsPlace
  <1>3. PICK p \in Places : p = next[n] /\ p = NextNode(n)
    BY <1>2, NextIsPlace DEF NextNode
  <1>4. PICK s : s = Stretch(next, p, k) /\ s = ReserveNodes(NextNode(n), d)
    BY <1>1, <1>2, <1>3 DEF ReserveNodes
  <1>5. PICK m \in 0 .. k :
           /\ s \in Seq(Nodes) /\ Len(s) = m /\ DOMAIN s = 1 .. m
           /\ \A i \in 1 .. m : s[i] = Walk(next, p, k)[i]
           /\ m = k \/ Walk(next, p, k)[m + 1] = Nowhere
    <2>1. \E m \in 0 .. k :
             /\ Stretch(next, p, k) \in Seq(Nodes)
             /\ Len(Stretch(next, p, k)) = m /\ DOMAIN Stretch(next, p, k) = 1 .. m
             /\ \A i \in 1 .. m : Stretch(next, p, k)[i] = Walk(next, p, k)[i]
             /\ m = k \/ Walk(next, p, k)[m + 1] = Nowhere
      BY StretchIs
    <2> QED BY <1>4, <2>1
  <1>6. StopDistance + 1 < MaxReserve /\ StopDistance \in Nat /\ MaxReserve \in Nat
    BY ReservationAssumption
  <1>7. Len(s) < MaxReserve /\ Len(s) <= d + 1
    BY <1>1, <1>5, <1>6
  <1>8. ASSUME NEW i \in Nat, i <= d, Ahead(curved, n, i + 1) # Nowhere
        PROVE  i + 1 \in DOMAIN s /\ s[i + 1] = Ahead(curved, n, i + 1)
    <2>1. Ahead(curved, p, i) = Ahead(curved, n, i + 1)
      <3>1. n \in Places
        BY NextIsPlace
      <3>2. Ahead(curved, NextNodes(curved)[n], i) = Ahead(curved, n, i + 1)
        BY <3>1, AheadIs
      <3> QED BY <1>2, <1>3, <3>2
    <2>2. i < k /\ m \in Nat
      BY <1>1, <1>8
    <2>3. i < m
      <3>1. SUFFICES ASSUME m <= i PROVE FALSE
        BY <2>2
      <3>2. m # k /\ m < k
        BY <2>2, <3>1
      <3>3. Walk(next, p, k)[m + 1] = Ahead(curved, p, m)
        BY <1>2, <2>2, <3>2, AheadInWalk
      <3>4. Ahead(curved, p, m) = Nowhere
        BY <1>5, <3>2, <3>3
      <3>5. Ahead(curved, p, i) = Nowhere
        BY <2>2, <3>1, <3>4, NowhereStays
      <3> QED BY <1>8, <2>1, <3>5
    <2>4. i + 1 \in 1 .. m
      BY <2>2, <2>3
    <2>5. Walk(next, p, k)[i + 1] = Ahead(curved, p, i)
      BY <1>2, <2>2, AheadInWalk
    <2> QED BY <1>5, <2>1, <2>4, <2>5
  <1> QED BY <1>4, <1>5, <1>7, <1>8
-----------------------------------------------------------------------------
(* What a request says, from when it is put together until it is served:   *)
(* the train stays where it is, and keeps its speed.                       *)
Asked(t) ==
    message[t].sent =>
       /\ message[t].releases \in Seq(Nodes)
       /\ message[t].reserves = ReserveNodes(NextNode(prevNode[t]), speed[t] * StopDistance)

(* A train that drives, and has not been told to stop, has been let go on. *)
LetGo(t) == speed[t] = 1 /\ sure[t] /\ ~stop[t] => range[t] > 0

Shape ==
    /\ RTypeOK /\ NoHeadOn
    /\ curved \in Settings
    /\ message = [t \in Engineers |-> message[t]]
    /\ \A t \in Engineers : Asked(t) /\ LetGo(t) /\ ~IsExit(prevNode[t])

LEMMA ShapeIs ==
    ASSUME Shape
    PROVE  /\ IInv /\ StopDistance \in Nat \ {0}
           /\ prevNode \in [Engineers -> Nodes] /\ speed \in [Engineers -> {0, 1}]
           /\ range \in [Engineers -> 0 .. StopDistance] /\ sure \in [Engineers -> BOOLEAN]
           /\ stop \in [Engineers -> BOOLEAN]
           /\ worker \in [Engineers -> {"idle", "turns", "resumes"}]
           /\ owner \in [Nodes -> Engineers \cup {NoOne}]
           /\ \A t \in Engineers : NextNode(prevNode[t]) \in Nodes
  <1>1. \A t \in Engineers : NextNode(prevNode[t]) \in Nodes
    BY NextIsPlace DEF Shape, RTypeOK, NextNode
  <1> QED BY <1>1, ReservationAssumption DEF Shape, RTypeOK, IInv, TypeOK

LEMMA DistanceIs ==
    ASSUME Shape, NEW t \in Engineers
    PROVE  /\ speed[t] * StopDistance \in Nat /\ speed[t] * StopDistance <= StopDistance
           /\ speed[t] = 1 => speed[t] * StopDistance = StopDistance
  <1>1. PICK d \in Nat : d = StopDistance
    BY ShapeIs
  <1>2. speed[t] \in {0, 1}
    BY ShapeIs
  <1>3. 0 * d = 0 /\ 1 * d = d
    BY SMT
  <1> QED BY <1>1, <1>2, <1>3

(* The nodes asked for are those ahead. *)
LEMMA AskedIs ==
    ASSUME Shape, NEW t \in Engineers, message[t].sent
    PROVE  /\ message[t].releases \in Seq(Nodes) /\ message[t].reserves \in Seq(Nodes)
           /\ Len(message[t].reserves) <= speed[t] * StopDistance + 1
           /\ \A i \in Nat : /\ i <= speed[t] * StopDistance
                             /\ Ahead(curved, prevNode[t], i + 1) # Nowhere
                 => /\ i + 1 \in DOMAIN message[t].reserves
                    /\ message[t].reserves[i + 1] = Ahead(curved, prevNode[t], i + 1)
  <1>1. PICK n \in Nodes, d \in Nat :
           n = prevNode[t] /\ d = speed[t] * StopDistance /\ d <= StopDistance
    BY ShapeIs, DistanceIs
  <1>2. /\ message[t].releases \in Seq(Nodes)
        /\ message[t].reserves = ReserveNodes(NextNode(n), d)
    BY <1>1 DEF Shape, Asked
  <1>3. PICK s : s = ReserveNodes(NextNode(n), d)
    OBVIOUS
  <1>4. /\ s \in Seq(Nodes) /\ Len(s) <= d + 1
        /\ \A i \in Nat : i <= d /\ Ahead(curved, n, i + 1) # Nowhere =>
              i + 1 \in DOMAIN s /\ s[i + 1] = Ahead(curved, n, i + 1)
    BY <1>1, <1>3, ReservesAre
  <1> QED BY <1>1, <1>2, <1>3, <1>4

LEMMA ShapeHolds == RSpec => []Shape
  <1>1. RInit => Shape
    <2> SUFFICES ASSUME RInit PROVE Shape
      OBVIOUS
    <2>1. TypeOK /\ NoHeadOn
      <3>1. \A n \in Nodes : Reverse[n] \in Nodes
        BY NextIsPlace
      <3>2. <<>> \in Seq(Nodes)
        OBVIOUS
      <3> QED BY <3>1, <3>2 DEF RInit, Init, TypeOK, NoHeadOn, Replies
    <2>2. \A t \in Engineers : message[t] = NoMessage
      BY DEF RInit
    <2>3. \A t \in Engineers : /\ ~message[t].sent
                               /\ Len(message[t].releases) = 0 /\ Len(message[t].reserves) = 0
      BY <2>2 DEF NoMessage
    <2>4. curved \in Settings /\ curved \subseteq {n \in Nodes : IsBranch(n)}
      BY ReservationAssumption DEF RInit, IsBranch
    <2>5. /\ prevNode \in [Engineers -> Nodes] /\ speed \in [Engineers -> {0, 1}]
          /\ range \in [Engineers -> 0 .. StopDistance] /\ sure \in [Engineers -> BOOLEAN]
          /\ stop \in [Engineers -> BOOLEAN]
          /\ worker \in [Engineers -> {"idle", "turns", "resumes"}]
          /\ heard \subseteq Engineers /\ harmed \subseteq Engineers
      BY ReservationAssumption DEF RInit
    <2>6. message = [t \in Engineers |-> message[t]]
      BY DEF RInit
    <2>7. \A t \in Engineers : Len(message[t].releases) <= MaxRelease /\ Len(message[t].reserves) < MaxReserve
      BY <2>3, ReservationAssumption
    <2>8. \A t \in Engineers : speed[t] = 0
      BY DEF RInit
    <2>9. \A t \in Engineers : ~IsExit(prevNode[t])
      <3>1. Len(<<>>) = 0
        OBVIOUS
      <3> QED BY <3>1, ReservationAssumption DEF RInit, IsExit
    <2> QED BY <2>1, <2>3, <2>4, <2>5, <2>6, <2>7, <2>8, <2>9 DEF Shape, RTypeOK, Asked, LetGo
  <1>2. Shape /\ [RNext]_allVars => Shape'
    <2> SUFFICES ASSUME Shape, [RNext]_allVars PROVE Shape'
      OBVIOUS
    <2> USE DEF Shape
    <2>0. /\ prevNode \in [Engineers -> Nodes] /\ speed \in [Engineers -> {0, 1}]
          /\ range \in [Engineers -> 0 .. StopDistance] /\ sure \in [Engineers -> BOOLEAN]
          /\ stop \in [Engineers -> BOOLEAN]
          /\ worker \in [Engineers -> {"idle", "turns", "resumes"}]
          /\ IInv /\ StopDistance \in Nat \ {0}
          /\ \A t \in Engineers : NextNode(prevNode[t]) \in Nodes
      BY ShapeIs
    <2>1. ASSUME NEW t \in Engineers, Ask(t) PROVE Shape'
      <3>1. PICK m : message' = [message EXCEPT ![t] = m]
                     /\ m.releases = ReleaseNodes(prevNode[t], t)
                     /\ m.reserves = ReserveNodes(NextNode(prevNode[t]), speed[t] * StopDistance)
        <4> DEFINE asked == [sent     |-> TRUE,
                             releases |-> ReleaseNodes(prevNode[t], t),
                             reserves |-> ReserveNodes(NextNode(prevNode[t]),
                                                       speed[t] * StopDistance)]
        <4>1. message' = [message EXCEPT ![t] = asked]
          BY <2>1 DEF Ask
        <4>2. /\ asked.releases = ReleaseNodes(prevNode[t], t)
              /\ asked.reserves = ReserveNodes(NextNode(prevNode[t]), speed[t] * StopDistance)
          OBVIOUS
        <4> QED BY <4>1, <4>2
      <3>2. message'[t] = m /\ \A u \in Engineers : u # t => message'[u] = message[u]
        BY <3>1
      <3>3. UNCHANGED <<vars, curved, prevNode, speed, range, sure, heard, stop, worker, harmed>>
        BY <2>1 DEF Ask
      <3>4. Len(m.releases) <= MaxRelease /\ m.releases \in Seq(Nodes)
        BY <2>0, <3>1, ReleasesFit
      <3>5. Len(m.reserves) < MaxReserve
        <4>1. PICK n \in Nodes, d \in Nat :
                 n = prevNode[t] /\ d = speed[t] * StopDistance /\ d <= StopDistance
          BY <2>0, DistanceIs
        <4> QED BY <3>1, <4>1, ReservesAre
      <3>6. (RTypeOK /\ NoHeadOn)'
        BY <3>2, <3>3, <3>4, <3>5 DEF RTypeOK, TypeOK, NoHeadOn, vars
      <3>7. ASSUME NEW u \in Engineers PROVE Asked(u)'
        <4>1. CASE u = t
          BY <3>1, <3>2, <3>3, <3>4, <4>1 DEF Asked, ReserveNodes, NextNode
        <4>2. CASE u # t
          BY <3>2, <3>3, <4>2 DEF Asked, ReserveNodes, NextNode
        <4> QED BY <4>1, <4>2
      <3>8. message' = [u \in Engineers |-> message'[u]]
        BY <3>1
      <3> QED BY <3>3, <3>6, <3>7, <3>8 DEF LetGo
    <2>2. ASSUME NEW t \in Engineers, Serve(t) PROVE Shape'
      <3>1. message[t].sent /\ Request(t, message[t].releases, message[t].reserves)
        BY <2>2 DEF Serve
      <3>2. IInv'
        BY <2>0, <3>1, AskedIs, RequestKeepsIInv
      <3>3. message' = [message EXCEPT ![t] = NoMessage] /\ UNCHANGED <<curved, prevNode, speed, worker>>
        BY <2>2 DEF Serve
      <3>4. message'[t] = NoMessage /\ \A u \in Engineers : u # t => message'[u] = message[u]
        BY <3>3
      <3>5. /\ stop' \in [Engineers -> BOOLEAN]
            /\ \A u \in Engineers : u # t => stop'[u] = stop[u]
            /\ reply' # "Success" => stop'[t]
        BY <2>0, <2>2 DEF Serve, StopIf
      <3>6. /\ range' \in [Engineers -> 0 .. StopDistance]
            /\ \A u \in Engineers : u # t => range'[u] = range[u]
            /\ reply' = "Success" /\ speed[t] = 1 => range'[t] > 0
        BY <2>0, <2>2 DEF Serve
      <3>7. sure' \in [Engineers -> BOOLEAN] /\ \A u \in Engineers : u # t /\ sure'[u] => sure[u]
        BY <2>2 DEF Serve
      <3>8. ~NoMessage.sent /\ Len(NoMessage.releases) <= MaxRelease /\ Len(NoMessage.reserves) < MaxReserve
        BY ReservationAssumption DEF NoMessage
      <3>9. heard' \subseteq Engineers /\ harmed' \subseteq Engineers
        BY <2>2 DEF Serve, Harm, RTypeOK
      <3>10. RTypeOK'
        BY <2>0, <3>2, <3>3, <3>4, <3>5, <3>6, <3>7, <3>8, <3>9 DEF RTypeOK, IInv
      <3>11. ASSUME NEW u \in Engineers PROVE Asked(u)'
        <4>1. CASE u = t
          BY <3>4, <3>8, <4>1 DEF Asked
        <4>2. CASE u # t
          BY <3>3, <3>4, <4>2 DEF Asked, ReserveNodes, NextNode
        <4> QED BY <4>1, <4>2
      <3>12. ASSUME NEW u \in Engineers PROVE LetGo(u)'
        BY <3>3, <3>5, <3>6, <3>7 DEF LetGo
      <3>13. message' = [u \in Engineers |-> message'[u]]
        BY <3>3
      <3> QED BY <3>2, <3>3, <3>10, <3>11, <3>12, <3>13 DEF IInv
    <2>3. ASSUME NEW t \in Engineers, ~message[t].sent,
                 UNCHANGED <<vars, curved, message, heard, harmed>>,
                 \A u \in Engineers : u # t => prevNode'[u] = prevNode[u] /\ speed'[u] = speed[u],
                 prevNode' \in [Engineers -> Nodes], speed' \in [Engineers -> {0, 1}],
                 range' \in [Engineers -> 0 .. StopDistance], sure' \in [Engineers -> BOOLEAN],
                 stop' \in [Engineers -> BOOLEAN],
                 worker' \in [Engineers -> {"idle", "turns", "resumes"}],
                 \A u \in Engineers : LetGo(u)' /\ ~IsExit(prevNode'[u])
          PROVE Shape'
      <3>1. (RTypeOK /\ NoHeadOn)'
        BY <2>3 DEF RTypeOK, TypeOK, NoHeadOn, vars
      <3>2. ASSUME NEW u \in Engineers PROVE Asked(u)'
        BY <2>3 DEF Asked, ReserveNodes, NextNode
      <3> QED BY <2>3, <3>1, <3>2
    <2>4. ASSUME NEW t \in Engineers, Pass(t) PROVE Shape'
      <3>1. /\ ~message[t].sent /\ ~IsExit(NextNode(prevNode[t]))
            /\ prevNode' = [prevNode EXCEPT ![t] = NextNode(@)]
            /\ range' = [range EXCEPT ![t] = IF @ > 0 THEN @ - 1 ELSE 0]
            /\ sure' = [sure EXCEPT ![t] = FALSE]
            /\ UNCHANGED <<vars, curved, speed, heard, message, stop, worker, harmed>>
        BY <2>4 DEF Pass
      <3>2. range' \in [Engineers -> 0 .. StopDistance]
        BY <2>0, <3>1
      <3>3. \A u \in Engineers : LetGo(u)' /\ ~IsExit(prevNode'[u])
        BY <2>0, <3>1 DEF LetGo
      <3>4. prevNode' \in [Engineers -> Nodes] /\ sure' \in [Engineers -> BOOLEAN]
        BY <2>0, <3>1
      <3> QED BY <2>0, <2>3, <3>1, <3>2, <3>3, <3>4
    <2>5. ASSUME NEW t \in Engineers, Rest(t) PROVE Shape'
      <3>1. /\ speed[t] = 0 /\ range' = [range EXCEPT ![t] = 0]
            /\ UNCHANGED <<vars, curved, prevNode, speed, sure, heard, message, stop, worker, harmed>>
        BY <2>5 DEF Rest
      <3>2. range' \in [Engineers -> 0 .. StopDistance]
        BY <2>0, <3>1
      <3>3. \A u \in Engineers : LetGo(u)'
        BY <2>0, <3>1 DEF LetGo
      <3>4. (RTypeOK /\ NoHeadOn)'
        BY <3>1, <3>2 DEF RTypeOK, TypeOK, NoHeadOn, vars
      <3>5. \A u \in Engineers : Asked(u)'
        BY <3>1 DEF Asked, ReserveNodes, NextNode
      <3> QED BY <3>1, <3>3, <3>4, <3>5
    <2>6. ASSUME NEW t \in Engineers, NEW v \in {0, 1}, SpeedSet(t, v),
                 stop' \in [Engineers -> BOOLEAN],
                 v = 0 \/ stop' = stop, \A u \in Engineers : u # t => stop'[u] = stop[u],
                 worker' \in [Engineers -> {"idle", "turns", "resumes"}]
          PROVE  Shape'
      <3>1. /\ ~message[t].sent /\ speed' = [speed EXCEPT ![t] = v]
            /\ sure' = [sure EXCEPT ![t] = @ /\ v = 0]
            /\ UNCHANGED <<vars, curved, prevNode, range, heard, message, harmed>>
        BY <2>6 DEF SpeedSet
      <3>2. \A u \in Engineers : u # t => LetGo(u)'
        BY <2>6, <3>1 DEF LetGo
      <3>3. LetGo(t)'
        <4>1. speed'[t] = v
          BY <2>0, <3>1
        <4>2. v = 1 => ~sure'[t]
          <5>1. sure'[t] = (sure[t] /\ v = 0)
            BY <2>0, <3>1
          <5>2. v = 1 => v # 0
            OBVIOUS
          <5> QED BY <5>1, <5>2, Zenon
        <4> QED BY <2>6, <4>1, <4>2 DEF LetGo
      <3>4. sure' \in [Engineers -> BOOLEAN] /\ speed' \in [Engineers -> {0, 1}]
        BY <2>0, <3>1
      <3> QED BY <2>0, <2>3, <2>6, <3>1, <3>2, <3>3, <3>4
    <2>7. ASSUME NEW t \in Engineers,
                 Carry(t) \/ SetSpeed(t) \/ BeginTurn(t) \/ Resume(t)
          PROVE  Shape'
      <3>1. CASE Carry(t)
        BY <2>0, <2>6, <3>1 DEF Carry
      <3>2. CASE SetSpeed(t)
        <4>1. 1 - speed[t] \in {0, 1}
          BY <2>0
        <4> QED BY <2>0, <2>6, <3>2, <4>1 DEF SetSpeed
      <3>3. CASE BeginTurn(t)
        BY <2>0, <2>6, <3>3 DEF BeginTurn
      <3>4. CASE Resume(t)
        BY <2>0, <2>6, <3>4 DEF Resume
      <3> QED BY <2>7, <3>1, <3>2, <3>3, <3>4
    <2>8. ASSUME NEW t \in Engineers, TurnRound(t) PROVE Shape'
      <3>1. /\ ~message[t].sent
            /\ prevNode' = [prevNode EXCEPT ![t] = Reverse[NextNode(@)]]
            /\ sure' = [sure EXCEPT ![t] = FALSE]
            /\ worker' = [worker EXCEPT ![t] = "resumes"]
            /\ UNCHANGED <<vars, curved, speed, range, heard, message, stop, harmed>>
        BY <2>8 DEF TurnRound
      <3>2. PICK p \in Nodes, n \in Nodes :
               /\ p = prevNode[t] /\ n = NextNode(p)
               /\ \E e \in DOMAIN Edges[p] : n = Edges[p][e]
        BY <2>0, NextIsPlace DEF NextNode
      <3>3. Reverse[n] \in Nodes /\ ~IsExit(Reverse[n])
        <4>1. PICK b \in DOMAIN Edges[Reverse[n]] : TRUE
          BY <3>2, ReservationAssumption
        <4>2. DOMAIN <<>> = {}
          OBVIOUS
        <4> QED BY <4>1, <4>2, NextIsPlace DEF IsExit
      <3>4. \A u \in Engineers : LetGo(u)' /\ ~IsExit(prevNode'[u])
        BY <2>0, <3>1, <3>2, <3>3 DEF LetGo
      <3>5. /\ prevNode' \in [Engineers -> Nodes] /\ sure' \in [Engineers -> BOOLEAN]
            /\ worker' \in [Engineers -> {"idle", "turns", "resumes"}]
        BY <2>0, <3>1, <3>2, <3>3
      <3> QED BY <2>0, <2>3, <3>1, <3>4, <3>5
    <2>9. CASE UNCHANGED allVars
      <3>1. UNCHANGED <<vars, curved, prevNode, speed, range, sure, heard, message, stop, worker, harmed>>
        BY <2>9 DEF allVars, trains
      <3>2. (RTypeOK /\ NoHeadOn)'
        BY <3>1 DEF RTypeOK, TypeOK, NoHeadOn, vars
      <3>3. \A u \in Engineers : Asked(u)' /\ LetGo(u)'
        BY <3>1 DEF Asked, LetGo, ReserveNodes, NextNode
      <3> QED BY <3>1, <3>2, <3>3
    <2> QED BY <2>1, <2>2, <2>4, <2>5, <2>7, <2>8, <2>9 DEF RNext
  <1> QED BY <1>1, <1>2, PTL DEF RSpec

(* Whatever the track is like, and whoever owns what: every variable of    *)
(* the engineers holds what it can hold, a message what there is room for. *)
THEOREM ReservationTypeCorrect == RSpec => []RTypeOK
  <1>1. Shape => RTypeOK
    BY DEF Shape
  <1> QED BY <1>1, ShapeHolds, PTL

(* What updateLocation sends is a request of module TrackServer, and       *)
(* nothing else changes an owner: engineers and trains together keep what  *)
(* the server promises, one direction and one owner at a time.             *)
THEOREM EngineersUseServer == RSpec => Spec
  <1>1. RInit => Init
    BY DEF RInit
  <1>2. Shape /\ [RNext]_allVars => [Next]_vars
    <2> SUFFICES ASSUME Shape, [RNext]_allVars PROVE [Next]_vars
      OBVIOUS
    <2>1. ASSUME NEW t \in Engineers, Serve(t) PROVE Next
      BY <2>1, AskedIs DEF Serve, Next
    <2>2. ASSUME NEW t \in Engineers,
                 \/ Ask(t) \/ Pass(t) \/ Rest(t)
                 \/ Carry(t) \/ SetSpeed(t) \/ BeginTurn(t) \/ TurnRound(t) \/ Resume(t)
          PROVE  UNCHANGED vars
      BY <2>2 DEF Ask, Pass, Rest, Carry, SetSpeed, BeginTurn, TurnRound, Resume, SpeedSet
    <2>3. CASE UNCHANGED allVars
      BY <2>3 DEF allVars
    <2> QED BY <2>1, <2>2, <2>3 DEF RNext
  <1> QED BY <1>1, <1>2, ShapeHolds, PTL DEF RSpec, Spec
-----------------------------------------------------------------------------
(* A train that may go on for some nodes owns them, and the one that ends  *)
(* its way, unless it has been harmed.                                     *)
Covered(t) ==
    t \notin harmed /\ range[t] > 0 =>
       \A i \in Nat : i <= range[t] /\ Ahead(curved, prevNode[t], i + 1) # Nowhere =>
          owner[Ahead(curved, prevNode[t], i + 1)] = t

AllCovered == \A t \in Engineers : Covered(t)

(* WayOf, by the nodes ahead. *)
LEMMA WayOfIs ==
    ASSUME Shape, NEW t \in Engineers
    PROVE  /\ Reverse[prevNode[t]] \in WayOf(t)
           /\ \A i \in Nat : i <= StopDistance => Ahead(curved, prevNode[t], i + 1) \in WayOf(t)
  <1>1. PICK D \in Nat : D = StopDistance
    BY ReservationAssumption
  <1>2. PICK n \in Places : n = prevNode[t]
    BY NextIsPlace DEF Shape, RTypeOK
  <1>3. ASSUME NEW i \in Nat, i <= D
        PROVE  Ahead(curved, n, i + 1) \in WayOf(t)
    <2>1. PICK j \in Nat, k \in Nat : j = i + 1 /\ k = D + 2 /\ j < k /\ j + 1 \in 2 .. D + 2
      BY <1>3
    <2>2. Walk(NextNodes(curved), n, k)[j + 1] = Ahead(curved, n, j)
      BY <2>1, AheadInWalk
    <2>3. Walk(NextNodes(curved), prevNode[t], StopDistance + 2)[j + 1] \in WayOf(t)
      BY <1>1, <2>1, Zenon DEF WayOf
    <2> QED BY <1>1, <1>2, <2>1, <2>2, <2>3
  <1> QED BY <1>1, <1>2, <1>3 DEF WayOf

(* A request that harms nobody takes from another engineer nothing, and    *)
(* from its own nothing on its way.                                        *)
LEMMA UnharmedKeep ==
    ASSUME Shape, NEW t \in Engineers, Serve(t),
           NEW u \in Engineers, u \notin harmed', NEW n \in Nodes, owner[n] = u,
           u # t \/ n \in WayOf(t)
    PROVE  owner'[n] = u
  <1>1. /\ message[t].sent /\ Request(t, message[t].releases, message[t].reserves)
        /\ harmed' = harmed \cup Harm(t, message[t].releases)
    BY DEF Serve
  <1>2. IInv /\ message[t].reserves \in Seq(Nodes)
    BY <1>1, ShapeIs, AskedIs
  <1>3. PICK releases : releases = message[t].releases
    OBVIOUS
  <1>4. \A i \in DOMAIN releases : releases[i] # n
    <2>1. u \notin Harm(t, releases)
      BY <1>1, <1>3
    <2> QED BY <2>1 DEF Harm
  <1>5. u # NoOne
    BY NoOneIsNoEngineer
  <1>6. owner'[n] # owner[n] /\ owner[n] # NoOne => \E i \in DOMAIN releases : releases[i] = n
    BY <1>1, <1>2, <1>3, RequestTakesNone
  <1> QED BY <1>4, <1>5, <1>6

LEMMA CoveredHolds == RSpec => []AllCovered
  <1>1. RInit => AllCovered
    BY DEF RInit, AllCovered, Covered
  <1>2. Shape /\ AllCovered /\ [RNext]_allVars => AllCovered'
    <2> SUFFICES ASSUME Shape, AllCovered, [RNext]_allVars PROVE AllCovered'
      OBVIOUS
    <2> USE DEF AllCovered
    <2>0. /\ prevNode \in [Engineers -> Nodes] /\ speed \in [Engineers -> {0, 1}]
          /\ range \in [Engineers -> 0 .. StopDistance] /\ IInv /\ StopDistance \in Nat \ {0}
          /\ \A t \in Engineers : prevNode[t] \in Places
      BY ShapeIs, NextIsPlace
    <2>1. ASSUME NEW u \in Engineers,
                 UNCHANGED <<owner, curved, harmed>>, prevNode'[u] = prevNode[u],
                 range'[u] = range[u] \/ range'[u] = 0
          PROVE  Covered(u)'
      BY <2>1 DEF Covered
    <2>2. ASSUME NEW t \in Engineers, Serve(t) PROVE AllCovered'
      <3>1. /\ message[t].sent /\ Request(t, message[t].releases, message[t].reserves)
            /\ UNCHANGED <<curved, prevNode>>
            /\ harmed' = harmed \cup Harm(t, message[t].releases)
        BY <2>2 DEF Serve
      <3>2. ASSUME NEW u \in Engineers, range'[u] = range[u], u \notin harmed',
                   NEW i \in Nat, range[u] > 0, i <= range[u],
                   Ahead(curved, prevNode[u], i + 1) # Nowhere
            PROVE  owner'[Ahead(curved, prevNode[u], i + 1)] = u
        <4>1. PICK a \in Nodes : a = Ahead(curved, prevNode[u], i + 1)
          <5>1. PICK j \in Nat : j = i + 1
            OBVIOUS
          <5>2. Ahead(curved, prevNode[u], j) \in Places
            BY <2>0, AheadIs
          <5> QED BY <3>2, <5>1, <5>2 DEF Places
        <4>2. owner[a] = u
          BY <3>1, <3>2, <4>1 DEF Covered
        <4>3. i <= StopDistance
          BY <2>0, <3>2
        <4>4. a \in WayOf(u)
          BY <4>1, <4>3, WayOfIs
        <4>5. owner'[a] = u
          BY <2>2, <3>2, <4>2, <4>4, UnharmedKeep
        <4> QED BY <4>1, <4>5
      <3>3. ASSUME NEW u \in Engineers, range'[u] = range[u] PROVE Covered(u)'
        BY <3>1, <3>2, <3>3 DEF Covered
      <3>4. ASSUME reply' = "Success" /\ speed[t] = 1 PROVE Covered(t)'
        <4>1. range'[t] = StopDistance
          BY <2>0, <2>2, <3>4 DEF Serve
        <4>2. \A i \in DOMAIN message[t].reserves : owner'[message[t].reserves[i]] = t
          <5>1. message[t].reserves \in Seq(Nodes)
            BY <3>1, AskedIs
          <5>2. AnswerIsTrue'
            BY <3>1, <5>1, AnswerHolds
          <5>3. request'.tid = t /\ request'.reserves = message[t].reserves /\ t # NoOne
            BY <3>1, NoOneIsNoEngineer DEF Request
          <5>4. \A i \in DOMAIN request'.reserves : owner'[request'.reserves[i]] = request'.tid
            BY <3>4, <5>2, <5>3 DEF AnswerIsTrue
          <5> QED BY <5>3, <5>4
        <4>3. ASSUME NEW i \in Nat, i <= StopDistance, Ahead(curved, prevNode[t], i + 1) # Nowhere
              PROVE  owner'[Ahead(curved, prevNode[t], i + 1)] = t
          <5>1. i <= speed[t] * StopDistance
            BY <3>4, <4>3, DistanceIs
          <5>2. /\ i + 1 \in DOMAIN message[t].reserves
                /\ message[t].reserves[i + 1] = Ahead(curved, prevNode[t], i + 1)
            BY <3>1, <4>3, <5>1, AskedIs
          <5> QED BY <4>2, <5>2
        <4> QED BY <3>1, <4>1, <4>3 DEF Covered
      <3>5. \A u \in Engineers : range'[u] = range[u] \/ (u = t /\ reply' = "Success" /\ speed[t] = 1)
        BY <2>0, <2>2 DEF Serve
      <3> QED BY <3>3, <3>4, <3>5
    <2>3. ASSUME NEW t \in Engineers, Pass(t) PROVE AllCovered'
      <3>1. /\ Moves(t) /\ sure[t] /\ UNCHANGED <<owner, curved, harmed>>
            /\ prevNode'[t] = NextNodes(curved)[prevNode[t]]
            /\ range'[t] = IF range[t] > 0 THEN range[t] - 1 ELSE 0
            /\ \A u \in Engineers : u # t => range'[u] = range[u] /\ prevNode'[u] = prevNode[u]
        BY <2>0, <2>3 DEF Pass, vars, NextNode
      <3>2. range[t] > 0 /\ range[t] \in Nat /\ range'[t] = range[t] - 1
        BY <2>0, <3>1 DEF Shape, LetGo, Moves
      <3>3. ASSUME NEW i \in Nat, i <= range[t] - 1, t \notin harmed,
                   Ahead(curved, prevNode'[t], i + 1) # Nowhere
            PROVE  owner[Ahead(curved, prevNode'[t], i + 1)] = t
        <4>1. PICK j \in Nat : j = i + 1 /\ j <= range[t]
          BY <3>2, <3>3
        <4>2. Ahead(curved, NextNodes(curved)[prevNode[t]], j) = Ahead(curved, prevNode[t], j + 1)
          BY <2>0, AheadIs
        <4> QED BY <3>1, <3>2, <3>3, <4>1, <4>2 DEF Covered
      <3>4. Covered(t)'
        BY <3>1, <3>2, <3>3 DEF Covered
      <3> QED BY <2>1, <3>1, <3>4
    <2>4. ASSUME NEW t \in Engineers, TurnRound(t) PROVE AllCovered'
      <3>1. /\ range[t] = 0 /\ UNCHANGED <<owner, curved, range, harmed>>
            /\ \A u \in Engineers : u # t => prevNode'[u] = prevNode[u]
        BY <2>0, <2>4 DEF TurnRound, vars
      <3>2. Covered(t)'
        BY <3>1 DEF Covered
      <3> QED BY <2>1, <3>1, <3>2
    <2>5. ASSUME NEW t \in Engineers, Rest(t) PROVE AllCovered'
      <3>1. /\ UNCHANGED <<owner, curved, prevNode, harmed>>
            /\ \A u \in Engineers : range'[u] = range[u] \/ range'[u] = 0
        BY <2>0, <2>5 DEF Rest, vars
      <3> QED BY <2>1, <3>1
    <2>6. ASSUME NEW t \in Engineers,
                 Ask(t) \/ Carry(t) \/ SetSpeed(t) \/ BeginTurn(t) \/ Resume(t)
          PROVE  AllCovered'
      <3>1. UNCHANGED <<owner, curved, prevNode, range, harmed>>
        BY <2>6 DEF Ask, Carry, SetSpeed, BeginTurn, Resume, SpeedSet, vars
      <3> QED BY <2>1, <3>1
    <2>7. CASE UNCHANGED allVars
      <3>1. UNCHANGED <<owner, curved, prevNode, range, harmed>>
        BY <2>7 DEF allVars, vars, trains
      <3> QED BY <2>1, <3>1
    <2> QED BY <2>2, <2>3, <2>4, <2>5, <2>6, <2>7 DEF RNext
  <1> QED BY <1>1, <1>2, ShapeHolds, PTL DEF RSpec

(* A moving train comes to nodes of its own only, whatever the others ask  *)
(* for and wherever they are: a refused train stops on track it still      *)
(* owns, and no request but a release takes that from it ("Train stay on   *)
(* its own track", trackserver.h:6).                                       *)
THEOREM OwnTrackAhead == RSpec => []UnharmedOnOwnTrack
  <1>1. Shape /\ AllCovered => UnharmedOnOwnTrack
    <2> SUFFICES ASSUME Shape, NEW t \in Engineers \ harmed, Covered(t), Moves(t)
                 PROVE  owner[NextNode(prevNode[t])] = t
      BY DEF UnharmedOnOwnTrack, AllCovered
    <2>1. /\ prevNode[t] \in Places /\ range[t] \in Nat /\ NextNode(prevNode[t]) # Nowhere
          /\ t \in Engineers /\ StopDistance \in Nat
      BY ShapeIs, NextIsPlace
    <2>2. range[t] > 0
      BY <2>1 DEF Shape, LetGo, Moves
    <2>3. Ahead(curved, prevNode[t], 0 + 1) = NextNodes(curved)[prevNode[t]]
      BY <2>1, FirstAhead
    <2>4. 0 \in Nat /\ 0 <= range[t]
      BY <2>1
    <2> QED BY <2>1, <2>2, <2>3, <2>4 DEF Covered, NextNode
  <1> QED BY <1>1, ShapeHolds, CoveredHolds, PTL
-----------------------------------------------------------------------------
(* Before an engineer is heard of for the first time, all trains stand     *)
(* where they began, and own at most the node ahead.                       *)
Unheard == \E t \in Engineers : t \notin heard

Early ==
    /\ \A t \in Engineers : /\ speed[t] = 0 /\ range[t] = 0 /\ ~stop[t]
                            /\ worker[t] # "resumes" /\ message[t].releases = <<>>
    /\ \A n \in Nodes : owner[n] # NoOne => n = NextNode(prevNode[owner[n]])
    /\ StartsRight

(* From then on a train owns the node ahead, or the one it would come to   *)
(* if it turned round: no other train is let onto its stretch.             *)
Guarded(t) ==
    t \in heard /\ t \notin harmed => \/ owner[NextNode(prevNode[t])] = t
                                      \/ owner[Reverse[prevNode[t]]] = t

LinedUp ==
    /\ \A n \in Nodes : ~IsExit(n) /\ ~IsExit(NextNode(n)) /\ Lined(n) => Lined(NextNode(n))
    /\ \A t \in Engineers : Lined(prevNode[t])

Apart ==
    /\ Unheard => Early
    /\ \A t \in Engineers : sure[t] => t \in heard
    /\ \A t \in Engineers : Guarded(t)
    /\ LinedUp
    /\ UnharmedApart

LEMMA SuccessGrants ==
    ASSUME Shape, NEW t \in Engineers, Serve(t), reply' = "Success"
    PROVE  owner'[NextNode(prevNode[t])] = t
  <1>1. message[t].sent /\ Request(t, message[t].releases, message[t].reserves)
    BY DEF Serve
  <1>2. message[t].reserves \in Seq(Nodes)
    BY <1>1, AskedIs
  <1>3. request'.tid = t /\ request'.reserves = message[t].reserves /\ t # NoOne
    BY <1>1, NoOneIsNoEngineer DEF Request
  <1>4. \A i \in DOMAIN message[t].reserves : owner'[message[t].reserves[i]] = t
    <2>1. AnswerIsTrue'
      BY <1>1, <1>2, AnswerHolds
    <2>2. \A i \in DOMAIN request'.reserves : owner'[request'.reserves[i]] = request'.tid
      BY <1>3, <2>1 DEF AnswerIsTrue
    <2> QED BY <1>3, <2>2
  <1>5. /\ NextNode(prevNode[t]) # Nowhere /\ prevNode[t] \in Places
        /\ 0 \in Nat /\ 0 <= speed[t] * StopDistance
    BY ShapeIs, NextIsPlace, DistanceIs
  <1>6. Ahead(curved, prevNode[t], 0 + 1) = NextNode(prevNode[t])
    BY <1>5, FirstAhead DEF NextNode
  <1>7. /\ 0 + 1 \in DOMAIN message[t].reserves
        /\ message[t].reserves[0 + 1] = Ahead(curved, prevNode[t], 0 + 1)
    BY <1>1, <1>5, <1>6, AskedIs
  <1> QED BY <1>4, <1>6, <1>7

(* The one node asked for is free, and nothing is given back. *)
LEMMA FreeIsGranted ==
    ASSUME IInv, NEW t \in Engineers, NEW reserves \in Seq(Nodes), Len(reserves) = 1,
           Request(t, <<>>, reserves), IsReservable(owner, reserves[1], t)
    PROVE  reply' = "Success"
  <1>1. PICK free : free = Released(owner, <<>>)
    OBVIOUS
  <1>2. PICK k : k = Taken(free, reserves, t)
    OBVIOUS
  <1>3. reply' = IF k = Len(reserves) THEN "Success" ELSE Answer(owner', reserves[k + 1], t)
    BY <1>1, <1>2 DEF Request
  <1>4. k \in {0, 1} /\ (k = 1 \/ Stops(free, reserves, t, k))
    <2>1. k \in 0 .. Len(reserves)
      BY <1>2, LoopEnds
    <2>2. k = Len(reserves) \/ Stops(free, reserves, t, k)
      BY <1>2, LoopEnds
    <2>3. k \in 0 .. 1
      BY <2>1
    <2> QED BY <2>2, <2>3
  <1>5. CASE k = 0
    <2>1. reserves[1] \in Nodes
      OBVIOUS
    <2>2. \A n \in Nodes : Granted(free, reserves, t, 0)[n] = owner[n]
      <3>1. \A n \in Nodes : free[n] = owner[n]
        <4>1. \A i : i \notin DOMAIN <<>>
          OBVIOUS
        <4> QED BY <1>1, <4>1, Zenon DEF Released
      <3>2. \A i : i \notin 1 .. 0
        OBVIOUS
      <3> QED BY <3>1, <3>2, Zenon DEF Granted
    <2>3. IsReservable(Granted(free, reserves, t, 0), reserves[1], t)
      BY <2>1, <2>2, NextIsPlace DEF IsReservable
    <2> QED BY <1>4, <1>5, <2>3 DEF Stops
  <1>6. CASE k = 1
    BY <1>3, <1>6
  <1> QED BY <1>4, <1>5, <1>6

(* While not all are heard of, a request gives nothing back, asks for the  *)
(* node ahead only, and gets it.                                           *)
LEMMA FirstRequest ==
    ASSUME Shape, Early, NEW t \in Engineers, Serve(t)
    PROVE  /\ message[t].releases = <<>> /\ reply' = "Success"
           /\ message[t].reserves \in Seq(Nodes) /\ Len(message[t].reserves) = 1
           /\ message[t].reserves[1] = NextNode(prevNode[t])
  <1>1. /\ prevNode[t] \in Places /\ IInv /\ StopDistance \in Nat
        /\ owner \in [Nodes -> Engineers \cup {NoOne}]
        /\ NextNode(prevNode[t]) \in Nodes
    BY ShapeIs, NextIsPlace
  <1>2. message[t].sent /\ Request(t, message[t].releases, message[t].reserves)
    BY DEF Serve
  <1>3. message[t].releases = <<>> /\ speed[t] = 0
    BY DEF Early
  <1>4. speed[t] * StopDistance = 0
    BY <1>1, <1>3
  <1>5. /\ 0 + 1 \in DOMAIN message[t].reserves
        /\ message[t].reserves[0 + 1] = NextNode(prevNode[t])
    <2>1. Ahead(curved, prevNode[t], 0 + 1) = NextNode(prevNode[t])
      BY <1>1, FirstAhead DEF NextNode
    <2>2. NextNode(prevNode[t]) # Nowhere /\ 0 \in Nat /\ 0 <= speed[t] * StopDistance
      BY <1>1, <1>4, NextIsPlace
    <2> QED BY <1>2, <2>1, <2>2, AskedIs
  <1>6. message[t].reserves \in Seq(Nodes) /\ Len(message[t].reserves) = 1
    <2>1. /\ message[t].reserves \in Seq(Nodes)
          /\ Len(message[t].reserves) <= speed[t] * StopDistance + 1
      BY <1>2, AskedIs
    <2>2. PICK l \in Nat : l = Len(message[t].reserves) /\ DOMAIN message[t].reserves = 1 .. l
      BY <2>1
    <2>3. l <= 0 + 1 /\ 0 + 1 \in 1 .. l
      BY <1>4, <1>5, <2>1, <2>2
    <2>4. l = 1
      <3>1. PICK m \in Nat : m = l
        BY <2>2
      <3>2. m <= 0 + 1 /\ 0 + 1 \in 1 .. m
        BY <2>3, <3>1
      <3>3. m = 1
        BY <3>2
      <3> QED BY <3>1, <3>3
    <2> QED BY <2>1, <2>2, <2>4, Zenon
  <1>7. PICK x \in Nodes : x = NextNode(prevNode[t]) /\ x = message[t].reserves[1]
    BY <1>1, <1>5
  <1>8. IsReservable(owner, x, t)
    <2>1. owner[x] \in {NoOne, t}
      <3>1. SUFFICES ASSUME owner[x] # NoOne, owner[x] # t PROVE FALSE
        OBVIOUS
      <3>2. PICK u \in Engineers : u = owner[x]
        BY <1>1, <3>1
      <3>3. x = NextNode(prevNode[u])
        BY <3>1, <3>2 DEF Early
      <3>4. StartsRight /\ u # t
        BY <3>1, <3>2 DEF Early
      <3> QED BY <1>7, <3>3, <3>4 DEF StartsRight
    <2>2. owner[Reverse[x]] = NoOne
      <3>1. SUFFICES ASSUME owner[Reverse[x]] # NoOne PROVE FALSE
        OBVIOUS
      <3>2. Reverse[x] \in Nodes /\ Reverse[Reverse[x]] = x /\ Reverse[x] # x
        BY NextIsPlace, TrackAssumption
      <3>3. PICK u \in Engineers : u = owner[Reverse[x]]
        BY <1>1, <3>1, <3>2
      <3>4. Reverse[x] = NextNode(prevNode[u])
        BY <3>1, <3>2, <3>3 DEF Early
      <3>5. u # t
        BY <1>7, <3>2, <3>4
      <3> QED BY <1>7, <3>2, <3>4, <3>5 DEF Early, StartsRight
    <2> QED BY <2>1, <2>2 DEF IsReservable
  <1>9. reply' = "Success"
    BY <1>1, <1>2, <1>3, <1>6, <1>7, <1>8, FreeIsGranted
  <1> QED BY <1>3, <1>5, <1>6, <1>9

(* The trains stay early while one of them is not heard of. *)
LEMMA EarlyServe ==
    ASSUME Shape, Early, NEW t \in Engineers, Serve(t)
    PROVE  Early'
  <1>1. PICK rel, res : rel = message[t].releases /\ res = message[t].reserves
    OBVIOUS
  <1>2. /\ Request(t, rel, res) /\ UNCHANGED <<curved, prevNode, speed, worker>>
        /\ message' = [message EXCEPT ![t] = NoMessage]
        /\ stop' = [stop EXCEPT ![t] = @ \/ reply' # "Success"]
        /\ range' = [range EXCEPT ![t] =
                       IF reply' = "Success" /\ speed[t] = 1 THEN StopDistance ELSE @]
    BY <1>1 DEF Serve, StopIf
  <1>3. /\ reply' = "Success" /\ res \in Seq(Nodes) /\ Len(res) = 1
        /\ res[1] = NextNode(prevNode[t])
    BY <1>1, FirstRequest
  <1>4. DOMAIN res = {1}
    BY <1>3
  <1>5. IInv /\ stop \in [Engineers -> BOOLEAN] /\ range \in [Engineers -> 0 .. StopDistance]
    BY ShapeIs
  <1>6. \A u \in Engineers : speed'[u] = 0 /\ range'[u] = 0 /\ ~stop'[u] /\ worker'[u] # "resumes"
    <2>1. \A u \in Engineers : speed[u] = 0 /\ range[u] = 0 /\ ~stop[u] /\ worker[u] # "resumes"
      BY DEF Early
    <2>2. \A u \in Engineers : range'[u] = range[u]
      BY <1>2, <1>5, <2>1
    <2>3. ~(stop[t] \/ reply' # "Success")
      BY <1>3, <2>1
    <2>4. \A u \in Engineers : ~stop'[u]
      <3>1. ASSUME NEW u \in Engineers PROVE ~stop'[u]
        <4>1. stop'[u] = (IF u = t THEN stop[t] \/ reply' # "Success" ELSE stop[u])
          BY <1>2, <1>5
        <4> QED BY <2>1, <2>3, <4>1, Zenon
      <3> QED BY <3>1
    <2> QED BY <1>2, <2>1, <2>2, <2>4
  <1>7. \A u \in Engineers : message'[u].releases = <<>>
    <2>1. message'[t] = NoMessage /\ \A u \in Engineers : u # t => message'[u] = message[u]
      BY <1>2 DEF Shape
    <2> QED BY <2>1 DEF NoMessage, Early
  <1>8. ASSUME NEW n \in Nodes, owner'[n] # NoOne
        PROVE  n = NextNode(prevNode[owner'[n]])
    <2>1. CASE owner'[n] = owner[n]
      BY <1>8, <2>1 DEF Early
    <2>2. CASE owner'[n] # owner[n]
      <3>1. owner'[n] = t /\ \E i \in DOMAIN res : res[i] = n
        BY <1>2, <1>3, <1>5, <1>8, <2>2, RequestTakesNone
      <3> QED BY <1>3, <1>4, <3>1
    <2> QED BY <2>1, <2>2
  <1>9. StartsRight'
    BY <1>2 DEF Early, StartsRight, Lined, NextNode
  <1>10. (\A n \in Nodes : owner[n] # NoOne => n = NextNode(prevNode[owner[n]]))'
    BY <1>2, <1>8 DEF NextNode
  <1> QED BY <1>6, <1>7, <1>9, <1>10 DEF Early

(* Trains right at the start stand apart. *)
LEMMA StartApart ==
    ASSUME Shape, StartsRight, NEW t \in Engineers, NEW u \in Engineers, t # u
    PROVE  Between(t) # Between(u)
  <1> SUFFICES ASSUME Between(t) = Between(u) PROVE FALSE
    OBVIOUS
  <1>1. NextNode(prevNode[t]) \in Nodes /\ prevNode[t] \in Nodes /\ prevNode[u] \in Nodes
    BY ShapeIs
  <1>2. CASE prevNode[t] = prevNode[u]
    BY <1>2 DEF StartsRight
  <1>3. CASE prevNode[t] # prevNode[u]
    <2>1. Reverse[NextNode(prevNode[t])] = prevNode[u]
      BY <1>3 DEF Between
    <2>2. NextNode(prevNode[t]) = Reverse[prevNode[u]]
      BY <1>1, <2>1, NextIsPlace
    <2> QED BY <2>2 DEF StartsRight
  <1> QED BY <1>2, <1>3

LEMMA ApartHolds == RSpec /\ StartsRight => []Apart
  <1>1. RInit /\ StartsRight /\ Shape => Apart
    <2> SUFFICES ASSUME RInit, StartsRight, Shape PROVE Apart
      OBVIOUS
    <2>1. /\ \A t \in Engineers : /\ speed[t] = 0 /\ range[t] = 0 /\ ~sure[t] /\ ~stop[t]
                                  /\ worker[t] # "resumes" /\ message[t].releases = <<>>
          /\ \A n \in Nodes : owner[n] = NoOne
          /\ heard = {}
      BY DEF RInit, Init, NoMessage
    <2>2. Early
      BY <2>1 DEF Early
    <2>3. LinedUp
      BY DEF StartsRight, LinedUp
    <2> QED BY <2>1, <2>2, <2>3, StartApart DEF Apart, Guarded, UnharmedApart
  <1>2. Shape /\ AllCovered /\ Apart /\ [RNext]_allVars => Apart'
    <2> SUFFICES ASSUME Shape, AllCovered, Apart, [RNext]_allVars PROVE Apart'
      OBVIOUS
    <2>0. /\ prevNode \in [Engineers -> Nodes] /\ speed \in [Engineers -> {0, 1}]
          /\ range \in [Engineers -> 0 .. StopDistance] /\ sure \in [Engineers -> BOOLEAN]
          /\ stop \in [Engineers -> BOOLEAN]
          /\ worker \in [Engineers -> {"idle", "turns", "resumes"}]
          /\ IInv /\ StopDistance \in Nat \ {0}
          /\ owner \in [Nodes -> Engineers \cup {NoOne}]
          /\ \A t \in Engineers : /\ NextNode(prevNode[t]) \in Nodes
                                  /\ Reverse[prevNode[t]] \in Nodes
      BY ShapeIs, NextIsPlace
    <2>1. ASSUME UNCHANGED <<owner, curved, prevNode, heard, harmed>>,
                 Unheard => Early', \A t \in Engineers : sure'[t] => sure[t]
          PROVE  Apart'
      <3>1. \A n : NextNode(n)' = NextNode(n) /\ Lined(n)' = Lined(n)
        BY <2>1 DEF NextNode, Lined
      <3>2. LinedUp'
        BY <2>1, <3>1 DEF Apart, LinedUp
      <3>3. \A t \in Engineers : Guarded(t)'
        BY <2>1, <3>1 DEF Apart, Guarded
      <3>4. UnharmedApart'
        BY <2>1, <3>1 DEF Apart, UnharmedApart, Between
      <3> QED BY <2>1, <3>2, <3>3, <3>4 DEF Apart, Unheard
    <2>2. ASSUME NEW t \in Engineers, Ask(t) PROVE Apart'
      <3>1. UNCHANGED <<vars, curved, prevNode, speed, range, sure, heard, stop, worker, harmed>>
        BY <2>2 DEF Ask
      <3>2. ASSUME Early PROVE \A u \in Engineers : message'[u].releases = <<>>
        <4>1. /\ message'[t].releases = ReleaseNodes(prevNode[t], t)
              /\ \A u \in Engineers : u # t => message'[u] = message[u]
          BY <2>2 DEF Ask, Shape
        <4>2. owner[prevNode[t]] # t
          <5>1. SUFFICES ASSUME owner[prevNode[t]] = t PROVE FALSE
            OBVIOUS
          <5>2. PICK n \in Nodes : n = prevNode[t] /\ ~IsExit(n)
            BY <2>0 DEF Shape
          <5>3. n = NextNodes(curved)[n]
            BY <5>1, <5>2, <3>2, NoOneIsNoEngineer DEF Early, NextNode
          <5>4. \E e \in DOMAIN Edges[n] : n = Edges[n][e]
            BY <5>2, <5>3, NextIsPlace
          <5> QED BY <5>2, <5>4, ReservationAssumption
        <4> QED BY <3>2, <4>1, <4>2 DEF ReleaseNodes, Early
      <3>3. Early => Early'
        BY <3>1, <3>2 DEF Early, StartsRight, Lined, NextNode, vars
      <3> QED BY <2>1, <3>1, <3>3 DEF Apart, vars
    <2>3. ASSUME NEW t \in Engineers, Serve(t) PROVE Apart'
      <3>1. /\ message[t].sent /\ Request(t, message[t].releases, message[t].reserves)
            /\ UNCHANGED <<curved, prevNode>>
            /\ heard' = heard \cup {t} /\ harmed' = harmed \cup Harm(t, message[t].releases)
            /\ sure' = [u \in Engineers |->
                          u = t \/ (sure[u] /\ \A n \in Nodes : owner[n] = u => owner'[n] = u)]
        BY <2>3 DEF Serve
      <3>2. \A n : NextNode(n)' = NextNode(n) /\ Lined(n)' = Lined(n)
        BY <3>1 DEF NextNode, Lined
      <3>3. Unheard' => Early'
        BY <2>3, <3>1, EarlyServe DEF Apart, Unheard
      <3>4. \A u \in Engineers : sure'[u] => u \in heard'
        BY <3>1 DEF Apart
      <3>5. ASSUME NEW u \in Engineers, u \in heard, u \notin harmed' PROVE Guarded(u)'
        <4>1. u \notin harmed /\ (owner[NextNode(prevNode[u])] = u \/ owner[Reverse[prevNode[u]]] = u)
          BY <3>1, <3>5 DEF Apart, Guarded
        <4>2. NextNode(prevNode[u]) \in WayOf(u) /\ Reverse[prevNode[u]] \in WayOf(u)
          <5>1. 0 \in Nat /\ 0 <= StopDistance /\ prevNode[u] \in Places
            BY <2>0, NextIsPlace
          <5>2. Ahead(curved, prevNode[u], 0 + 1) = NextNode(prevNode[u])
            BY <5>1, FirstAhead DEF NextNode
          <5> QED BY <5>1, <5>2, WayOfIs
        <4>3. owner'[NextNode(prevNode[u])] = u \/ owner'[Reverse[prevNode[u]]] = u
          BY <2>0, <2>3, <3>5, <4>1, <4>2, UnharmedKeep
        <4> QED BY <3>1, <3>2, <4>3 DEF Guarded
      <3>6. ASSUME t \notin heard PROVE Guarded(t)'
        <4>1. reply' = "Success"
          BY <2>3, <3>6, FirstRequest DEF Apart, Unheard
        <4>2. owner'[NextNode(prevNode[t])] = t
          BY <2>3, <4>1, SuccessGrants
        <4> QED BY <3>1, <3>2, <4>2 DEF Guarded
      <3>7. \A u \in Engineers : Guarded(u)'
        <4>1. \A u \in Engineers : u \notin heard' \/ u \in harmed' => Guarded(u)'
          BY DEF Guarded
        <4> QED BY <3>1, <3>5, <3>6, <4>1
      <3>8. LinedUp'
        BY <3>1, <3>2 DEF Apart, LinedUp
      <3>9. UnharmedApart'
        BY <3>1, <3>2 DEF Apart, UnharmedApart, Between
      <3> QED BY <3>3, <3>4, <3>7, <3>8, <3>9 DEF Apart
    <2>4. ASSUME NEW t \in Engineers, Pass(t) PROVE Apart'
      <3>1. /\ Moves(t) /\ prevNode' = [prevNode EXCEPT ![t] = NextNode(@)]
            /\ UNCHANGED <<owner, curved, heard, harmed>>
            /\ \A u \in Engineers : sure[u] /\ u \in heard
            /\ \A u \in Engineers : sure'[u] => sure[u]
            /\ ~IsExit(NextNode(prevNode[t])) /\ ~IsExit(prevNode[t])
        BY <2>0, <2>4 DEF Pass, vars, Apart, Shape
      <3>2. PICK x \in Nodes, y \in Nodes, z \in Nodes :
               x = prevNode[t] /\ y = NextNode(x) /\ z = NextNode(y)
        BY <2>0, <3>1, NextIsPlace DEF NextNode
      <3>3. t \notin harmed => owner[y] = t /\ owner[z] = t
        <4>1. range[t] > 0 /\ range[t] \in Nat
          BY <2>0, <3>1 DEF Shape, LetGo, Moves
        <4>2. /\ 0 \in Nat /\ 1 \in Nat /\ 0 + 1 = 1 /\ 0 <= range[t] /\ 1 <= range[t]
              /\ x \in Places /\ y # Nowhere /\ z # Nowhere
          BY <4>1, NextIsPlace
        <4>3. Ahead(curved, x, 0 + 1) = y
          BY <3>2, <4>2, FirstAhead DEF NextNode
        <4>4. Ahead(curved, x, 1 + 1) = z
          <5>1. Ahead(curved, x, 1 + 1) = NextNodes(curved)[Ahead(curved, x, 1)]
            BY <4>2, AheadIs
          <5> QED BY <3>2, <4>2, <4>3, <5>1 DEF NextNode
        <4> QED BY <3>2, <4>1, <4>2, <4>3, <4>4 DEF AllCovered, Covered
      <3>4. t \notin harmed => owner[Reverse[y]] = NoOne
        BY <3>2, <3>3, NoOneIsNoEngineer DEF Shape, NoHeadOn
      <3>5. /\ prevNode'[t] = y
            /\ \A u \in Engineers : u # t => prevNode'[u] = prevNode[u]
            /\ \A n : NextNode(n)' = NextNode(n) /\ Lined(n)' = Lined(n)
        BY <2>0, <3>1, <3>2 DEF NextNode, Lined
      <3>6. ASSUME NEW u \in Engineers, u # t, t \notin harmed, u \notin harmed,
                   {y, Reverse[z]} = {prevNode[u], Reverse[NextNode(prevNode[u])]}
            PROVE  FALSE
        <4>1. PICK v \in Nodes, q \in Nodes : v = prevNode[u] /\ q = NextNode(v)
          BY <2>0
        <4>2. owner[q] = u \/ owner[Reverse[v]] = u
          BY <3>1, <3>6, <4>1 DEF Apart, Guarded
        <4>3. {q, Reverse[v]} = {z, Reverse[y]}
          <5>1. CASE v = y
            BY <3>2, <4>1, <5>1
          <5>2. CASE v # y
            <6>1. v = Reverse[z] /\ y = Reverse[q]
              BY <3>6, <4>1, <5>2
            <6>2. Reverse[v] = z /\ Reverse[y] = q
              BY <3>2, <4>1, <6>1, NextIsPlace
            <6> QED BY <6>2
          <5> QED BY <5>1, <5>2
        <4> QED BY <3>3, <3>4, <3>6, <4>2, <4>3, NoOneIsNoEngineer
      <3>7. \A u \in Engineers : u # t => Between(u)' = Between(u)
        BY <3>5 DEF Between
      <3>8. Between(t)' = {y, Reverse[z]}
        BY <3>2, <3>5 DEF Between
      <3>9. ASSUME NEW u \in Engineers, u # t, t \notin harmed, u \notin harmed
            PROVE  Between(u)' # Between(t)'
        BY <3>6, <3>7, <3>8, <3>9 DEF Between
      <3>10. UnharmedApart'
        BY <3>1, <3>7, <3>9 DEF Apart, UnharmedApart
      <3>11. ~Unheard'
        BY <3>1 DEF Unheard
      <3>12. \A u \in Engineers : Guarded(u)'
        BY <3>1, <3>2, <3>3, <3>5 DEF Apart, Guarded
      <3>13. LinedUp'
        <4>1. Lined(x) => Lined(y)
          BY <3>1, <3>2 DEF Apart, LinedUp
        <4> QED BY <3>1, <3>2, <3>5, <4>1 DEF Apart, LinedUp
      <3> QED BY <3>1, <3>10, <3>11, <3>12, <3>13 DEF Apart
    <2>5. ASSUME NEW t \in Engineers, TurnRound(t) PROVE Apart'
      <3>1. /\ prevNode' = [prevNode EXCEPT ![t] = Reverse[NextNode(@)]]
            /\ UNCHANGED <<owner, curved, heard, harmed>>
            /\ \A u \in Engineers : u \in heard
            /\ \A u \in Engineers : sure'[u] => sure[u]
        BY <2>0, <2>5 DEF TurnRound, vars, Apart
      <3>2. PICK x \in Nodes, y \in Nodes : x = prevNode[t] /\ y = NextNode(x)
        BY <2>0
      <3>3. /\ prevNode'[t] = Reverse[y]
            /\ \A u \in Engineers : u # t => prevNode'[u] = prevNode[u]
            /\ \A n : NextNode(n)' = NextNode(n) /\ Lined(n)' = Lined(n)
        BY <2>0, <3>1, <3>2 DEF NextNode, Lined
      <3>4. /\ NextNode(Reverse[y]) = Reverse[x]
            /\ Reverse[Reverse[y]] = y /\ Reverse[Reverse[x]] = x
        BY <3>2, NextIsPlace DEF Apart, LinedUp, Lined
      <3>5. Lined(Reverse[y])
        BY <3>2, <3>4 DEF Lined
      <3>6. LinedUp'
        BY <3>1, <3>3, <3>5 DEF Apart, LinedUp
      <3>7. \A u \in Engineers : Between(u)' = Between(u)
        <4>1. Between(t)' = {Reverse[y], Reverse[Reverse[x]]}
          BY <3>3, <3>4 DEF Between
        <4>2. Between(t) = {x, Reverse[y]}
          BY <3>2 DEF Between
        <4>3. \A u \in Engineers : u # t => Between(u)' = Between(u)
          BY <3>3 DEF Between
        <4> QED BY <3>4, <4>1, <4>2, <4>3
      <3>8. UnharmedApart'
        BY <3>1, <3>7 DEF Apart, UnharmedApart
      <3>9. \A u \in Engineers : Guarded(u)'
        <4>1. Guarded(t)'
          BY <3>1, <3>2, <3>3, <3>4 DEF Apart, Guarded
        <4>2. \A u \in Engineers : u # t => Guarded(u)'
          BY <3>1, <3>3 DEF Apart, Guarded
        <4> QED BY <4>1, <4>2
      <3> QED BY <3>1, <3>6, <3>8, <3>9 DEF Apart, Unheard
    <2>6. ASSUME NEW t \in Engineers,
                 Rest(t) \/ Carry(t) \/ SetSpeed(t) \/ BeginTurn(t) \/ Resume(t)
          PROVE  Apart'
      <3>1. /\ UNCHANGED <<owner, curved, prevNode, heard, message, harmed>>
            /\ \A u \in Engineers : sure'[u] => sure[u]
        BY <2>0, <2>6 DEF Rest, Carry, SetSpeed, BeginTurn, Resume, SpeedSet, vars
      <3>2. ASSUME Unheard, Early PROVE Early'
        <4>1. /\ ~Rest(t) /\ ~Carry(t) /\ ~SetSpeed(t) /\ ~Resume(t)
          BY <2>0, <3>2 DEF Early, Unheard, Rest, Carry, SetSpeed, Resume
        <4>2. BeginTurn(t)
          BY <2>6, <4>1
        <4>3. \A u \in Engineers : speed'[u] = 0 /\ range'[u] = range[u] /\ stop'[u] = stop[u]
                                   /\ worker'[u] \in {worker[u], "turns"}
          BY <2>0, <3>2, <4>2 DEF BeginTurn, SpeedSet, Early
        <4>4. StartsRight'
          BY <3>1, <3>2 DEF Early, StartsRight, Lined, NextNode
        <4>5. (\A n \in Nodes : owner[n] # NoOne => n = NextNode(prevNode[owner[n]]))'
          BY <3>1, <3>2 DEF Early, NextNode
        <4> QED BY <3>1, <3>2, <4>3, <4>4, <4>5 DEF Early
      <3> QED BY <2>1, <3>1, <3>2 DEF Apart
    <2>7. CASE UNCHANGED allVars
      <3>1. UNCHANGED <<vars, curved, prevNode, speed, range, sure, heard, message, stop, worker, harmed>>
        BY <2>7 DEF allVars, trains
      <3>2. Early => Early'
        BY <3>1 DEF Early, StartsRight, Lined, NextNode, vars
      <3> QED BY <2>1, <3>1, <3>2 DEF Apart, vars
    <2> QED BY <2>2, <2>3, <2>4, <2>5, <2>6, <2>7 DEF RNext
  <1> QED BY <1>1, <1>2, ShapeHolds, CoveredHolds, PTL DEF RSpec

(* Trains that start apart, on a track whose turnouts fit their ways, are  *)
(* never on the same stretch, whichever way they go, turn and are stopped, *)
(* until one of them is harmed: reserving within stopping distance keeps   *)
(* them apart (docs/tc2.lyx, Collision Avoidance).                         *)
THEOREM TrainsKeepApart == RSpec /\ StartsRight => []UnharmedApart
  <1>1. Apart => UnharmedApart
    BY DEF Apart
  <1> QED BY <1>1, ApartHolds, PTL
=============================================================================
