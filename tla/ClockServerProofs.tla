-------------------------- MODULE ClockServerProofs -------------------------
(***************************************************************************)
(* The clock server keeps every delayed task in its ring, releases nobody  *)
(* early and loses no tick, for every number of clients.                   *)
(*                                                                         *)
(* The first part is about the ring, insertDelayedTask and                 *)
(* removeExpiredTasks; the second about the server's inbox; the third      *)
(* about the calls that fit between two underflows of the timer.           *)
(***************************************************************************)
EXTENDS ClockServer, FiniteSetTheorems, SequenceTheorems, WellFoundedInduction, TLAPS

LEMMA LeastExists ==
    ASSUME NEW S, S \subseteq Nat, S # {}
    PROVE  \E k \in S : \A j \in S : k <= j
  <1>1. PICK k \in S : \A j \in S : ~(<<j, k>> \in OpToRel(<, Nat))
    BY NatLessThanWellFounded, WFMin
  <1>2. \A j \in S : ~(j < k)
    BY <1>1 DEF OpToRel
  <1>3. k \in Nat /\ \A j \in S : j \in Nat
    OBVIOUS
  <1>4. \A j \in S : k <= j
    BY <1>2, <1>3
  <1> QED BY <1>4

LEMMA MinIsLeast ==
    ASSUME NEW S, S \subseteq Nat, S # {}
    PROVE  Min(S) \in S /\ \A y \in S : Min(S) <= y
  BY LeastExists DEF Min

LEMMA LeastIsMin ==
    ASSUME NEW S, S \subseteq Nat, NEW k \in S, \A y \in S : k <= y
    PROVE  Min(S) = k
  <1>1. Min(S) \in S /\ Min(S) <= k /\ k <= Min(S)
    BY MinIsLeast
  <1>2. Min(S) \in Nat /\ k \in Nat
    BY <1>1
  <1> QED BY <1>1, <1>2
-----------------------------------------------------------------------------
(* The walk along the ring. *)

Size == Cardinality(Clients)

LEMMA SizeIsNat == Size \in Nat
  BY ClockAssumption, FS_CardinalityType DEF Size

Steps(k, f) == f = [n \in 0 .. k |-> IF n = 0 THEN tail ELSE Succ(f[n - 1])]

LEMMA StepsExist ==
    ASSUME NEW k \in Nat
    PROVE  \E f : Steps(k, f)
  <1> DEFINE Bad == {j \in Nat : ~\E f : Steps(j, f)}
  <1>1. SUFFICES ASSUME Bad # {} PROVE FALSE
    OBVIOUS
  <1>2. PICK b \in Bad : \A j \in Bad : b <= j
    BY <1>1, LeastExists
  <1>3. CASE b = 0
    <2>1. PICK f : f = [j \in 0 .. 0 |-> tail]
      OBVIOUS
    <2>2. \A j \in 0 .. 0 : j = 0
      OBVIOUS
    <2>3. f = [n \in 0 .. 0 |-> IF n = 0 THEN tail ELSE Succ(f[n - 1])]
      BY <2>1, <2>2, Zenon
    <2> QED BY <1>3, <2>3 DEF Steps
  <1>4. CASE b # 0
    <2>1. b \in Nat /\ b - 1 \in Nat /\ ~(b <= b - 1)
      BY <1>4
    <2>2. PICK f : Steps(b - 1, f)
      BY <1>2, <2>1
    <2>3. PICK g : g = [n \in 0 .. b |-> IF n = b THEN Succ(f[b - 1]) ELSE f[n]]
      OBVIOUS
    <2>4. \A n \in 0 .. b - 1 : f[n] = IF n = 0 THEN tail ELSE Succ(f[n - 1])
      BY <2>2, Zenon DEF Steps
    <2>5. ASSUME NEW n \in 0 .. b
          PROVE  g[n] = IF n = 0 THEN tail ELSE Succ(g[n - 1])
      <3>1. CASE n = b
        <4>1. b - 1 \in 0 .. b /\ b - 1 # b /\ b \in 0 .. b
          BY <2>1
        <4>2. g[b - 1] = f[b - 1] /\ g[b] = Succ(f[b - 1])
          BY <2>3, <4>1
        <4> QED BY <1>4, <3>1, <4>2
      <3>2. CASE n # b
        <4>1. n \in 0 .. b - 1 /\ (n # 0 => n - 1 \in 0 .. b /\ n - 1 # b)
          BY <2>1, <3>2
        <4>2. g[n] = f[n] /\ (n # 0 => g[n - 1] = f[n - 1])
          BY <2>3, <3>2, <4>1
        <4> QED BY <2>4, <4>1, <4>2
      <3> QED BY <3>1, <3>2
    <2>6. g = [n \in 0 .. b |-> g[n]]
      BY <2>3
    <2>7. Steps(b, g)
      BY <2>5, <2>6 DEF Steps
    <2> QED BY <2>7
  <1> QED BY <1>3, <1>4

LEMMA NodeIs ==
    /\ Node[0] = tail
    /\ \A n \in 1 .. Size : Node[n] = Succ(Node[n - 1])
  <1>1. Node = CHOOSE f : Steps(Size, f)
    BY DEF Node, Steps, Size
  <1>2. Steps(Size, Node)
    BY <1>1, SizeIsNat, StepsExist
  <1>3. \A n \in 0 .. Size : Node[n] = IF n = 0 THEN tail ELSE Succ(Node[n - 1])
    BY <1>2, Zenon DEF Steps
  <1>4. 0 \in 0 .. Size /\ \A n \in 1 .. Size : n \in 0 .. Size /\ n # 0
    BY SizeIsNat
  <1> QED BY <1>3, <1>4
-----------------------------------------------------------------------------
(* s is the ring: the delayed tasks, each once, from the first to be       *)
(* released to the tail, each followed by the next, the tail by the first. *)
RingIs(s) ==
    /\ s \in Seq(Clients) /\ \A i, j \in 1 .. Len(s) : s[i] = s[j] => i = j
    /\ Delayed = {s[i] : i \in 1 .. Len(s)}
    /\ s = <<>> => tail = NoClient
    /\ s # <<>> => /\ tail = s[Len(s)] /\ Succ(tail) = s[1]
                   /\ \A i \in 1 .. Len(s) - 1 : Succ(s[i]) = s[i + 1]

LEMMA RingFits ==
    ASSUME NEW s, RingIs(s)
    PROVE  /\ Len(s) \in Nat /\ Len(s) <= Size
           /\ \A i \in 1 .. Len(s) : s[i] \in Clients
           /\ s # <<>> => Len(s) > 0 /\ tail # NoClient
  <1>1. PICK n \in Nat : n = Len(s)
    BY DEF RingIs
  <1>2. s \in [1 .. n -> Clients] /\ (s # <<>> => n > 0)
    BY <1>1, LenProperties, EmptySeq DEF RingIs
  <1>3. s \in Injection(1 .. n, Clients)
    BY <1>1, <1>2 DEF RingIs, Injection, IsInjective
  <1>4. Cardinality(1 .. n) <= Size
    BY <1>3, FS_Injection, ClockAssumption DEF Size
  <1>5. Cardinality(1 .. n) = n
    <2>1. 1 \in Int /\ n \in Int /\ (IF 1 > n THEN 0 ELSE n - 1 + 1) = n
      OBVIOUS
    <2> QED BY <2>1, FS_Interval
  <1>6. s # <<>> => tail # NoClient
    <2>1. s # <<>> => n \in 1 .. n
      BY <1>2
    <2> QED BY <1>1, <1>2, <2>1, ClockAssumption DEF RingIs, NoClient
  <1> QED BY <1>1, <1>2, <1>4, <1>5, <1>6

LEMMA NodesOfRing ==
    ASSUME NEW s, RingIs(s), s # <<>>
    PROVE  /\ \A i \in 1 .. Len(s) : Node[i] = s[i]
           /\ Node[0] = s[Len(s)]
           /\ \A i \in 0 .. Size : Node[i] \in Delayed
  <1>1. PICK n \in Nat : n = Len(s)
    BY RingFits
  <1>2. n > 0 /\ n <= Size /\ Size \in Nat
    BY <1>1, RingFits, SizeIsNat
  <1>3. Node[0] = s[n] /\ Succ(s[n]) = s[1] /\ \A i \in 1 .. n - 1 : Succ(s[i]) = s[i + 1]
    BY <1>1, NodeIs DEF RingIs
  <1>4. \A i \in 1 .. n : Node[i] = s[i]
    <2> DEFINE Bad == {i \in Nat : i \in 1 .. n /\ Node[i] # s[i]}
    <2> SUFFICES ASSUME Bad # {} PROVE FALSE
      OBVIOUS
    <2>1. PICK b \in Bad : \A j \in Bad : b <= j
      BY LeastExists
    <2>2. b \in 1 .. Size /\ Node[b] = Succ(Node[b - 1])
      BY <1>2, <2>1, NodeIs
    <2>3. CASE b = 1
      BY <1>3, <2>1, <2>2, <2>3
    <2>4. CASE b # 1
      <3>1. b - 1 \in Nat /\ b - 1 \in 1 .. n - 1 /\ b - 1 \in 1 .. n /\ ~(b <= b - 1)
            /\ (b - 1) + 1 = b
        BY <1>2, <2>1, <2>4
      <3>2. Node[b - 1] = s[b - 1]
        BY <2>1, <3>1
      <3>3. Succ(s[b - 1]) = s[b]
        BY <1>3, <3>1
      <3> QED BY <2>1, <2>2, <3>2, <3>3
    <2> QED BY <2>3, <2>4
  <1>5. ASSUME NEW c \in Delayed
        PROVE  Succ(c) \in Delayed
    <2>1. PICK i \in 1 .. n : c = s[i]
      BY <1>1 DEF RingIs
    <2>2. CASE i = n
      <3>1. 1 \in 1 .. n
        BY <1>2
      <3> QED BY <1>1, <1>3, <2>1, <2>2, <3>1 DEF RingIs
    <2>3. CASE i # n
      <3>1. i \in 1 .. n - 1 /\ i + 1 \in 1 .. n
        BY <1>2, <2>3
      <3> QED BY <1>1, <1>3, <2>1, <3>1 DEF RingIs
    <2> QED BY <2>2, <2>3
  <1>6. \A i \in 0 .. Size : Node[i] \in Delayed
    <2> DEFINE Bad == {i \in Nat : i \in 0 .. Size /\ Node[i] \notin Delayed}
    <2> SUFFICES ASSUME Bad # {} PROVE FALSE
      BY <1>2
    <2>1. PICK b \in Bad : \A j \in Bad : b <= j
      BY LeastExists
    <2>2. CASE b = 0
      <3>1. n \in 1 .. n
        BY <1>2
      <3> QED BY <1>1, <1>3, <2>1, <2>2, <3>1 DEF RingIs
    <2>3. CASE b # 0
      <3>1. b \in 1 .. Size /\ b - 1 \in 0 .. Size /\ b - 1 \in Nat /\ ~(b <= b - 1)
        BY <1>2, <2>1, <2>3
      <3>2. Node[b - 1] \in Delayed
        BY <2>1, <3>1
      <3> QED BY <1>5, <2>1, <3>1, <3>2, NodeIs
    <2> QED BY <2>2, <2>3
  <1> QED BY <1>1, <1>3, <1>4, <1>6

LEMMA RingIsRing ==
    ASSUME NEW s, RingIs(s)
    PROVE  Ring = s
  <1>1. CASE s = <<>>
    BY <1>1 DEF RingIs, Ring
  <1>2. CASE s # <<>>
    <2>1. PICK n \in Nat : n = Len(s)
      BY RingFits
    <2>2. n > 0 /\ n <= Size /\ Size \in Nat /\ tail # NoClient
      BY <1>2, <2>1, RingFits, SizeIsNat
    <2>3. tail = s[n] /\ \A i \in 1 .. n : Node[i] = s[i]
      BY <1>2, <2>1, NodesOfRing DEF RingIs
    <2>4. PICK S : S = {i \in 1 .. Size : Node[i] = tail}
      OBVIOUS
    <2>5. S \subseteq Nat /\ n \in S
      BY <2>2, <2>3, <2>4
    <2>6. ASSUME NEW y \in S
          PROVE  n <= y
      <3> SUFFICES ASSUME y < n PROVE FALSE
        BY <2>5
      <3>1. y \in 1 .. n /\ n \in 1 .. n /\ y # n
        BY <2>2, <2>4
      <3>2. s[y] = s[n]
        BY <2>3, <2>4, <3>1
      <3> QED BY <2>1, <3>1, <3>2 DEF RingIs
    <2>7. Min(S) = n
      BY <2>5, <2>6, LeastIsMin
    <2>8. Ring = [i \in 1 .. n |-> Node[i]]
      BY <2>2, <2>4, <2>7 DEF Ring, Size
    <2>9. s = [i \in 1 .. n |-> s[i]]
      BY <2>1, LenProperties DEF RingIs
    <2> QED BY <2>3, <2>8, <2>9
  <1> QED BY <1>1, <1>2

LEMMA RingIsWhole ==
    ASSUME NEW s, RingIs(s)
    PROVE  RingHoldsDelayed
  <1>1. CASE s = <<>>
    <2>1. Delayed = {} /\ tail = NoClient
      BY <1>1, EmptySeq DEF RingIs
    <2> QED BY <2>1 DEF RingHoldsDelayed, Reach
  <1>2. CASE s # <<>>
    <2>1. PICK n \in Nat : n = Len(s)
      BY RingFits
    <2>2. n > 0 /\ n <= Size /\ Size \in Nat /\ tail # NoClient
      BY <1>2, <2>1, RingFits, SizeIsNat
    <2>3. Reach = {Node[i] : i \in 0 .. Size}
      BY <2>2 DEF Reach, Size
    <2>4. \A i \in 1 .. n : Node[i] = s[i] /\ i \in 0 .. Size
      BY <1>2, <2>1, <2>2, NodesOfRing
    <2>5. Reach = Delayed
      <3>1. Reach \subseteq Delayed
        BY <1>2, <2>3, NodesOfRing
      <3>2. Delayed \subseteq Reach
        BY <2>1, <2>3, <2>4 DEF RingIs
      <3> QED BY <3>1, <3>2
    <2>6. ASSUME NEW c \in Delayed, NEW d \in Delayed, Succ(c) = Succ(d)
          PROVE  c = d
      <3>1. PICK i \in 1 .. n : c = s[i]
        BY <2>1 DEF RingIs
      <3>2. PICK j \in 1 .. n : d = s[j]
        BY <2>1 DEF RingIs
      <3>3. \A k \in 1 .. n : Succ(s[k]) = s[IF k = n THEN 1 ELSE k + 1]
        <4>1. Succ(s[n]) = s[1] /\ \A k \in 1 .. n - 1 : Succ(s[k]) = s[k + 1]
          BY <1>2, <2>1 DEF RingIs
        <4>2. \A k \in 1 .. n : k # n => k \in 1 .. n - 1
          BY <2>2
        <4> QED BY <4>1, <4>2
      <3>4. PICK a \in 1 .. n : a = IF i = n THEN 1 ELSE i + 1
        BY <2>2
      <3>5. PICK b \in 1 .. n : b = IF j = n THEN 1 ELSE j + 1
        BY <2>2
      <3>6. s[a] = s[b]
        BY <2>6, <3>1, <3>2, <3>3, <3>4, <3>5
      <3>7. a = b
        BY <2>1, <3>6 DEF RingIs
      <3>8. i = j
        BY <2>2, <3>4, <3>5, <3>7
      <3> QED BY <3>1, <3>2, <3>8
    <2> QED BY <2>5, <2>6 DEF RingHoldsDelayed
  <1> QED BY <1>1, <1>2

LEMMA NextRing ==
    ASSUME NEW m \in Nat, m > 0, NEW t \in [1 .. m -> Clients],
           \A i, j \in 1 .. m : t[i] = t[j] => i = j,
           Delayed' = {t[i] : i \in 1 .. m},
           tail' = t[m], Succ(t[m])' = t[1],
           \A i \in 1 .. m - 1 : Succ(t[i])' = t[i + 1]
    PROVE  RingIs(t)'
  <1>1. t \in Seq(Clients) /\ Len(t) = m /\ t # <<>>
    BY SeqDef
  <1> QED BY <1>1 DEF RingIs

LEMMA RingLinks ==
    ASSUME NEW s, RingIs(s), s # <<>>
    PROVE  \A i \in 1 .. Len(s) : Succ(s[i]) = s[IF i = Len(s) THEN 1 ELSE i + 1]
  <1>1. PICK n \in Nat : n = Len(s)
    BY RingFits
  <1>2. Succ(s[n]) = s[1] /\ \A i \in 1 .. n - 1 : Succ(s[i]) = s[i + 1]
    BY <1>1 DEF RingIs
  <1>3. \A i \in 1 .. n : i # n => i \in 1 .. n - 1
    OBVIOUS
  <1> QED BY <1>1, <1>2, <1>3

(* insertDelayedTask puts its task in front of one of the ring, or makes   *)
(* it the tail.  In the latter case the old tail comes first: it is the    *)
(* old tail that the new one is linked to.                                 *)
LEMMA Inserted ==
    ASSUME NEW s, RingIs(s), next \in [Clients -> Clients \cup {NoClient}],
           NEW c \in Clients, c \notin Delayed, NEW final,
           InsertDelayedTask(c, final), Delayed' = Delayed \cup {c},
           pc = "handle", pc' = "receive"
    PROVE  \E t : RingIs(t)'
  <1> /\ \A d : Succ(d) = next[d]
      /\ \A d : Succ(d)' = next'[d]
    BY DEF Succ
  <1>1. CASE s = <<>>
    <2>1. tail = NoClient /\ Delayed = {}
      BY <1>1, EmptySeq DEF RingIs
    <2>2. tail' = c /\ next'[c] = c
      BY <2>1 DEF InsertDelayedTask
    <2>3. PICK t : t = [i \in 1 .. 1 |-> c]
      OBVIOUS
    <2>4. t \in [1 .. 1 -> Clients] /\ t[1] = c /\ \A i \in 1 .. 1 : i = 1
      BY <2>3
    <2>5. Delayed' = {t[i] : i \in 1 .. 1}
      BY <2>1, <2>4
    <2>6. RingIs(t)'
      <3>1. PICK m \in Nat : m = 1
        OBVIOUS
      <3>2. m > 0 /\ \A i \in 1 .. m - 1 : FALSE
        BY <3>1
      <3>3. \A i, j \in 1 .. m : t[i] = t[j] => i = j
        BY <2>4, <3>1
      <3> QED BY <2>2, <2>4, <2>5, <3>1, <3>2, <3>3, NextRing
    <2> QED BY <2>6
  <1>2. CASE s # <<>>
    <2>1. PICK n \in Nat : n = Len(s)
      BY RingFits
    <2>2. n > 0 /\ tail # NoClient /\ tail = s[n] /\ \A i \in 1 .. n : s[i] \in Clients
      BY <1>2, <2>1, RingFits DEF RingIs
    <2>3. \A i, j \in 1 .. n : s[i] = s[j] => i = j
      BY <2>1 DEF RingIs
    <2>4. Delayed = {s[i] : i \in 1 .. n} /\ \A i \in 1 .. n : s[i] # c
      BY <2>1 DEF RingIs
    <2>5. PICK S : S = {k \in 1 .. n : finalTick[s[k]] >= final \/ k = n}
      OBVIOUS
    <2>6. PICK k : k = Min(S)
      OBVIOUS
    <2>7. k \in 1 .. n /\ (finalTick[s[k]] >= final \/ k = n)
      <3>1. S \subseteq Nat /\ n \in S
        BY <2>2, <2>5
      <3> QED BY <2>5, <2>6, <3>1, MinIsLeast
    <2>8. PICK p : p = IF k = 1 THEN s[n] ELSE s[k - 1]
      OBVIOUS
    <2>9. LinkAfter(final) = p
      <3>1. LinkAfter(final) = Node[k - 1]
        BY <2>1, <2>5, <2>6, RingIsRing DEF LinkAfter
      <3>2. k # 1 => k - 1 \in 1 .. n
        BY <2>7
      <3>3. Node[0] = s[n] /\ \A i \in 1 .. n : Node[i] = s[i]
        BY <1>2, <2>1, NodesOfRing
      <3> QED BY <2>7, <2>8, <3>1, <3>2, <3>3
    <2>10. \A i \in 1 .. n : next[s[i]] = s[IF i = n THEN 1 ELSE i + 1]
      BY <1>2, <2>1, RingLinks
    <2>11. next[p] = s[k] /\ p \in Clients /\ p # c
      <3>1. CASE k = 1
        <4>1. n \in 1 .. n
          BY <2>2
        <4> QED BY <2>2, <2>4, <2>8, <2>10, <3>1, <4>1
      <3>2. CASE k # 1
        <4>1. k - 1 \in 1 .. n /\ k - 1 # n /\ (k - 1) + 1 = k
          BY <2>7, <3>2
        <4> QED BY <2>2, <2>4, <2>8, <2>10, <3>2, <4>1
      <3> QED BY <3>1, <3>2
    <2>12. /\ next' = [next EXCEPT ![c] = s[k], ![p] = c]
           /\ tail' = IF finalTick[s[k]] >= final THEN s[n] ELSE c
      BY <2>2, <2>9, <2>11 DEF InsertDelayedTask
    <2>13. /\ next'[c] = s[k] /\ next'[p] = c
           /\ \A d \in Clients : d # c /\ d # p => next'[d] = next[d]
      BY <2>11, <2>12
    <2>14. CASE finalTick[s[k]] >= final
      <3>1. PICK t : t = [i \in 1 .. n + 1 |-> IF i < k THEN s[i] ELSE IF i = k THEN c ELSE s[i - 1]]
        OBVIOUS
      <3>2. /\ \A i \in 1 .. n + 1 : i < k => i \in 1 .. n /\ t[i] = s[i]
            /\ \A i \in 1 .. n + 1 : i > k => i - 1 \in 1 .. n /\ t[i] = s[i - 1]
            /\ t[k] = c /\ t[n + 1] = s[n]
            /\ k \in 1 .. n + 1 /\ n + 1 \in Nat /\ n + 1 > 0
        BY <2>2, <2>7, <3>1
      <3>3. t \in [1 .. n + 1 -> Clients]
        <4>1. \A i \in 1 .. n + 1 : t[i] \in Clients
          BY <2>2, <2>7, <3>2
        <4> QED BY <3>1, <4>1
      <3>4. ASSUME NEW i \in 1 .. n + 1, NEW j \in 1 .. n + 1, t[i] = t[j]
            PROVE  i = j
        <4>1. CASE i < k /\ j < k
          BY <2>3, <3>2, <3>4, <4>1
        <4>2. CASE i > k /\ j > k
          <5>1. i - 1 = j - 1
            BY <2>3, <3>2, <3>4, <4>2
          <5> QED BY <5>1
        <4>3. CASE i < k /\ j > k
          <5>1. i = j - 1
            BY <2>3, <3>2, <3>4, <4>3
          <5> QED BY <2>7, <4>3, <5>1
        <4>4. CASE j < k /\ i > k
          <5>1. j = i - 1
            BY <2>3, <3>2, <3>4, <4>4
          <5> QED BY <2>7, <4>4, <5>1
        <4>5. CASE i = k \/ j = k
          <5>1. \A l \in 1 .. n + 1 : l # k => t[l] # c
            BY <2>4, <2>7, <3>2
          <5> QED BY <3>2, <3>4, <4>5, <5>1
        <4> QED BY <2>7, <4>1, <4>2, <4>3, <4>4, <4>5
      <3>5. Delayed' = {t[i] : i \in 1 .. n + 1}
        <4>1. \A i \in 1 .. n : i < k => i \in 1 .. n + 1 /\ t[i] = s[i]
          BY <3>2
        <4>2. \A i \in 1 .. n : i >= k => i + 1 \in 1 .. n + 1 /\ t[i + 1] = s[i]
          BY <2>7, <3>2
        <4>3. \A i \in 1 .. n + 1 : t[i] = c \/ \E j \in 1 .. n : t[i] = s[j]
          BY <2>7, <3>2
        <4>4. \A i \in 1 .. n : i < k \/ i >= k
          BY <2>7
        <4>5. \A i \in 1 .. n : \E j \in 1 .. n + 1 : s[i] = t[j]
          BY <4>1, <4>2, <4>4
        <4> QED BY <2>4, <3>2, <4>3, <4>5
      <3>6. \A i \in 1 .. n : next'[t[i]] = t[i + 1]
        <4> SUFFICES ASSUME NEW i \in 1 .. n PROVE next'[t[i]] = t[i + 1]
          OBVIOUS
        <4>1. CASE i = k
          BY <2>2, <2>7, <2>13, <3>2, <4>1
        <4>2. CASE i > k
          <5>1. i - 1 \in 1 .. n /\ i - 1 # n /\ (i - 1) + 1 = i /\ t[i] = s[i - 1] /\ t[i + 1] = s[i]
            BY <2>7, <3>2, <4>2
          <5>2. s[i - 1] # p
            <6>1. CASE k = 1
              <7>1. n \in 1 .. n
                BY <2>2
              <7> QED BY <2>3, <2>8, <5>1, <6>1, <7>1
            <6>2. CASE k # 1
              <7>1. k - 1 \in 1 .. n /\ k - 1 # i - 1
                BY <2>7, <4>2, <6>2
              <7> QED BY <2>3, <2>8, <5>1, <6>2, <7>1
            <6> QED BY <6>1, <6>2
          <5> QED BY <2>2, <2>4, <2>10, <2>13, <5>1, <5>2
        <4>3. CASE i < k
          <5>1. CASE i = k - 1
            <6>1. t[i] = s[k - 1] /\ t[i + 1] = c /\ k # 1
              BY <2>7, <3>2, <4>3, <5>1
            <6> QED BY <2>8, <2>13, <6>1
          <5>2. CASE i # k - 1
            <6>1. t[i] = s[i] /\ t[i + 1] = s[i + 1] /\ i # n /\ k # 1 /\ k - 1 \in 1 .. n
              BY <2>7, <3>2, <4>3, <5>2
            <6>2. s[i] # p
              BY <2>3, <2>8, <5>2, <6>1
            <6> QED BY <2>2, <2>4, <2>10, <2>13, <6>1, <6>2
          <5> QED BY <5>1, <5>2
        <4> QED BY <2>7, <4>1, <4>2, <4>3
      <3>7. next'[t[n + 1]] = t[1]
        <4>1. CASE k = 1
          BY <2>8, <2>13, <3>2, <4>1
        <4>2. CASE k # 1
          <5>1. n \in 1 .. n /\ k - 1 \in 1 .. n /\ k - 1 # n /\ t[1] = s[1]
            BY <2>7, <3>2, <4>2
          <5>2. s[n] # p
            BY <2>3, <2>8, <4>2, <5>1
          <5> QED BY <2>2, <2>4, <2>10, <2>13, <3>2, <5>1, <5>2
        <4> QED BY <4>1, <4>2
      <3>8. tail' = t[n + 1]
        BY <2>12, <2>14, <3>2
      <3>9. (n + 1) - 1 = n
        OBVIOUS
      <3>10. RingIs(t)'
        BY <3>2, <3>3, <3>4, <3>5, <3>6, <3>7, <3>8, <3>9, NextRing
      <3> QED BY <3>10
    <2>15. CASE ~(finalTick[s[k]] >= final)
      <3>1. PICK t : t = [i \in 1 .. n + 1 |-> IF i = 1 THEN s[n] ELSE IF i = n + 1 THEN c ELSE s[i - 1]]
        OBVIOUS
      <3>2. /\ t[1] = s[n] /\ t[n + 1] = c
            /\ \A i \in 2 .. n : t[i] = s[i - 1] /\ i - 1 \in 1 .. n - 1
            /\ n + 1 \in Nat /\ n + 1 > 0 /\ k = n /\ n \in 1 .. n
        BY <2>2, <2>7, <2>15, <3>1
      <3>3. t \in [1 .. n + 1 -> Clients]
        <4>1. \A i \in 1 .. n + 1 : t[i] \in Clients
          BY <2>2, <2>7, <3>2
        <4> QED BY <3>1, <4>1
      <3>4. ASSUME NEW i \in 1 .. n + 1, NEW j \in 1 .. n + 1, t[i] = t[j]
            PROVE  i = j
        <4>1. CASE i = n + 1 \/ j = n + 1
          <5>1. \A l \in 1 .. n + 1 : l # n + 1 => t[l] # c
            BY <2>4, <3>2
          <5> QED BY <3>2, <3>4, <4>1, <5>1
        <4>2. CASE i \in 1 .. n /\ j \in 1 .. n
          <5>1. PICK a \in 1 .. n : a = IF i = 1 THEN n ELSE i - 1
            BY <2>2, <4>2
          <5>2. PICK b \in 1 .. n : b = IF j = 1 THEN n ELSE j - 1
            BY <2>2, <4>2
          <5>3. t[i] = s[a] /\ t[j] = s[b]
            BY <3>2, <4>2, <5>1, <5>2
          <5>4. a = b
            BY <2>3, <3>4, <5>3
          <5> QED BY <2>2, <4>2, <5>1, <5>2, <5>4
        <4> QED BY <4>1, <4>2
      <3>5. Delayed' = {t[i] : i \in 1 .. n + 1}
        <4>1. \A i \in 1 .. n : i # n => i + 1 \in 1 .. n + 1 /\ t[i + 1] = s[i]
          BY <3>2
        <4>2. 1 \in 1 .. n + 1 /\ n + 1 \in 1 .. n + 1
          BY <2>2
        <4>3. \A i \in 1 .. n + 1 : t[i] = c \/ \E j \in 1 .. n : t[i] = s[j]
          BY <3>2
        <4>4. \A i \in 1 .. n : \E j \in 1 .. n + 1 : s[i] = t[j]
          BY <3>2, <4>1, <4>2
        <4> QED BY <2>4, <3>2, <4>2, <4>3, <4>4
      <3>6. \A i \in 1 .. n : next'[t[i]] = t[i + 1]
        <4> SUFFICES ASSUME NEW i \in 1 .. n PROVE next'[t[i]] = t[i + 1]
          OBVIOUS
        <4>1. CASE i = 1 /\ n = 1
          BY <2>8, <2>13, <3>2, <4>1
        <4>2. CASE i = 1 /\ n # 1
          <5>1. k # 1 /\ n - 1 \in 1 .. n /\ n - 1 # n /\ t[2] = s[1]
            BY <2>2, <3>2, <4>2
          <5>2. s[n] # p
            BY <2>3, <2>8, <3>2, <5>1
          <5>3. next[s[n]] = s[1]
            BY <2>10, <3>2
          <5> QED BY <2>2, <2>4, <2>13, <3>2, <4>2, <5>1, <5>2, <5>3
        <4>3. CASE i # 1 /\ i = n
          <5>1. t[i] = s[n - 1] /\ p = s[n - 1]
            BY <2>8, <3>2, <4>3
          <5> QED BY <2>13, <3>2, <4>3, <5>1
        <4>4. CASE i # 1 /\ i # n
          <5>1. /\ i - 1 \in 1 .. n /\ i - 1 # n /\ (i - 1) + 1 = i
                /\ t[i] = s[i - 1] /\ t[i + 1] = s[i] /\ k # 1
                /\ n - 1 \in 1 .. n /\ n - 1 # i - 1
            BY <3>2, <4>4
          <5>2. s[i - 1] # p
            BY <2>3, <2>8, <3>2, <5>1
          <5> QED BY <2>2, <2>4, <2>10, <2>13, <5>1, <5>2
        <4> QED BY <4>1, <4>2, <4>3, <4>4
      <3>7. next'[t[n + 1]] = t[1] /\ tail' = t[n + 1]
        BY <2>12, <2>13, <2>15, <3>2
      <3>8. (n + 1) - 1 = n
        OBVIOUS
      <3>9. RingIs(t)'
        BY <3>2, <3>3, <3>4, <3>5, <3>6, <3>7, <3>8, NextRing
      <3> QED BY <3>9
    <2> QED BY <2>14, <2>15
  <1> QED BY <1>1, <1>2

(* removeExpiredTasks begins at the head, and its loop always looks at the *)
(* first of the tasks that are left.                                       *)
LEMMA ReleaseBegins ==
    ASSUME NEW s, RingIs(s), pc = "count", pc' = "release", curr' = next[tail],
           UNCHANGED <<tail, next>>, Delayed' = Delayed
    PROVE  RingIs(s)'
  <1>1. next[tail] = Succ(tail) /\ Succ(tail)' = next[tail]
    BY DEF Succ
  <1>2. CASE s = <<>>
    BY <1>2 DEF RingIs
  <1>3. CASE s # <<>>
    <2>1. PICK n \in Nat : n = Len(s) /\ n > 0
      BY <1>3, RingFits
    <2>2. tail = s[n] /\ Succ(tail) = s[1] /\ \A i \in 1 .. n - 1 : Succ(s[i]) = s[i + 1]
      BY <1>3, <2>1 DEF RingIs
    <2>3. ASSUME NEW i \in 1 .. n - 1
          PROVE  Succ(s[i])' = s[i + 1]
      <3>1. i \in 1 .. n /\ n \in 1 .. n /\ i # n
        BY <2>1
      <3>2. s[i] # tail
        BY <2>1, <2>2, <3>1 DEF RingIs
      <3> QED BY <2>2, <3>2 DEF Succ
    <2>4. Succ(tail)' = s[1]
      BY <1>1, <2>2
    <2> QED BY <2>1, <2>3, <2>4 DEF RingIs
  <1> QED BY <1>2, <1>3

LEMMA ReleaseEnds ==
    ASSUME NEW s, RingIs(s), s # <<>>, next \in [Clients -> Clients \cup {NoClient}],
           pc = "release", pc' = "receive", next' = [next EXCEPT ![tail] = curr],
           UNCHANGED tail, Delayed' = Delayed
    PROVE  RingIs(s)' /\ next' \in [Clients -> Clients \cup {NoClient}]
  <1>1. PICK n \in Nat : n = Len(s) /\ n > 0
    BY RingFits
  <1>2. tail = s[n] /\ Succ(tail) = s[1] /\ \A i \in 1 .. n - 1 : Succ(s[i]) = s[i + 1]
    BY <1>1 DEF RingIs
  <1>3. \A i \in 1 .. n : s[i] \in Clients
    BY <1>1, RingFits
  <1>4. 1 \in 1 .. n /\ n \in 1 .. n
    BY <1>1
  <1>5. curr = s[1] /\ curr \in Clients /\ tail \in Clients
    BY <1>2, <1>3, <1>4 DEF Succ
  <1>6. ASSUME NEW i \in 1 .. n - 1
        PROVE  Succ(s[i])' = s[i + 1]
    <2>1. i \in 1 .. n /\ i # n
      BY <1>1
    <2>2. s[i] # tail /\ s[i] \in Clients
      BY <1>1, <1>2, <1>3, <1>4, <2>1 DEF RingIs
    <2>3. Succ(s[i]) = next[s[i]] /\ Succ(s[i])' = next'[s[i]]
      BY <2>2 DEF Succ
    <2> QED BY <1>2, <2>2, <2>3
  <1>7. Succ(tail)' = s[1]
    BY <1>5 DEF Succ
  <1>8. next' \in [Clients -> Clients \cup {NoClient}]
    BY <1>5
  <1> QED BY <1>1, <1>6, <1>7, <1>8 DEF RingIs

LEMMA NextEmpty ==
    ASSUME tail' = NoClient, Delayed' = {}
    PROVE  \E r : RingIs(r)'
  <1>1. PICK r : r = <<>>
    OBVIOUS
  <1>2. r \in Seq(Clients) /\ Len(r) = 0
    BY <1>1
  <1>3. RingIs(r)'
    BY <1>1, <1>2 DEF RingIs
  <1> QED BY <1>3

LEMMA Released ==
    ASSUME NEW s, RingIs(s), s # <<>>, pc = "release", Delayed' = Delayed \ {curr}, next' = next,
           IF curr = tail THEN tail' = NoClient
                          ELSE curr' = next[curr] /\ UNCHANGED <<tail, pc>>
    PROVE  /\ \E r : RingIs(r)'
           /\ curr = s[1] /\ curr \in Delayed
           /\ curr # tail => curr' \in Clients
  <1>1. PICK n \in Nat : n = Len(s) /\ n > 0
    BY RingFits
  <1>2. tail = s[n] /\ Succ(tail) = s[1] /\ \A i \in 1 .. n - 1 : Succ(s[i]) = s[i + 1]
    BY <1>1 DEF RingIs
  <1>3. /\ Delayed = {s[i] : i \in 1 .. n} /\ \A i \in 1 .. n : s[i] \in Clients
        /\ \A i, j \in 1 .. n : s[i] = s[j] => i = j
    BY <1>1, RingFits DEF RingIs
  <1>4. 1 \in 1 .. n /\ n \in 1 .. n
    BY <1>1
  <1>5. curr = s[1] /\ curr \in Delayed
    BY <1>2, <1>3, <1>4 DEF Succ
  <1>6. CASE n = 1
    <2>1. curr = tail
      BY <1>2, <1>5, <1>6
    <2>2. tail' = NoClient
      BY <2>1
    <2>3. \A i \in 1 .. n : i = 1
      BY <1>6
    <2>4. Delayed' = {}
      BY <1>3, <1>5, <2>3
    <2>5. \E r : RingIs(r)'
      BY <2>2, <2>4, NextEmpty
    <2> QED BY <1>5, <2>1, <2>5
  <1>7. CASE n # 1
    <2>1. PICK m \in Nat : m = n - 1 /\ m > 0
      BY <1>1, <1>7
    <2>2. PICK r : r = [i \in 1 .. m |-> s[i + 1]]
      OBVIOUS
    <2>3. \A i \in 1 .. m : i + 1 \in 1 .. n /\ i + 1 # 1 /\ r[i] = s[i + 1]
      BY <2>1, <2>2
    <2>4. curr # tail
      BY <1>2, <1>3, <1>4, <1>5, <1>7
    <2>5. curr' = next[curr] /\ tail' = tail /\ pc' = pc
      BY <2>4
    <2>6. ASSUME NEW i \in 1 .. n - 1
          PROVE  next[s[i]] = s[i + 1] /\ s[i] # tail
      <3>1. i \in 1 .. n /\ i # n
        BY <1>1
      <3>2. s[i] # tail
        BY <1>2, <1>3, <1>4, <3>1
      <3> QED BY <1>2, <3>2 DEF Succ
    <2>7. curr' = s[2]
      <3>1. 1 \in 1 .. n - 1 /\ 1 + 1 = 2
        BY <2>1
      <3> QED BY <1>5, <2>5, <2>6, <3>1
    <2>8. r \in [1 .. m -> Clients]
      BY <1>3, <2>2, <2>3
    <2>9. ASSUME NEW i \in 1 .. m, NEW j \in 1 .. m, r[i] = r[j]
          PROVE  i = j
      <3>1. i + 1 = j + 1
        BY <1>3, <2>3, <2>9
      <3> QED BY <3>1
    <2>10. Delayed' = {r[i] : i \in 1 .. m}
      <3>1. ASSUME NEW j \in 1 .. n
            PROVE  s[j] = curr \/ \E i \in 1 .. m : r[i] = s[j]
        <4>1. CASE j = 1
          BY <1>5, <4>1
        <4>2. CASE j # 1
          <5>1. j - 1 \in 1 .. m /\ (j - 1) + 1 = j
            BY <2>1, <4>2
          <5>2. r[j - 1] = s[j]
            BY <2>3, <5>1
          <5> QED BY <5>1, <5>2
        <4> QED BY <4>1, <4>2
      <3>2. \A i \in 1 .. m : r[i] \in Delayed /\ r[i] # curr
        BY <1>3, <1>4, <1>5, <2>3
      <3>3. Delayed \ {curr} \subseteq {r[i] : i \in 1 .. m}
        BY <1>3, <3>1
      <3>4. {r[i] : i \in 1 .. m} \subseteq Delayed \ {curr}
        BY <3>2
      <3> QED BY <3>3, <3>4
    <2>11. m \in 1 .. m /\ 1 \in 1 .. m /\ m + 1 = n /\ 1 + 1 = 2
      BY <2>1
    <2>12. r[m] = s[n] /\ r[1] = s[2]
      BY <2>3, <2>11
    <2>13. tail' = r[m] /\ Succ(r[m])' = r[1]
      BY <1>2, <2>5, <2>7, <2>12 DEF Succ
    <2>14. ASSUME NEW i \in 1 .. m - 1
           PROVE  Succ(r[i])' = r[i + 1]
      <3>1. /\ i \in 1 .. m /\ i + 1 \in 1 .. m /\ i + 1 \in 1 .. n - 1
        BY <2>1
      <3>2. r[i] = s[i + 1] /\ r[i + 1] = s[(i + 1) + 1]
        BY <2>3, <3>1
      <3>3. next[s[i + 1]] = s[(i + 1) + 1] /\ s[i + 1] # tail
        BY <2>6, <3>1
      <3> QED BY <2>5, <3>2, <3>3 DEF Succ
    <2>15. RingIs(r)'
      BY <2>1, <2>8, <2>9, <2>10, <2>13, <2>14, NextRing
    <2>16. 2 \in 1 .. n
      BY <2>1
    <2>17. curr' \in Clients
      BY <1>3, <2>7, <2>16
    <2> QED BY <1>5, <2>15, <2>17
  <1> QED BY <1>6, <1>7
-----------------------------------------------------------------------------
(***************************************************************************)
(* The inductive invariant.                                                *)
(***************************************************************************)
Delays == {"delay", "delay_until"}

(* The request of a client that waits for its answer; the deadline it will *)
(* get is not before the time it asked for.                                *)
IsAsk(m) ==
    /\ m.tid \in Clients /\ m.type \in {"time"} \cup Delays /\ m.data \in Nat
    /\ client[m.tid] = m.type
    /\ m.type \in Delays => wakeAt[m.tid] <= Deadline(m)

(* A notification waits in the inbox as long as its notifier waits for the *)
(* answer; clients run only when there is nothing to do, so that one       *)
(* request at the most is under way, and it is in front.                   *)
Late == IF notifier = "sent" THEN <<Notification>> ELSE <<>>

Desk ==
    /\ pc # "handle" => req = Notification
    /\ \/ pc \in {"receive", "count", "release"} /\ inbox = Late
       \/ pc = "receive" /\ \E m : IsAsk(m) /\ inbox = <<m>> \o Late
       \/ pc = "handle" /\ IsAsk(req) /\ inbox = Late
       \/ pc = "handle" /\ req = Notification /\ inbox = <<>> /\ notifier = "sent"

RingSound == \E s : RingIs(s)

(* There is a task to look at. *)
Releasing == pc = "release" => tail # NoClient

(* A task is in the ring until the time it asked for. *)
Due == \A c \in Delayed : wakeAt[c] <= finalTick[c]

(* An underflow that has not been counted, and is not lost. *)
Uncounted == (IF notifier \in {"woken", "sent"} THEN 1 ELSE 0)
             + (IF pc = "count" THEN 1 ELSE 0)

CountedOnce == tick + Uncounted <= now

IInv == TypeOK /\ Desk /\ RingSound /\ Releasing /\ Due /\ CountedOnce
-----------------------------------------------------------------------------
(* The inbox. *)

LEMMA LateIs ==
    /\ notifier = "sent" => Late = <<Notification>>
    /\ notifier # "sent" => Late = <<>>
    /\ Notification.tid \notin Clients /\ Notification \in Requests
    /\ \A m : IsAsk(m) => m # Notification
  BY ClockAssumption DEF Late, Notification, NoClient, IsAsk, Requests, Delays

LEMMA Two ==
    ASSUME NEW a, NEW b
    PROVE  <<a>> \o <<b>> = <<a, b>> /\ Head(<<a, b>>) = a /\ Tail(<<a, b>>) = <<b>>
  <1>1. PICK S : S = {a, b}
    OBVIOUS
  <1>2. <<a>> \in Seq(S) /\ b \in S
    BY <1>1
  <1>3. Append(<<a>>, b) = <<a>> \o <<b>>
    BY <1>2, AppendIsConcat
  <1>4. Append(<<a>>, b) = <<a, b>>
    <2>1. PICK x \in Seq(S) : x = <<a>>
      BY <1>2
    <2>2. PICK y : y = <<a, b>>
      OBVIOUS
    <2>3. Len(x) = 1 /\ x[1] = a /\ y \in Seq(S) /\ Len(y) = 2 /\ y[1] = a /\ y[2] = b
      BY <1>1, <2>1, <2>2
    <2>4. PICK z : z = Append(x, b)
      OBVIOUS
    <2>5. z \in Seq(S) /\ Len(z) = 2 /\ z[1] = a /\ z[2] = b
      <3>1. /\ z \in Seq(S) /\ Len(z) = Len(x) + 1 /\ z[Len(x) + 1] = b
            /\ \A i \in 1 .. Len(x) : z[i] = x[i]
        BY <1>2, <2>4, AppendProperties
      <3>2. 1 + 1 = 2 /\ 1 \in 1 .. 1
        OBVIOUS
      <3> QED BY <2>3, <3>1, <3>2
    <2>6. \A i \in 1 .. 2 : y[i] = z[i]
      <3>1. \A i \in 1 .. 2 : i = 1 \/ i = 2
        OBVIOUS
      <3> QED BY <2>3, <2>5, <3>1
    <2>7. y = z
      BY <2>3, <2>5, <2>6, SeqEqual
    <2> QED BY <2>1, <2>2, <2>4, <2>7
  <1>5. Head(<<a, b>>) = a /\ Tail(<<a, b>>) = <<b>>
    OBVIOUS
  <1> QED BY <1>3, <1>4, <1>5

(* Who has a request under way: the one the server handles, or the one at  *)
(* the front of its inbox.                                                 *)
LEMMA UnderwayIs ==
    ASSUME Desk
    PROVE  \A c \in Clients : c \in Underway <=>
              \/ pc = "handle" /\ req.tid = c
              \/ pc = "receive" /\ inbox # <<>> /\ inbox[1].tid = c
  <1>1. CASE pc \in {"receive", "count", "release"} /\ inbox = Late
    <2>1. inbox = <<>> \/ inbox = <<Notification>>
      BY <1>1, LateIs
    <2> QED BY <1>1, <2>1, LateIs DEF Underway
  <1>2. CASE pc = "receive" /\ \E m : IsAsk(m) /\ inbox = <<m>> \o Late
    <2>1. PICK m : IsAsk(m) /\ inbox = <<m>> \o Late
      BY <1>2
    <2>2. inbox = <<m>> \/ inbox = <<m, Notification>>
      <3>1. CASE notifier = "sent"
        <4>1. inbox = <<m>> \o <<Notification>>
          BY <2>1, <3>1, LateIs
        <4> QED BY <4>1, Two
      <3>2. CASE notifier # "sent"
        <4>1. inbox = <<m>> \o <<>>
          BY <2>1, <3>2, LateIs
        <4> QED BY <4>1
      <3> QED BY <3>1, <3>2
    <2> QED BY <1>2, <2>2, LateIs DEF Underway
  <1>3. CASE pc = "handle" /\ inbox = Late
    <2>1. inbox = <<>> \/ inbox = <<Notification>>
      BY <1>3, LateIs
    <2> QED BY <1>3, <2>1, LateIs DEF Underway
  <1>4. CASE pc = "handle" /\ req = Notification /\ inbox = <<>>
    BY <1>4, LateIs DEF Underway
  <1> QED BY <1>1, <1>2, <1>3, <1>4 DEF Desk

LEMMA InitIInv == Init => IInv
  <1> SUFFICES ASSUME Init PROVE IInv
    OBVIOUS
  <1>1. TypeOK
    <2>1. <<>> \in Seq(Requests) /\ Notification \in Requests
      BY LateIs
    <2>2. now \in 0 .. MaxTick /\ spent \in 0 .. Period /\ tick \in 0 .. MaxTick
      BY ClockAssumption DEF Init
    <2>3. /\ tail \in Clients \cup {NoClient}
          /\ next \in [Clients -> Clients \cup {NoClient}]
          /\ finalTick \in [Clients -> Nat] /\ wakeAt \in [Clients -> Nat]
          /\ client \in [Clients -> {"running", "time", "delay", "delay_until"}]
      BY DEF Init
    <2>4. /\ notifier \in {"arm", "await", "woken", "sent"}
          /\ pc \in {"receive", "handle", "count", "release"} /\ curr = NoClient
          /\ inbox = <<>> /\ req = Notification
      BY DEF Init
    <2> QED BY <2>1, <2>2, <2>3, <2>4 DEF TypeOK
  <1>2. Desk
    BY LateIs DEF Init, Desk
  <1>3. Delayed = {}
    BY DEF Init, Delayed
  <1>4. RingSound
    <2>1. PICK s : s = <<>>
      OBVIOUS
    <2>2. s \in Seq(Clients) /\ Len(s) = 0
      BY <2>1
    <2>3. RingIs(s)
      BY <1>3, <2>1, <2>2 DEF Init, RingIs
    <2> QED BY <2>3 DEF RingSound
  <1>5. Due /\ CountedOnce /\ Releasing
    BY <1>3 DEF Init, Due, CountedOnce, Uncounted, Releasing
  <1> QED BY <1>1, <1>2, <1>4, <1>5 DEF IInv

(* A step that neither starts nor ends a delay, and leaves the ring alone. *)
LEMMA RingKept ==
    ASSUME RingSound, Due, UNCHANGED qVars, Delayed' = Delayed,
           pc' = "release" <=> pc = "release",
           \A c \in Delayed : wakeAt'[c] = wakeAt[c]
    PROVE  RingSound' /\ Due'
  <1>1. PICK s : RingIs(s)
    BY DEF RingSound
  <1>2. RingIs(s)'
    BY <1>1 DEF RingIs, qVars, Succ
  <1> QED BY <1>2 DEF RingSound, Due, qVars

LEMMA UnderflowKeeps ==
    ASSUME IInv, Underflow
    PROVE  IInv'
  <1>1. /\ UNCHANGED <<inbox, pc, req, tick, tail, next, finalTick, curr, client, wakeAt>>
        /\ now < MaxTick /\ now' = now + 1 /\ spent' = 0
        /\ notifier' = IF notifier = "await" THEN "woken" ELSE notifier
    BY DEF Underflow, qVars, clientVars
  <1>2. TypeOK'
    <2>1. now' \in 0 .. MaxTick /\ spent' \in 0 .. Period
      BY <1>1, ClockAssumption DEF IInv, TypeOK
    <2> QED BY <1>1, <2>1 DEF IInv, TypeOK
  <1>3. Desk'
    <2>1. Late' = Late /\ (notifier' = "sent" <=> notifier = "sent")
      BY <1>1 DEF Late
    <2> QED BY <1>1, <2>1 DEF IInv, Desk, IsAsk, Deadline
  <1>4. Delayed' = Delayed
    BY <1>1 DEF Delayed, Underway
  <1>5. RingSound' /\ Due'
    BY <1>1, <1>4, RingKept DEF IInv, qVars
  <1>6. CountedOnce' /\ Releasing'
    BY <1>1, ClockAssumption DEF IInv, TypeOK, CountedOnce, Uncounted, Releasing
  <1> QED BY <1>2, <1>3, <1>5, <1>6 DEF IInv

LEMMA SpendKeeps ==
    ASSUME spent \in 0 .. Period, Spend
    PROVE  spent' \in 0 .. Period /\ (spent < Period => spent' = spent + 1)
  BY ClockAssumption DEF Spend

LEMMA NotifierKeeps ==
    ASSUME IInv, NotifierAwaits \/ NotifierSends
    PROVE  IInv'
  <1>1. /\ UNCHANGED <<now, pc, req, tick, tail, next, finalTick, curr, client, wakeAt>> /\ Spend
        /\ \/ notifier = "arm" /\ notifier' = "await" /\ inbox' = inbox
           \/ notifier = "woken" /\ notifier' = "sent" /\ inbox' = Append(inbox, Notification)
    BY DEF NotifierAwaits, NotifierSends, qVars, clientVars
  <1>2. TypeOK'
    <2>1. inbox' \in Seq(Requests)
      <3>1. inbox \in Seq(Requests) /\ Notification \in Requests
        BY LateIs DEF IInv, TypeOK
      <3>2. Append(inbox, Notification) \in Seq(Requests)
        BY <3>1, AppendProperties
      <3> QED BY <1>1, <3>1, <3>2
    <2>2. spent' \in 0 .. Period
      BY <1>1, SpendKeeps DEF IInv, TypeOK
    <2> QED BY <1>1, <2>1, <2>2 DEF IInv, TypeOK
  <1>3. Desk'
    <2>1. Late = <<>>
      BY <1>1, LateIs
    <2>2. /\ notifier' = "await" => Late' = <<>>
          /\ notifier' = "sent" => Late' = <<Notification>>
      BY DEF Late
    <2>3. ASSUME NEW m, IsAsk(m)
          PROVE  IsAsk(m)'
      BY <1>1, <2>3 DEF IsAsk, Deadline
    <2>4. CASE pc \in {"receive", "count", "release"} /\ inbox = Late
      BY <1>1, <2>1, <2>2, <2>4 DEF IInv, Desk
    <2>5. CASE pc = "receive" /\ \E m : IsAsk(m) /\ inbox = <<m>> \o Late
      <3>1. PICK m : IsAsk(m) /\ inbox = <<m>>
        BY <2>1, <2>5
      <3>2. IsAsk(m)'
        BY <2>3, <3>1
      <3>3. CASE notifier' = "await"
        <4>1. inbox' = <<m>> \o <<>>
          BY <1>1, <3>1, <3>3
        <4> QED BY <1>1, <2>2, <2>5, <3>2, <3>3, <4>1 DEF IInv, Desk
      <3>4. CASE notifier' = "sent"
        <4>1. inbox' = <<m>> \o <<Notification>>
          BY <1>1, <3>1, <3>4
        <4> QED BY <1>1, <2>2, <2>5, <3>2, <3>4, <4>1 DEF IInv, Desk
      <3> QED BY <1>1, <3>3, <3>4
    <2>6. CASE pc = "handle" /\ IsAsk(req) /\ inbox = Late
      <3>1. IsAsk(req)'
        BY <1>1, <2>6 DEF IsAsk, Deadline
      <3> QED BY <1>1, <2>1, <2>2, <2>6, <3>1 DEF IInv, Desk
    <2>7. notifier # "sent"
      BY <1>1
    <2> QED BY <2>4, <2>5, <2>6, <2>7 DEF IInv, Desk
  <1>4. Delayed' = Delayed
    <2>1. \A c \in Clients : c \in Underway' <=> c \in Underway
      <3>1. CASE inbox' = inbox
        BY <1>1, <3>1 DEF Underway
      <3>2. CASE inbox' = Append(inbox, Notification)
        <4>1. inbox \in Seq(Requests)
          BY DEF IInv, TypeOK
        <4>2. /\ DOMAIN inbox = 1 .. Len(inbox) /\ DOMAIN inbox' = 1 .. Len(inbox) + 1
              /\ Len(inbox) \in Nat /\ inbox'[Len(inbox) + 1] = Notification
              /\ \A i \in 1 .. Len(inbox) : inbox'[i] = inbox[i]
          BY <3>2, <4>1
        <4>3. {inbox'[i].tid : i \in DOMAIN inbox'} = {inbox[i].tid : i \in DOMAIN inbox} \cup {Notification.tid}
          BY <4>2
        <4> QED BY <1>1, <4>3, LateIs DEF Underway
      <3> QED BY <1>1, <3>1, <3>2
    <2> QED BY <1>1, <2>1 DEF Delayed
  <1>5. RingSound' /\ Due'
    BY <1>1, <1>4, RingKept DEF IInv, qVars
  <1>6. CountedOnce' /\ Releasing'
    BY <1>1 DEF IInv, TypeOK, CountedOnce, Uncounted, Releasing
  <1> QED BY <1>2, <1>3, <1>5, <1>6 DEF IInv

LEMMA ReceiveKeeps ==
    ASSUME IInv, Receive
    PROVE  IInv'
  <1>1. /\ UNCHANGED <<now, notifier, tick, tail, next, finalTick, curr, client, wakeAt>> /\ Spend
        /\ pc = "receive" /\ inbox # <<>> /\ pc' = "handle"
        /\ req' = Head(inbox) /\ inbox' = Tail(inbox)
    BY DEF Receive, qVars, clientVars
  <1>2. inbox \in Seq(Requests) /\ TypeOK /\ Desk
    BY DEF IInv, TypeOK
  <1>3. req' = inbox[1] /\ req' \in Requests /\ inbox' \in Seq(Requests)
    BY <1>1, <1>2, HeadTailProperties
  <1>4. TypeOK'
    BY <1>1, <1>2, <1>3, SpendKeeps DEF TypeOK
  <1>5. /\ Late' = Late
        /\ \A m : IsAsk(m)' <=> IsAsk(m)
    BY <1>1 DEF Late, IsAsk, Deadline
  <1>6. Desk'
    <2>1. CASE inbox = Late
      <3>1. notifier = "sent" /\ inbox = <<Notification>>
        BY <1>1, <2>1, LateIs
      <3>2. req' = Notification /\ inbox' = <<>>
        BY <1>1, <3>1
      <3> QED BY <1>1, <3>1, <3>2 DEF Desk
    <2>2. CASE \E m : IsAsk(m) /\ inbox = <<m>> \o Late
      <3>1. PICK m : IsAsk(m) /\ inbox = <<m>> \o Late
        BY <2>2
      <3>2. req' = m /\ inbox' = Late
        <4>1. CASE notifier = "sent"
          <5>1. inbox = <<m>> \o <<Notification>> /\ Late = <<Notification>>
            BY <3>1, <4>1, LateIs
          <5> QED BY <1>1, <5>1, Two
        <4>2. CASE notifier # "sent"
          <5>1. inbox = <<m>> \o <<>> /\ Late = <<>>
            BY <3>1, <4>2, LateIs
          <5> QED BY <1>1, <5>1
        <4> QED BY <4>1, <4>2
      <3>3. IsAsk(req)'
        BY <1>1, <3>1, <3>2 DEF IsAsk, Deadline
      <3> QED BY <1>1, <1>5, <3>2, <3>3 DEF Desk
    <2> QED BY <1>1, <1>2, <2>1, <2>2 DEF Desk
  <1>7. Delayed' = Delayed
    <2>1. \A c \in Clients : c \in Underway' <=> c \in Underway
      <3>1. \A c \in Clients : c \in Underway <=> inbox[1].tid = c
        BY <1>1, <1>2, UnderwayIs
      <3>2. \A c \in Clients : c \in Underway' <=> req'.tid = c
        <4>1. inbox' = <<>> \/ inbox' = <<Notification>>
          BY <1>1, <1>5, <1>6, LateIs DEF Desk
        <4>2. pc' = "handle"
          BY <1>1
        <4> QED BY <4>1, <4>2, LateIs DEF Underway
      <3> QED BY <1>3, <3>1, <3>2
    <2> QED BY <1>1, <2>1 DEF Delayed
  <1>8. RingSound' /\ Due'
    BY <1>1, <1>7, RingKept DEF IInv, qVars
  <1>9. CountedOnce' /\ Releasing'
    BY <1>1 DEF IInv, CountedOnce, Uncounted, Releasing
  <1> QED BY <1>4, <1>6, <1>8, <1>9 DEF IInv

LEMMA HandleNotificationKeeps ==
    ASSUME IInv, HandleNotification
    PROVE  IInv' /\ notifier = "sent"
  <1>1. /\ UNCHANGED <<now, inbox, tick, tail, next, finalTick, curr, client, wakeAt>> /\ Spend
        /\ pc = "handle" /\ req.type = "notification" /\ notifier' = "arm"
        /\ pc' = "count" /\ req' = Notification
    BY DEF HandleNotification, AnswerNotifier, qVars, clientVars
  <1>2. TypeOK /\ Desk
    BY DEF IInv
  <1>3. notifier = "sent" /\ req = Notification /\ inbox = <<>>
    BY <1>1, <1>2 DEF Desk, IsAsk, Delays
  <1>4. TypeOK'
    BY <1>1, <1>2, SpendKeeps, LateIs DEF TypeOK
  <1>5. Desk'
    BY <1>1, <1>3 DEF Desk, Late
  <1>6. Delayed' = Delayed
    <2>1. \A c \in Clients : c \notin Underway /\ c \notin Underway'
      BY <1>1, <1>3, LateIs DEF Underway
    <2> QED BY <1>1, <2>1 DEF Delayed
  <1>7. RingSound' /\ Due'
    BY <1>1, <1>6, RingKept DEF IInv, qVars
  <1>8. CountedOnce' /\ Releasing'
    BY <1>1, <1>3 DEF IInv, TypeOK, CountedOnce, Uncounted, Releasing
  <1> QED BY <1>3, <1>4, <1>5, <1>7, <1>8 DEF IInv

LEMMA CountTickKeeps ==
    ASSUME IInv, CountTick
    PROVE  IInv'
  <1>1. /\ UNCHANGED <<now, notifier, inbox, req, tail, next, finalTick, client, wakeAt>> /\ Spend
        /\ pc = "count" /\ tick' = tick + 1
        /\ IF tail = NoClient THEN pc' = "receive" /\ UNCHANGED curr
                              ELSE pc' = "release" /\ curr' = next[tail]
    BY DEF CountTick, clientVars
  <1>2. TypeOK /\ Desk /\ Due /\ CountedOnce
    BY DEF IInv
  <1>3. PICK s : RingIs(s)
    BY DEF IInv, RingSound
  <1>4. Underway' = Underway
    BY <1>1 DEF Underway
  <1>5. Delayed' = Delayed
    BY <1>1, <1>4 DEF Delayed
  <1>6. RingIs(s)' /\ Releasing'
    <2>1. CASE tail = NoClient
      <3>1. s = <<>>
        BY <1>3, <2>1, RingFits
      <3> QED BY <1>1, <1>3, <1>5, <2>1, <3>1 DEF RingIs, Releasing
    <2>2. CASE tail # NoClient
      <3>1. RingIs(s)'
        BY <1>1, <1>3, <1>5, <2>2, ReleaseBegins
      <3> QED BY <1>1, <2>2, <3>1 DEF Releasing
    <2> QED BY <2>1, <2>2
  <1>7. TypeOK'
    <2>1. tick' \in 0 .. MaxTick
      BY <1>1, <1>2, ClockAssumption DEF TypeOK, CountedOnce, Uncounted
    <2>2. curr' \in Clients \cup {NoClient} /\ pc' \in {"receive", "release"}
      BY <1>1, <1>2 DEF TypeOK
    <2> QED BY <1>1, <1>2, <2>1, <2>2, SpendKeeps DEF TypeOK
  <1>8. Desk'
    BY <1>1, <1>2 DEF Desk, Late
  <1>9. Due'
    BY <1>1, <1>2, <1>5 DEF Due
  <1>10. CountedOnce' /\ Releasing'
    BY <1>1, <1>2 DEF TypeOK, CountedOnce, Uncounted, Releasing
  <1> QED BY <1>6, <1>7, <1>8, <1>9, <1>10 DEF IInv, RingSound

LEMMA ReleaseTaskKeeps ==
    ASSUME IInv, ReleaseTask
    PROVE  IInv'
  <1>1. /\ UNCHANGED <<now, notifier, inbox, req, tick, next, finalTick>> /\ Spend
        /\ pc = "release"
        /\ client' = [client EXCEPT ![curr] = "running"]
        /\ wakeAt' = [wakeAt EXCEPT ![curr] = 0]
        /\ IF curr = tail
             THEN tail' = NoClient /\ curr' = NoClient /\ pc' = "receive"
             ELSE curr' = next[curr] /\ UNCHANGED <<tail, pc>>
    BY DEF ReleaseTask
  <1>2. TypeOK /\ Desk /\ Due /\ CountedOnce /\ Releasing
    BY DEF IInv
  <1>3. PICK s : RingIs(s)
    BY DEF IInv, RingSound
  <1>4. s # <<>>
    BY <1>1, <1>2, <1>3 DEF RingIs, Releasing
  <1>5. Underway' = Underway
    BY <1>1 DEF Underway
  <1>6. Delayed' = Delayed \ {curr}
    BY <1>1, <1>2, <1>5 DEF Delayed, TypeOK
  <1>7. /\ \E r : RingIs(r)'
        /\ curr \in Delayed /\ (curr # tail => curr' \in Clients)
    BY <1>1, <1>3, <1>4, <1>6, Released
  <1>8. TypeOK'
    <2>1. curr' \in Clients \cup {NoClient} /\ tail' \in Clients \cup {NoClient}
      BY <1>1, <1>2, <1>7 DEF TypeOK
    <2>2. /\ client' \in [Clients -> {"running", "time", "delay", "delay_until"}]
          /\ wakeAt' \in [Clients -> Nat]
      BY <1>1, <1>2 DEF TypeOK
    <2>3. pc' \in {"receive", "release"}
      BY <1>1
    <2> QED BY <1>1, <1>2, <2>1, <2>2, <2>3, SpendKeeps DEF TypeOK
  <1>9. Desk'
    BY <1>1, <1>2 DEF Desk, Late
  <1>10. Due'
    <2>1. Delayed \subseteq Clients
      BY DEF Delayed
    <2> QED BY <1>1, <1>2, <1>6, <2>1 DEF Due, TypeOK
  <1>11. CountedOnce' /\ Releasing'
    BY <1>1, <1>2 DEF CountedOnce, Uncounted, Releasing
  <1> QED BY <1>7, <1>8, <1>9, <1>10, <1>11 DEF IInv, RingSound

LEMMA EndReleaseKeeps ==
    ASSUME IInv, EndRelease
    PROVE  IInv'
  <1>1. /\ UNCHANGED <<now, notifier, inbox, req, tick, tail, finalTick, client, wakeAt>> /\ Spend
        /\ pc = "release" /\ pc' = "receive" /\ curr' = NoClient
        /\ next' = [next EXCEPT ![tail] = curr]
    BY DEF EndRelease, clientVars
  <1>2. TypeOK /\ Desk /\ Due /\ CountedOnce /\ Releasing
    BY DEF IInv
  <1>3. PICK s : RingIs(s)
    BY DEF IInv, RingSound
  <1>4. s # <<>>
    BY <1>1, <1>2, <1>3 DEF RingIs, Releasing
  <1>5. Underway' = Underway
    BY <1>1 DEF Underway
  <1>6. Delayed' = Delayed
    BY <1>1, <1>5 DEF Delayed
  <1>7. RingIs(s)' /\ next' \in [Clients -> Clients \cup {NoClient}]
    BY <1>1, <1>2, <1>3, <1>4, <1>6, ReleaseEnds DEF TypeOK
  <1>8. TypeOK'
    BY <1>1, <1>2, <1>7, SpendKeeps DEF TypeOK
  <1>9. Desk'
    BY <1>1, <1>2 DEF Desk, Late
  <1>10. Due'
    BY <1>1, <1>2, <1>6 DEF Due
  <1>11. CountedOnce' /\ Releasing'
    BY <1>1, <1>2 DEF CountedOnce, Uncounted, Releasing
  <1> QED BY <1>7, <1>8, <1>9, <1>10, <1>11 DEF IInv, RingSound

(* The server has a request in hand whose client waits; nothing else but a *)
(* notification can be in the inbox.                                       *)
LEMMA InHand ==
    ASSUME TypeOK, Desk, pc = "handle", req.type \in {"time"} \cup Delays
    PROVE  /\ IsAsk(req) /\ inbox = Late
           /\ \A c \in Clients : c \in Underway <=> c = req.tid
           /\ {inbox[i].tid : i \in DOMAIN inbox} \cap Clients = {}
  <1>1. req # Notification
    BY DEF Notification, Delays
  <1>2. IsAsk(req) /\ inbox = Late
    BY <1>1 DEF Desk
  <1>3. inbox = <<>> \/ inbox = <<Notification>>
    BY <1>2, LateIs
  <1>4. {inbox[i].tid : i \in DOMAIN inbox} \cap Clients = {}
    BY <1>3, LateIs
  <1>5. \A c \in Clients : c \in Underway <=> c = req.tid
    BY <1>4 DEF Underway
  <1> QED BY <1>2, <1>4, <1>5

LEMMA HandleTimeKeeps ==
    ASSUME IInv, HandleTime
    PROVE  IInv'
  <1>1. /\ UNCHANGED <<now, notifier, inbox, tick, tail, next, finalTick, curr, wakeAt>> /\ Spend
        /\ pc = "handle" /\ req.type = "time" /\ pc' = "receive" /\ req' = Notification
        /\ client' = [client EXCEPT ![req.tid] = "running"]
    BY DEF HandleTime, qVars
  <1>2. TypeOK /\ Desk
    BY DEF IInv
  <1>3. /\ IsAsk(req) /\ inbox = Late
        /\ \A c \in Clients : c \in Underway <=> c = req.tid
        /\ {inbox[i].tid : i \in DOMAIN inbox} \cap Clients = {}
    BY <1>1, <1>2, InHand
  <1>4. TypeOK'
    <2>1. client' \in [Clients -> {"running", "time", "delay", "delay_until"}]
      BY <1>1, <1>2 DEF TypeOK
    <2> QED BY <1>1, <1>2, <2>1, SpendKeeps, LateIs DEF TypeOK
  <1>5. Desk'
    BY <1>1, <1>3 DEF Desk, Late
  <1>6. Delayed' = Delayed
    <2>1. req.tid \in Clients /\ client[req.tid] = "time" /\ client'[req.tid] = "running"
      BY <1>1, <1>2, <1>3 DEF IsAsk, TypeOK
    <2>2. \A c \in Clients : c # req.tid => client'[c] = client[c]
      BY <1>1, <1>2 DEF TypeOK
    <2>3. \A c \in Clients : c \notin Underway'
      BY <1>1, <1>3 DEF Underway
    <2> QED BY <1>3, <2>1, <2>2, <2>3 DEF Delayed
  <1>7. RingSound' /\ Due'
    BY <1>1, <1>6, RingKept DEF IInv, qVars
  <1>8. CountedOnce' /\ Releasing'
    BY <1>1 DEF IInv, CountedOnce, Uncounted, Releasing
  <1> QED BY <1>4, <1>5, <1>7, <1>8 DEF IInv

LEMMA HandleDelayKeeps ==
    ASSUME IInv, HandleDelay
    PROVE  IInv'
  <1>1. /\ UNCHANGED <<now, notifier, inbox, tick, client, wakeAt>> /\ Spend
        /\ pc = "handle" /\ req.type \in Delays /\ pc' = "receive" /\ req' = Notification
        /\ InsertDelayedTask(req.tid, Deadline(req))
    BY DEF HandleDelay, clientVars, Delays
  <1>2. TypeOK /\ Desk /\ RingSound /\ Due
    BY DEF IInv
  <1>3. /\ IsAsk(req) /\ inbox = Late
        /\ \A c \in Clients : c \in Underway <=> c = req.tid
        /\ {inbox[i].tid : i \in DOMAIN inbox} \cap Clients = {}
    BY <1>1, <1>2, InHand
  <1>4. PICK c \in Clients : c = req.tid
    BY <1>3 DEF IsAsk
  <1>5. PICK final : final = Deadline(req)
    OBVIOUS
  <1>6. client[c] \in Delays /\ wakeAt[c] <= final /\ final \in Nat
    <2>1. final \in Nat
      BY <1>2, <1>3, <1>5, ClockAssumption DEF Deadline, IsAsk, TypeOK
    <2> QED BY <1>1, <1>3, <1>4, <1>5, <2>1 DEF IsAsk
  <1>7. c \notin Delayed /\ Delayed' = Delayed \cup {c}
    <2>1. \A d \in Clients : d \notin Underway'
      BY <1>1, <1>3 DEF Underway
    <2> QED BY <1>1, <1>3, <1>4, <1>6, <2>1 DEF Delayed, Delays
  <1>8. PICK s : RingIs(s)
    BY <1>2 DEF RingSound
  <1>9. RingSound'
    <2>1. \E t : RingIs(t)'
      <3>1. InsertDelayedTask(c, final) /\ next \in [Clients -> Clients \cup {NoClient}]
        BY <1>1, <1>2, <1>4, <1>5 DEF TypeOK
      <3> QED BY <1>1, <1>7, <1>8, <3>1, Inserted
    <2> QED BY <2>1 DEF RingSound
  <1>10. finalTick' = [finalTick EXCEPT ![c] = final] /\ curr' = curr
    BY <1>1, <1>4, <1>5 DEF InsertDelayedTask
  <1>11. Due'
    <2>1. \A d \in Delayed : d # c => finalTick'[d] = finalTick[d]
      BY <1>2, <1>10 DEF TypeOK, Delayed
    <2>2. finalTick'[c] = final
      BY <1>2, <1>10 DEF TypeOK
    <2> QED BY <1>1, <1>2, <1>6, <1>7, <2>1, <2>2 DEF Due
  <1>12. TypeOK'
    <2>1. finalTick' \in [Clients -> Nat]
      BY <1>2, <1>6, <1>10 DEF TypeOK
    <2>2. tail' \in Clients \cup {NoClient} /\ next' \in [Clients -> Clients \cup {NoClient}]
      <3>1. InsertDelayedTask(c, final)
        BY <1>1, <1>4, <1>5
      <3>2. CASE tail = NoClient
        BY <1>2, <3>1, <3>2 DEF InsertDelayedTask, TypeOK
      <3>3. CASE tail # NoClient
        <4>1. PICK p : p = LinkAfter(final)
          OBVIOUS
        <4>2. /\ next' = [next EXCEPT ![c] = next[p], ![p] = c]
              /\ tail' = IF finalTick[next[p]] >= final THEN tail ELSE c
          BY <3>1, <3>3, <4>1 DEF InsertDelayedTask
        <4>3. p \in Clients
          <5>1. s # <<>> /\ Size \in Nat
            BY <1>8, <3>3, SizeIsNat DEF RingIs
          <5>2. \A i \in 0 .. Size : Node[i] \in Clients
            BY <1>8, <5>1, NodesOfRing DEF Delayed
          <5>3. Len(s) \in Nat /\ Len(s) > 0 /\ Len(s) <= Size /\ Ring = s
            BY <1>8, <5>1, RingFits, RingIsRing
          <5>4. PICK S : S = {k \in 1 .. Len(s) : finalTick[s[k]] >= final \/ k = Len(s)}
            OBVIOUS
          <5>5. S \subseteq Nat /\ Len(s) \in S
            BY <5>3, <5>4
          <5>6. Min(S) \in 1 .. Len(s)
            BY <5>4, <5>5, MinIsLeast
          <5>7. Min(S) - 1 \in 0 .. Size
            BY <5>1, <5>3, <5>6
          <5>8. p = Node[Min(S) - 1]
            BY <4>1, <5>3, <5>4 DEF LinkAfter
          <5> QED BY <5>2, <5>7, <5>8
        <4>4. next[p] \in Clients \cup {NoClient}
          BY <1>2, <4>3 DEF TypeOK
        <4> QED BY <1>2, <4>2, <4>4 DEF TypeOK
      <3> QED BY <3>2, <3>3
    <2> QED BY <1>1, <1>2, <1>10, <2>1, <2>2, SpendKeeps, LateIs DEF TypeOK
  <1>13. Desk'
    BY <1>1, <1>3 DEF Desk, Late
  <1>14. CountedOnce' /\ Releasing'
    BY <1>1 DEF IInv, CountedOnce, Uncounted, Releasing
  <1> QED BY <1>9, <1>11, <1>12, <1>13, <1>14 DEF IInv

LEMMA AskKeeps ==
    ASSUME IInv, NEW c \in Clients,
           AskTime(c) \/ \E d \in Ticks : AskDelay(c, "delay", d) \/ AskDelay(c, "delay_until", d)
    PROVE  IInv'
  <1>1. PICK type \in {"time"} \cup Delays, d \in Nat :
           /\ Ask(c, type, d)
           /\ type = "time" => UNCHANGED wakeAt
           /\ type \in Delays =>
                 LET due == IF type = "delay" THEN tick + d ELSE d
                 IN  wakeAt' = [wakeAt EXCEPT ![c] = due]
    <2>1. CASE AskTime(c)
      BY <2>1 DEF AskTime, Delays
    <2>2. CASE \E d \in Ticks : AskDelay(c, "delay", d) \/ AskDelay(c, "delay_until", d)
      BY <2>2, ClockAssumption DEF AskDelay, Delays
    <2> QED BY <2>1, <2>2
  <1>2. /\ UNCHANGED <<now, spent, notifier, pc, req, tick, tail, next, finalTick, curr>>
        /\ ClientsRun /\ client[c] = "running" /\ client' = [client EXCEPT ![c] = type]
        /\ inbox' = Append(inbox, [type |-> type, tid |-> c, data |-> d])
    BY <1>1 DEF Ask, qVars
  <1>3. TypeOK /\ Desk /\ Due
    BY DEF IInv
  <1>4. pc = "receive" /\ inbox = <<>> /\ notifier # "sent" /\ Late = <<>>
    <2>1. pc = "receive" /\ inbox = <<>>
      BY <1>2 DEF ClientsRun, ServerReady
    <2>2. inbox = Late
      <3>1. \A m : <<m>> \o Late # <<>>
        <4>1. CASE notifier = "sent"
          <5>1. \A m : <<m>> \o Late = <<m, Notification>>
            BY <4>1, LateIs, Two
          <5> QED BY <5>1
        <4>2. CASE notifier # "sent"
          <5>1. \A m : <<m>> \o Late = <<m>> \o <<>>
            BY <4>2, LateIs
          <5> QED BY <5>1
        <4> QED BY <4>1, <4>2
      <3> QED BY <1>3, <2>1, <3>1 DEF Desk
    <2> QED BY <2>1, <2>2, LateIs
  <1>5. PICK m : m = [type |-> type, tid |-> c, data |-> d]
    OBVIOUS
  <1>6. inbox' = <<m>> /\ m.type = type /\ m.tid = c /\ m.data = d
    BY <1>2, <1>4, <1>5
  <1>7. client'[c] = type /\ \A e \in Clients : e # c => client'[e] = client[e]
    BY <1>2, <1>3 DEF TypeOK
  <1>8. /\ wakeAt' \in [Clients -> Nat] /\ \A e \in Clients : e # c => wakeAt'[e] = wakeAt[e]
        /\ type \in Delays => wakeAt'[c] = IF type = "delay" THEN tick + d ELSE d
    <2>1. tick + d \in Nat /\ d \in Nat
      BY <1>3, ClockAssumption DEF TypeOK
    <2>2. CASE type = "time"
      BY <1>1, <1>3, <2>2 DEF TypeOK, Delays
    <2>3. CASE type \in Delays
      <3>1. PICK due \in Nat : due = IF type = "delay" THEN tick + d ELSE d
        BY <2>1
      <3>2. wakeAt' = [wakeAt EXCEPT ![c] = due]
        BY <1>1, <2>3, <3>1
      <3> QED BY <1>3, <3>1, <3>2 DEF TypeOK
    <2> QED BY <2>2, <2>3
  <1>9. TypeOK'
    <2>1. m \in Requests
      BY <1>5 DEF Requests, Delays
    <2>2. inbox' \in Seq(Requests)
      BY <1>6, <2>1
    <2>3. client' \in [Clients -> {"running", "time", "delay", "delay_until"}]
      BY <1>2, <1>3 DEF TypeOK, Delays
    <2> QED BY <1>2, <1>3, <1>8, <2>2, <2>3 DEF TypeOK
  <1>10. Desk'
    <2>1. IsAsk(m)'
      <3>1. type \in Delays => wakeAt'[c] <= Deadline(m)'
        <4>1. tick' = tick /\ tick \in Nat
          BY <1>2, <1>3, ClockAssumption DEF TypeOK
        <4> QED BY <1>6, <1>8, <4>1 DEF Deadline
      <3> QED BY <1>6, <1>7, <3>1 DEF IsAsk
    <2>2. Late' = <<>>
      BY <1>2, <1>4 DEF Late
    <2>3. inbox' = <<m>> \o <<>>
      BY <1>6
    <2> QED BY <1>2, <1>3, <1>4, <2>1, <2>2, <2>3 DEF Desk
  <1>11. Delayed' = Delayed
    <2>1. \A e \in Clients : e \notin Underway
      BY <1>4 DEF Underway
    <2>2. \A e \in Clients : e \in Underway' <=> e = c
      <3>1. pc' = "receive" /\ {inbox'[i].tid : i \in DOMAIN inbox'} = {c}
        <4>1. DOMAIN inbox' = {1} /\ inbox'[1] = m
          BY <1>6
        <4> QED BY <1>2, <1>4, <1>6, <4>1
      <3> QED BY <3>1 DEF Underway
    <2> QED BY <1>2, <1>7, <2>1, <2>2 DEF Delayed, Delays
  <1>12. c \notin Delayed /\ Delayed \subseteq Clients
    BY <1>2 DEF Delayed
  <1>13. RingSound' /\ Due'
    <2>1. \A e \in Delayed : wakeAt'[e] = wakeAt[e]
      BY <1>8, <1>12
    <2> QED BY <1>2, <1>11, <2>1, RingKept DEF IInv, qVars
  <1>14. CountedOnce' /\ Releasing'
    BY <1>2 DEF IInv, CountedOnce, Uncounted, Releasing
  <1> QED BY <1>9, <1>10, <1>13, <1>14 DEF IInv

LEMMA NextIInv == IInv /\ [Next]_vars => IInv'
  <1> SUFFICES ASSUME IInv, [Next]_vars PROVE IInv'
    OBVIOUS
  <1>1. CASE Underflow
    BY <1>1, UnderflowKeeps
  <1>2. CASE NotifierAwaits \/ NotifierSends
    BY <1>2, NotifierKeeps
  <1>3. CASE Receive
    BY <1>3, ReceiveKeeps
  <1>4. CASE HandleNotification
    BY <1>4, HandleNotificationKeeps
  <1>5. CASE CountTick
    BY <1>5, CountTickKeeps
  <1>10. CASE ReleaseTask
    BY <1>10, ReleaseTaskKeeps
  <1>11. CASE EndRelease
    BY <1>11, EndReleaseKeeps
  <1>6. CASE HandleTime
    BY <1>6, HandleTimeKeeps
  <1>7. CASE HandleDelay
    BY <1>7, HandleDelayKeeps
  <1>8. CASE \E c \in Clients :
               \/ AskTime(c)
               \/ \E d \in Ticks : AskDelay(c, "delay", d) \/ AskDelay(c, "delay_until", d)
    BY <1>8, AskKeeps
  <1>9. CASE UNCHANGED vars
    <2>1. UNCHANGED <<now, spent, notifier, inbox, pc, req, tick, tail, next, finalTick, curr, client, wakeAt>>
      BY <1>9 DEF vars, qVars, clientVars
    <2>2. Delayed' = Delayed
      BY <2>1 DEF Delayed, Underway
    <2>3. RingSound' /\ Due'
      BY <2>1, <2>2, RingKept DEF IInv, qVars
    <2>4. Desk'
      BY <2>1 DEF IInv, Desk, Late, IsAsk, Deadline
    <2>5. TypeOK' /\ CountedOnce' /\ Releasing'
      BY <2>1 DEF IInv, TypeOK, CountedOnce, Uncounted, Releasing
    <2> QED BY <2>3, <2>4, <2>5 DEF IInv
  <1> QED BY <1>1, <1>2, <1>3, <1>4, <1>5, <1>6, <1>7, <1>8, <1>9, <1>10, <1>11
           DEF Next, ClockTasks

LEMMA Inductive == Spec => []IInv
  BY InitIInv, NextIInv, PTL DEF Spec

(* Every variable holds what its declaration can hold, and the server      *)
(* never counts more ticks than there were (clockserver.c:164-205).        *)
THEOREM TypeCorrect == Spec => []TypeOK
  BY Inductive, PTL DEF IInv

(* Whatever is inserted and released, the ring holds the delayed tasks,    *)
(* each once (clockserver.c:90-148).                                       *)
THEOREM RingStaysWhole == Spec => []RingHoldsDelayed
  <1>1. IInv => RingHoldsDelayed
    BY RingIsWhole DEF IInv, RingSound
  <1> QED BY <1>1, Inductive, PTL

Waiting == {c \in Clients : client[c] \in Delays}

LEMMA WaitingCounted ==
    /\ IsFiniteSet(Waiting) /\ Cardinality(Waiting) \in Nat
    /\ \A c \in Waiting : Cardinality(Waiting) > 0
  <1>1. Waiting \subseteq Clients
    BY DEF Waiting
  <1>2. IsFiniteSet(Waiting)
    BY <1>1, FS_Subset, ClockAssumption
  <1>3. Cardinality(Waiting) \in Nat /\ (Cardinality(Waiting) = 0 <=> Waiting = {})
    BY <1>2, FS_CardinalityType, FS_EmptySet
  <1> QED BY <1>2, <1>3

(* The task the loop looks at is delayed. *)
LEMMA CurrWaits ==
    ASSUME IInv, pc = "release"
    PROVE  curr \in Delayed /\ curr \in Waiting
  <1>1. PICK s : RingIs(s)
    BY DEF IInv, RingSound
  <1>2. s # <<>> /\ curr = Succ(tail)
    BY <1>1 DEF RingIs, IInv, Releasing, Succ
  <1>3. PICK n \in Nat : n = Len(s) /\ n > 0
    BY <1>1, <1>2, RingFits
  <1>4. 1 \in 1 .. n
    BY <1>3
  <1>5. curr \in Delayed
    BY <1>1, <1>2, <1>3, <1>4 DEF RingIs
  <1> QED BY <1>5 DEF Delayed, Waiting, Delays

(* Nobody is released before the time it asked for, although the new tail  *)
(* may stand behind tasks that expire later (clockserver.c:47-73, 127-148).*)
THEOREM NobodyWakesEarly == Spec => NotEarly
  <1>1. ASSUME IInv, [Next]_vars, NEW c \in Clients,
               client[c] \in Delays, client'[c] = "running"
        PROVE  tick' >= wakeAt[c]
    <2>1. TypeOK /\ Desk /\ RingSound /\ Due
      BY <1>1 DEF IInv
    <2>2. CASE ReleaseTask
      <3>1. /\ tick' = tick /\ finalTick[curr] <= tick /\ pc = "release"
            /\ client' = [client EXCEPT ![curr] = "running"]
        BY <2>2 DEF ReleaseTask, Expired
      <3>2. c = curr
        BY <1>1, <2>1, <3>1 DEF TypeOK, Delays
      <3>3. c \in Delayed
        BY <1>1, <3>1, <3>2, CurrWaits
      <3>6. wakeAt[c] <= finalTick[c]
        BY <2>1, <3>3 DEF Due
      <3>7. wakeAt[c] \in Nat /\ finalTick[c] \in Nat /\ tick \in Nat
        BY <2>1, ClockAssumption DEF TypeOK
      <3> QED BY <3>1, <3>2, <3>6, <3>7
    <2>3. CASE HandleTime
      <3>1. IsAsk(req) /\ req.type = "time" /\ client' = [client EXCEPT ![req.tid] = "running"]
        BY <2>1, <2>3, InHand DEF HandleTime
      <3>2. c # req.tid
        BY <1>1, <3>1 DEF IsAsk, Delays
      <3> QED BY <1>1, <2>1, <3>1, <3>2 DEF TypeOK, Delays
    <2>4. CASE \E e \in Clients :
                 \/ AskTime(e)
                 \/ \E d \in Ticks : AskDelay(e, "delay", d) \/ AskDelay(e, "delay_until", d)
      <3>1. PICK e \in Clients, type \in {"time"} \cup Delays : client' = [client EXCEPT ![e] = type]
        BY <2>4 DEF AskTime, AskDelay, Ask, Delays
      <3> QED BY <1>1, <2>1, <3>1 DEF TypeOK, Delays
    <2>5. CASE client' = client
      BY <1>1, <2>5 DEF Delays
    <2>6. \/ ReleaseTask \/ HandleTime \/ client' = client
          \/ \E e \in Clients :
                 \/ AskTime(e)
                 \/ \E d \in Ticks : AskDelay(e, "delay", d) \/ AskDelay(e, "delay_until", d)
      BY <1>1 DEF Next, ClockTasks, Underflow, NotifierAwaits, NotifierSends, Receive,
                  HandleNotification, CountTick, EndRelease, HandleDelay, vars, clientVars
    <2> QED BY <2>2, <2>3, <2>4, <2>5, <2>6
  <1>2. IInv /\ [Next]_vars => \A c \in Clients :
          (client[c] \in {"delay", "delay_until"} /\ client'[c] = "running") => tick' >= wakeAt[c]
    BY <1>1 DEF Delays
  <1> QED BY <1>2, Inductive, PTL DEF Spec, NotEarly
-----------------------------------------------------------------------------
(***************************************************************************)
(* Time.                                                                   *)
(***************************************************************************)

(* What the server has yet to do at most before it receives again. *)
Busy ==
    CASE pc = "receive" -> 0
      [] pc = "handle"  -> 1
      [] pc = "count"   -> 1 + Size
      [] pc = "release" -> Cardinality(Waiting)

(* The steps until the notifier waits for the timer again: what is in      *)
(* front of its notification, the notification itself and its own.         *)
CallsLeft ==
    CASE notifier = "await" -> 0
      [] notifier = "arm"   -> 1
      [] notifier = "sent"  -> 2 * Len(inbox) + Busy + 1
      [] notifier = "woken" -> 2 * Len(inbox) + Busy + 4

InTime == spent + CallsLeft <= Period

LEMMA BusyIs ==
    ASSUME IInv
    PROVE  /\ Busy \in Nat
           /\ pc = "receive" => Busy = 0
           /\ pc = "handle" => Busy = 1
           /\ pc = "count" => Busy = 1 + Size
           /\ pc = "release" => Busy = Cardinality(Waiting)
           /\ Cardinality(Waiting) \in Nat /\ Cardinality(Waiting) <= Size
  <1>1. Waiting \subseteq Clients
    BY DEF Waiting
  <1>2. Cardinality(Waiting) \in Nat /\ Cardinality(Waiting) <= Size /\ Size \in Nat
    BY <1>1, FS_Subset, FS_CardinalityType, SizeIsNat, ClockAssumption DEF Size
  <1>3. pc \in {"receive", "handle", "count", "release"}
    BY DEF IInv, TypeOK
  <1> QED BY <1>2, <1>3 DEF Busy

LEMMA CallsLeftIs ==
    ASSUME IInv
    PROVE  /\ Len(inbox) \in Nat /\ Busy \in Nat /\ spent \in Nat /\ Period \in Nat
           /\ spent <= Period
           /\ notifier = "await" => CallsLeft = 0
           /\ notifier = "arm" => CallsLeft = 1
           /\ notifier = "sent" => CallsLeft = 2 * Len(inbox) + Busy + 1
           /\ notifier = "woken" => CallsLeft = 2 * Len(inbox) + Busy + 4
  BY BusyIs, ClockAssumption DEF IInv, TypeOK, CallsLeft

(* No more is in the inbox than one request of a client, and the server    *)
(* has not yet received it then; or it is still busy with the last tick.   *)
LEMMA LittleToDo ==
    ASSUME IInv, notifier = "await"
    PROVE  2 * Len(inbox) + Busy <= 1 + Size
  <1>1. Late = <<>> /\ Size \in Nat
    BY LateIs, SizeIsNat
  <1>2. CASE inbox = <<>>
    <2>1. pc \in {"receive", "handle", "count", "release"} /\ Len(inbox) = 0
      BY <1>2 DEF IInv, TypeOK
    <2>2. Busy <= 1 + Size /\ Busy \in Nat
      BY <1>1, <2>1, BusyIs
    <2> QED BY <1>1, <2>1, <2>2
  <1>3. CASE pc = "receive" /\ \E m : IsAsk(m) /\ inbox = <<m>> \o <<>>
    <2>1. Len(inbox) = 1 /\ Busy = 0
      BY <1>3, BusyIs
    <2>2. Clients # {}
      BY <1>3 DEF IsAsk
    <2>3. Size # 0
      BY <2>2, FS_EmptySet, ClockAssumption DEF Size
    <2> QED BY <1>1, <2>1, <2>3
  <1> QED BY <1>1, <1>2, <1>3 DEF IInv, Desk

(* With nothing in its inbox the server is not being waited for by the     *)
(* notifier, unless it has the notification in hand.                       *)
LEMMA Idle ==
    ASSUME Desk, pc = "receive", inbox = <<>>
    PROVE  notifier # "sent"
  <1>1. SUFFICES ASSUME notifier = "sent" PROVE FALSE
    OBVIOUS
  <1>2. Late = <<Notification>>
    BY <1>1, LateIs
  <1>3. \A m : <<m>> \o Late = <<m, Notification>>
    BY <1>2, Two
  <1>4. \A m : <<m>> \o Late # <<>>
    BY <1>3
  <1>5. inbox # Late
    BY <1>2
  <1> QED BY <1>4, <1>5 DEF Desk

(* The timer fires only when the notifier waits for it, and what there is  *)
(* to do then fits before it fires again.                                  *)
LEMMA UnderflowInTime ==
    ASSUME Period >= 5 + Size, IInv, InTime, NoTickLost, Underflow
    PROVE  InTime' /\ NoTickLost'
  <1>1. /\ UNCHANGED <<inbox, pc, tick, client>>
        /\ now' = now + 1 /\ spent' = 0
        /\ spent = Period \/ (~NotifierReady /\ ~ServerReady)
        /\ notifier' = IF notifier = "await" THEN "woken" ELSE notifier
    BY DEF Underflow, qVars, clientVars
  <1>2. TypeOK /\ Desk
    BY DEF IInv
  <1>3. notifier = "await"
    <2>1. CASE spent = Period
      <3>1. CallsLeft \in Nat /\ (CallsLeft = 0 => notifier = "await")
        BY <1>2, CallsLeftIs DEF TypeOK
      <3>2. CallsLeft <= 0
        BY <1>2, <2>1, <3>1, CallsLeftIs DEF InTime
      <3> QED BY <3>1, <3>2
    <2>2. CASE ~NotifierReady /\ ~ServerReady
      <3>1. pc = "receive" /\ inbox = <<>> /\ notifier \notin {"arm", "woken"}
        BY <2>2 DEF NotifierReady, ServerReady
      <3> QED BY <1>2, <3>1, Idle DEF TypeOK
    <2> QED BY <1>1, <2>1, <2>2
  <1>4. notifier' = "woken"
    BY <1>1, <1>3
  <1>5. InTime'
    <2>1. CallsLeft' = 2 * Len(inbox) + Busy + 4
      <3>1. CallsLeft' = 2 * Len(inbox') + Busy' + 4
        BY <1>4 DEF CallsLeft
      <3>2. Busy' = Busy
        BY <1>1 DEF Busy, Waiting
      <3> QED BY <1>1, <3>1, <3>2
    <2>2. 2 * Len(inbox) + Busy <= 1 + Size /\ Len(inbox) \in Nat /\ Busy \in Nat
      BY <1>3, LittleToDo, CallsLeftIs
    <2>3. spent' + CallsLeft' <= Period
      BY <1>1, <2>1, <2>2, ClockAssumption, SizeIsNat
    <2> QED BY <2>3 DEF InTime
  <1>6. NoTickLost'
    BY <1>1, <1>2, <1>3, <1>4, ClockAssumption DEF NoTickLost, TypeOK
  <1> QED BY <1>5, <1>6

(* Every step of the server makes what it has to do less: it receives a    *)
(* request, is done with one, enters removeExpiredTasks or looks at one    *)
(* more task there.                                                        *)
LEMMA ServerGetsOn ==
    ASSUME IInv, Receive \/ CountTick \/ ReleaseTask \/ EndRelease \/ HandleTime \/ HandleDelay
    PROVE  \E a, b \in Nat : /\ a = 2 * Len(inbox) + Busy /\ b = 2 * Len(inbox') + Busy'
                             /\ b <= a - 1
  <1>1. TypeOK /\ Desk /\ IInv'
    BY ReceiveKeeps, CountTickKeeps, ReleaseTaskKeeps, EndReleaseKeeps, HandleTimeKeeps,
       HandleDelayKeeps DEF IInv
  <1>2. Len(inbox) \in Nat /\ Busy \in Nat
    BY CallsLeftIs
  <1>3. CASE Receive
    <2>1. pc = "receive" /\ pc' = "handle" /\ inbox # <<>> /\ inbox' = Tail(inbox)
      BY <1>3 DEF Receive
    <2>2. Len(inbox') = Len(inbox) - 1
      BY <1>1, <2>1, HeadTailProperties DEF TypeOK
    <2>3. Busy = 0 /\ Busy' = 1
      BY <2>1 DEF Busy
    <2>4. Len(inbox) # 0
      BY <1>1, <2>1, EmptySeq DEF TypeOK
    <2> QED BY <1>2, <2>2, <2>3, <2>4
  <1>4. CASE CountTick
    <2>1. pc = "count" /\ inbox' = inbox /\ pc' \in {"receive", "release"}
      BY <1>4 DEF CountTick
    <2>2. Busy = 1 + Size /\ Size \in Nat
      BY <2>1, BusyIs, SizeIsNat
    <2>3. Busy' \in Nat /\ Busy' <= Size
      <3>1. CASE pc' = "receive"
        <4>1. Busy' = 0
          BY <3>1 DEF Busy
        <4> QED BY <2>2, <4>1
      <3>2. CASE pc' = "release"
        <4>1. PICK W : W = Waiting'
          OBVIOUS
        <4>2. Busy' = Cardinality(W)
          BY <3>2, <4>1 DEF Busy
        <4>3. W \subseteq Clients
          BY <4>1 DEF Waiting
        <4>4. Cardinality(W) \in Nat /\ Cardinality(W) <= Size
          BY <4>3, FS_Subset, FS_CardinalityType, ClockAssumption DEF Size
        <4> QED BY <4>2, <4>4
      <3> QED BY <2>1, <3>1, <3>2
    <2> QED BY <1>2, <2>1, <2>2, <2>3
  <1>5. CASE ReleaseTask
    <2>1. /\ pc = "release" /\ inbox' = inbox
          /\ client' = [client EXCEPT ![curr] = "running"]
          /\ pc' = IF curr = tail THEN "receive" ELSE "release"
      BY <1>5 DEF ReleaseTask
    <2>2. curr \in Waiting
      BY <2>1, CurrWaits
    <2>3. Waiting' = Waiting \ {curr}
      BY <1>1, <2>1 DEF Waiting, TypeOK, Delays
    <2>4. PICK k \in Nat : k = Cardinality(Waiting) /\ k > 0
      BY <2>1, <2>2, WaitingCounted
    <2>5. Busy = k
      BY <2>1, <2>4 DEF Busy
    <2>6. Cardinality(Waiting \ {curr}) = k - 1
      BY <2>2, <2>4, FS_RemoveElement, WaitingCounted
    <2>7. Busy' \in Nat /\ Busy' <= k - 1
      <3>1. CASE curr = tail
        <4>1. Busy' = 0
          BY <2>1, <3>1 DEF Busy
        <4> QED BY <2>4, <4>1
      <3>2. CASE curr # tail
        <4>1. Busy' = Cardinality(Waiting')
          BY <2>1, <3>2 DEF Busy
        <4>2. Busy' = k - 1
          BY <2>3, <2>6, <4>1
        <4> QED BY <2>4, <4>2
      <3> QED BY <3>1, <3>2
    <2> QED BY <1>2, <2>1, <2>5, <2>7
  <1>6. CASE EndRelease
    <2>1. pc = "release" /\ pc' = "receive" /\ inbox' = inbox
      BY <1>6 DEF EndRelease
    <2>2. Busy \in Nat /\ Busy > 0
      BY <2>1, CurrWaits, WaitingCounted DEF Busy
    <2>3. Busy' = 0
      BY <2>1 DEF Busy
    <2> QED BY <1>2, <2>1, <2>2, <2>3
  <1>7. CASE HandleTime \/ HandleDelay
    <2>1. pc = "handle" /\ pc' = "receive" /\ inbox' = inbox
      BY <1>7 DEF HandleTime, HandleDelay
    <2>2. Busy = 1 /\ Busy' = 0
      BY <2>1 DEF Busy
    <2> QED BY <1>2, <2>1, <2>2
  <1> QED BY <1>3, <1>4, <1>5, <1>6, <1>7

(* Every step of the notifier and the server is one less to make.          *)
LEMMA CallsInTime ==
    ASSUME IInv, InTime, NoTickLost, ClockTasks
    PROVE  InTime' /\ NoTickLost'
  <1>1. TypeOK /\ Desk
    BY DEF IInv
  <1>2. /\ spent \in Nat /\ Period \in Nat /\ Len(inbox) \in Nat /\ Busy \in Nat
        /\ now \in Nat /\ tick \in Nat
    BY <1>1, CallsLeftIs, ClockAssumption DEF TypeOK
  <1>3. Spend
    BY DEF ClockTasks, NotifierAwaits, NotifierSends, Receive, HandleNotification,
           CountTick, ReleaseTask, EndRelease, HandleTime, HandleDelay
  <1>4. spent' \in Nat /\ spent' <= Period /\ spent' <= spent + 1
    BY <1>2, <1>3, <1>1, ClockAssumption DEF Spend, TypeOK
  <1>5. ASSUME CallsLeft' = 0 \/ (CallsLeft \in Nat /\ CallsLeft' \in Nat /\ CallsLeft' <= CallsLeft - 1)
        PROVE  InTime'
    BY <1>2, <1>4, <1>5 DEF InTime
  <1>6. CASE NotifierAwaits
    <2>1. notifier = "arm" /\ notifier' = "await" /\ UNCHANGED <<now, pc, tick>>
      BY <1>6 DEF NotifierAwaits
    <2>2. CallsLeft' = 0
      BY <2>1 DEF CallsLeft
    <2>3. NoTickLost'
      BY <1>2, <2>1 DEF NoTickLost
    <2> QED BY <1>5, <2>2, <2>3
  <1>7. CASE NotifierSends
    <2>1. /\ notifier = "woken" /\ notifier' = "sent" /\ UNCHANGED <<now, pc, tick>>
          /\ client' = client /\ inbox' = Append(inbox, Notification)
      BY <1>7 DEF NotifierSends, clientVars
    <2>2. Len(inbox') = Len(inbox) + 1
      BY <1>1, <2>1, LateIs, AppendProperties DEF TypeOK
    <2>3. CallsLeft' = 2 * Len(inbox') + Busy + 1 /\ CallsLeft = 2 * Len(inbox) + Busy + 4
      <3>1. Busy' = Busy
        BY <2>1 DEF Busy, Waiting
      <3> QED BY <2>1, <3>1 DEF CallsLeft
    <2>4. CallsLeft \in Nat /\ CallsLeft' \in Nat /\ CallsLeft' <= CallsLeft - 1
      BY <1>2, <2>2, <2>3
    <2>5. NoTickLost'
      BY <1>2, <2>1 DEF NoTickLost
    <2> QED BY <1>5, <2>4, <2>5
  <1>8. CASE Receive \/ CountTick \/ ReleaseTask \/ EndRelease \/ HandleTime \/ HandleDelay
    <2>1. /\ ~NotifierReady /\ notifier' = notifier /\ now' = now
          /\ \/ pc # "count" /\ pc' # "count" /\ tick' = tick
             \/ pc = "count" /\ pc' # "count" /\ tick' = tick + 1
      BY <1>8 DEF Receive, CountTick, ReleaseTask, EndRelease, HandleTime, HandleDelay
    <2>2. NoTickLost'
      BY <1>2, <2>1 DEF NoTickLost
    <2>3. CASE notifier = "await"
      <3>1. CallsLeft' = 0
        BY <2>1, <2>3 DEF CallsLeft
      <3> QED BY <1>5, <2>2, <3>1
    <2>4. CASE notifier = "sent"
      <3>1. CallsLeft' = 2 * Len(inbox') + Busy' + 1 /\ CallsLeft = 2 * Len(inbox) + Busy + 1
        BY <2>1, <2>4 DEF CallsLeft
      <3>2. PICK a \in Nat, b \in Nat :
                 /\ a = 2 * Len(inbox) + Busy /\ b = 2 * Len(inbox') + Busy' /\ b <= a - 1
        BY <1>8, ServerGetsOn
      <3>3. b <= a - 1
        BY <3>2
      <3>4. a \in Nat /\ b \in Nat
        OBVIOUS
      <3>5. CallsLeft = a + 1 /\ CallsLeft' = b + 1
        BY <3>1, <3>2
      <3> QED BY <1>5, <2>2, <3>3, <3>4, <3>5
    <2> QED BY <1>1, <2>1, <2>3, <2>4 DEF NotifierReady, TypeOK
  <1>9. CASE HandleNotification
    <2>1. /\ pc = "handle" /\ req.type = "notification" /\ notifier' = "arm"
          /\ pc' = "count" /\ UNCHANGED <<now, inbox, tick>>
      BY <1>9 DEF HandleNotification, AnswerNotifier
    <2>2. notifier = "sent" /\ inbox = <<>>
      BY <1>1, <2>1 DEF Desk, IsAsk, Delays
    <2>3. CallsLeft' = 1
      BY <2>1 DEF CallsLeft
    <2>4. CallsLeft = 2 * Len(inbox) + Busy + 1 /\ Len(inbox) = 0 /\ Busy = 1
      BY <2>1, <2>2 DEF CallsLeft, Busy
    <2>5. NoTickLost'
      BY <1>2, <2>1, <2>2 DEF NoTickLost
    <2> QED BY <1>5, <2>3, <2>4, <2>5
  <1> QED BY <1>6, <1>7, <1>8, <1>9 DEF ClockTasks

(* Clients ask only while the notifier waits for the timer.                *)
LEMMA AskInTime ==
    ASSUME IInv, InTime, NoTickLost, NEW c \in Clients,
           AskTime(c) \/ \E d \in Ticks : AskDelay(c, "delay", d) \/ AskDelay(c, "delay_until", d)
    PROVE  InTime' /\ NoTickLost'
  <1>1. /\ UNCHANGED <<now, spent, notifier, pc, tick>> /\ ClientsRun
    BY DEF AskTime, AskDelay, Ask
  <1>2. TypeOK /\ Desk
    BY DEF IInv
  <1>3. pc = "receive" /\ inbox = <<>> /\ notifier \notin {"arm", "woken"}
    BY <1>1 DEF ClientsRun, NotifierReady, ServerReady
  <1>4. notifier = "await"
    BY <1>2, <1>3, Idle DEF TypeOK
  <1>5. CallsLeft = 0 /\ CallsLeft' = 0
    BY <1>1, <1>4 DEF CallsLeft
  <1> QED BY <1>1, <1>5 DEF InTime, NoTickLost

(* Every underflow of the timer is counted, however many clients there are *)
(* and whatever they ask (clockserver.c:20-31, 127-148, 164-190), if       *)
(* between two of them there is time for all the work there can be before  *)
(* the notifier waits again: the tick before that to be counted and, one   *)
(* Reply each, every client to be released; the notification to be sent,   *)
(* received and answered; and the notifier to call AwaitEvent.             *)
THEOREM EveryTickCounted ==
    ASSUME Period >= 5 + Cardinality(Clients)
    PROVE  Spec => []NoTickLost
  <1>1. Init => InTime /\ NoTickLost
    <2>1. Init => spent = 0 /\ CallsLeft = 1
      BY DEF Init, CallsLeft
    <2>2. Init => InTime
      BY <2>1, SizeIsNat, ClockAssumption DEF InTime, Size
    <2> QED BY <2>2 DEF Init, NoTickLost
  <1>2. IInv /\ InTime /\ NoTickLost /\ [Next]_vars => InTime' /\ NoTickLost'
    <2>1. SUFFICES ASSUME IInv, InTime, NoTickLost, [Next]_vars
                   PROVE  InTime' /\ NoTickLost'
      OBVIOUS
    <2>2. CASE Underflow
      BY <2>1, <2>2, UnderflowInTime DEF Size
    <2>3. CASE ClockTasks
      BY <2>1, <2>3, CallsInTime
    <2>4. CASE \E c \in Clients :
                 \/ AskTime(c)
                 \/ \E d \in Ticks : AskDelay(c, "delay", d) \/ AskDelay(c, "delay_until", d)
      BY <2>1, <2>4, AskInTime
    <2>5. CASE UNCHANGED vars
      <3>1. UNCHANGED <<now, spent, notifier, inbox, pc, tick, client>>
        BY <2>5 DEF vars, clientVars
      <3>2. Busy' = Busy
        BY <3>1 DEF Busy, Waiting
      <3> QED BY <2>1, <3>1, <3>2 DEF InTime, CallsLeft, NoTickLost
    <2> QED BY <2>1, <2>2, <2>3, <2>4, <2>5 DEF Next
  <1> QED BY <1>1, <1>2, Inductive, PTL DEF Spec
=============================================================================
