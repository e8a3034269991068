---------------------------- MODULE SensorProofs ----------------------------
(***************************************************************************)
(* The claims an engineer has with the server follow from the last sensor  *)
(* of his train, on every track, for any number of trains.                 *)
(*                                                                         *)
(* A claim is made by the engineer, waits for the courier or is carried by *)
(* him, lies in the server's queue and at last is the attribution.  The    *)
(* invariant follows it along this way.                                    *)
(***************************************************************************)
EXTENDS SensorServer, SequenceTheorems, WellFoundedInduction, TLAPS

(* No two trains go towards each other on the same track. *)
OneWay == \A s \in Sensors : on[s] # <<>> /\ on[Opposite(s)] # <<>> => Opposite(s) = s

(* The engineer of t has made his first claim. *)
Begun(t) == claimer[t].pc # "none"

(* The engineer of train t has not begun before his train is put down, and *)
(* the server knows him once it has taken his first claim.                 *)
Known(t) ==
    /\ Begun(t) => Placed(t)
    /\ Registered(t) <=> /\ Begun(t)
                         /\ claimer[t].request.type = "initialClaim" => claimer[t].pc \in {"ask", "asked"}
    /\ prevSensor[t] # NoSensor => Begun(t)

(* A claim in the server's queue is the one its courier waits with. *)
Carried(t) ==
    /\ \A i \in DOMAIN inbox :
          inbox[i].type \in ClaimTypes /\ inbox[i].tid = t
             => /\ claimer[t].pc = "sent" /\ inbox[i] = claimer[t].request
                /\ \A j \in DOMAIN inbox : inbox[j].type \in ClaimTypes /\ inbox[j].tid = t => i = j
    /\ claimer[t].request.tid = t
    /\ claimer[t].request.type = "initialClaim" => claimer[t].request.claim.secondary = NoSensor

(* The courier has asked its engineer once, and is in his queue or waits *)
(* for a claim; none has been put by for it then.                        *)
Waiting(t) ==
    /\ \A i \in DOMAIN mail[t] :
          mail[t][i].type = "sensorCourierRequest"
             => /\ claimer[t].pc = "asked" /\ ~sensorCourierTid[t]
                /\ \A j \in DOMAIN mail[t] : mail[t][j].type = "sensorCourierRequest" => i = j
    /\ sensorCourierTid[t] => claimer[t].pc = "asked" /\ outstandingClaim[t] = NoClaim

(* Only a train that has been seen turns round. *)
Turned(t) ==
    \A i \in DOMAIN mail[t] : mail[t][i].type = "commandWorkerReverseSet" => prevSensor[t] # NoSensor

(* Hits go to engineers who have begun. *)
Delivered ==
    /\ \A i \in DOMAIN sensorQueue : Begun(sensorQueue[i].to)
    /\ courier.pc = "deliver" => Begun(courier.delivery.to)
    /\ \A t \in Trains :
          \A i \in DOMAIN mail[t] : mail[t][i].type = "updateSensor" => Begun(t)

OneAttribution ==
    \A i, j \in DOMAIN attrs : attrs[i].engineerTid = attrs[j].engineerTid => i = j

(* The claim the engineer of t has made last, wherever it is; it follows   *)
(* from his last sensor, unless a reversal has left it as it was.          *)
Latest(t) ==
    IF outstandingClaim[t] # NoClaim THEN outstandingClaim[t]
    ELSE IF claimer[t].pc \in {"claim", "sent"} THEN claimer[t].request.claim
    ELSE Claims(t)

Follows(t) == t \notin left /\ prevSensor[t] # NoSensor => Latest(t) = NextClaims(prevSensor[t])

ClaimInv ==
    /\ TypeOK /\ OneWay /\ Delivered /\ OneAttribution
    /\ \A t \in Trains : Known(t) /\ Carried(t) /\ Waiting(t) /\ Turned(t) /\ Follows(t)
-----------------------------------------------------------------------------
(* Queues. *)

LEMMA AppendElements ==
    ASSUME NEW S, NEW s \in Seq(S), NEW x \in S
    PROVE  /\ Append(s, x) \in Seq(S)
           /\ DOMAIN s = 1 .. Len(s) /\ Len(s) \in Nat
           /\ Len(Append(s, x)) = Len(s) + 1
           /\ DOMAIN Append(s, x) = 1 .. Len(s) + 1
           /\ \A i \in DOMAIN s : Append(s, x)[i] = s[i]
           /\ Append(s, x)[Len(s) + 1] = x
  OBVIOUS

LEMMA TailElements ==
    ASSUME NEW S, NEW s \in Seq(S), s # <<>>
    PROVE  /\ Tail(s) \in Seq(S) /\ Head(s) \in S /\ Head(s) = s[1]
           /\ DOMAIN s = 1 .. Len(s) /\ Len(s) \in Nat \ {0} /\ 1 \in DOMAIN s
           /\ DOMAIN Tail(s) = 1 .. Len(s) - 1 /\ Len(Tail(s)) = Len(s) - 1
           /\ \A i \in DOMAIN Tail(s) : i + 1 \in DOMAIN s /\ Tail(s)[i] = s[i + 1]
  OBVIOUS

(* What holds of every element goes on to hold. *)
LEMMA AppendKeeps ==
    ASSUME NEW S, NEW s \in Seq(S), NEW x \in S, NEW G, \A i \in DOMAIN s : s[i] \in G, x \in G
    PROVE  \A i \in DOMAIN Append(s, x) : Append(s, x)[i] \in G
  <1>1. \A i \in DOMAIN Append(s, x) : i \in DOMAIN s \/ i = Len(s) + 1
    BY AppendElements
  <1> QED BY <1>1, AppendElements

LEMMA SeqElement ==
    ASSUME NEW S, NEW s \in Seq(S), NEW i \in DOMAIN s
    PROVE  s[i] \in S /\ i \in 1 .. Len(s) /\ Len(s) \in Nat /\ i \in Nat /\ s # <<>>
  OBVIOUS
-----------------------------------------------------------------------------
(* The track. *)

LEMMA TrackFacts ==
    ASSUME NEW s \in Sensors
    PROVE  /\ ReverseOf[s] \in Sensors /\ NextSensor[s] \in Sensors
           /\ Opposite(s) \in Sensors /\ Before(s) \in Sensors
           /\ Opposite(Opposite(s)) = s
           /\ NextSensor[Before(s)] = s /\ Before(NextSensor[s]) = s
           /\ Opposite(Before(s)) = ReverseOf[s]
           /\ NextSensor[s] # NoSensor /\ s # NoSensor /\ s \in Nat
           /\ Secondary[s] \in Sensors \cup {NoSensor}
  <1>1. /\ ReverseOf[s] \in Sensors /\ NextSensor[s] \in Sensors /\ ReverseOf[ReverseOf[s]] = s
        /\ Secondary[s] \in Sensors \cup {NoSensor}
    BY SensorServerAssumption
  <1>2. ReverseOf[NextSensor[s]] \in Sensors /\ ReverseOf[ReverseOf[NextSensor[s]]] = NextSensor[s]
    BY <1>1, SensorServerAssumption
  <1>3. NextSensor[ReverseOf[NextSensor[s]]] = ReverseOf[s]
    BY SensorServerAssumption
  <1>4. NextSensor[ReverseOf[s]] \in Sensors
    BY <1>1, SensorServerAssumption
  <1>5. /\ ReverseOf[NextSensor[ReverseOf[s]]] \in Sensors
        /\ ReverseOf[ReverseOf[NextSensor[ReverseOf[s]]]] = NextSensor[ReverseOf[s]]
        /\ NextSensor[ReverseOf[NextSensor[ReverseOf[s]]]] = ReverseOf[ReverseOf[s]]
    BY <1>1, <1>4, SensorServerAssumption
  <1>6. Opposite(s) \in Sensors /\ Opposite(Opposite(s)) = s
    BY <1>1, <1>2, <1>3 DEF Opposite
  <1>7. Before(s) \in Sensors /\ NextSensor[Before(s)] = s /\ Opposite(Before(s)) = ReverseOf[s]
    BY <1>1, <1>5 DEF Before, Opposite
  <1>8. Before(NextSensor[s]) = s
    BY <1>1, <1>2, <1>3 DEF Before, Opposite
  <1>9. s \in Nat /\ NextSensor[s] \in Nat
    <2>1. \A x \in Sensors : x \in 0 .. 79
      BY SensorServerAssumption
    <2> QED BY <1>1, <2>1
  <1> QED BY <1>1, <1>6, <1>7, <1>8, <1>9 DEF NoSensor

LEMMA NextClaimsFacts ==
    ASSUME NEW s \in Sensors
    PROVE  NextClaims(s) \in ClaimRecords /\ NextClaims(s) # NoClaim
  BY TrackFacts DEF NextClaims, ClaimRecords, NoClaim
-----------------------------------------------------------------------------
(* The server's search among the attributions. *)

LEMMA LeastExists ==
    ASSUME NEW S, S \subseteq Nat, S # {}
    PROVE  \E k \in S : \A j \in S : k <= j
  <1>1. PICK k \in S : \A j \in S : ~(<<j, k>> \in OpToRel(<, Nat))
    BY NatLessThanWellFounded, WFMin
  <1>2. \A j \in S : ~(j < k)
    BY <1>1 DEF OpToRel
  <1>3. k \in Nat /\ \A j \in S : j \in Nat
    OBVIOUS
  <1>4. \A j \in S : k <= j
    BY <1>2, <1>3
  <1> QED BY <1>4

(* The n-th attribution takes the place of the m-th, the best so far. *)
Better(indices, n, m) ==
    /\ n \in indices
    /\ m = 0 \/ attrs[m].prevTime = NoTime \/ attrs[n].prevTime < attrs[m].prevTime

(* f is the best among the first n attributions, for each n up to k. *)
Search(indices, k, f) ==
    f = [n \in 0 .. k |-> IF n = 0 THEN 0 ELSE IF Better(indices, n, f[n - 1]) THEN n ELSE f[n - 1]]

LEMMA SearchExists ==
    ASSUME NEW indices, NEW k \in Nat
    PROVE  \E f : Search(indices, k, f)
  <1> DEFINE Bad == {j \in Nat : ~\E f : Search(indices, j, f)}
  <1>1. SUFFICES ASSUME Bad # {} PROVE FALSE
    OBVIOUS
  <1>2. PICK b \in Bad : \A j \in Bad : b <= j
    BY <1>1, LeastExists
  <1>3. CASE b = 0
    <2>1. PICK f : f = [j \in 0 .. 0 |-> 0]
      OBVIOUS
    <2>2. \A j \in 0 .. 0 : j = 0
      OBVIOUS
    <2>3. f = [n \in 0 .. 0 |-> IF n = 0 THEN 0 ELSE IF Better(indices, n, f[n - 1]) THEN n ELSE f[n - 1]]
      BY <2>1, <2>2, Zenon
    <2> QED BY <1>3, <2>3 DEF Search
  <1>4. CASE b # 0
    <2>1. b \in Nat /\ b - 1 \in Nat /\ ~(b <= b - 1)
      BY <1>4
    <2>2. PICK f : Search(indices, b - 1, f)
      BY <1>2, <2>1
    <2>3. PICK g : g = [n \in 0 .. b |-> IF n = b THEN IF Better(indices, b, f[b - 1]) THEN b ELSE f[b - 1] ELSE f[n]]
      OBVIOUS
    <2>4. \A n \in 0 .. b - 1 :
            f[n] = IF n = 0 THEN 0 ELSE IF Better(indices, n, f[n - 1]) THEN n ELSE f[n - 1]
      BY <2>2, Zenon DEF Search
    <2>5. ASSUME NEW n \in 0 .. b
          PROVE  g[n] = IF n = 0 THEN 0 ELSE IF Better(indices, n, g[n - 1]) THEN n ELSE g[n - 1]
      <3>1. CASE n = b
        <4>1. b - 1 \in 0 .. b /\ b - 1 # b /\ b \in 0 .. b
          BY <2>1
        <4>2. g[b - 1] = f[b - 1] /\ g[b] = IF Better(indices, b, f[b - 1]) THEN b ELSE f[b - 1]
          BY <2>3, <4>1
        <4> QED BY <1>4, <3>1, <4>2
      <3>2. CASE n # b
        <4>1. n \in 0 .. b - 1 /\ (n # 0 => n - 1 \in 0 .. b /\ n - 1 # b)
          BY <2>1, <3>2
        <4>2. g[n] = f[n] /\ (n # 0 => g[n - 1] = f[n - 1])
          BY <2>3, <3>2, <4>1
        <4> QED BY <2>4, <4>1, <4>2
      <3> QED BY <3>1, <3>2
    <2>6. g = [n \in 0 .. b |-> g[n]]
      BY <2>3
    <2>7. Search(indices, b, g)
      BY <2>5, <2>6, Zenon DEF Search
    <2> QED BY <2>7
  <1> QED BY <1>3, <1>4

LEMMA AttrsFacts ==
    ASSUME TypeOK
    PROVE  /\ DOMAIN attrs = 1 .. Len(attrs) /\ Len(attrs) \in Nat
           /\ \A i \in DOMAIN attrs :
                 /\ attrs[i] \in Attributions /\ attrs[i].engineerTid \in Trains
                 /\ attrs[i].prevTime \in Times /\ attrs[i].prevTime \in Int /\ i \in Nat \ {0}
  <1>1. attrs \in Seq(Attributions)
    BY DEF TypeOK
  <1>2. DOMAIN attrs = 1 .. Len(attrs) /\ Len(attrs) \in Nat /\ \A i \in DOMAIN attrs : attrs[i] \in Attributions
    BY <1>1
  <1> QED BY <1>2 DEF Attributions, Times, NoTime

(* What the search of the source returns: one of the claimants if there    *)
(* are any, and of claimants that all have been hit before the one whose   *)
(* hit is the longest ago.                                                 *)
THEOREM EarliestFound ==
    ASSUME TypeOK, NEW indices, indices \subseteq DOMAIN attrs
    PROVE  /\ Earliest(indices) \in indices \cup {0}
           /\ indices # {} => Earliest(indices) \in indices
           /\ (\A j \in indices : attrs[j].prevTime # NoTime)
                 => \A j \in indices : attrs[Earliest(indices)].prevTime <= attrs[j].prevTime
  <1> DEFINE L == Len(attrs)
  <1>1. L \in Nat /\ DOMAIN attrs = 1 .. L /\ \A j \in indices : j \in 1 .. L /\ attrs[j].prevTime \in Int
    BY AttrsFacts
  <1>2. PICK f : f = CHOOSE g : Search(indices, L, g)
    OBVIOUS
  <1>3. Search(indices, L, f)
    BY <1>1, <1>2, SearchExists, Zenon
  <1>4. f = CHOOSE g : g = [n \in 0 .. L |->
          IF n = 0 THEN 0 ELSE IF Better(indices, n, g[n - 1]) THEN n ELSE g[n - 1]]
    BY <1>2 DEF Search
  <1>5. Earliest(indices) = f[L]
    BY <1>4 DEF Earliest, Better
  <1>6. \A n \in 0 .. L : f[n] = IF n = 0 THEN 0 ELSE IF Better(indices, n, f[n - 1]) THEN n ELSE f[n - 1]
    BY <1>3, Zenon DEF Search
  <1> DEFINE Good(n) == /\ \/ f[n] = 0 /\ \A j \in indices : j > n
                           \/ f[n] \in indices /\ f[n] <= n
                        /\ (\A j \in indices : attrs[j].prevTime # NoTime)
                              => \A j \in indices : j <= n => attrs[f[n]].prevTime <= attrs[j].prevTime
             Bad == {n \in 0 .. L : ~Good(n)}
  <1>7. Bad = {}
    <2>1. SUFFICES ASSUME Bad # {} PROVE FALSE
      OBVIOUS
    <2>2. Bad \subseteq Nat
      OBVIOUS
    <2>3. PICK b \in Bad : \A j \in Bad : b <= j
      BY <2>1, <2>2, LeastExists
    <2>4. b \in 0 .. L /\ ~Good(b)
      OBVIOUS
    <2>5. b # 0
      <3>1. ASSUME b = 0 PROVE Good(b)
        <4>1. f[0] = 0
          BY <1>1, <1>6
        <4>2. \A j \in indices : j > 0 /\ ~(j <= 0)
          BY <1>1
        <4> QED BY <3>1, <4>1, <4>2
      <3> QED BY <2>4, <3>1
    <2>6. b - 1 \in 0 .. L /\ ~(b <= b - 1) /\ b \in Nat /\ b <= L
      BY <1>1, <2>4, <2>5
    <2>7. Good(b - 1)
      BY <2>3, <2>6
    <2>8. f[b] = IF Better(indices, b, f[b - 1]) THEN b ELSE f[b - 1]
      BY <1>6, <2>4, <2>5
    <2>9. \A j \in indices : j <= b <=> j <= b - 1 \/ j = b
      BY <1>1, <2>6
    <2>10. \A j \in indices : j > b - 1 <=> j > b \/ j = b
      BY <1>1, <2>6
    <2>11. CASE Better(indices, b, f[b - 1])
      <3>1. f[b] = b /\ b \in indices
        BY <2>8, <2>11 DEF Better
      <3>2. ASSUME \A j \in indices : attrs[j].prevTime # NoTime, NEW j \in indices, j <= b
            PROVE  attrs[b].prevTime <= attrs[j].prevTime
        <4>1. CASE j = b
          BY <1>1, <4>1
        <4>2. CASE j <= b - 1
          <5>1. f[b - 1] \in indices
            BY <1>1, <2>6, <2>7, <4>2
          <5>2. f[b - 1] # 0 /\ attrs[f[b - 1]].prevTime # NoTime /\ attrs[f[b - 1]].prevTime \in Int
            BY <1>1, <3>2, <5>1
          <5>3. attrs[b].prevTime < attrs[f[b - 1]].prevTime
            BY <2>11, <5>2 DEF Better
          <5>4. attrs[f[b - 1]].prevTime <= attrs[j].prevTime
            BY <2>7, <3>2, <4>2
          <5> QED BY <1>1, <3>1, <5>2, <5>3, <5>4
        <4> QED BY <2>9, <3>2, <4>1, <4>2
      <3> QED BY <2>4, <2>6, <3>1, <3>2
    <2>12. CASE ~Better(indices, b, f[b - 1])
      <3>1. f[b] = f[b - 1]
        BY <2>8, <2>12
      <3>2. f[b - 1] = 0 => b \notin indices
        BY <2>12 DEF Better
      <3>3. f[b - 1] \in indices => f[b - 1] <= b
        BY <1>1, <2>6, <2>7
      <3>4. ASSUME \A j \in indices : attrs[j].prevTime # NoTime, NEW j \in indices, j <= b
            PROVE  attrs[f[b]].prevTime <= attrs[j].prevTime
        <4>1. CASE j = b
          <5>1. f[b - 1] \in indices
            BY <2>7, <3>2, <4>1
          <5>2. attrs[f[b - 1]].prevTime \in Int /\ attrs[b].prevTime \in Int
            BY <1>1, <4>1, <5>1
          <5>3. ~(attrs[b].prevTime < attrs[f[b - 1]].prevTime)
            BY <2>12, <4>1 DEF Better
          <5> QED BY <3>1, <4>1, <5>2, <5>3
        <4>2. CASE j <= b - 1
          BY <2>7, <3>1, <3>4, <4>2
        <4> QED BY <2>9, <3>4, <4>1, <4>2
      <3>5. (f[b] = 0 /\ \A j \in indices : j > b) \/ (f[b] \in indices /\ f[b] <= b)
        BY <2>7, <2>10, <3>1, <3>2, <3>3
      <3> QED BY <2>4, <3>4, <3>5
    <2> QED BY <2>11, <2>12
  <1>8. Good(L)
    BY <1>1, <1>7
  <1>9. \A j \in indices : j <= L /\ ~(j > L)
    BY <1>1
  <1> QED BY <1>5, <1>8, <1>9

LEMMA ClaimantFound ==
    ASSUME TypeOK, NEW s \in Sensors, Claimant(s) # 0
    PROVE  /\ Claimant(s) \in DOMAIN attrs
           /\ attrs[Claimant(s)].primary = s \/ attrs[Claimant(s)].secondary = s
  <1>1. ByPrimary(s) \subseteq DOMAIN attrs /\ BySecondary(s) \subseteq DOMAIN attrs
    BY DEF ByPrimary, BySecondary
  <1>2. Claimant(s) \in ByPrimary(s) \cup BySecondary(s)
    BY <1>1, EarliestFound DEF Claimant
  <1> QED BY <1>2 DEF ByPrimary, BySecondary
-----------------------------------------------------------------------------
(* Types. *)

LEMMA MessageFacts ==
    /\ \A m \in SensorMessages :
          /\ m.type = "newSensor" => m.report \in Reports
          /\ m.type \in ClaimTypes => m \in Requests
    /\ \A m \in EngineerMessages : m.type = "updateSensor" => m.sensor \in Sensors /\ m.time \in Times
    /\ [type |-> "requestSensor"] \in SensorMessages
    /\ \A r \in Reports : [type |-> "newSensor", report |-> r] \in SensorMessages
    /\ Requests \subseteq SensorMessages
    /\ \A r \in Requests : r.type \in ClaimTypes /\ r.tid \in Trains /\ r.claim \in ClaimRecords
    /\ [type |-> "sensorCourierRequest"] \in EngineerMessages
    /\ [type |-> "commandWorkerReverseSet"] \in EngineerMessages
    /\ \A s \in Sensors, i \in Times : [type |-> "updateSensor", sensor |-> s, time |-> i] \in EngineerMessages
  BY DEF SensorMessages, EngineerMessages, Requests, ClaimTypes

LEMMA TypeInit == Init => TypeOK
  <1> SUFFICES ASSUME Init PROVE TypeOK
    OBVIOUS
  <1>1. NoClaim \in ClaimRecords /\ NoReport \in Reports /\ NoTime \in Times
    BY DEF NoClaim, NoReport, ClaimRecords, Reports, Times
  <1>2. \A t \in Trains : [pc |-> "none", request |-> Request("initialClaim", t, NoClaim)]
            \in [pc : {"none", "claim", "sent", "ask", "asked"}, request : Requests]
    BY <1>1 DEF Request, Requests, ClaimTypes
  <1>3. claimer \in [Trains -> [pc : {"none", "claim", "sent", "ask", "asked"}, request : Requests]]
    BY <1>2, Zenon DEF Init
  <1>4. courier \in [pc : {"ask", "waits", "deliver", "delivered"}, delivery : Deliveries \cup {NoDelivery}]
        /\ courier.pc # "deliver"
    BY DEF Init
  <1>5. /\ outstandingClaim \in [Trains -> ClaimRecords] /\ creationTime \in [Trains -> Times]
        /\ report \in Reports /\ timestamp \in Times
        /\ prevSensor \in [Trains -> Sensors \cup {NoSensor}]
    BY <1>1 DEF Init
  <1>6. /\ on \in [Sensors -> Seq(Trains)] /\ inbox \in Seq(SensorMessages) /\ attrs \in Seq(Attributions)
        /\ sensorQueue \in Seq(Deliveries) /\ mail \in [Trains -> Seq(EngineerMessages)]
        /\ hits \in [Trains -> Seq(Sensors)]
    BY DEF Init
  <1>7. /\ unsure = {} /\ triggered = {} /\ states = {} /\ now \in Nat /\ fresh = {}
        /\ worker \in {"reads", "sends", "waits"} /\ engineerCourierTid \in BOOLEAN
        /\ sensorCourierTid \in [Trains -> BOOLEAN] /\ left = {}
    BY DEF Init
  <1> QED BY <1>3, <1>4, <1>5, <1>6, <1>7 DEF TypeOK

LEMMA PassType ==
    ASSUME TypeOK, NEW t \in Trains, NEW s \in Sensors, MayPass(t, s), Pass(t, s)
    PROVE  on' \in [Sensors -> Seq(Trains)]
  <1>1. Before(s) \in Sensors /\ on \in [Sensors -> Seq(Trains)] /\ on[Before(s)] # <<>>
    BY TrackFacts DEF TypeOK, MayPass
  <1>2. Tail(on[Before(s)]) \in Seq(Trains)
    BY <1>1
  <1>3. Append(on[s], t) \in Seq(Trains) /\ Append(Tail(on[Before(s)]), t) \in Seq(Trains)
    BY <1>1, <1>2
  <1> QED BY <1>1, <1>2, <1>3 DEF Pass

LEMMA RailwayType ==
    ASSUME TypeOK, NEW t \in Trains, NEW s \in Sensors,
           Hit(t, s) \/ Miss(t, s) \/ ReverseTrain(t, s) \/ Initialize(t, s)
    PROVE  TypeOK'
  <1> USE DEF trackVars, workerVars, serverVars, engineerVars
  <1>1. CASE Hit(t, s)
    <2>1. on' \in [Sensors -> Seq(Trains)]
      BY <1>1, PassType DEF Hit
    <2>2. hits' \in [Trains -> Seq(Sensors)]
      BY <1>1 DEF Hit, TypeOK
    <2> QED BY <1>1, <2>1, <2>2 DEF Hit, TypeOK
  <1>2. CASE Miss(t, s)
    <2>1. on' \in [Sensors -> Seq(Trains)]
      BY <1>2, PassType DEF Miss
    <2> QED BY <1>2, <2>1 DEF Miss, TypeOK
  <1>3. CASE ReverseTrain(t, s)
    <2>1. on' \in [Sensors -> Seq(Trains)]
      <3>1. <<>> \in Seq(Trains) /\ <<t>> \in Seq(Trains)
        OBVIOUS
      <3> QED BY <1>3, <3>1 DEF ReverseTrain, TypeOK
    <2>2. mail' \in [Trains -> Seq(EngineerMessages)]
      BY <1>3, MessageFacts DEF ReverseTrain, TypeOK
    <2>3. now' \in Nat
      BY <1>3 DEF ReverseTrain, TypeOK
    <2> QED BY <1>3, <2>1, <2>2, <2>3 DEF ReverseTrain, TypeOK
  <1>4. CASE Initialize(t, s)
    <2>1. on' \in [Sensors -> Seq(Trains)]
      BY <1>4, TrackFacts DEF Initialize, TypeOK
    <2>2. [pc |-> "claim", request |-> Request("initialClaim", t, [primary |-> s, secondary |-> NoSensor])]
            \in [pc : {"none", "claim", "sent", "ask", "asked"}, request : Requests]
      BY DEF Request, Requests, ClaimTypes, ClaimRecords
    <2>3. claimer' \in [Trains -> [pc : {"none", "claim", "sent", "ask", "asked"}, request : Requests]]
      BY <1>4, <2>2 DEF Initialize, TypeOK
    <2>4. creationTime' \in [Trains -> Times]
      BY <1>4 DEF Initialize, TypeOK, Times
    <2> QED BY <1>4, <2>1, <2>3, <2>4 DEF Initialize, TypeOK
  <1> QED BY <1>1, <1>2, <1>3, <1>4

LEMMA WorkerType == TypeOK /\ Worker => TypeOK'
  <1> SUFFICES ASSUME TypeOK, Worker PROVE TypeOK'
    OBVIOUS
  <1> USE DEF trackVars, workerVars, serverVars, engineerVars
  <1>1. CASE WorkerSends
    <2>1. [bits |-> FirstByte, time |-> timestamp] \in Reports /\ FirstByte \subseteq fresh
      BY DEF Reports, FirstByte, TypeOK
    <2>2. [type |-> "newSensor", report |-> [bits |-> FirstByte, time |-> timestamp]] \in SensorMessages
      BY <2>1, MessageFacts
    <2>3. inbox' \in Seq(SensorMessages)
      BY <1>1, <2>2 DEF WorkerSends, TypeOK
    <2>4. fresh' \subseteq Sensors
      BY <1>1 DEF WorkerSends, TypeOK
    <2> QED BY <1>1, <2>3, <2>4 DEF WorkerSends, TypeOK
  <1>2. ASSUME NEW held \in SUBSET {s \in states : on[s] # <<>>}, Read(held)
        PROVE  TypeOK'
    <2>1. states' \subseteq Sensors /\ fresh' \subseteq Sensors /\ triggered' = {}
      BY <1>2 DEF Read, Fresh, TypeOK
    <2>2. now' \in Nat /\ timestamp' \in Times
      BY <1>2 DEF Read, TypeOK, Times
    <2> QED BY <1>2, <2>1, <2>2 DEF Read, TypeOK
  <1> QED BY <1>1, <1>2 DEF Worker

LEMMA CouriersType == TypeOK /\ Couriers => TypeOK'
  <1> SUFFICES ASSUME TypeOK, Couriers PROVE TypeOK'
    OBVIOUS
  <1> USE DEF trackVars, workerVars, serverVars, engineerVars
  <1>1. CASE CourierAsks
    <2>1. inbox' \in Seq(SensorMessages)
      BY <1>1, MessageFacts DEF CourierAsks, TypeOK
    <2>2. courier' \in [pc : {"ask", "waits", "deliver", "delivered"}, delivery : Deliveries \cup {NoDelivery}]
          /\ courier'.pc # "deliver"
      BY <1>1 DEF CourierAsks
    <2> QED BY <1>1, <2>1, <2>2 DEF CourierAsks, TypeOK
  <1>2. CASE CourierDelivers
    <2>1. courier.delivery \in Deliveries
      BY <1>2 DEF CourierDelivers, TypeOK
    <2>2. PICK d \in Deliveries : d = courier.delivery
      BY <2>1
    <2>3. d.to \in Trains /\ d.sensor \in Sensors /\ d.time \in Times
      BY <2>2 DEF Deliveries
    <2>4. [type |-> "updateSensor", sensor |-> d.sensor, time |-> d.time] \in EngineerMessages
      BY <2>3, MessageFacts
    <2>5. mail' \in [Trains -> Seq(EngineerMessages)]
      BY <1>2, <2>2, <2>3, <2>4 DEF CourierDelivers, TypeOK
    <2>6. courier' \in [pc : {"ask", "waits", "deliver", "delivered"}, delivery : Deliveries \cup {NoDelivery}]
          /\ courier'.pc # "deliver"
      BY <1>2 DEF CourierDelivers
    <2> QED BY <1>2, <2>5, <2>6 DEF CourierDelivers, TypeOK
  <1>3. ASSUME NEW t \in Trains, ClaimerClaims(t) PROVE TypeOK'
    <2>1. claimer[t].request \in SensorMessages
      BY MessageFacts DEF TypeOK
    <2>2. inbox' \in Seq(SensorMessages)
      BY <1>3, <2>1 DEF ClaimerClaims, TypeOK
    <2>3. claimer' \in [Trains -> [pc : {"none", "claim", "sent", "ask", "asked"}, request : Requests]]
      BY <1>3 DEF ClaimerClaims, TypeOK
    <2> QED BY <1>3, <2>2, <2>3 DEF ClaimerClaims, TypeOK
  <1>4. ASSUME NEW t \in Trains, ClaimerAsks(t) PROVE TypeOK'
    <2>1. mail' \in [Trains -> Seq(EngineerMessages)]
      BY <1>4, MessageFacts DEF ClaimerAsks, TypeOK
    <2>2. claimer' \in [Trains -> [pc : {"none", "claim", "sent", "ask", "asked"}, request : Requests]]
      BY <1>4 DEF ClaimerAsks, TypeOK
    <2> QED BY <1>4, <2>1, <2>2 DEF ClaimerAsks, TypeOK
  <1> QED BY <1>1, <1>2, <1>3, <1>4 DEF Couriers

(* The sensor the server looks at next. *)
HighestBit == CHOOSE x \in report.bits : \A y \in report.bits : x >= y

LEMMA HighestBitFound ==
    ASSUME TypeOK, report.bits # {}
    PROVE  HighestBit \in report.bits /\ HighestBit \in Sensors
  <1>1. report.bits \subseteq Sensors /\ report.bits \subseteq 0 .. 79
    BY SensorServerAssumption DEF TypeOK, Reports
  <1> DEFINE D == {79 - x : x \in report.bits}
  <1>2. D \subseteq Nat /\ D # {}
    BY <1>1
  <1>3. PICK k \in D : \A j \in D : k <= j
    BY <1>2, LeastExists
  <1>4. PICK x \in report.bits : k = 79 - x
    OBVIOUS
  <1>5. ASSUME NEW y \in report.bits PROVE x >= y
    <2>1. 79 - y \in D
      OBVIOUS
    <2>2. 79 - x <= 79 - y
      BY <1>3, <1>4, <2>1
    <2> QED BY <1>1, <2>2
  <1>6. \E z \in report.bits : \A y \in report.bits : z >= y
    BY <1>5
  <1>7. HighestBit \in report.bits
    BY <1>6 DEF HighestBit
  <1> QED BY <1>1, <1>7

LEMMA UnblockType ==
    ASSUME TypeOK, NEW t \in Trains, Unblock(t)
    PROVE  claimer' \in [Trains -> [pc : {"none", "claim", "sent", "ask", "asked"}, request : Requests]]
  BY DEF Unblock, TypeOK

LEMMA ServerType == TypeOK /\ Server => TypeOK'
  <1> SUFFICES ASSUME TypeOK, Server PROVE TypeOK'
    OBVIOUS
  <1> USE DEF trackVars, workerVars, serverVars, engineerVars
  <1> DEFINE CourierOK == /\ courier' \in [pc : {"ask", "waits", "deliver", "delivered"},
                                           delivery : Deliveries \cup {NoDelivery}]
                          /\ courier'.pc = "deliver" => courier'.delivery \in Deliveries
  <1>1. ASSUME NEW type, Receive(type)
        PROVE  Head(inbox) \in SensorMessages /\ Head(inbox).type = type /\ inbox' \in Seq(SensorMessages)
    BY <1>1 DEF Receive, TypeOK
  <1>2. CASE RequestSensor
    <2>1. inbox' \in Seq(SensorMessages)
      BY <1>1, <1>2 DEF RequestSensor
    <2>2. CASE sensorQueue = <<>>
      <3>1. engineerCourierTid' \in BOOLEAN /\ UNCHANGED <<sensorQueue, courier>>
        BY <1>2, <2>2 DEF RequestSensor
      <3>2. CourierOK /\ sensorQueue' \in Seq(Deliveries)
        BY <3>1 DEF TypeOK
      <3>3. UNCHANGED <<on, unsure, triggered, states, now, fresh, timestamp, worker, report, attrs, mail,
                        prevSensor, creationTime, outstandingClaim, sensorCourierTid, claimer, hits, left>>
        BY <1>2 DEF RequestSensor
      <3> QED BY <2>1, <3>1, <3>2, <3>3 DEF TypeOK
    <2>3. CASE sensorQueue # <<>>
      <3>0. sensorQueue' = Tail(sensorQueue) /\ sensorQueue \in Seq(Deliveries)
        BY <1>2, <2>3 DEF RequestSensor, TypeOK
      <3>1. Head(sensorQueue) \in Deliveries /\ sensorQueue' \in Seq(Deliveries)
        BY <2>3, <3>0, TailElements
      <3>2. CourierOK
        BY <1>2, <2>3, <3>1 DEF RequestSensor
      <3> QED BY <1>2, <2>1, <2>3, <3>1, <3>2 DEF RequestSensor, TypeOK
    <2> QED BY <2>2, <2>3
  <1>3. CASE NewSensor
    <2>1. inbox' \in Seq(SensorMessages) /\ report' \in Reports
      BY <1>1, <1>3, MessageFacts DEF NewSensor
    <2> QED BY <1>3, <2>1 DEF NewSensor, TypeOK
  <1>4. CASE Attribute
    <2>1. HighestBit \in report.bits /\ HighestBit \in Sensors
      BY <1>4, HighestBitFound DEF Attribute
    <2>2. report' = [report EXCEPT !.bits = @ \ {HighestBit}]
      BY <1>4 DEF Attribute, HighestBit
    <2>3. report' \in Reports
      BY <2>2 DEF Reports, TypeOK
    <2>4. report.time \in Times
      BY DEF Reports, TypeOK
    <2>5. CASE Claimant(HighestBit) = 0
      <3>1. UNCHANGED <<attrs, engineerCourierTid, sensorQueue, courier>>
        BY <1>4, <2>5 DEF Attribute, HighestBit
      <3>2. UNCHANGED <<on, unsure, triggered, states, now, fresh, timestamp, worker, inbox, mail, prevSensor,
                        creationTime, outstandingClaim, sensorCourierTid, claimer, hits, left>>
        BY <1>4 DEF Attribute
      <3> QED BY <2>3, <3>1, <3>2 DEF TypeOK
    <2>6. CASE Claimant(HighestBit) # 0
      <3>1. PICK i \in DOMAIN attrs : i = Claimant(HighestBit)
        BY <2>1, <2>6, ClaimantFound
      <3>2. attrs[i] \in Attributions /\ attrs[i].engineerTid \in Trains
        BY AttrsFacts
      <3>3. attrs' = [attrs EXCEPT ![i].prevTime = report.time]
        BY <1>4, <2>6, <3>1 DEF Attribute, HighestBit
      <3>4. [attrs[i] EXCEPT !.prevTime = report.time] \in Attributions
        BY <2>4, <3>2 DEF Attributions
      <3>5. attrs' \in Seq(Attributions)
        BY <3>3, <3>4 DEF TypeOK
      <3>6. PICK d \in Deliveries : d = [to |-> attrs[i].engineerTid, sensor |-> HighestBit, time |-> report.time]
        BY <2>1, <2>4, <3>2 DEF Deliveries
      <3>7. Deliver(d)
        BY <1>4, <2>6, <3>1, <3>6 DEF Attribute, HighestBit
      <3>8. CASE engineerCourierTid
        <4>1. CourierOK
          BY <3>7, <3>8 DEF Deliver, TypeOK
        <4>2. engineerCourierTid' \in BOOLEAN /\ UNCHANGED sensorQueue
          BY <3>7, <3>8 DEF Deliver, CourierGone
        <4> QED BY <1>4, <2>3, <3>5, <4>1, <4>2 DEF Attribute, TypeOK
      <3>9. CASE ~engineerCourierTid
        <4>0. sensorQueue' = Append(sensorQueue, d) /\ UNCHANGED <<courier, engineerCourierTid>>
          BY <3>7, <3>9 DEF Deliver
        <4>1. sensorQueue' \in Seq(Deliveries) /\ UNCHANGED <<courier, engineerCourierTid>>
          BY <4>0 DEF TypeOK
        <4> QED BY <1>4, <2>3, <3>5, <4>1 DEF Attribute, TypeOK
      <3> QED BY <3>8, <3>9
    <2> QED BY <2>5, <2>6
  <1>5. CASE ReplyToWorker
    <2>1. report' \in Reports
      BY <1>5 DEF ReplyToWorker, NoReport, Reports, Times
    <2>2. worker' \in {"reads", "sends", "waits"} /\ timestamp' \in Times
      BY <1>5 DEF ReplyToWorker, Times, TypeOK
    <2> QED BY <1>5, <2>1, <2>2 DEF ReplyToWorker, TypeOK
  <1>6. CASE ClaimSensor
    <2>1. PICK m \in Requests : m = Head(inbox)
      BY <1>1, <1>6, MessageFacts DEF ClaimSensor, ClaimTypes
    <2>2. m.tid \in Trains /\ m.claim \in ClaimRecords
      BY MessageFacts
    <2>3. claimer' \in [Trains -> [pc : {"none", "claim", "sent", "ask", "asked"}, request : Requests]]
      BY <1>6, <2>1, <2>2, UnblockType DEF ClaimSensor
    <2>4. attrs' = [i \in DOMAIN attrs |->
            IF attrs[i].engineerTid = m.tid THEN SetAttribution(attrs[i], m.claim) ELSE attrs[i]]
      BY <1>6, <2>1 DEF ClaimSensor
    <2>5. \A i \in DOMAIN attrs : attrs[i] \in Attributions /\ SetAttribution(attrs[i], m.claim) \in Attributions
      BY <2>2, AttrsFacts DEF Attributions, SetAttribution, ClaimRecords
    <2>6. attrs' \in Seq(Attributions)
      BY <2>4, <2>5, AttrsFacts
    <2> QED BY <1>1, <1>6, <2>3, <2>6 DEF ClaimSensor, TypeOK
  <1>7. CASE InitialClaim
    <2>1. PICK m \in Requests : m = Head(inbox)
      BY <1>1, <1>7, MessageFacts DEF InitialClaim, ClaimTypes
    <2>2. m.tid \in Trains /\ m.claim \in ClaimRecords
      BY MessageFacts
    <2>3. claimer' \in [Trains -> [pc : {"none", "claim", "sent", "ask", "asked"}, request : Requests]]
      BY <1>7, <2>1, <2>2, UnblockType DEF InitialClaim
    <2>4. [engineerTid |-> m.tid, prevTime |-> NoTime, primary |-> m.claim.primary, secondary |-> NoSensor]
            \in Attributions
      BY <2>2 DEF Attributions, ClaimRecords, Times
    <2>5. attrs' \in Seq(Attributions)
      BY <1>7, <2>1, <2>4 DEF InitialClaim, TypeOK
    <2> QED BY <1>1, <1>7, <2>3, <2>5 DEF InitialClaim, TypeOK
  <1> QED BY <1>2, <1>3, <1>4, <1>5, <1>6, <1>7 DEF Server

LEMMA ClaimType ==
    ASSUME TypeOK, NEW t \in Trains, NEW c \in ClaimRecords
    PROVE  /\ ReplyToClaimer(t, c) =>
                claimer' \in [Trains -> [pc : {"none", "claim", "sent", "ask", "asked"}, request : Requests]]
           /\ Claim(t, c) \/ Remember(t, c) \/ Keep \/ Leave(t) =>
                /\ claimer' \in [Trains -> [pc : {"none", "claim", "sent", "ask", "asked"}, request : Requests]]
                /\ sensorCourierTid' \in [Trains -> BOOLEAN]
                /\ outstandingClaim' \in [Trains -> ClaimRecords]
                /\ left' \subseteq Trains
  <1>1. [pc |-> "claim", request |-> NextRequest(t, c)]
          \in [pc : {"none", "claim", "sent", "ask", "asked"}, request : Requests]
    BY DEF NextRequest, Request, Requests, ClaimTypes
  <1>2. ReplyToClaimer(t, c) =>
          claimer' \in [Trains -> [pc : {"none", "claim", "sent", "ask", "asked"}, request : Requests]]
    BY <1>1 DEF ReplyToClaimer, TypeOK
  <1>3. Claim(t, c) => /\ sensorCourierTid' \in [Trains -> BOOLEAN]
                       /\ outstandingClaim' \in [Trains -> ClaimRecords]
    BY DEF Claim, TypeOK
  <1>4. Remember(t, c) => /\ sensorCourierTid' \in [Trains -> BOOLEAN]
                          /\ outstandingClaim' \in [Trains -> ClaimRecords]
                          /\ UNCHANGED claimer
    BY DEF Remember, TypeOK
  <1>5. Keep \/ Leave(t) => UNCHANGED <<claimer, sensorCourierTid, outstandingClaim>>
    BY DEF Keep, Leave
  <1>6. Claim(t, c) \/ Remember(t, c) \/ Keep \/ Leave(t) => left' \subseteq Trains
    BY DEF Claim, Remember, Keep, Leave, TypeOK
  <1> QED BY <1>2, <1>3, <1>4, <1>5, <1>6 DEF Claim, TypeOK

LEMMA MailFacts ==
    ASSUME TypeOK, NEW t \in Trains, NEW type, Mail(t, type)
    PROVE  /\ mail[t] \in Seq(EngineerMessages) /\ mail[t] # <<>>
           /\ Head(mail[t]) \in EngineerMessages /\ Head(mail[t]).type = type
           /\ mail' \in [Trains -> Seq(EngineerMessages)]
           /\ mail'[t] = Tail(mail[t]) /\ \A u \in Trains \ {t} : mail'[u] = mail[u]
  <1>1. /\ mail \in [Trains -> Seq(EngineerMessages)] /\ mail[t] # <<>>
        /\ Head(mail[t]).type = type /\ mail' = [mail EXCEPT ![t] = Tail(@)]
    BY DEF Mail, TypeOK
  <1>2. mail[t] \in Seq(EngineerMessages)
    BY <1>1
  <1>3. Head(mail[t]) \in EngineerMessages /\ Tail(mail[t]) \in Seq(EngineerMessages)
    BY <1>1, <1>2, TailElements
  <1> QED BY <1>1, <1>2, <1>3

LEMMA EngineerType ==
    ASSUME TypeOK, NEW t \in Trains, Turned(t), Engineer(t)
    PROVE  TypeOK'
  <1> USE DEF trackVars, workerVars, serverVars, engineerVars
  <1>1. CASE UpdateSensor(t)
    <2>1. PICK m \in EngineerMessages : m = Head(mail[t]) /\ m.type = "updateSensor"
      BY <1>1, MailFacts DEF UpdateSensor
    <2>2. m.sensor \in Sensors /\ m.time \in Times /\ NextClaims(m.sensor) \in ClaimRecords
      BY <2>1, MessageFacts, NextClaimsFacts
    <2>3. mail' \in [Trains -> Seq(EngineerMessages)]
      BY <1>1, MailFacts DEF UpdateSensor
    <2>4. courier' \in [pc : {"ask", "waits", "deliver", "delivered"}, delivery : Deliveries \cup {NoDelivery}]
          /\ courier'.pc # "deliver"
      BY <1>1 DEF UpdateSensor, TypeOK
    <2>5. CASE m.time > creationTime[t]
      <3>1. /\ prevSensor' = [prevSensor EXCEPT ![t] = m.sensor]
            /\ creationTime' = [creationTime EXCEPT ![t] = m.time]
            /\ ClaimNext(t, m.sensor)
            /\ hits' = [hits EXCEPT ![t] = Heard(t, m.sensor)]
        BY <1>1, <2>1, <2>5 DEF UpdateSensor
      <3>2. Claim(t, NextClaims(m.sensor)) \/ Remember(t, NextClaims(m.sensor))
        BY <3>1 DEF ClaimNext
      <3>3. Heard(t, m.sensor) \in Seq(Sensors)
        BY DEF Heard, TypeOK
      <3>4. /\ claimer' \in [Trains -> [pc : {"none", "claim", "sent", "ask", "asked"}, request : Requests]]
            /\ sensorCourierTid' \in [Trains -> BOOLEAN]
            /\ outstandingClaim' \in [Trains -> ClaimRecords] /\ left' \subseteq Trains
        BY <2>2, <3>2, ClaimType
      <3>5. /\ prevSensor' \in [Trains -> Sensors \cup {NoSensor}]
            /\ creationTime' \in [Trains -> Times] /\ hits' \in [Trains -> Seq(Sensors)]
        BY <2>2, <3>1, <3>3 DEF TypeOK
      <3> QED BY <1>1, <2>3, <2>4, <3>4, <3>5 DEF UpdateSensor, TypeOK
    <2>6. CASE ~(m.time > creationTime[t])
      <3>1. UNCHANGED <<claimer, sensorCourierTid, outstandingClaim, prevSensor, creationTime, hits, left>>
        BY <1>1, <2>1, <2>6 DEF UpdateSensor, Keep
      <3> QED BY <1>1, <2>3, <2>4, <3>1 DEF UpdateSensor, TypeOK
    <2> QED BY <2>5, <2>6
  <1>2. CASE SensorCourierRequest(t)
    <2>1. mail' \in [Trains -> Seq(EngineerMessages)]
      BY <1>2, MailFacts DEF SensorCourierRequest
    <2>2. outstandingClaim[t] \in ClaimRecords /\ NoClaim \in ClaimRecords
      BY DEF TypeOK, NoClaim, ClaimRecords
    <2>3. CASE outstandingClaim[t] # NoClaim
      <3>1. claimer' \in [Trains -> [pc : {"none", "claim", "sent", "ask", "asked"}, request : Requests]]
        BY <1>2, <2>2, <2>3, ClaimType DEF SensorCourierRequest
      <3>2. outstandingClaim' \in [Trains -> ClaimRecords] /\ UNCHANGED sensorCourierTid
        BY <1>2, <2>2, <2>3 DEF SensorCourierRequest, Taken, TypeOK
      <3> QED BY <1>2, <2>1, <3>1, <3>2 DEF SensorCourierRequest, TypeOK
    <2>4. CASE outstandingClaim[t] = NoClaim
      <3>1. sensorCourierTid' \in [Trains -> BOOLEAN] /\ UNCHANGED <<claimer, outstandingClaim>>
        BY <1>2, <2>4 DEF SensorCourierRequest, TypeOK
      <3> QED BY <1>2, <2>1, <3>1 DEF SensorCourierRequest, TypeOK
    <2> QED BY <2>3, <2>4
  <1>3. CASE CommandWorkerReverseSet(t)
    <2>1. mail' \in [Trains -> Seq(EngineerMessages)]
      BY <1>3, MailFacts DEF CommandWorkerReverseSet
    <2>2. prevSensor[t] \in Sensors
      <3>1. mail[t] \in Seq(EngineerMessages) /\ mail[t] # <<>> /\ Head(mail[t]).type = "commandWorkerReverseSet"
        BY <1>3, MailFacts DEF CommandWorkerReverseSet
      <3>2. 1 \in DOMAIN mail[t] /\ mail[t][1].type = "commandWorkerReverseSet"
        BY <3>1, TailElements
      <3> QED BY <3>2 DEF Turned, TypeOK
    <2>3. PICK s \in Sensors : s = Opposite(prevSensor[t])
      BY <2>2, TrackFacts
    <2>4. prevSensor' = [prevSensor EXCEPT ![t] = s]
      BY <1>3, <2>3 DEF CommandWorkerReverseSet
    <2>5. Claim(t, NextClaims(s)) \/ Remember(t, NextClaims(s)) \/ Leave(t)
      BY <1>3, <2>3 DEF CommandWorkerReverseSet
    <2>6. prevSensor' \in [Trains -> Sensors \cup {NoSensor}]
      BY <2>4 DEF TypeOK
    <2>7. /\ claimer' \in [Trains -> [pc : {"none", "claim", "sent", "ask", "asked"}, request : Requests]]
          /\ sensorCourierTid' \in [Trains -> BOOLEAN]
          /\ outstandingClaim' \in [Trains -> ClaimRecords] /\ left' \subseteq Trains
      BY <2>5, NextClaimsFacts, ClaimType
    <2> QED BY <1>3, <2>1, <2>6, <2>7 DEF CommandWorkerReverseSet, TypeOK
  <1> QED BY <1>1, <1>2, <1>3 DEF Engineer

LEMMA TypeStep ==
    ASSUME TypeOK, \A t \in Trains : Turned(t), [Next]_vars
    PROVE  TypeOK'
  <1>1. CASE Railway
    BY <1>1, RailwayType DEF Railway
  <1>2. CASE Worker
    BY <1>2, WorkerType
  <1>3. CASE Couriers
    BY <1>3, CouriersType
  <1>4. CASE Server
    BY <1>4, ServerType
  <1>5. CASE \E t \in Trains : Engineer(t)
    BY <1>5, EngineerType
  <1>6. CASE UNCHANGED vars
    BY <1>6 DEF vars, trackVars, workerVars, serverVars, engineerVars, TypeOK
  <1> QED BY <1>1, <1>2, <1>3, <1>4, <1>5, <1>6 DEF Next

(* A message that comes to an engineer. *)
LEMMA Posted ==
    ASSUME TypeOK, NEW t \in Trains, NEW m \in EngineerMessages,
           mail' = [mail EXCEPT ![t] = Append(@, m)]
    PROVE  /\ mail'[t] = Append(mail[t], m) /\ \A u \in Trains \ {t} : mail'[u] = mail[u]
           /\ \A u \in Trains : mail[u] \in Seq(EngineerMessages)
           /\ DOMAIN mail[t] = 1 .. Len(mail[t]) /\ Len(mail[t]) \in Nat
           /\ DOMAIN mail'[t] = 1 .. Len(mail[t]) + 1
           /\ \A i \in DOMAIN mail[t] : mail'[t][i] = mail[t][i]
           /\ mail'[t][Len(mail[t]) + 1] = m
           /\ \A i \in DOMAIN mail'[t] : i \in DOMAIN mail[t] \/ i = Len(mail[t]) + 1
  <1>1. mail \in [Trains -> Seq(EngineerMessages)]
    BY DEF TypeOK
  <1>2. mail[t] \in Seq(EngineerMessages) /\ mail'[t] = Append(mail[t], m)
        /\ \A u \in Trains \ {t} : mail'[u] = mail[u]
    BY <1>1
  <1>3. /\ DOMAIN mail[t] = 1 .. Len(mail[t]) /\ Len(mail[t]) \in Nat
        /\ DOMAIN Append(mail[t], m) = 1 .. Len(mail[t]) + 1
        /\ \A i \in DOMAIN mail[t] : Append(mail[t], m)[i] = mail[t][i]
        /\ Append(mail[t], m)[Len(mail[t]) + 1] = m
    BY <1>2, AppendElements
  <1>4. \A i \in 1 .. Len(mail[t]) + 1 : i \in 1 .. Len(mail[t]) \/ i = Len(mail[t]) + 1
    BY <1>3
  <1> QED BY <1>1, <1>2, <1>3, <1>4, Zenon

(* A message that an engineer has received. *)
LEMMA Taken1 ==
    ASSUME TypeOK, NEW t \in Trains, NEW type, Mail(t, type)
    PROVE  /\ mail'[t] = Tail(mail[t]) /\ \A u \in Trains \ {t} : mail'[u] = mail[u]
           /\ 1 \in DOMAIN mail[t] /\ mail[t][1] = Head(mail[t]) /\ mail[t][1].type = type
           /\ \A i \in DOMAIN mail'[t] : i + 1 \in DOMAIN mail[t] /\ mail'[t][i] = mail[t][i + 1]
                                         /\ i \in Nat \ {0} /\ i + 1 # 1
  <1>1. mail[t] \in Seq(EngineerMessages) /\ mail[t] # <<>> /\ Head(mail[t]).type = type
        /\ mail'[t] = Tail(mail[t]) /\ \A u \in Trains \ {t} : mail'[u] = mail[u]
    BY MailFacts
  <1>2. /\ Head(mail[t]) = mail[t][1]
        /\ DOMAIN mail[t] = 1 .. Len(mail[t]) /\ Len(mail[t]) \in Nat \ {0} /\ 1 \in DOMAIN mail[t]
        /\ DOMAIN Tail(mail[t]) = 1 .. Len(mail[t]) - 1
        /\ \A i \in DOMAIN Tail(mail[t]) : i + 1 \in DOMAIN mail[t] /\ Tail(mail[t])[i] = mail[t][i + 1]
    BY <1>1, TailElements
  <1>3. \A i \in 1 .. Len(mail[t]) - 1 : i \in Nat \ {0} /\ i + 1 # 1
    BY <1>2
  <1> QED BY <1>1, <1>2, <1>3
-----------------------------------------------------------------------------
(* The trains on the track. *)

LEMMA ContainsFacts ==
    ASSUME NEW q \in Seq(Trains), NEW u
    PROVE  /\ Contains(q, u) <=> \E i \in 1 .. Len(q) : q[i] = u
           /\ \A t \in Trains : Contains(Append(q, t), u) <=> Contains(q, u) \/ u = t
           /\ q # <<>> => (Contains(q, u) <=> Contains(Tail(q), u) \/ u = Head(q))
           /\ ~Contains(<<>>, u) /\ (Contains(q, u) => q # <<>>)
           /\ \A t \in Trains : Contains(<<t>>, u) <=> u = t
  <1>1. \A p : Contains(p, u) <=> \E i \in 1 .. Len(p) : p[i] = u
    BY DEF Contains
  <1>2. ASSUME NEW t \in Trains PROVE Contains(Append(q, t), u) <=> Contains(q, u) \/ u = t
    <2>1. Len(Append(q, t)) = Len(q) + 1 /\ Len(q) \in Nat /\ DOMAIN q = 1 .. Len(q)
          /\ (\A i \in DOMAIN q : Append(q, t)[i] = q[i]) /\ Append(q, t)[Len(q) + 1] = t
      BY AppendElements
    <2>2. \A i \in 1 .. Len(q) + 1 : i \in 1 .. Len(q) \/ i = Len(q) + 1
      BY <2>1
    <2>3. \A i \in 1 .. Len(q) : i \in 1 .. Len(q) + 1
      BY <2>1
    <2>4. Len(q) + 1 \in 1 .. Len(q) + 1
      BY <2>1
    <2> QED BY <1>1, <2>1, <2>2, <2>3, <2>4
  <1>3. ASSUME q # <<>> PROVE Contains(q, u) <=> Contains(Tail(q), u) \/ u = Head(q)
    <2>1. /\ Head(q) = q[1] /\ Len(q) \in Nat \ {0} /\ DOMAIN Tail(q) = 1 .. Len(q) - 1
          /\ Len(Tail(q)) = Len(q) - 1 /\ \A i \in DOMAIN Tail(q) : Tail(q)[i] = q[i + 1]
      BY <1>3, TailElements
    <2>2. \A i \in 1 .. Len(q) : i = 1 \/ (i - 1 \in 1 .. Len(q) - 1 /\ (i - 1) + 1 = i)
      BY <2>1
    <2>3. 1 \in 1 .. Len(q) /\ \A i \in 1 .. Len(q) - 1 : i + 1 \in 1 .. Len(q)
      BY <2>1
    <2>4. ASSUME Contains(q, u), u # Head(q) PROVE Contains(Tail(q), u)
      <3>1. PICK i \in 1 .. Len(q) : q[i] = u
        BY <1>1, <2>4
      <3>2. i - 1 \in 1 .. Len(q) - 1 /\ (i - 1) + 1 = i
        BY <2>1, <2>2, <2>4, <3>1
      <3>3. Tail(q)[i - 1] = u
        BY <2>1, <3>1, <3>2
      <3> QED BY <1>1, <2>1, <3>2, <3>3
    <2>5. ASSUME Contains(Tail(q), u) PROVE Contains(q, u)
      <3>1. PICK i \in 1 .. Len(q) - 1 : Tail(q)[i] = u
        BY <1>1, <2>1, <2>5
      <3> QED BY <1>1, <2>1, <2>3, <3>1
    <2>6. u = Head(q) => Contains(q, u)
      BY <1>1, <2>1, <2>3
    <2> QED BY <2>4, <2>5, <2>6
  <1>4. ~Contains(<<>>, u) /\ (Contains(q, u) => q # <<>>)
    BY <1>1
  <1>5. ASSUME NEW t \in Trains PROVE Contains(<<t>>, u) <=> u = t
    <2>1. Len(<<t>>) = 1 /\ <<t>>[1] = t /\ 1 .. 1 = {1}
      OBVIOUS
    <2> QED BY <1>1, <2>1
  <1> QED BY <1>1, <1>2, <1>3, <1>4, <1>5

(* Where everybody is after train t has gone on to s. *)
LEMMA PassEffect ==
    ASSUME TypeOK, NEW t \in Trains, NEW s \in Sensors, MayPass(t, s), Pass(t, s)
    PROVE  /\ \A x \in Sensors : x # s /\ x # Before(s) => on'[x] = on[x]
           /\ s # Before(s) => on'[s] = Append(on[s], t) /\ on'[Before(s)] = Tail(on[Before(s)])
           /\ s = Before(s) => on'[s] = Append(Tail(on[s]), t)
           /\ on[Before(s)] # <<>> /\ Head(on[Before(s)]) = t /\ Before(s) \in Sensors
           /\ on[s] \in Seq(Trains) /\ on[Before(s)] \in Seq(Trains)
           /\ Tail(on[Before(s)]) \in Seq(Trains)
  <1>1. Before(s) \in Sensors /\ on \in [Sensors -> Seq(Trains)] /\ on[Before(s)] # <<>>
        /\ Head(on[Before(s)]) = t
    BY TrackFacts DEF TypeOK, MayPass
  <1>2. Tail(on[Before(s)]) \in Seq(Trains) /\ on[s] \in Seq(Trains) /\ on[Before(s)] \in Seq(Trains)
    BY <1>1
  <1>3. on' = [on EXCEPT ![Before(s)] = Tail(@), ![s] = Append(@, t)]
    BY DEF Pass
  <1> QED BY <1>1, <1>2, <1>3

LEMMA PassPlaces ==
    ASSUME TypeOK, NEW t \in Trains, NEW s \in Sensors, MayPass(t, s), Pass(t, s), NEW u
    PROVE  Placed(u) => Placed(u)'
  <1>1. SUFFICES ASSUME NEW x \in Sensors, Contains(on[x], u) PROVE \E y \in Sensors : Contains(on'[y], u)
    BY DEF Placed
  <1>2. PICK p \in Seq(Trains) : p = on[Before(s)] /\ p # <<>> /\ Head(p) = t /\ Tail(p) \in Seq(Trains)
    BY PassEffect
  <1>3. PICK q \in Seq(Trains) : q = on[s]
    BY PassEffect
  <1>4. Contains(p, u) <=> Contains(Tail(p), u) \/ u = t
    BY <1>2, ContainsFacts
  <1>5. Contains(Append(q, t), u) <=> Contains(q, u) \/ u = t
    BY ContainsFacts
  <1>6. Contains(Append(Tail(p), t), u) <=> Contains(Tail(p), u) \/ u = t
    BY <1>2, ContainsFacts
  <1>7. CASE x # s /\ x # Before(s)
    BY <1>1, <1>7, PassEffect
  <1>8. CASE s # Before(s)
    <2>1. on'[s] = Append(q, t) /\ on'[Before(s)] = Tail(p) /\ Before(s) \in Sensors
      BY <1>2, <1>3, <1>8, PassEffect
    <2> QED BY <1>1, <1>2, <1>3, <1>4, <1>5, <1>7, <2>1
  <1>9. CASE s = Before(s)
    <2>1. on'[s] = Append(Tail(p), t)
      BY <1>2, <1>9, PassEffect
    <2> QED BY <1>1, <1>2, <1>4, <1>6, <1>7, <1>9, <2>1
  <1> QED BY <1>8, <1>9

LEMMA PassOneWay ==
    ASSUME TypeOK, OneWay, NEW t \in Trains, NEW s \in Sensors, MayPass(t, s), Pass(t, s)
    PROVE  OneWay'
  <1>1. on[Opposite(s)] = <<>> /\ Opposite(s) \in Sensors /\ Opposite(Opposite(s)) = s
    BY TrackFacts DEF MayPass
  <1>2. ASSUME NEW x \in Sensors, on'[x] # <<>> PROVE x = s \/ on[x] # <<>>
    BY <1>2, PassEffect
  <1>3. ASSUME NEW x \in Sensors, on'[x] # <<>>, on'[Opposite(x)] # <<>>, Opposite(x) # x PROVE FALSE
    <2>1. Opposite(x) \in Sensors /\ Opposite(Opposite(x)) = x
      BY TrackFacts
    <2>2. x = s \/ on[x] # <<>>
      BY <1>2, <1>3
    <2>3. Opposite(x) = s \/ on[Opposite(x)] # <<>>
      BY <1>2, <1>3, <2>1
    <2>4. ~(on[x] # <<>> /\ on[Opposite(x)] # <<>>)
      BY <1>3 DEF OneWay
    <2>5. CASE x = s
      BY <1>1, <1>3, <2>3, <2>5
    <2>6. CASE Opposite(x) = s /\ x # s
      BY <1>1, <2>1, <2>2, <2>6
    <2> QED BY <2>2, <2>3, <2>4, <2>5, <2>6
  <1> QED BY <1>3 DEF OneWay, Opposite
-----------------------------------------------------------------------------
(* The claims, step by step. *)

Protocol ==
    /\ OneWay /\ Delivered /\ OneAttribution
    /\ \A t \in Trains : Known(t) /\ Carried(t) /\ Waiting(t) /\ Follows(t)

LEMMA QueueFacts ==
    ASSUME TypeOK
    PROVE  /\ DOMAIN sensorQueue = 1 .. Len(sensorQueue) /\ Len(sensorQueue) \in Nat
           /\ \A i \in DOMAIN sensorQueue : sensorQueue[i] \in Deliveries
           /\ \A i \in DOMAIN sensorQueue : sensorQueue[i].to \in Trains /\ sensorQueue[i].sensor \in Sensors
  <1>1. sensorQueue \in Seq(Deliveries)
    BY DEF TypeOK
  <1>2. /\ DOMAIN sensorQueue = 1 .. Len(sensorQueue) /\ Len(sensorQueue) \in Nat
        /\ \A i \in DOMAIN sensorQueue : sensorQueue[i] \in Deliveries
    BY <1>1
  <1> QED BY <1>2 DEF Deliveries

(* Steps of the railway. *)
LEMMA PassKeeps ==
    ASSUME TypeOK, Protocol, NEW t \in Trains, NEW s \in Sensors, MayPass(t, s), Pass(t, s),
           UNCHANGED <<inbox, attrs, sensorQueue, courier, mail, prevSensor, outstandingClaim,
                       sensorCourierTid, claimer, left>>
    PROVE  Protocol'
  <1>1. OneWay'
    BY PassOneWay DEF Protocol
  <1>2. \A u \in Trains : Placed(u) => Placed(u)'
    BY PassPlaces
  <1>3. \A u \in Trains : Known(u)'
    BY <1>2 DEF Protocol, Known, Begun, Registered
  <1>4. OneAttribution' /\ Delivered'
    BY DEF Protocol, OneAttribution, Delivered, Begun
  <1>5. \A u \in Trains : Carried(u)' /\ Waiting(u)'
    BY DEF Protocol, Carried, Waiting
  <1>6. \A u \in Trains : Follows(u)'
    BY DEF Protocol, Follows, Latest, Claims, Attribution
  <1> QED BY <1>1, <1>3, <1>4, <1>5, <1>6 DEF Protocol

LEMMA TurnEffect ==
    ASSUME TypeOK, OneWay, NEW t \in Trains, NEW s \in Sensors, ReverseTrain(t, s)
    PROVE  /\ OneWay' /\ \A u : Placed(u) => Placed(u)'
           /\ Placed(t)
  <1>1. /\ on \in [Sensors -> Seq(Trains)] /\ on[s] = <<t>> /\ Opposite(s) \in Sensors
        /\ on' = [on EXCEPT ![s] = <<>>, ![Opposite(s)] = <<t>>] /\ Opposite(Opposite(s)) = s
    BY TrackFacts DEF ReverseTrain, TypeOK
  <1>2. /\ on'[Opposite(s)] = <<t>> /\ (Opposite(s) # s => on'[s] = <<>>)
        /\ \A x \in Sensors : x # s /\ x # Opposite(s) => on'[x] = on[x]
    BY <1>1
  <1>3. <<t>> # <<>> /\ <<t>> \in Seq(Trains)
    OBVIOUS
  <1>4. Opposite(s) # s => on[Opposite(s)] = <<>>
    BY <1>1, <1>3 DEF OneWay
  <1>5. ASSUME NEW u, Placed(u) PROVE Placed(u)'
    <2>1. PICK x \in Sensors : Contains(on[x], u)
      BY <1>5 DEF Placed
    <2>2. on[x] # <<>> /\ on[x] \in Seq(Trains)
      BY <1>1, <2>1, ContainsFacts
    <2>3. x # Opposite(s) \/ x = s
      BY <1>4, <2>2
    <2>4. CASE x = s
      <3>1. Contains(on'[Opposite(s)], u)
        BY <1>1, <1>2, <2>1, <2>4
      <3> QED BY <1>1, <3>1, Zenon DEF Placed
    <2>5. CASE x # s
      BY <1>2, <2>1, <2>3, <2>5 DEF Placed
    <2> QED BY <2>4, <2>5
  <1>6. ASSUME NEW x \in Sensors, on'[x] # <<>>, on'[Opposite(x)] # <<>>, Opposite(x) # x PROVE FALSE
    <2>1. Opposite(x) \in Sensors /\ Opposite(Opposite(x)) = x
      BY TrackFacts
    <2>2. x # s /\ Opposite(x) # s
      BY <1>1, <1>2, <1>6, <2>1
    <2>3. x # Opposite(s) /\ Opposite(x) # Opposite(s)
      BY <1>1, <2>1, <2>2
    <2>4. on[x] # <<>> /\ on[Opposite(x)] # <<>>
      BY <1>2, <1>6, <2>1, <2>2, <2>3
    <2> QED BY <1>6, <2>4 DEF OneWay
  <1>7. Placed(t)
    BY <1>1, <1>3, ContainsFacts DEF Placed
  <1> QED BY <1>5, <1>6, <1>7 DEF OneWay, Opposite

LEMMA ReverseTrainKeeps ==
    ASSUME TypeOK, Protocol, NEW t \in Trains, NEW s \in Sensors, ReverseTrain(t, s)
    PROVE  Protocol'
  <1>1. OneWay' /\ (\A u : Placed(u) => Placed(u)') /\ Placed(t)
    BY TurnEffect DEF Protocol
  <1>2. PICK m : m = [type |-> "commandWorkerReverseSet"]
    OBVIOUS
  <1>3. UNCHANGED <<inbox, attrs, sensorQueue, courier, prevSensor, outstandingClaim, sensorCourierTid,
                    claimer, left>>
    BY DEF ReverseTrain, serverVars, engineerVars
  <1>4. /\ m \in EngineerMessages /\ m.type # "updateSensor" /\ m.type # "sensorCourierRequest"
        /\ mail' = [mail EXCEPT ![t] = Append(@, m)]
    BY <1>2, MessageFacts DEF ReverseTrain
  <1>5. \A u \in Trains : \A i \in DOMAIN mail'[u] :
          mail'[u][i].type \in {"updateSensor", "sensorCourierRequest"}
             => i \in DOMAIN mail[u] /\ mail'[u][i] = mail[u][i]
    <2>1. /\ \A u \in Trains \ {t} : mail'[u] = mail[u]
          /\ \A i \in DOMAIN mail[t] : mail'[t][i] = mail[t][i]
          /\ mail'[t][Len(mail[t]) + 1] = m
          /\ \A i \in DOMAIN mail'[t] : i \in DOMAIN mail[t] \/ i = Len(mail[t]) + 1
      BY <1>4, Posted
    <2> QED BY <1>4, <2>1
  <1>6. \A u \in Trains : Known(u)' /\ Carried(u)' /\ Follows(u)'
    BY <1>1, <1>3 DEF Protocol, Known, Begun, Registered, Carried, Follows, Latest, Claims, Attribution
  <1>7. OneAttribution'
    BY <1>3 DEF Protocol, OneAttribution
  <1>8. Delivered'
    BY <1>3, <1>5 DEF Protocol, Delivered, Begun
  <1>9. \A u \in Trains : Waiting(u)'
    BY <1>3, <1>5 DEF Protocol, Waiting
  <1> QED BY <1>1, <1>6, <1>7, <1>8, <1>9 DEF Protocol

LEMMA InitializeKeeps ==
    ASSUME TypeOK, Protocol, NEW t \in Trains, NEW s \in Sensors, Initialize(t, s)
    PROVE  Protocol'
  <1>1. /\ on \in [Sensors -> Seq(Trains)] /\ Before(s) \in Sensors /\ on[Before(s)] \in Seq(Trains)
        /\ on' = [on EXCEPT ![Before(s)] = Append(@, t)]
        /\ ~Placed(t) /\ on[Opposite(Before(s))] = <<>>
    BY TrackFacts DEF Initialize, TypeOK
  <1>2. on'[Before(s)] = Append(on[Before(s)], t) /\ \A x \in Sensors : x # Before(s) => on'[x] = on[x]
    BY <1>1
  <1>3. \A u : Placed(u) => Placed(u)'
    <2>1. \A u : Contains(on[Before(s)], u) => Contains(on'[Before(s)], u)
      BY <1>1, <1>2, ContainsFacts
    <2> QED BY <1>2, <2>1 DEF Placed
  <1>4. Placed(t)'
    <2>1. Contains(on'[Before(s)], t)
      BY <1>1, <1>2, ContainsFacts
    <2> QED BY <1>1, <2>1 DEF Placed
  <1>5. OneWay'
    <2>1. ASSUME NEW x \in Sensors, on'[x] # <<>>, on'[Opposite(x)] # <<>>, Opposite(x) # x PROVE FALSE
      <3>1. Opposite(x) \in Sensors /\ Opposite(Opposite(x)) = x
        BY TrackFacts
      <3>2. CASE x = Before(s)
        BY <1>1, <1>2, <2>1, <3>1, <3>2
      <3>3. CASE Opposite(x) = Before(s)
        BY <1>1, <1>2, <2>1, <3>1, <3>3
      <3>4. CASE x # Before(s) /\ Opposite(x) # Before(s)
        BY <1>2, <2>1, <3>1, <3>4 DEF Protocol, OneWay
      <3> QED BY <3>2, <3>3, <3>4
    <2> QED BY <2>1 DEF OneWay, Opposite
  <1>6. /\ UNCHANGED <<inbox, attrs, sensorQueue, courier, mail, prevSensor, outstandingClaim, sensorCourierTid, left>>
        /\ claimer' = [claimer EXCEPT ![t] = [pc |-> "claim",
              request |-> Request("initialClaim", t, [primary |-> s, secondary |-> NoSensor])]]
    BY DEF Initialize, serverVars
  <1>7. /\ claimer'[t].pc = "claim" /\ claimer'[t].request.type = "initialClaim"
        /\ claimer'[t].request.tid = t /\ claimer'[t].request.claim.secondary = NoSensor
        /\ \A u \in Trains \ {t} : claimer'[u] = claimer[u]
    BY <1>6 DEF Request, TypeOK
  <1>8. ~Begun(t) /\ claimer[t].pc = "none"
    BY <1>1 DEF Protocol, Known, Begun
  <1>9. ~Registered(t) /\ prevSensor[t] = NoSensor
    BY <1>8 DEF Protocol, Known
  <1>10. \A u \in Trains : Begun(u) => Begun(u)'
    BY <1>7, <1>8 DEF Begun
  <1>11. ASSUME NEW u \in Trains PROVE Known(u)' /\ Carried(u)' /\ Waiting(u)' /\ Follows(u)'
    <2>1. CASE u = t
      <3>1. Known(t)'
        BY <1>4, <1>6, <1>7, <1>9 DEF Known, Registered, Begun
      <3>2. Carried(t)' /\ Waiting(t)'
        BY <1>6, <1>7, <1>8 DEF Protocol, Carried, Waiting
      <3>3. Follows(t)'
        BY <1>6, <1>9 DEF Follows
      <3> QED BY <2>1, <3>1, <3>2, <3>3
    <2>2. CASE u # t
      <3>1. claimer'[u] = claimer[u]
        BY <1>7, <2>2
      <3>2. Known(u)' /\ Carried(u)' /\ Waiting(u)'
        BY <1>3, <1>6, <3>1 DEF Protocol, Known, Registered, Begun, Carried, Waiting
      <3>3. Follows(u)'
        BY <1>6, <3>1 DEF Protocol, Follows, Latest, Claims, Attribution
      <3> QED BY <3>2, <3>3
    <2> QED BY <2>1, <2>2
  <1>12. OneAttribution' /\ Delivered'
    <2>1. OneAttribution'
      BY <1>6 DEF Protocol, OneAttribution
    <2>2. \A i \in DOMAIN sensorQueue : sensorQueue[i].to \in Trains
      BY QueueFacts
    <2>3. courier.pc = "deliver" => courier.delivery.to \in Trains
      BY DEF TypeOK, Deliveries
    <2>4. Delivered'
      BY <1>6, <1>10, <2>2, <2>3 DEF Protocol, Delivered
    <2> QED BY <2>1, <2>4
  <1> QED BY <1>5, <1>11, <1>12 DEF Protocol

(* Steps of the worker and the couriers. *)

LEMMA InboxFacts ==
    ASSUME TypeOK
    PROVE  /\ inbox \in Seq(SensorMessages)
           /\ DOMAIN inbox = 1 .. Len(inbox) /\ Len(inbox) \in Nat
           /\ \A i \in DOMAIN inbox : inbox[i] \in SensorMessages
  <1>1. inbox \in Seq(SensorMessages)
    BY DEF TypeOK
  <1> QED BY <1>1

LEMMA Received ==
    ASSUME TypeOK, NEW type, Receive(type)
    PROVE  /\ inbox' = Tail(inbox) /\ 1 \in DOMAIN inbox
           /\ inbox[1] = Head(inbox) /\ inbox[1].type = type /\ Head(inbox) \in SensorMessages
           /\ \A i \in DOMAIN inbox' : i + 1 \in DOMAIN inbox /\ inbox'[i] = inbox[i + 1]
                                       /\ i \in Nat \ {0} /\ i + 1 # 1
  <1>1. inbox \in Seq(SensorMessages) /\ inbox # <<>> /\ Head(inbox).type = type /\ inbox' = Tail(inbox)
    BY InboxFacts DEF Receive
  <1>2. /\ Head(inbox) = inbox[1] /\ Head(inbox) \in SensorMessages
        /\ Len(inbox) \in Nat \ {0} /\ 1 \in DOMAIN inbox
        /\ DOMAIN Tail(inbox) = 1 .. Len(inbox) - 1
        /\ \A i \in DOMAIN Tail(inbox) : i + 1 \in DOMAIN inbox /\ Tail(inbox)[i] = inbox[i + 1]
    BY <1>1, TailElements
  <1>3. \A i \in 1 .. Len(inbox) - 1 : i \in Nat \ {0} /\ i + 1 # 1
    BY <1>2
  <1> QED BY <1>1, <1>2, <1>3

(* Other messages leave the claims in the inbox alone, whether they come or go. *)
LEMMA OtherMessage ==
    ASSUME TypeOK, UNCHANGED claimer, NEW t \in Trains, Carried(t),
           \/ \E m \in SensorMessages : m.type \notin ClaimTypes /\ inbox' = Append(inbox, m)
           \/ \E type : type \notin ClaimTypes /\ Receive(type)
    PROVE  Carried(t)'
  <1>0. inbox \in Seq(SensorMessages) /\ DOMAIN inbox = 1 .. Len(inbox) /\ Len(inbox) \in Nat
    BY InboxFacts
  <1>1. ASSUME NEW m \in SensorMessages, m.type \notin ClaimTypes, inbox' = Append(inbox, m)
        PROVE  Carried(t)'
    <2>1. /\ DOMAIN inbox' = 1 .. Len(inbox) + 1 /\ inbox'[Len(inbox) + 1] = m
          /\ \A i \in DOMAIN inbox : inbox'[i] = inbox[i]
      BY <1>0, <1>1, AppendElements
    <2>2. \A i \in DOMAIN inbox' : inbox'[i].type \in ClaimTypes => i \in DOMAIN inbox /\ inbox'[i] = inbox[i]
      <3>1. \A i \in 1 .. Len(inbox) + 1 : i \in DOMAIN inbox \/ i = Len(inbox) + 1
        BY <1>0
      <3> QED BY <1>1, <2>1, <3>1
    <2> QED BY <2>2 DEF Carried
  <1>2. ASSUME NEW type, Receive(type) PROVE Carried(t)'
    <2>2. \A i \in DOMAIN inbox' : i + 1 \in DOMAIN inbox /\ inbox'[i] = inbox[i + 1] /\ i \in Nat
      BY <1>2, Received
    <2>3. ASSUME NEW i \in DOMAIN inbox', inbox'[i].type \in ClaimTypes, inbox'[i].tid = t
          PROVE  /\ claimer[t].pc = "sent" /\ inbox'[i] = claimer[t].request
                 /\ \A j \in DOMAIN inbox' : inbox'[j].type \in ClaimTypes /\ inbox'[j].tid = t => i = j
      <3>1. \A j \in DOMAIN inbox' : inbox'[j].type \in ClaimTypes /\ inbox'[j].tid = t => i + 1 = j + 1
        BY <2>2, <2>3 DEF Carried
      <3>2. \A j \in DOMAIN inbox' : i + 1 = j + 1 => i = j
        BY <2>2
      <3> QED BY <2>2, <2>3, <3>1, <3>2 DEF Carried
    <2> QED BY <2>3 DEF Carried
  <1> QED BY <1>1, <1>2

LEMMA WorkerKeeps ==
    ASSUME TypeOK, Protocol, Worker
    PROVE  Protocol'
  <1>1. UNCHANGED <<on, attrs, sensorQueue, courier, mail, prevSensor, outstandingClaim, sensorCourierTid, claimer, left>>
    BY DEF Worker, WorkerSends, Read, trackVars, serverVars, engineerVars
  <1>2. \A t \in Trains : Carried(t)'
    <2>1. CASE WorkerSends
      <3>1. PICK m : m = [type |-> "newSensor", report |-> [bits |-> FirstByte, time |-> timestamp]]
        OBVIOUS
      <3>2. inbox' = Append(inbox, m) /\ m.type \notin ClaimTypes
        BY <2>1, <3>1 DEF WorkerSends, ClaimTypes
      <3>3. [bits |-> FirstByte, time |-> timestamp] \in Reports
        BY DEF Reports, FirstByte, TypeOK
      <3>4. m \in SensorMessages
        BY <3>1, <3>3, MessageFacts
      <3> QED BY <1>1, <3>2, <3>4, OtherMessage DEF Protocol
    <2>2. CASE UNCHANGED inbox
      BY <1>1, <2>2 DEF Protocol, Carried
    <2> QED BY <2>1, <2>2 DEF Worker, Read
  <1>3. OneWay' /\ OneAttribution' /\ Delivered'
    BY <1>1 DEF Protocol, OneWay, OneAttribution, Delivered, Begun
  <1>4. \A t \in Trains : Known(t)' /\ Waiting(t)' /\ Follows(t)'
    BY <1>1 DEF Protocol, Known, Placed, Begun, Registered, Waiting, Follows, Latest, Claims, Attribution
  <1> QED BY <1>2, <1>3, <1>4 DEF Protocol

LEMMA CourierKeeps ==
    ASSUME TypeOK, Protocol, CourierAsks \/ CourierDelivers
    PROVE  Protocol'
  <1>1. UNCHANGED <<on, attrs, sensorQueue, prevSensor, outstandingClaim, sensorCourierTid, claimer, left>>
    BY DEF CourierAsks, CourierDelivers, trackVars, serverVars, engineerVars
  <1>2. OneWay' /\ OneAttribution'
    BY <1>1 DEF Protocol, OneWay, OneAttribution
  <1>3. \A t \in Trains : Known(t)' /\ Follows(t)'
    BY <1>1 DEF Protocol, Known, Placed, Begun, Registered, Follows, Latest, Claims, Attribution
  <1>4. CASE CourierAsks
    <2>1. PICK m : m = [type |-> "requestSensor"]
      OBVIOUS
    <2>2. m \in SensorMessages /\ inbox' = Append(inbox, m) /\ m.type \notin ClaimTypes
      BY <1>4, <2>1, MessageFacts DEF CourierAsks, ClaimTypes
    <2>3. \A t \in Trains : Carried(t)'
      BY <1>1, <2>2, OtherMessage DEF Protocol
    <2>4. UNCHANGED mail /\ courier'.pc # "deliver"
      BY <1>4 DEF CourierAsks
    <2>5. Delivered' /\ \A t \in Trains : Waiting(t)'
      BY <1>1, <2>4 DEF Protocol, Delivered, Begun, Waiting
    <2> QED BY <1>2, <1>3, <2>3, <2>5 DEF Protocol
  <1>5. CASE CourierDelivers
    <2>1. courier.pc = "deliver" /\ courier.delivery \in Deliveries /\ Begun(courier.delivery.to)
      BY <1>5 DEF CourierDelivers, TypeOK, Protocol, Delivered
    <2>2. PICK t \in Trains : t = courier.delivery.to
      BY <2>1 DEF Deliveries
    <2>3. PICK m : m = [type |-> "updateSensor", sensor |-> courier.delivery.sensor, time |-> courier.delivery.time]
      OBVIOUS
    <2>4. m \in EngineerMessages /\ m.type = "updateSensor" /\ m.type # "sensorCourierRequest"
          /\ m.type # "commandWorkerReverseSet"
      BY <2>1, <2>3, MessageFacts DEF Deliveries
    <2>5. mail' = [mail EXCEPT ![t] = Append(@, m)] /\ UNCHANGED inbox /\ courier'.pc # "deliver"
      BY <1>5, <2>2, <2>3 DEF CourierDelivers
    <2>6. /\ \A u \in Trains \ {t} : mail'[u] = mail[u]
          /\ \A i \in DOMAIN mail[t] : mail'[t][i] = mail[t][i]
          /\ mail'[t][Len(mail[t]) + 1] = m
          /\ \A i \in DOMAIN mail'[t] : i \in DOMAIN mail[t] \/ i = Len(mail[t]) + 1
      BY <2>4, <2>5, Posted
    <2>7. \A i \in DOMAIN mail'[t] : mail'[t][i].type # "updateSensor"
            => i \in DOMAIN mail[t] /\ mail'[t][i] = mail[t][i]
      BY <2>4, <2>6
    <2>8. ASSUME NEW u \in Trains PROVE Waiting(u)'
      <3>1. CASE u = t
        BY <1>1, <2>7, <3>1 DEF Protocol, Waiting
      <3>2. CASE u # t
        BY <1>1, <2>6, <3>2 DEF Protocol, Waiting
      <3> QED BY <3>1, <3>2
    <2>9. Delivered'
      <3>1. ASSUME NEW u \in Trains, NEW i \in DOMAIN mail'[u], mail'[u][i].type = "updateSensor"
            PROVE  Begun(u)
        <4>1. CASE u = t
          BY <2>1, <2>2, <4>1
        <4>2. CASE u # t
          BY <2>6, <3>1, <4>2 DEF Protocol, Delivered
        <4> QED BY <4>1, <4>2
      <3> QED BY <1>1, <2>5, <3>1 DEF Protocol, Delivered, Begun
    <2>10. \A u \in Trains : Carried(u)'
      BY <1>1, <2>5 DEF Protocol, Carried
    <2> QED BY <1>2, <1>3, <2>8, <2>9, <2>10 DEF Protocol
  <1> QED BY <1>4, <1>5

LEMMA ClaimerClaimsKeeps ==
    ASSUME TypeOK, Protocol, NEW t \in Trains, ClaimerClaims(t)
    PROVE  Protocol'
  <1>1. /\ UNCHANGED <<on, attrs, sensorQueue, courier, mail, prevSensor, outstandingClaim, sensorCourierTid, left>>
        /\ claimer[t].pc = "claim" /\ inbox' = Append(inbox, claimer[t].request)
        /\ claimer' = [claimer EXCEPT ![t].pc = "sent"]
    BY DEF ClaimerClaims, trackVars, serverVars, engineerVars
  <1>2. /\ claimer'[t].pc = "sent" /\ claimer'[t].request = claimer[t].request
        /\ \A u \in Trains \ {t} : claimer'[u] = claimer[u]
    BY <1>1 DEF TypeOK
  <1>3. \A u \in Trains : Begun(u)' <=> Begun(u)
    BY <1>1, <1>2 DEF Begun
  <1>4. OneWay' /\ OneAttribution'
    BY <1>1 DEF Protocol, OneWay, OneAttribution
  <1>5. Delivered'
    BY <1>1, <1>3, QueueFacts DEF Protocol, Delivered, TypeOK, Deliveries
  <1>6. PICK r \in SensorMessages : r = claimer[t].request /\ r.tid = t
    BY MessageFacts DEF TypeOK, Protocol, Carried
  <1>7. /\ DOMAIN inbox' = 1 .. Len(inbox) + 1 /\ inbox'[Len(inbox) + 1] = r
        /\ \A i \in DOMAIN inbox : inbox'[i] = inbox[i]
        /\ \A i \in DOMAIN inbox' : i \in DOMAIN inbox \/ i = Len(inbox) + 1
    <2>1. inbox \in Seq(SensorMessages) /\ DOMAIN inbox = 1 .. Len(inbox) /\ Len(inbox) \in Nat
      BY InboxFacts
    <2>2. /\ DOMAIN inbox' = 1 .. Len(inbox) + 1 /\ inbox'[Len(inbox) + 1] = r
          /\ \A i \in DOMAIN inbox : inbox'[i] = inbox[i]
      BY <1>1, <1>6, <2>1, AppendElements
    <2>3. \A i \in 1 .. Len(inbox) + 1 : i \in 1 .. Len(inbox) \/ i = Len(inbox) + 1
      BY <2>1
    <2> QED BY <2>1, <2>2, <2>3
  <1>8. \A i \in DOMAIN inbox : inbox[i].type \in ClaimTypes => inbox[i].tid # t
    BY <1>1 DEF Protocol, Carried
  <1>9. ASSUME NEW u \in Trains
        PROVE  Known(u)' /\ Carried(u)' /\ Waiting(u)' /\ Follows(u)'
    <2>1. CASE u = t
      <3>1. Known(t)'
        BY <1>1, <1>2, <1>3 DEF Protocol, Known, Placed, Registered
      <3>2. Carried(t)'
        <4>1. \A i \in DOMAIN inbox' : inbox'[i].type \in ClaimTypes /\ inbox'[i].tid = t => i = Len(inbox) + 1
          BY <1>7, <1>8
        <4>2. claimer'[t].pc = "sent" /\ r = claimer'[t].request
          BY <1>2, <1>6
        <4> QED BY <1>2, <1>6, <1>7, <4>1, <4>2 DEF Protocol, Carried
      <3>3. Waiting(t)'
        BY <1>1 DEF Protocol, Waiting
      <3>4. Follows(t)'
        BY <1>1, <1>2 DEF Protocol, Follows, Latest
      <3> QED BY <2>1, <3>1, <3>2, <3>3, <3>4
    <2>2. CASE u # t
      <3>1. claimer'[u] = claimer[u]
        BY <1>2, <2>2
      <3>2. Known(u)' /\ Waiting(u)'
        BY <1>1, <3>1 DEF Protocol, Known, Placed, Begun, Registered, Waiting
      <3>3. Follows(u)'
        BY <1>1, <3>1 DEF Protocol, Follows, Latest, Claims, Attribution
      <3>4. \A i \in DOMAIN inbox' : inbox'[i].tid = u => i \in DOMAIN inbox /\ inbox'[i] = inbox[i]
        BY <1>6, <1>7, <2>2
      <3>5. Carried(u)'
        BY <3>1, <3>4 DEF Protocol, Carried
      <3> QED BY <3>2, <3>3, <3>5
    <2> QED BY <2>1, <2>2
  <1> QED BY <1>4, <1>5, <1>9 DEF Protocol

LEMMA ClaimerAsksKeeps ==
    ASSUME TypeOK, Protocol, NEW t \in Trains, ClaimerAsks(t)
    PROVE  Protocol'
  <1>1. /\ UNCHANGED <<on, attrs, sensorQueue, courier, inbox, prevSensor, outstandingClaim, sensorCourierTid, left>>
        /\ claimer[t].pc = "ask" /\ claimer' = [claimer EXCEPT ![t].pc = "asked"]
    BY DEF ClaimerAsks, trackVars, serverVars, engineerVars
  <1>2. /\ claimer'[t].pc = "asked" /\ claimer'[t].request = claimer[t].request
        /\ \A u \in Trains \ {t} : claimer'[u] = claimer[u]
    BY <1>1 DEF TypeOK
  <1>3. \A u \in Trains : Begun(u)' <=> Begun(u)
    BY <1>1, <1>2 DEF Begun
  <1>4. OneWay' /\ OneAttribution'
    BY <1>1 DEF Protocol, OneWay, OneAttribution
  <1>5. PICK m : m = [type |-> "sensorCourierRequest"]
    OBVIOUS
  <1>6. /\ m \in EngineerMessages /\ m.type = "sensorCourierRequest"
        /\ m.type # "updateSensor" /\ m.type # "commandWorkerReverseSet"
        /\ mail' = [mail EXCEPT ![t] = Append(@, m)]
    BY <1>5, MessageFacts DEF ClaimerAsks
  <1>7. /\ \A u \in Trains \ {t} : mail'[u] = mail[u]
        /\ \A i \in DOMAIN mail[t] : mail'[t][i] = mail[t][i]
        /\ mail'[t][Len(mail[t]) + 1] = m
        /\ \A i \in DOMAIN mail'[t] : i \in DOMAIN mail[t] \/ i = Len(mail[t]) + 1
    BY <1>6, Posted
  <1>8. \A i \in DOMAIN mail'[t] : mail'[t][i].type # "sensorCourierRequest"
          => i \in DOMAIN mail[t] /\ mail'[t][i] = mail[t][i]
    BY <1>6, <1>7
  <1>9. \A i \in DOMAIN mail[t] : mail[t][i].type # "sensorCourierRequest"
    BY <1>1 DEF Protocol, Waiting
  <1>10. \A i \in DOMAIN mail'[t] : mail'[t][i].type = "sensorCourierRequest" => i = Len(mail[t]) + 1
    BY <1>7, <1>9
  <1>11. Delivered'
    <2>1. \A u \in Trains : \A i \in DOMAIN mail'[u] : mail'[u][i].type = "updateSensor"
            => i \in DOMAIN mail[u] /\ mail'[u][i] = mail[u][i]
      BY <1>7, <1>8
    <2>2. \A u \in Trains : \A i \in DOMAIN mail'[u] : mail'[u][i].type = "updateSensor" => Begun(u)'
      BY <1>3, <2>1 DEF Protocol, Delivered
    <2>3. /\ \A i \in DOMAIN sensorQueue : Begun(sensorQueue[i].to) /\ sensorQueue[i].to \in Trains
          /\ courier.pc = "deliver" => Begun(courier.delivery.to) /\ courier.delivery.to \in Trains
      BY QueueFacts DEF Protocol, Delivered, TypeOK, Deliveries
    <2>4. /\ \A i \in DOMAIN sensorQueue : claimer'[sensorQueue[i].to].pc # "none"
          /\ courier.pc = "deliver" => claimer'[courier.delivery.to].pc # "none"
      BY <1>3, <2>3 DEF Begun
    <2> QED BY <1>1, <2>2, <2>4 DEF Delivered, Begun
  <1>12. ASSUME NEW u \in Trains
         PROVE  Known(u)' /\ Carried(u)' /\ Waiting(u)' /\ Follows(u)'
    <2>1. CASE u = t
      <3>1. Known(t)'
        BY <1>1, <1>2, <1>3 DEF Protocol, Known, Placed, Registered
      <3>2. Carried(t)'
        BY <1>1, <1>2 DEF Protocol, Carried
      <3>3. Waiting(t)'
        BY <1>1, <1>2, <1>10 DEF Protocol, Waiting
      <3>4. Follows(t)'
        BY <1>1, <1>2 DEF Protocol, Follows, Latest, Claims, Attribution
      <3> QED BY <2>1, <3>1, <3>2, <3>3, <3>4
    <2>2. CASE u # t
      <3>1. claimer'[u] = claimer[u] /\ mail'[u] = mail[u]
        BY <1>2, <1>7, <2>2
      <3>2. Known(u)' /\ Waiting(u)' /\ Carried(u)'
        BY <1>1, <3>1 DEF Protocol, Known, Placed, Begun, Registered, Waiting, Carried
      <3>3. Follows(u)'
        BY <1>1, <3>1 DEF Protocol, Follows, Latest, Claims, Attribution
      <3> QED BY <3>2, <3>3
    <2> QED BY <2>1, <2>2
  <1> QED BY <1>4, <1>11, <1>12 DEF Protocol

(* Steps of the server. *)

LEMMA ServerOtherKeeps ==
    ASSUME TypeOK, Protocol, RequestSensor \/ NewSensor \/ ReplyToWorker
    PROVE  Protocol'
  <1>1. UNCHANGED <<on, attrs, mail, prevSensor, outstandingClaim, sensorCourierTid, claimer, left>>
    BY DEF RequestSensor, NewSensor, ReplyToWorker, trackVars, serverVars, engineerVars
  <1>2. OneWay' /\ OneAttribution'
    BY <1>1 DEF Protocol, OneWay, OneAttribution
  <1>3. \A t \in Trains : Known(t)' /\ Follows(t)' /\ Waiting(t)'
    BY <1>1 DEF Protocol, Known, Placed, Begun, Registered, Follows, Latest, Claims, Attribution, Waiting
  <1>4. \A t \in Trains : Carried(t)'
    <2>1. CASE RequestSensor
      BY <1>1, <2>1, OtherMessage DEF Protocol, RequestSensor, ClaimTypes
    <2>2. CASE NewSensor
      BY <1>1, <2>2, OtherMessage DEF Protocol, NewSensor, ClaimTypes
    <2>3. CASE ReplyToWorker
      BY <1>1, <2>3 DEF Protocol, ReplyToWorker, Carried
    <2> QED BY <2>1, <2>2, <2>3
  <1>5. Delivered'
    <2>1. CASE UNCHANGED <<sensorQueue, courier>>
      BY <1>1, <2>1 DEF Protocol, Delivered, Begun
    <2>2. CASE RequestSensor /\ sensorQueue # <<>>
      <3>1. /\ courier' = [pc |-> "deliver", delivery |-> Head(sensorQueue)]
            /\ sensorQueue' = Tail(sensorQueue)
        BY <2>2 DEF RequestSensor
      <3>2. sensorQueue \in Seq(Deliveries)
        BY DEF TypeOK
      <3>3. /\ Head(sensorQueue) = sensorQueue[1] /\ 1 \in DOMAIN sensorQueue
            /\ \A i \in DOMAIN Tail(sensorQueue) :
                  i + 1 \in DOMAIN sensorQueue /\ Tail(sensorQueue)[i] = sensorQueue[i + 1]
        BY <2>2, <3>2, TailElements, Zenon
      <3> QED BY <1>1, <3>1, <3>3 DEF Protocol, Delivered, Begun
    <2> QED BY <2>1, <2>2 DEF RequestSensor, NewSensor, ReplyToWorker, serverVars
  <1> QED BY <1>2, <1>3, <1>4, <1>5 DEF Protocol

LEMMA AttributionOf ==
    ASSUME NEW a, \A i, j \in DOMAIN a : a[i].engineerTid = a[j].engineerTid => i = j,
           NEW t, NEW i \in DOMAIN a, a[i].engineerTid = t
    PROVE  a[CHOOSE k \in DOMAIN a : a[k].engineerTid = t] = a[i]
  OBVIOUS

(* Who has a claim that only the server knows of is registered. *)
LEMMA AtServer ==
    ASSUME TypeOK, NEW t \in Trains, Known(t), prevSensor[t] # NoSensor, claimer[t].pc \notin {"claim", "sent"}
    PROVE  Registered(t)
  BY DEF Known, TypeOK, Begun

(* The time of an attribution says nothing about the claims. *)
LEMMA SameClaims ==
    ASSUME TypeOK, Protocol, DOMAIN attrs' = DOMAIN attrs,
           \A i \in DOMAIN attrs : /\ attrs'[i].engineerTid = attrs[i].engineerTid
                                   /\ attrs'[i].primary = attrs[i].primary
                                   /\ attrs'[i].secondary = attrs[i].secondary
    PROVE  /\ OneAttribution'
           /\ \A t : Registered(t)' <=> Registered(t)
           /\ \A t : Registered(t) => Claims(t)' = Claims(t)
  <1>1. OneAttribution'
    BY DEF Protocol, OneAttribution
  <1>2. ASSUME NEW t, Registered(t) PROVE Claims(t)' = Claims(t)
    <2>1. PICK i \in DOMAIN attrs : attrs[i].engineerTid = t
      BY <1>2 DEF Registered
    <2>2. Attribution(t) = attrs[i]
      BY <2>1, AttributionOf DEF Protocol, OneAttribution, Attribution
    <2>3. Attribution(t)' = attrs'[i]
      BY <1>1, <2>1, AttributionOf DEF OneAttribution, Attribution
    <2> QED BY <2>1, <2>2, <2>3 DEF Claims
  <1>3. ASSUME NEW t PROVE Registered(t)' <=> Registered(t)
    BY DEF Registered
  <1> QED BY <1>1, <1>2, <1>3

LEMMA AttributeKeeps ==
    ASSUME TypeOK, Protocol, Attribute
    PROVE  Protocol'
  <1>1. UNCHANGED <<on, inbox, mail, prevSensor, outstandingClaim, sensorCourierTid, claimer, left>>
    BY DEF Attribute, trackVars, serverVars, engineerVars
  <1>2. HighestBit \in report.bits /\ HighestBit \in Sensors
    BY HighestBitFound DEF Attribute
  <1>3. /\ DOMAIN attrs' = DOMAIN attrs
        /\ \A i \in DOMAIN attrs : /\ attrs'[i].engineerTid = attrs[i].engineerTid
                                   /\ attrs'[i].primary = attrs[i].primary
                                   /\ attrs'[i].secondary = attrs[i].secondary
    <2>1. CASE Claimant(HighestBit) = 0
      BY <2>1 DEF Attribute, HighestBit
    <2>2. CASE Claimant(HighestBit) # 0
      <3>1. attrs' = [attrs EXCEPT ![Claimant(HighestBit)].prevTime = report.time]
        BY <2>2 DEF Attribute, HighestBit
      <3>2. \A i \in DOMAIN attrs : attrs[i] \in Attributions
        BY AttrsFacts
      <3> QED BY <3>1, <3>2 DEF Attributions
    <2> QED BY <2>1, <2>2
  <1>4. /\ OneAttribution' /\ (\A t : Registered(t)' <=> Registered(t))
        /\ \A t : Registered(t) => Claims(t)' = Claims(t)
    BY <1>3, SameClaims
  <1>5. ASSUME NEW t \in Trains PROVE Known(t)' /\ Carried(t)' /\ Waiting(t)' /\ Follows(t)'
    <2>1. Known(t)'
      BY <1>1, <1>4 DEF Protocol, Known, Placed, Begun
    <2>2. Carried(t)' /\ Waiting(t)'
      BY <1>1 DEF Protocol, Carried, Waiting
    <2>3. Follows(t)'
      <3>1. CASE prevSensor[t] # NoSensor /\ claimer[t].pc \notin {"claim", "sent"}
        <4>1. Claims(t)' = Claims(t)
          BY <1>4, <3>1, AtServer DEF Protocol
        <4> QED BY <1>1, <4>1 DEF Protocol, Follows, Latest
      <3>2. CASE prevSensor[t] = NoSensor \/ claimer[t].pc \in {"claim", "sent"}
        BY <1>1, <3>2 DEF Protocol, Follows, Latest
      <3> QED BY <3>1, <3>2
    <2> QED BY <2>1, <2>2, <2>3
  <1>6. Delivered'
    <2>1. CASE Claimant(HighestBit) = 0
      <3>1. UNCHANGED <<sensorQueue, courier>>
        BY <2>1 DEF Attribute, HighestBit
      <3> QED BY <1>1, <3>1 DEF Protocol, Delivered, Begun
    <2>2. CASE Claimant(HighestBit) # 0
      <3>1. PICK i \in DOMAIN attrs : i = Claimant(HighestBit)
        BY <1>2, <2>2, ClaimantFound
      <3>2. PICK d : d = [to |-> attrs[i].engineerTid, sensor |-> HighestBit, time |-> report.time]
        OBVIOUS
      <3>3. Deliver(d)
        BY <2>2, <3>1, <3>2 DEF Attribute, HighestBit
      <3>4. Begun(d.to) /\ d.to \in Trains
        <4>1. attrs[i].engineerTid \in Trains /\ Registered(attrs[i].engineerTid)
          BY <3>1, AttrsFacts DEF Registered
        <4> QED BY <3>2, <4>1 DEF Protocol, Known
      <3>5. d \in Deliveries
        <4>1. report.time \in Times
          BY DEF TypeOK, Reports
        <4> QED BY <1>2, <3>2, <3>4, <4>1 DEF Deliveries
      <3>6. CASE engineerCourierTid
        BY <1>1, <3>3, <3>4, <3>6 DEF Deliver, Protocol, Delivered, Begun
      <3>7. CASE ~engineerCourierTid
        <4>1. sensorQueue' = Append(sensorQueue, d) /\ UNCHANGED courier
          BY <3>3, <3>7 DEF Deliver
        <4>2. \A j \in DOMAIN sensorQueue' : (j \in DOMAIN sensorQueue /\ sensorQueue'[j] = sensorQueue[j])
                                             \/ sensorQueue'[j] = d
          <5>1. sensorQueue \in Seq(Deliveries)
            BY DEF TypeOK
          <5> QED BY <3>5, <4>1, <5>1
        <4> QED BY <1>1, <3>4, <4>1, <4>2 DEF Protocol, Delivered, Begun
      <3> QED BY <3>6, <3>7
    <2> QED BY <2>1, <2>2
  <1>7. OneWay'
    BY <1>1 DEF Protocol, OneWay
  <1> QED BY <1>4, <1>5, <1>6, <1>7 DEF Protocol

(* The claim at the head of the inbox and its courier. *)
LEMMA ClaimReceived ==
    ASSUME TypeOK, Protocol, NEW type \in ClaimTypes, Receive(type), NEW m, m = Head(inbox)
    PROVE  /\ m.tid \in Trains /\ m.claim \in ClaimRecords /\ m.type = type
           /\ claimer[m.tid].pc = "sent" /\ claimer[m.tid].request = m
           /\ \A i \in DOMAIN inbox' : inbox'[i].type \in ClaimTypes => inbox'[i].tid # m.tid
           /\ \A u \in Trains \ {m.tid} : Carried(u) /\ UNCHANGED claimer[u] => Carried(u)'
  <1>1. /\ 1 \in DOMAIN inbox /\ inbox[1] = m /\ m.type = type /\ m \in SensorMessages
        /\ \A i \in DOMAIN inbox' : i + 1 \in DOMAIN inbox /\ inbox'[i] = inbox[i + 1]
                                    /\ i \in Nat \ {0} /\ i + 1 # 1
    BY Received
  <1>2. m.tid \in Trains /\ m.claim \in ClaimRecords
    BY <1>1, MessageFacts
  <1>3. Carried(m.tid)
    BY <1>2 DEF Protocol
  <1>4. /\ claimer[m.tid].pc = "sent" /\ claimer[m.tid].request = m
        /\ \A j \in DOMAIN inbox : inbox[j].type \in ClaimTypes /\ inbox[j].tid = m.tid => j = 1
    BY <1>1, <1>3 DEF Carried
  <1>5. \A i \in DOMAIN inbox' : inbox'[i].type \in ClaimTypes => inbox'[i].tid # m.tid
    BY <1>1, <1>4
  <1>6. ASSUME NEW u \in Trains \ {m.tid}, Carried(u), UNCHANGED claimer[u] PROVE Carried(u)'
    <2>1. ASSUME NEW i \in DOMAIN inbox', inbox'[i].type \in ClaimTypes, inbox'[i].tid = u
          PROVE  /\ claimer[u].pc = "sent" /\ inbox'[i] = claimer[u].request
                 /\ \A j \in DOMAIN inbox' : inbox'[j].type \in ClaimTypes /\ inbox'[j].tid = u => i = j
      <3>1. \A j \in DOMAIN inbox' : inbox'[j].type \in ClaimTypes /\ inbox'[j].tid = u => i + 1 = j + 1
        BY <1>1, <1>6, <2>1 DEF Carried
      <3>2. \A j \in DOMAIN inbox' : i + 1 = j + 1 => i = j
        BY <1>1
      <3> QED BY <1>1, <1>6, <2>1, <3>1, <3>2 DEF Carried
    <2> QED BY <1>6, <2>1 DEF Carried
  <1> QED BY <1>1, <1>2, <1>4, <1>5, <1>6

(* The server has taken the claim of train t over. *)
LEMMA ClaimServed ==
    ASSUME TypeOK, Protocol, NEW type \in ClaimTypes, Receive(type), NEW m, m = Head(inbox), Unblock(m.tid),
           UNCHANGED <<on, sensorQueue, courier, mail, prevSensor, outstandingClaim, sensorCourierTid, left>>,
           OneAttribution', \A u : Registered(u)' <=> Registered(u) \/ u = m.tid,
           \A u : u # m.tid /\ Registered(u) => Claims(u)' = Claims(u), Claims(m.tid)' = m.claim
    PROVE  Protocol'
  <1>1. PICK t \in Trains : t = m.tid
    BY ClaimReceived
  <1>2. /\ claimer[t].pc = "sent" /\ claimer[t].request = m
        /\ \A i \in DOMAIN inbox' : inbox'[i].type \in ClaimTypes => inbox'[i].tid # t
        /\ \A u \in Trains \ {t} : Carried(u) /\ UNCHANGED claimer[u] => Carried(u)'
    BY <1>1, ClaimReceived
  <1>3. claimer' = [claimer EXCEPT ![t].pc = "ask"]
    BY <1>1 DEF Unblock
  <1>4. /\ claimer'[t].pc = "ask" /\ claimer'[t].request = m
        /\ \A u \in Trains \ {t} : claimer'[u] = claimer[u]
    BY <1>2, <1>3 DEF TypeOK
  <1>5. \A u \in Trains : Begun(u)' <=> Begun(u)
    BY <1>2, <1>4 DEF Begun
  <1>6. Delivered'
    <2>1. /\ \A i \in DOMAIN sensorQueue : Begun(sensorQueue[i].to) /\ sensorQueue[i].to \in Trains
          /\ courier.pc = "deliver" => Begun(courier.delivery.to) /\ courier.delivery.to \in Trains
      BY QueueFacts DEF Protocol, Delivered, TypeOK, Deliveries
    <2>2. /\ \A i \in DOMAIN sensorQueue : claimer'[sensorQueue[i].to].pc # "none"
          /\ courier.pc = "deliver" => claimer'[courier.delivery.to].pc # "none"
      BY <1>5, <2>1 DEF Begun
    <2>3. \A u \in Trains : \A i \in DOMAIN mail[u] : mail[u][i].type = "updateSensor" => claimer'[u].pc # "none"
      BY <1>5 DEF Protocol, Delivered, Begun
    <2> QED BY <2>2, <2>3 DEF Delivered, Begun
  <1>7. OneWay'
    BY DEF Protocol, OneWay
  <1>8. ASSUME NEW u \in Trains
        PROVE  Known(u)' /\ Carried(u)' /\ Waiting(u)' /\ Follows(u)'
    <2>1. CASE u = t
      <3>1. Known(t)'
        BY <1>1, <1>2, <1>4, <1>5 DEF Protocol, Known, Placed, Begun
      <3>2. Carried(t)'
        BY <1>2, <1>4 DEF Protocol, Carried
      <3>3. Waiting(t)'
        BY <1>2 DEF Protocol, Waiting
      <3>4. Follows(t)'
        BY <1>1, <1>2, <1>4 DEF Protocol, Follows, Latest
      <3> QED BY <2>1, <3>1, <3>2, <3>3, <3>4
    <2>2. CASE u # t
      <3>1. claimer'[u] = claimer[u]
        BY <1>4, <2>2
      <3>2. Known(u)'
        BY <1>1, <1>5, <2>2, <3>1 DEF Protocol, Known, Placed, Begun
      <3>3. Carried(u)'
        BY <1>2, <2>2, <3>1 DEF Protocol
      <3>4. Waiting(u)'
        BY <3>1 DEF Protocol, Waiting
      <3>5. Follows(u)'
        <4>1. CASE prevSensor[u] # NoSensor /\ claimer[u].pc \notin {"claim", "sent"}
          <5>1. Claims(u)' = Claims(u)
            BY <1>1, <2>2, <4>1, AtServer DEF Protocol
          <5> QED BY <3>1, <5>1 DEF Protocol, Follows, Latest
        <4>2. CASE prevSensor[u] = NoSensor \/ claimer[u].pc \in {"claim", "sent"}
          BY <3>1, <4>2 DEF Protocol, Follows, Latest
        <4> QED BY <4>1, <4>2
      <3> QED BY <3>2, <3>3, <3>4, <3>5
    <2> QED BY <2>1, <2>2
  <1> QED BY <1>6, <1>7, <1>8 DEF Protocol

LEMMA ClaimSensorKeeps ==
    ASSUME TypeOK, Protocol, ClaimSensor
    PROVE  Protocol'
  <1>1. PICK m : m = Head(inbox)
    OBVIOUS
  <1>2. /\ Receive("claimSensor") /\ Unblock(m.tid)
        /\ UNCHANGED <<on, sensorQueue, courier, mail, prevSensor, outstandingClaim, sensorCourierTid, left>>
        /\ attrs' = [i \in DOMAIN attrs |->
               IF attrs[i].engineerTid = m.tid THEN SetAttribution(attrs[i], m.claim) ELSE attrs[i]]
    BY <1>1 DEF ClaimSensor, trackVars, serverVars, engineerVars
  <1>3. "claimSensor" \in ClaimTypes
    BY DEF ClaimTypes
  <1>4. /\ m.tid \in Trains /\ m.claim \in ClaimRecords /\ m.type = "claimSensor"
        /\ claimer[m.tid].pc = "sent" /\ claimer[m.tid].request = m
    BY <1>1, <1>2, <1>3, ClaimReceived
  <1>5. ASSUME NEW i \in DOMAIN attrs
        PROVE  /\ attrs'[i].engineerTid = attrs[i].engineerTid
               /\ attrs[i].engineerTid # m.tid => attrs'[i] = attrs[i]
               /\ attrs[i].engineerTid = m.tid => /\ attrs'[i].primary = m.claim.primary
                                                  /\ attrs'[i].secondary = m.claim.secondary
    <2>1. attrs[i] \in Attributions
      BY AttrsFacts
    <2> QED BY <1>2, <2>1 DEF SetAttribution, Attributions
  <1>6. DOMAIN attrs' = DOMAIN attrs
    BY <1>2
  <1>7. OneAttribution'
    BY <1>5, <1>6 DEF Protocol, OneAttribution
  <1>8. \A u : Registered(u)' <=> Registered(u)
    BY <1>5, <1>6 DEF Registered
  <1>9. Registered(m.tid)
    BY <1>4 DEF Protocol, Known, Begun
  <1>10. ASSUME NEW u, u # m.tid, Registered(u) PROVE Claims(u)' = Claims(u)
    <2>1. PICK i \in DOMAIN attrs : attrs[i].engineerTid = u
      BY <1>10 DEF Registered
    <2>2. Attribution(u) = attrs[i]
      BY <2>1, AttributionOf DEF Protocol, OneAttribution, Attribution
    <2>3. Attribution(u)' = attrs'[i]
      BY <1>5, <1>6, <1>7, <2>1, AttributionOf DEF OneAttribution, Attribution
    <2> QED BY <1>5, <1>10, <2>1, <2>2, <2>3 DEF Claims
  <1>11. Claims(m.tid)' = m.claim
    <2>1. PICK i \in DOMAIN attrs : attrs[i].engineerTid = m.tid
      BY <1>9 DEF Registered
    <2>2. Attribution(m.tid)' = attrs'[i]
      BY <1>5, <1>6, <1>7, <2>1, AttributionOf DEF OneAttribution, Attribution
    <2>3. Claims(m.tid)' = [primary |-> m.claim.primary, secondary |-> m.claim.secondary]
      BY <1>5, <2>1, <2>2 DEF Claims
    <2> QED BY <1>4, <2>3 DEF ClaimRecords
  <1>12. \A u : Registered(u)' <=> Registered(u) \/ u = m.tid
    BY <1>8, <1>9
  <1> QED BY <1>1, <1>2, <1>3, <1>7, <1>10, <1>11, <1>12, ClaimServed

LEMMA InitialClaimKeeps ==
    ASSUME TypeOK, Protocol, InitialClaim
    PROVE  Protocol'
  <1>1. PICK m : m = Head(inbox)
    OBVIOUS
  <1>2. PICK a : a = [engineerTid |-> m.tid, prevTime |-> NoTime,
                      primary |-> m.claim.primary, secondary |-> NoSensor]
    OBVIOUS
  <1>3. /\ Receive("initialClaim") /\ Unblock(m.tid) /\ attrs' = Append(attrs, a)
        /\ UNCHANGED <<on, sensorQueue, courier, mail, prevSensor, outstandingClaim, sensorCourierTid, left>>
    BY <1>1, <1>2 DEF InitialClaim, trackVars, serverVars, engineerVars
  <1>4. "initialClaim" \in ClaimTypes
    BY DEF ClaimTypes
  <1>5. /\ m.tid \in Trains /\ m.claim \in ClaimRecords /\ m.type = "initialClaim"
        /\ claimer[m.tid].pc = "sent" /\ claimer[m.tid].request = m
    BY <1>1, <1>3, <1>4, ClaimReceived
  <1>6. ~Registered(m.tid) /\ m.claim.secondary = NoSensor
    BY <1>5 DEF Protocol, Known, Carried
  <1>7. a.engineerTid = m.tid /\ a.primary = m.claim.primary /\ a.secondary = m.claim.secondary
    BY <1>2, <1>6
  <1>8. a \in Attributions
    BY <1>2, <1>5 DEF Attributions, ClaimRecords, Times
  <1>9. /\ DOMAIN attrs = 1 .. Len(attrs) /\ Len(attrs) \in Nat /\ attrs \in Seq(Attributions)
        /\ DOMAIN attrs' = 1 .. Len(attrs) + 1 /\ attrs'[Len(attrs) + 1] = a
        /\ \A i \in DOMAIN attrs : attrs'[i] = attrs[i]
    <2>1. attrs \in Seq(Attributions)
      BY DEF TypeOK
    <2> QED BY <1>3, <1>8, <2>1, AppendElements
  <1>10. /\ \A i \in DOMAIN attrs' : i \in DOMAIN attrs \/ i = Len(attrs) + 1
         /\ \A i \in DOMAIN attrs : i \in DOMAIN attrs'
         /\ Len(attrs) + 1 \in DOMAIN attrs'
    BY <1>9
  <1>11. OneAttribution'
    BY <1>6, <1>7, <1>9, <1>10 DEF Protocol, OneAttribution, Registered
  <1>12. \A u : Registered(u)' <=> Registered(u) \/ u = m.tid
    BY <1>7, <1>9, <1>10 DEF Registered
  <1>13. ASSUME NEW u, u # m.tid, Registered(u) PROVE Claims(u)' = Claims(u)
    <2>1. PICK i \in DOMAIN attrs : attrs[i].engineerTid = u
      BY <1>13 DEF Registered
    <2>2. Attribution(u) = attrs[i]
      BY <2>1, AttributionOf DEF Protocol, OneAttribution, Attribution
    <2>3. i \in DOMAIN attrs' /\ attrs'[i] = attrs[i]
      BY <1>9, <1>10
    <2>4. Attribution(u)' = attrs'[i]
      BY <1>11, <2>1, <2>3, AttributionOf DEF OneAttribution, Attribution
    <2> QED BY <2>2, <2>3, <2>4 DEF Claims
  <1>14. Claims(m.tid)' = m.claim
    <2>1. Attribution(m.tid)' = a
      BY <1>7, <1>9, <1>10, <1>11, AttributionOf DEF OneAttribution, Attribution
    <2>2. Claims(m.tid)' = [primary |-> m.claim.primary, secondary |-> m.claim.secondary]
      BY <1>7, <2>1 DEF Claims
    <2> QED BY <1>5, <2>2 DEF ClaimRecords
  <1> QED BY <1>1, <1>3, <1>4, <1>11, <1>12, <1>13, <1>14, ClaimServed

(* Steps of the engineers. *)

(* What a step of one engineer does not touch. *)
OthersStay(t) ==
    \A u \in Trains \ {t} : /\ prevSensor'[u] = prevSensor[u] /\ outstandingClaim'[u] = outstandingClaim[u]
                            /\ sensorCourierTid'[u] = sensorCourierTid[u] /\ claimer'[u] = claimer[u]
                            /\ u \in left' <=> u \in left

LEMMA EngineerOthers ==
    ASSUME TypeOK, Protocol, NEW t \in Trains, NEW type, Mail(t, type), Begun(t), Begun(t)',
           UNCHANGED <<on, attrs, inbox, sensorQueue>>, courier' = courier \/ courier'.pc # "deliver",
           OthersStay(t)
    PROVE  /\ OneWay' /\ OneAttribution' /\ Delivered'
           /\ \A u \in Trains \ {t} : Known(u)' /\ Carried(u)' /\ Waiting(u)' /\ Follows(u)'
  <1>0. \A u \in Trains \ {t} : /\ prevSensor'[u] = prevSensor[u] /\ outstandingClaim'[u] = outstandingClaim[u]
                                /\ sensorCourierTid'[u] = sensorCourierTid[u] /\ claimer'[u] = claimer[u]
                                /\ u \in left' <=> u \in left
    BY DEF OthersStay
  <1>1. /\ \A u \in Trains \ {t} : mail'[u] = mail[u]
        /\ \A i \in DOMAIN mail'[t] : i + 1 \in DOMAIN mail[t] /\ mail'[t][i] = mail[t][i + 1]
                                      /\ i \in Nat \ {0} /\ i + 1 # 1
    BY Taken1
  <1>2. \A u \in Trains : Begun(u)' <=> Begun(u)
    BY <1>0 DEF Begun
  <1>3. OneWay' /\ OneAttribution'
    BY DEF Protocol, OneWay, OneAttribution
  <1>4. Delivered'
    <2>1. /\ \A i \in DOMAIN sensorQueue : Begun(sensorQueue[i].to) /\ sensorQueue[i].to \in Trains
          /\ courier.pc = "deliver" => Begun(courier.delivery.to) /\ courier.delivery.to \in Trains
      BY QueueFacts DEF Protocol, Delivered, TypeOK, Deliveries
    <2>2. /\ \A i \in DOMAIN sensorQueue : claimer'[sensorQueue[i].to].pc # "none"
          /\ courier.pc = "deliver" => claimer'[courier.delivery.to].pc # "none"
      BY <1>2, <2>1 DEF Begun
    <2>3. \A u \in Trains : \A i \in DOMAIN mail'[u] : mail'[u][i].type = "updateSensor" => claimer'[u].pc # "none"
      BY <1>1, <1>2 DEF Protocol, Delivered, Begun
    <2> QED BY <2>2, <2>3 DEF Delivered, Begun
  <1>5. ASSUME NEW u \in Trains \ {t}
        PROVE  Known(u)' /\ Carried(u)' /\ Waiting(u)' /\ Follows(u)'
    <2>1. Known(u)'
      BY <1>0, <1>2 DEF Protocol, Known, Placed, Registered
    <2>2. Carried(u)'
      BY <1>0 DEF Protocol, Carried
    <2>3. Waiting(u)'
      BY <1>0, <1>1 DEF Protocol, Waiting
    <2>4. Follows(u)'
      BY <1>0 DEF Protocol, Follows, Latest, Claims, Attribution
    <2> QED BY <2>1, <2>2, <2>3, <2>4
  <1> QED BY <1>3, <1>4, <1>5

(* The engineer has his courier and sends him off with a claim. *)
LEMMA ClaimKeeps ==
    ASSUME TypeOK, Protocol, NEW t \in Trains, NEW s \in Sensors, NEW type, Mail(t, type),
           sensorCourierTid[t], Claim(t, NextClaims(s)), prevSensor' = [prevSensor EXCEPT ![t] = s],
           UNCHANGED <<on, attrs, inbox, sensorQueue>>, courier' = courier \/ courier'.pc # "deliver"
    PROVE  Protocol'
  <1>1. /\ claimer' = [claimer EXCEPT ![t] = [pc |-> "claim", request |-> NextRequest(t, NextClaims(s))]]
        /\ sensorCourierTid' = [sensorCourierTid EXCEPT ![t] = FALSE]
        /\ left' = left \ {t}
        /\ UNCHANGED outstandingClaim
    BY DEF Claim, ReplyToClaimer
  <1>2. /\ claimer'[t].pc = "claim" /\ claimer'[t].request.type = "claimSensor"
        /\ claimer'[t].request.tid = t /\ claimer'[t].request.claim = NextClaims(s)
        /\ \A u \in Trains \ {t} : claimer'[u] = claimer[u]
    BY <1>1 DEF TypeOK, NextRequest, Request
  <1>3. /\ sensorCourierTid'[t] = FALSE /\ prevSensor'[t] = s
        /\ \A u \in Trains \ {t} : sensorCourierTid'[u] = sensorCourierTid[u] /\ prevSensor'[u] = prevSensor[u]
    BY <1>1 DEF TypeOK
  <1>4. claimer[t].pc = "asked" /\ outstandingClaim[t] = NoClaim
    BY DEF Protocol, Waiting
  <1>5. Begun(t) /\ Begun(t)' /\ Registered(t)
    BY <1>2, <1>4 DEF Begun, Protocol, Known
  <1>6. /\ OneWay' /\ OneAttribution' /\ Delivered'
        /\ \A u \in Trains \ {t} : Known(u)' /\ Carried(u)' /\ Waiting(u)' /\ Follows(u)'
    <2>1. OthersStay(t)
      BY <1>1, <1>2, <1>3 DEF OthersStay
    <2> QED BY <1>1, <1>5, <2>1, EngineerOthers
  <1>7. Known(t)'
    BY <1>2, <1>5 DEF Protocol, Known, Placed, Registered
  <1>8. Carried(t)'
    BY <1>2, <1>4 DEF Protocol, Carried
  <1>9. Waiting(t)'
    <2>1. \A i \in DOMAIN mail[t] : mail[t][i].type # "sensorCourierRequest"
      BY DEF Protocol, Waiting
    <2>2. \A i \in DOMAIN mail'[t] : i + 1 \in DOMAIN mail[t] /\ mail'[t][i] = mail[t][i + 1]
      BY Taken1
    <2> QED BY <1>3, <2>1, <2>2 DEF Waiting
  <1>10. Follows(t)'
    BY <1>1, <1>2, <1>3, <1>4 DEF Follows, Latest
  <1> QED BY <1>6, <1>7, <1>8, <1>9, <1>10 DEF Protocol

LEMMA UpdateSensorKeeps ==
    ASSUME TypeOK, Protocol, NEW t \in Trains, UpdateSensor(t)
    PROVE  Protocol'
  <1>1. Mail(t, "updateSensor") /\ courier' = [courier EXCEPT !.pc = "ask"]
        /\ UNCHANGED <<on, attrs, inbox, sensorQueue>>
    BY DEF UpdateSensor, trackVars, serverVars
  <1>2. PICK m \in EngineerMessages : m = Head(mail[t])
    BY <1>1, MailFacts
  <1>3. /\ 1 \in DOMAIN mail[t] /\ mail[t][1] = m /\ m.type = "updateSensor"
        /\ \A i \in DOMAIN mail'[t] : i + 1 \in DOMAIN mail[t] /\ mail'[t][i] = mail[t][i + 1]
                                      /\ i \in Nat \ {0} /\ i + 1 # 1
    BY <1>1, <1>2, Taken1
  <1>4. m.sensor \in Sensors /\ Begun(t) /\ courier'.pc # "deliver"
    BY <1>1, <1>3, MessageFacts DEF Protocol, Delivered, TypeOK
  <1>5. CASE m.time > creationTime[t] /\ sensorCourierTid[t]
    <2>1. prevSensor' = [prevSensor EXCEPT ![t] = m.sensor] /\ ClaimNext(t, m.sensor)
      BY <1>2, <1>5 DEF UpdateSensor
    <2>2. Claim(t, NextClaims(m.sensor))
      BY <1>5, <2>1 DEF ClaimNext
    <2> QED BY <1>1, <1>4, <1>5, <2>1, <2>2, ClaimKeeps
  <1>6. CASE ~(m.time > creationTime[t] /\ sensorCourierTid[t])
    <2>1. UNCHANGED <<claimer, sensorCourierTid>>
      <3>1. CASE m.time > creationTime[t]
        <4>1. ClaimNext(t, m.sensor)
          BY <1>2, <3>1 DEF UpdateSensor
        <4> QED BY <1>6, <3>1, <4>1 DEF ClaimNext, Remember
      <3>2. CASE ~(m.time > creationTime[t])
        BY <1>2, <3>2 DEF UpdateSensor, Keep
      <3> QED BY <3>1, <3>2
    <2>2. \/ /\ UNCHANGED <<prevSensor, outstandingClaim, left>>
          \/ /\ prevSensor' = [prevSensor EXCEPT ![t] = m.sensor] /\ ~sensorCourierTid[t]
             /\ left' = left \ {t}
             /\ outstandingClaim' = [outstandingClaim EXCEPT ![t] = NextClaims(m.sensor)]
      <3>1. CASE m.time > creationTime[t]
        <4>1. prevSensor' = [prevSensor EXCEPT ![t] = m.sensor] /\ ClaimNext(t, m.sensor)
          BY <1>2, <3>1 DEF UpdateSensor
        <4> QED BY <1>6, <3>1, <4>1 DEF ClaimNext, Remember
      <3>2. CASE ~(m.time > creationTime[t])
        BY <1>2, <3>2 DEF UpdateSensor, Keep
      <3> QED BY <3>1, <3>2
    <2>3. \A u \in Trains \ {t} : /\ prevSensor'[u] = prevSensor[u] /\ outstandingClaim'[u] = outstandingClaim[u]
                                  /\ u \in left' <=> u \in left
      BY <2>2 DEF TypeOK
    <2>4. Begun(t)'
      BY <1>4, <2>1 DEF Begun
    <2>5. /\ OneWay' /\ OneAttribution' /\ Delivered'
          /\ \A u \in Trains \ {t} : Known(u)' /\ Carried(u)' /\ Waiting(u)' /\ Follows(u)'
      <3>1. OthersStay(t)
        BY <2>1, <2>3 DEF OthersStay
      <3> QED BY <1>1, <1>4, <2>4, <3>1, EngineerOthers
    <2>6. Known(t)' /\ Carried(t)'
      BY <1>1, <1>4, <2>1 DEF Protocol, Known, Placed, Registered, Begun, Carried
    <2>7. Waiting(t)'
      <3>1. sensorCourierTid[t] => outstandingClaim'[t] = outstandingClaim[t]
        BY <2>2
      <3>2. \A i, j \in DOMAIN mail'[t] : i + 1 = j + 1 => i = j
        BY <1>3
      <3>3. ASSUME NEW i \in DOMAIN mail'[t], mail'[t][i].type = "sensorCourierRequest"
            PROVE  /\ claimer[t].pc = "asked" /\ ~sensorCourierTid[t]
                   /\ \A j \in DOMAIN mail'[t] : mail'[t][j].type = "sensorCourierRequest" => i = j
        BY <1>3, <3>2, <3>3 DEF Protocol, Waiting
      <3> QED BY <2>1, <3>1, <3>3 DEF Protocol, Waiting
    <2>8. Follows(t)'
      <3>1. CASE UNCHANGED <<prevSensor, outstandingClaim, left>>
        BY <1>1, <2>1, <3>1 DEF Protocol, Follows, Latest, Claims, Attribution
      <3>2. CASE /\ prevSensor' = [prevSensor EXCEPT ![t] = m.sensor]
                 /\ outstandingClaim' = [outstandingClaim EXCEPT ![t] = NextClaims(m.sensor)]
        <4>1. prevSensor'[t] = m.sensor /\ outstandingClaim'[t] = NextClaims(m.sensor)
          BY <3>2 DEF TypeOK
        <4>2. NextClaims(m.sensor) # NoClaim
          BY <1>4, NextClaimsFacts
        <4>3. Latest(t)' = NextClaims(m.sensor)
          BY <4>1, <4>2 DEF Latest
        <4> QED BY <4>1, <4>3 DEF Follows, NextClaims
      <3> QED BY <2>2, <3>1, <3>2
    <2> QED BY <2>5, <2>6, <2>7, <2>8 DEF Protocol
  <1> QED BY <1>5, <1>6

LEMMA SensorCourierRequestKeeps ==
    ASSUME TypeOK, Protocol, NEW t \in Trains, SensorCourierRequest(t)
    PROVE  Protocol'
  <1>1. Mail(t, "sensorCourierRequest")
        /\ UNCHANGED <<on, attrs, inbox, sensorQueue, courier, prevSensor, left>>
    BY DEF SensorCourierRequest, trackVars, serverVars
  <1>2. /\ 1 \in DOMAIN mail[t] /\ mail[t][1].type = "sensorCourierRequest"
        /\ \A i \in DOMAIN mail'[t] : i + 1 \in DOMAIN mail[t] /\ mail'[t][i] = mail[t][i + 1]
                                      /\ i \in Nat \ {0} /\ i + 1 # 1
    BY <1>1, Taken1
  <1>3. /\ claimer[t].pc = "asked" /\ ~sensorCourierTid[t]
        /\ \A i \in DOMAIN mail'[t] : mail'[t][i].type # "sensorCourierRequest"
    BY <1>2 DEF Protocol, Waiting
  <1>4. Begun(t) /\ Registered(t) /\ \A i \in DOMAIN inbox : ~(inbox[i].type \in ClaimTypes /\ inbox[i].tid = t)
    BY <1>3 DEF Begun, Protocol, Known, Carried
  <1>5. CASE outstandingClaim[t] # NoClaim
    <2>1. PICK c : c = outstandingClaim[t]
      OBVIOUS
    <2>2. /\ claimer' = [claimer EXCEPT ![t] = [pc |-> "claim", request |-> NextRequest(t, c)]]
          /\ outstandingClaim' = [outstandingClaim EXCEPT ![t] = NoClaim]
          /\ UNCHANGED sensorCourierTid
      BY <1>5, <2>1 DEF SensorCourierRequest, ReplyToClaimer, Taken
    <2>3. /\ claimer'[t].pc = "claim" /\ claimer'[t].request.type = "claimSensor"
          /\ claimer'[t].request.tid = t /\ claimer'[t].request.claim = c
          /\ outstandingClaim'[t] = NoClaim
          /\ \A u \in Trains \ {t} : claimer'[u] = claimer[u] /\ outstandingClaim'[u] = outstandingClaim[u]
      BY <2>2 DEF TypeOK, NextRequest, Request
    <2>4. Begun(t)'
      BY <2>3 DEF Begun
    <2>5. /\ OneWay' /\ OneAttribution' /\ Delivered'
          /\ \A u \in Trains \ {t} : Known(u)' /\ Carried(u)' /\ Waiting(u)' /\ Follows(u)'
      <3>1. OthersStay(t)
        BY <1>1, <2>2, <2>3 DEF OthersStay
      <3> QED BY <1>1, <1>4, <2>4, <3>1, EngineerOthers
    <2>6. Known(t)'
      BY <1>1, <1>4, <2>3, <2>4 DEF Protocol, Known, Placed, Registered
    <2>7. Carried(t)'
      BY <1>1, <1>4, <2>3 DEF Carried
    <2>8. Waiting(t)'
      BY <1>3, <2>2 DEF Waiting
    <2>9. Follows(t)'
      BY <1>1, <1>5, <2>1, <2>3 DEF Protocol, Follows, Latest, NextClaims
    <2> QED BY <2>5, <2>6, <2>7, <2>8, <2>9 DEF Protocol
  <1>6. CASE outstandingClaim[t] = NoClaim
    <2>1. /\ sensorCourierTid' = [sensorCourierTid EXCEPT ![t] = TRUE]
          /\ UNCHANGED <<claimer, outstandingClaim>>
      BY <1>6 DEF SensorCourierRequest
    <2>2. sensorCourierTid'[t] = TRUE
          /\ \A u \in Trains \ {t} : sensorCourierTid'[u] = sensorCourierTid[u]
      BY <2>1 DEF TypeOK
    <2>3. Begun(t)'
      BY <1>4, <2>1 DEF Begun
    <2>4. /\ OneWay' /\ OneAttribution' /\ Delivered'
          /\ \A u \in Trains \ {t} : Known(u)' /\ Carried(u)' /\ Waiting(u)' /\ Follows(u)'
      <3>1. OthersStay(t)
        BY <1>1, <2>1, <2>2 DEF OthersStay
      <3> QED BY <1>1, <1>4, <2>3, <3>1, EngineerOthers
    <2>5. Known(t)' /\ Carried(t)' /\ Follows(t)'
      BY <1>1, <2>1 DEF Protocol, Known, Placed, Registered, Begun, Carried, Follows, Latest, Claims, Attribution
    <2>6. Waiting(t)'
      BY <1>3, <1>6, <2>1, <2>2 DEF Waiting
    <2> QED BY <2>4, <2>5, <2>6 DEF Protocol
  <1> QED BY <1>5, <1>6

LEMMA CommandWorkerReverseSetKeeps ==
    ASSUME TypeOK, Protocol, NEW t \in Trains, Turned(t), CommandWorkerReverseSet(t)
    PROVE  Protocol'
  <1>1. Mail(t, "commandWorkerReverseSet")
        /\ UNCHANGED <<on, attrs, inbox, sensorQueue, courier>>
    BY DEF CommandWorkerReverseSet, trackVars, serverVars
  <1>2. /\ 1 \in DOMAIN mail[t] /\ mail[t][1].type = "commandWorkerReverseSet"
        /\ \A i \in DOMAIN mail'[t] : i + 1 \in DOMAIN mail[t] /\ mail'[t][i] = mail[t][i + 1]
                                      /\ i \in Nat \ {0}
    BY <1>1, Taken1
  <1>3. prevSensor[t] \in Sensors
    BY <1>2 DEF Turned, TypeOK
  <1>4. PICK s \in Sensors : s = Opposite(prevSensor[t])
    BY <1>3, TrackFacts
  <1>5. prevSensor' = [prevSensor EXCEPT ![t] = s]
    BY <1>4 DEF CommandWorkerReverseSet
  <1>6. CASE outstandingClaim[t] = NoClaim /\ sensorCourierTid[t]
    <2>1. Claim(t, NextClaims(s))
      BY <1>4, <1>6 DEF CommandWorkerReverseSet
    <2> QED BY <1>1, <1>5, <1>6, <2>1, ClaimKeeps
  <1>7. CASE ~(outstandingClaim[t] = NoClaim /\ sensorCourierTid[t])
    <2>1. ~sensorCourierTid[t]
      BY <1>7 DEF Protocol, Waiting
    <2>2. \/ /\ outstandingClaim' = [outstandingClaim EXCEPT ![t] = NextClaims(s)] /\ left' = left \ {t}
          \/ /\ UNCHANGED outstandingClaim /\ left' = left \cup {t}
      BY <1>4, <1>7 DEF CommandWorkerReverseSet, Remember, Leave
    <2>3. UNCHANGED <<claimer, sensorCourierTid>>
      BY <1>7 DEF CommandWorkerReverseSet, Remember, Leave
    <2>4. /\ prevSensor'[t] = s
          /\ \A u \in Trains \ {t} : /\ prevSensor'[u] = prevSensor[u]
                                     /\ outstandingClaim'[u] = outstandingClaim[u]
                                     /\ u \in left' <=> u \in left
      BY <1>5, <2>2 DEF TypeOK
    <2>5. Begun(t) /\ Begun(t)'
      BY <1>3, <2>3, TrackFacts DEF Protocol, Known, Begun
    <2>6. /\ OneWay' /\ OneAttribution' /\ Delivered'
          /\ \A u \in Trains \ {t} : Known(u)' /\ Carried(u)' /\ Waiting(u)' /\ Follows(u)'
      <3>1. OthersStay(t)
        BY <2>3, <2>4 DEF OthersStay
      <3> QED BY <1>1, <2>5, <3>1, EngineerOthers
    <2>7. Known(t)' /\ Carried(t)'
      BY <1>1, <2>3, <2>5 DEF Protocol, Known, Placed, Registered, Begun, Carried
    <2>8. Waiting(t)'
      <3>1. \A i, j \in DOMAIN mail'[t] : i + 1 = j + 1 => i = j
        BY <1>2
      <3> QED BY <1>2, <2>1, <2>3, <3>1 DEF Protocol, Waiting
    <2>9. Follows(t)'
      <3>1. CASE outstandingClaim' = [outstandingClaim EXCEPT ![t] = NextClaims(s)]
        <4>1. outstandingClaim'[t] = NextClaims(s) /\ NextClaims(s) # NoClaim
          BY <3>1, NextClaimsFacts DEF TypeOK
        <4>2. Latest(t)' = NextClaims(s)
          BY <4>1 DEF Latest
        <4> QED BY <2>4, <4>2 DEF Follows, NextClaims
      <3>2. CASE left' = left \cup {t}
        BY <3>2 DEF Follows
      <3> QED BY <2>2, <3>1, <3>2
    <2> QED BY <2>6, <2>7, <2>8, <2>9 DEF Protocol
  <1> QED BY <1>6, <1>7
-----------------------------------------------------------------------------
LEMMA ProtocolInit == Init => Protocol
  <1> SUFFICES ASSUME Init PROVE Protocol
    OBVIOUS
  <1>1. DOMAIN <<>> = {}
    OBVIOUS
  <1>2. /\ \A s \in Sensors : on[s] = <<>>
        /\ inbox = <<>> /\ attrs = <<>> /\ sensorQueue = <<>> /\ courier.pc = "ask"
        /\ \A t \in Trains : /\ mail[t] = <<>> /\ prevSensor[t] = NoSensor
                             /\ outstandingClaim[t] = NoClaim /\ sensorCourierTid[t] = FALSE
                             /\ claimer[t].pc = "none" /\ claimer[t].request = Request("initialClaim", t, NoClaim)
    BY DEF Init
  <1>3. OneWay /\ Delivered /\ OneAttribution
    BY <1>1, <1>2 DEF OneWay, Delivered, OneAttribution
  <1>4. ASSUME NEW t \in Trains PROVE Known(t) /\ Carried(t) /\ Waiting(t) /\ Follows(t)
    <2>1. /\ claimer[t].request.tid = t /\ claimer[t].request.claim.secondary = NoSensor
          /\ ~Begun(t) /\ ~Registered(t)
      <3>1. ~Begun(t) /\ DOMAIN attrs = {}
        BY <1>1, <1>2 DEF Begun
      <3>2. claimer[t].request = Request("initialClaim", t, NoClaim)
        BY <1>2
      <3>3. Request("initialClaim", t, NoClaim).tid = t /\ Request("initialClaim", t, NoClaim).claim = NoClaim
        BY DEF Request
      <3> QED BY <3>1, <3>2, <3>3 DEF Registered, NoClaim
    <2>2. Known(t) /\ Follows(t)
      BY <1>2, <2>1 DEF Known, Follows
    <2>3. Carried(t) /\ Waiting(t)
      BY <1>1, <1>2, <2>1 DEF Carried, Waiting
    <2> QED BY <2>2, <2>3
  <1> QED BY <1>3, <1>4 DEF Protocol

LEMMA ProtocolStep ==
    ASSUME TypeOK, Protocol, \A t \in Trains : Turned(t), [Next]_vars
    PROVE  Protocol'
  <1>1. CASE Railway
    <2>1. PICK t \in Trains, s \in Sensors : Hit(t, s) \/ Miss(t, s) \/ ReverseTrain(t, s) \/ Initialize(t, s)
      BY <1>1 DEF Railway
    <2>2. CASE Hit(t, s) \/ Miss(t, s)
      <3>1. MayPass(t, s) /\ Pass(t, s)
            /\ UNCHANGED <<inbox, attrs, sensorQueue, courier, mail, prevSensor, outstandingClaim,
                           sensorCourierTid, claimer, left>>
        BY <2>2 DEF Hit, Miss, serverVars, engineerVars
      <3> QED BY <3>1, PassKeeps
    <2> QED BY <2>1, <2>2, ReverseTrainKeeps, InitializeKeeps
  <1>2. CASE Worker
    BY <1>2, WorkerKeeps
  <1>3. CASE Couriers
    BY <1>3, CourierKeeps, ClaimerClaimsKeeps, ClaimerAsksKeeps DEF Couriers
  <1>4. CASE Server
    BY <1>4, ServerOtherKeeps, AttributeKeeps, ClaimSensorKeeps, InitialClaimKeeps DEF Server
  <1>5. CASE \E t \in Trains : Engineer(t)
    BY <1>5, UpdateSensorKeeps, SensorCourierRequestKeeps, CommandWorkerReverseSetKeeps DEF Engineer
  <1>6. CASE UNCHANGED vars
    <2>1. UNCHANGED <<on, inbox, attrs, sensorQueue, courier, mail, prevSensor, outstandingClaim,
                      sensorCourierTid, claimer, left>>
      BY <1>6 DEF vars, trackVars, workerVars, serverVars, engineerVars
    <2>2. OneWay' /\ Delivered' /\ OneAttribution'
      BY <2>1 DEF Protocol, OneWay, Delivered, Begun, OneAttribution
    <2>3. \A t \in Trains : Known(t)' /\ Carried(t)' /\ Waiting(t)' /\ Follows(t)'
      BY <2>1 DEF Protocol, Known, Placed, Begun, Registered, Carried, Waiting, Follows,
                  Latest, Claims, Attribution
    <2> QED BY <2>2, <2>3 DEF Protocol
  <1> QED BY <1>1, <1>2, <1>3, <1>4, <1>5, <1>6 DEF Next
-----------------------------------------------------------------------------
(* No step brings a reversal to an engineer who has not heard of a sensor. *)
LEMMA TurnedStep ==
    ASSUME TypeOK, TypeOK', \A t \in Trains : Turned(t), [Next]_vars
    PROVE  \A t \in Trains : Turned(t)'
  <1>0. mail \in [Trains -> Seq(EngineerMessages)]
    BY DEF TypeOK
  <1>1. ASSUME UNCHANGED <<mail, prevSensor>> PROVE \A t \in Trains : Turned(t)'
    BY <1>1 DEF Turned
  <1>2. ASSUME NEW t \in Trains, NEW m \in EngineerMessages, UNCHANGED prevSensor,
               mail' = [mail EXCEPT ![t] = Append(@, m)],
               m.type = "commandWorkerReverseSet" => prevSensor[t] # NoSensor
        PROVE  \A u \in Trains : Turned(u)'
    <2>1. /\ \A u \in Trains \ {t} : mail'[u] = mail[u]
          /\ \A i \in DOMAIN mail[t] : mail'[t][i] = mail[t][i]
          /\ mail'[t][Len(mail[t]) + 1] = m
          /\ \A i \in DOMAIN mail'[t] : i \in DOMAIN mail[t] \/ i = Len(mail[t]) + 1
      BY <1>2, Posted
    <2>2. Turned(t)'
      BY <1>2, <2>1 DEF Turned
    <2>3. \A u \in Trains \ {t} : Turned(u)'
      BY <1>2, <2>1 DEF Turned
    <2> QED BY <2>2, <2>3
  <1>3. ASSUME NEW t \in Trains, NEW type, Mail(t, type),
               \A u \in Trains : prevSensor[u] # NoSensor => prevSensor'[u] # NoSensor
        PROVE  \A u \in Trains : Turned(u)'
    <2>1. /\ \A u \in Trains \ {t} : mail'[u] = mail[u]
          /\ \A i \in DOMAIN mail'[t] : i + 1 \in DOMAIN mail[t] /\ mail'[t][i] = mail[t][i + 1]
      BY <1>3, Taken1
    <2> QED BY <1>3, <2>1 DEF Turned
  <1>4. CASE Railway
    <2>1. PICK t \in Trains, s \in Sensors : Hit(t, s) \/ Miss(t, s) \/ ReverseTrain(t, s) \/ Initialize(t, s)
      BY <1>4 DEF Railway
    <2>2. CASE Hit(t, s) \/ Miss(t, s) \/ Initialize(t, s)
      BY <1>1, <2>2 DEF Hit, Miss, Initialize, engineerVars
    <2>3. CASE ReverseTrain(t, s)
      <3>1. PICK m : m = [type |-> "commandWorkerReverseSet"]
        OBVIOUS
      <3>2. m \in EngineerMessages /\ prevSensor[t] # NoSensor /\ UNCHANGED prevSensor
            /\ mail' = [mail EXCEPT ![t] = Append(@, m)]
        BY <2>3, <3>1, MessageFacts DEF ReverseTrain, engineerVars
      <3> QED BY <1>2, <3>2
    <2> QED BY <2>1, <2>2, <2>3
  <1>5. CASE Worker
    BY <1>1, <1>5 DEF Worker, WorkerSends, Read, engineerVars
  <1>6. CASE Couriers
    <2>1. CASE CourierAsks
      BY <1>1, <2>1 DEF CourierAsks, engineerVars
    <2>2. CASE CourierDelivers
      <3>1. PICK t : t = courier.delivery.to
        OBVIOUS
      <3>2. PICK m : m = [type |-> "updateSensor", sensor |-> courier.delivery.sensor, time |-> courier.delivery.time]
        OBVIOUS
      <3>3. m \in EngineerMessages /\ m.type # "commandWorkerReverseSet" /\ t \in Trains
        BY <2>2, <3>1, <3>2, MessageFacts DEF CourierDelivers, TypeOK, Deliveries
      <3>4. UNCHANGED prevSensor /\ mail' = [mail EXCEPT ![t] = Append(@, m)]
        BY <2>2, <3>1, <3>2 DEF CourierDelivers, engineerVars
      <3> QED BY <1>2, <3>3, <3>4
    <2>3. ASSUME NEW t \in Trains, ClaimerClaims(t) PROVE \A u \in Trains : Turned(u)'
      BY <1>1, <2>3 DEF ClaimerClaims, engineerVars
    <2>4. ASSUME NEW t \in Trains, ClaimerAsks(t) PROVE \A u \in Trains : Turned(u)'
      <3>1. PICK m : m = [type |-> "sensorCourierRequest"]
        OBVIOUS
      <3>2. m \in EngineerMessages /\ m.type # "commandWorkerReverseSet"
        BY <3>1, MessageFacts
      <3>3. UNCHANGED prevSensor /\ mail' = [mail EXCEPT ![t] = Append(@, m)]
        BY <2>4, <3>1 DEF ClaimerAsks, engineerVars
      <3> QED BY <1>2, <3>2, <3>3
    <2> QED BY <1>6, <2>1, <2>2, <2>3, <2>4 DEF Couriers
  <1>7. CASE Server
    <2>1. UNCHANGED <<mail, prevSensor>>
      BY <1>7 DEF Server, RequestSensor, NewSensor, Attribute, ReplyToWorker, ClaimSensor, InitialClaim, engineerVars
    <2> QED BY <1>1, <2>1
  <1>8. ASSUME NEW t \in Trains, Engineer(t) PROVE \A u \in Trains : Turned(u)'
    <2>1. CASE UpdateSensor(t)
      <3>1. PICK m \in EngineerMessages : m = Head(mail[t]) /\ m.type = "updateSensor" /\ Mail(t, "updateSensor")
        BY <2>1, MailFacts DEF UpdateSensor
      <3>2. m.sensor # NoSensor
        BY <3>1, MessageFacts, TrackFacts
      <3>3. prevSensor' = prevSensor \/ prevSensor' = [prevSensor EXCEPT ![t] = m.sensor]
        BY <2>1, <3>1 DEF UpdateSensor
      <3>4. \A u \in Trains : prevSensor[u] # NoSensor => prevSensor'[u] # NoSensor
        BY <3>2, <3>3 DEF TypeOK
      <3> QED BY <1>3, <3>1, <3>4
    <2>2. CASE SensorCourierRequest(t)
      <3>1. Mail(t, "sensorCourierRequest") /\ UNCHANGED prevSensor
        BY <2>2 DEF SensorCourierRequest
      <3> QED BY <1>3, <3>1
    <2>3. CASE CommandWorkerReverseSet(t)
      <3>1. Mail(t, "commandWorkerReverseSet")
        BY <2>3 DEF CommandWorkerReverseSet
      <3>2. prevSensor[t] \in Sensors
        BY <3>1, Taken1 DEF Turned, TypeOK
      <3>3. PICK s \in Sensors : s = Opposite(prevSensor[t]) /\ s # NoSensor
        BY <3>2, TrackFacts
      <3>4. prevSensor' = [prevSensor EXCEPT ![t] = s]
        BY <2>3, <3>3 DEF CommandWorkerReverseSet
      <3>5. \A u \in Trains : prevSensor[u] # NoSensor => prevSensor'[u] # NoSensor
        BY <3>3, <3>4 DEF TypeOK
      <3> QED BY <1>3, <3>1, <3>5
    <2> QED BY <1>8, <2>1, <2>2, <2>3 DEF Engineer
  <1>9. CASE UNCHANGED vars
    BY <1>1, <1>9 DEF vars, engineerVars
  <1> QED BY <1>4, <1>5, <1>6, <1>7, <1>8, <1>9 DEF Next

(* Every variable holds what its declaration can hold, on every track and  *)
(* whatever is reversed when: no sensor but one of the five groups of      *)
(* sixteen is reported, and a delivery always has a train it is for.       *)
THEOREM TypeCorrect == Spec => []TypeOK
  <1> DEFINE Inv == TypeOK /\ \A t \in Trains : Turned(t)
  <1>1. Init => Inv
    <2>1. Init => \A t \in Trains : mail[t] = <<>>
      BY DEF Init
    <2>2. DOMAIN <<>> = {}
      OBVIOUS
    <2> QED BY <2>1, <2>2, TypeInit DEF Turned
  <1>2. Inv /\ [Next]_vars => Inv'
    <2> SUFFICES ASSUME Inv, [Next]_vars PROVE Inv'
      OBVIOUS
    <2>1. TypeOK'
      BY TypeStep
    <2>2. \A t \in Trains : Turned(t)'
      BY <2>1, TurnedStep
    <2> QED BY <2>1, <2>2
  <1>3. Inv => TypeOK
    OBVIOUS
  <1> QED BY <1>1, <1>2, <1>3, PTL DEF Spec

(* The claim an engineer has made last is followed on its way from him to  *)
(* the attribution, whatever is reversed when.                             *)
THEOREM Inductive == Spec => []ClaimInv
  <1>1. Init => ClaimInv
    <2>1. Init => \A t \in Trains : mail[t] = <<>>
      BY DEF Init
    <2>2. DOMAIN <<>> = {}
      OBVIOUS
    <2>3. Init => \A t \in Trains : Turned(t)
      BY <2>1, <2>2 DEF Turned
    <2> QED BY <2>3, TypeInit, ProtocolInit DEF ClaimInv, Protocol
  <1>2. ClaimInv /\ [Next]_vars => ClaimInv'
    <2> SUFFICES ASSUME ClaimInv, [Next]_vars PROVE ClaimInv'
      OBVIOUS
    <2>1. TypeOK /\ Protocol /\ \A t \in Trains : Turned(t)
      BY DEF ClaimInv, Protocol
    <2>2. TypeOK'
      BY <2>1, TypeStep
    <2>3. Protocol' /\ \A t \in Trains : Turned(t)'
      BY <2>1, <2>2, ProtocolStep, TurnedStep
    <2> QED BY <2>2, <2>3 DEF ClaimInv, Protocol
  <1> QED BY <1>1, <1>2, PTL DEF Spec

(* On every track and for any number of trains, a sensor courier that      *)
(* waits for a claim has left the server with the claims that follow from  *)
(* the engineer's last sensor, whatever hits, claims and deliveries of     *)
(* other trains pass in between and whenever a train turns round; but if   *)
(* an engineer has turned his train round with the courier away and no     *)
(* claim put by, only from the next claim on (engineer.c:815-858,          *)
(* 957-973).                                                               *)
THEOREM ClaimsAreRight == Spec => []ClaimsFollow
  <1>1. ClaimInv => ClaimsFollow
    <2> SUFFICES ASSUME ClaimInv, NEW t \in Trains \ left, sensorCourierTid[t], prevSensor[t] # NoSensor
                 PROVE  Claims(t) = NextClaims(prevSensor[t])
      BY DEF ClaimsFollow
    <2>1. claimer[t].pc = "asked" /\ outstandingClaim[t] = NoClaim /\ Latest(t) = NextClaims(prevSensor[t])
      BY DEF ClaimInv, Waiting, Follows
    <2> QED BY <2>1 DEF Latest
  <1> QED BY <1>1, Inductive, PTL
=============================================================================
