---------------------------- MODULE EngineerProofs ----------------------------
(***************************************************************************)
(* What the engineer takes for the train's speed, direction and place is   *)
(* right on every track, for every set of speeds and every queue; and the  *)
(* way it plans to its target is a shortest one.                           *)
(*                                                                         *)
(* The first part is about the track: a walk, the stretch up to the next   *)
(* sensor, and the same stretch seen from its other end.  The second is    *)
(* the inductive invariant.  The third is about planRoute: its heap, the   *)
(* ways over the track, and the search (module PathFinding); and about the *)
(* turnouts that lead along what it finds.                                 *)
(***************************************************************************)
EXTENDS Engineer, PathFinding, FiniteSetTheorems, SequenceTheorems, WellFoundedInduction, TLAPS

LEMMA LeastExists ==
    ASSUME NEW S, S \subseteq Nat, S # {}
    PROVE  \E k \in S : \A j \in S : k <= j
  <1>1. PICK k \in S : \A j \in S : ~(<<j, k>> \in OpToRel(<, Nat))
    BY NatLessThanWellFounded, WFMin
  <1>2. \A j \in S : ~(j < k)
    BY <1>1 DEF OpToRel
  <1>3. k \in Nat /\ \A j \in S : j \in Nat
    OBVIOUS
  <1>4. \A j \in S : k <= j
    BY <1>2, <1>3
  <1> QED BY <1>4
-----------------------------------------------------------------------------
(* f is the walk of k steps from n. *)
Steps(n, k, f) == f = [j \in 0 .. k |-> IF j = 0 THEN n ELSE NextNode[f[j - 1]]]

LEMMA StepsAgree ==
    ASSUME NEW n, NEW k \in Nat, NEW l \in Nat, NEW f, NEW g,
           Steps(n, k, f), Steps(n, l, g), NEW i \in Nat, i <= k, i <= l
    PROVE  f[i] = g[i]
  <1> DEFINE Bad == {j \in Nat : j <= k /\ j <= l /\ f[j] # g[j]}
  <1>1. SUFFICES ASSUME Bad # {} PROVE FALSE
    OBVIOUS
  <1>2. PICK b \in Bad : \A j \in Bad : b <= j
    BY <1>1, LeastExists
  <1>3. b \in 0 .. k /\ b \in 0 .. l /\ f[b] # g[b]
    OBVIOUS
  <1>4. f[b] = (IF b = 0 THEN n ELSE NextNode[f[b - 1]])
    BY <1>3 DEF Steps
  <1>5. g[b] = (IF b = 0 THEN n ELSE NextNode[g[b - 1]])
    BY <1>3 DEF Steps
  <1>6. b # 0
    BY <1>3, <1>4, <1>5
  <1>7. b - 1 \in Nat /\ b - 1 <= k /\ b - 1 <= l /\ ~(b <= b - 1)
    BY <1>6
  <1>8. b - 1 \in Bad
    BY <1>3, <1>4, <1>5, <1>6, <1>7
  <1> QED BY <1>2, <1>7, <1>8

LEMMA StepsExist ==
    ASSUME NEW n \in Nodes, NEW k \in Nat
    PROVE  \E f \in [0 .. k -> Nodes] : Steps(n, k, f)
  <1> DEFINE Bad == {j \in Nat : ~\E f \in [0 .. j -> Nodes] : Steps(n, j, f)}
  <1>1. SUFFICES ASSUME Bad # {} PROVE FALSE
    OBVIOUS
  <1>2. PICK b \in Bad : \A j \in Bad : b <= j
    BY <1>1, LeastExists
  <1>3. CASE b = 0
    <2>1. PICK f : f = [j \in 0 .. 0 |-> n]
      OBVIOUS
    <2>2. f \in [0 .. 0 -> Nodes]
      BY <2>1
    <2>3. \A j \in 0 .. 0 : j = 0
      OBVIOUS
    <2>4. f = [j \in 0 .. 0 |-> IF j = 0 THEN n ELSE NextNode[f[j - 1]]]
      BY <2>1, <2>3, Zenon
    <2> QED BY <1>3, <2>2, <2>4 DEF Steps
  <1>4. CASE b # 0
    <2>1. b \in Nat /\ b - 1 \in Nat /\ ~(b <= b - 1)
      BY <1>4
    <2>2. PICK f \in [0 .. b - 1 -> Nodes] : Steps(n, b - 1, f)
      BY <1>2, <2>1
    <2>3. PICK g : g = [j \in 0 .. b |-> IF j = b THEN NextNode[f[b - 1]] ELSE f[j]]
      OBVIOUS
    <2>4. /\ \A j \in 0 .. b - 1 : f[j] = (IF j = 0 THEN n ELSE NextNode[f[j - 1]])
          /\ f[b - 1] \in Nodes
      <3>1. b - 1 \in 0 .. b - 1
        BY <2>1
      <3>2. \A j \in 0 .. b - 1 : f[j] = (IF j = 0 THEN n ELSE NextNode[f[j - 1]])
        BY <2>2, Zenon DEF Steps
      <3> QED BY <2>2, <3>1, <3>2
    <2>5. g \in [0 .. b -> Nodes]
      BY <2>1, <2>2, <2>3, <2>4, EngineerAssumption
    <2>6. ASSUME NEW j \in 0 .. b
          PROVE  g[j] = IF j = 0 THEN n ELSE NextNode[g[j - 1]]
      <3>1. CASE j = b
        BY <1>4, <2>1, <2>3, <3>1
      <3>2. CASE j # b
        <4>1. j \in 0 .. b - 1 /\ (j # 0 => j - 1 \in 0 .. b - 1 /\ j - 1 # b)
          BY <2>1, <3>2
        <4>2. g[j] = f[j] /\ (j # 0 => g[j - 1] = f[j - 1])
          BY <2>1, <2>3, <3>2, <4>1
        <4> QED BY <2>4, <4>1, <4>2
      <3> QED BY <3>1, <3>2
    <2>7. g = [j \in 0 .. b |-> g[j]]
      BY <2>3
    <2>8. Steps(n, b, g)
      BY <2>6, <2>7 DEF Steps
    <2> QED BY <2>5, <2>8
  <1> QED BY <1>3, <1>4

C == Cardinality(Nodes)

LEMMA CIsNat == C \in Nat
  BY SensorsAssumption, FS_CardinalityType DEF C

(* Walk is the walk. *)
LEMMA WalkSteps ==
    ASSUME NEW n \in Nodes
    PROVE  /\ Walk(n) \in [0 .. C -> Nodes] /\ Walk(n)[0] = n
           /\ \A j \in 1 .. C : Walk(n)[j] = NextNode[Walk(n)[j - 1]]
  <1> DEFINE Chosen(k) == CHOOSE f : Steps(n, k, f)
  <1>1. \A k \in 0 .. C : Walk(n)[k] = Chosen(k)[k]
    BY DEF Walk, Steps, C
  <1>2. \A k \in 0 .. C : Steps(n, k, Chosen(k))
    <2>1. \A k \in 0 .. C : \E f : Steps(n, k, f)
      BY StepsExist, CIsNat
    <2> QED BY <2>1
  <1> HIDE DEF Chosen
  <1>3. PICK w \in [0 .. C -> Nodes] : Steps(n, C, w)
    BY StepsExist, CIsNat
  <1>4. \A k \in 0 .. C : Walk(n)[k] = w[k]
    <2> SUFFICES ASSUME NEW k \in 0 .. C PROVE Walk(n)[k] = w[k]
      OBVIOUS
    <2>1. k \in Nat /\ k <= C /\ k <= k
      BY CIsNat
    <2> QED BY <1>1, <1>2, <1>3, <2>1, CIsNat, StepsAgree
  <1>5. Walk(n) = [k \in 0 .. C |-> Walk(n)[k]]
    BY DEF Walk, C
  <1>6. Walk(n) \in [0 .. C -> Nodes]
    BY <1>4, <1>5
  <1>7. w[0] = n /\ \A j \in 1 .. C : w[j] = NextNode[w[j - 1]]
    BY <1>3, CIsNat DEF Steps
  <1> QED BY <1>4, <1>6, <1>7, CIsNat

LEMMA WalkNext ==
    ASSUME NEW n \in Nodes, NEW j \in 0 .. C - 1
    PROVE  /\ j \in 0 .. C /\ j + 1 \in 1 .. C /\ Walk(n)[j] \in Nodes
           /\ Walk(n)[j + 1] = NextNode[Walk(n)[j]]
  <1>1. j \in 0 .. C /\ j + 1 \in 1 .. C /\ (j + 1) - 1 = j
    BY CIsNat
  <1>2. Walk(n)[j + 1] = NextNode[Walk(n)[(j + 1) - 1]] /\ Walk(n) \in [0 .. C -> Nodes]
    BY <1>1, WalkSteps
  <1> QED BY <1>1, <1>2

(* The same way back: every step backwards is a step of the reverse.       *)
LEMMA WalkBack ==
    ASSUME NEW n \in Nodes, NEW k \in 0 .. C, NEW i \in 0 .. k
    PROVE  Walk(Reverse[Walk(n)[k]])[i] = Reverse[Walk(n)[k - i]]
  <1> DEFINE m == Reverse[Walk(n)[k]]
             Bad == {j \in Nat : j <= k /\ Walk(m)[j] # Reverse[Walk(n)[k - j]]}
  <1>1. SUFFICES ASSUME Bad # {} PROVE FALSE
    BY CIsNat
  <1>2. PICK b \in Bad : \A j \in Bad : b <= j
    BY <1>1, LeastExists
  <1>3. k \in Nat /\ k <= C /\ C \in Nat /\ m \in Nodes
    <2>1. Walk(n) \in [0 .. C -> Nodes]
      BY WalkSteps
    <2> QED BY <2>1, CIsNat, EngineerAssumption
  <1> HIDE DEF m
  <1>4. CASE b = 0
    <2>1. Walk(m)[0] = m
      BY <1>3, WalkSteps
    <2>2. k - 0 = k
      BY <1>3
    <2> QED BY <1>4, <2>1, <2>2 DEF m
  <1>5. CASE b # 0
    <2>1. /\ b \in Nat /\ b - 1 \in Nat /\ ~(b <= b - 1) /\ b \in 1 .. C
          /\ b <= k /\ b - 1 <= k
          /\ k - b \in 0 .. C - 1 /\ k - (b - 1) = (k - b) + 1
      BY <1>3, <1>5
    <2>2. Walk(m)[b - 1] = Reverse[Walk(n)[k - (b - 1)]]
      BY <1>2, <2>1
    <2>3. Walk(m)[b] = NextNode[Walk(m)[b - 1]]
      BY <1>3, <2>1, WalkSteps
    <2>4. Walk(n)[k - (b - 1)] = NextNode[Walk(n)[k - b]] /\ Walk(n)[k - b] \in Nodes
      BY <2>1, WalkNext
    <2>5. Walk(m)[b] = Reverse[Walk(n)[k - b]]
      BY <2>2, <2>3, <2>4, EngineerAssumption
    <2> QED BY <2>5
  <1> QED BY <1>4, <1>5

(* How far it is to the next sensor, and that there is one. *)
IsNext(n, k) ==
    k \in 1 .. C /\ Walk(n)[k] \in Sensors /\ \A j \in 1 .. k - 1 : Walk(n)[j] \notin Sensors

LEMMA NextIsFound ==
    ASSUME NEW s \in Sensors
    PROVE  IsNext(s, ToSensor(s)) /\ s \in Nodes
  <1> DEFINE Found == {k \in 1 .. C : Walk(s)[k] \in Sensors}
  <1>1. Found # {} /\ Found \subseteq Nat
    BY SensorsAssumption, CIsNat DEF C
  <1>2. PICK k \in Found : \A j \in Found : k <= j
    BY <1>1, LeastExists
  <1>3. \A j \in 1 .. k - 1 : j \in 1 .. C /\ ~(k <= j)
    BY <1>1, CIsNat
  <1>4. IsNext(s, k)
    BY <1>2, <1>3 DEF IsNext
  <1> QED BY <1>4, EngineerAssumption DEF ToSensor, IsNext, C

LEMMA NextIsUnique ==
    ASSUME NEW n, NEW k, IsNext(n, k)
    PROVE  ToSensor(n) = k
  <1>1. \A l : IsNext(n, l) => l = k
    BY CIsNat DEF IsNext
  <1>2. ToSensor(n) = CHOOSE l \in 1 .. C : IsNext(n, l)
    BY DEF ToSensor, IsNext, C
  <1> QED BY <1>1, <1>2 DEF IsNext

(* A train that turns round between two sensors has them in front and      *)
(* behind it the other way round, and keeps its place between them.        *)
LEMMA Turnabout ==
    ASSUME NEW s \in Sensors
    PROVE  /\ NextSensor[s] \in Sensors
           /\ Reverse[NextSensor[s]] \in Sensors
           /\ NextSensor[Reverse[NextSensor[s]]] = Reverse[s]
           /\ \A p \in Segment(s) : p \in Nodes /\
                 Reverse[NextNode[p]] \in Segment(Reverse[NextSensor[s]])
  <1> DEFINE k == ToSensor(s)
             t == Reverse[Walk(s)[k]]
  <1>1. IsNext(s, k) /\ s \in Nodes
    BY NextIsFound
  <1>2. k \in 1 .. C /\ C \in Nat /\ Walk(s)[k] \in Sensors
    BY <1>1, CIsNat DEF IsNext
  <1>3. NextSensor[s] = Walk(s)[k] /\ t \in Sensors /\ t \in Nodes
    BY <1>1, <1>2, SensorsAssumption, EngineerAssumption DEF NextSensor
  <1> HIDE DEF k
  <1>4. \A j \in 0 .. k : Walk(t)[j] = Reverse[Walk(s)[k - j]]
    BY <1>1, <1>2, WalkBack
  <1>5. Walk(t)[k] = Reverse[s] /\ Reverse[s] \in Sensors
    <2>1. k \in 0 .. k /\ k - k = 0
      BY <1>2
    <2> QED BY <1>1, <1>4, <2>1, WalkSteps, SensorsAssumption
  <1>6. IsNext(t, k)
    <2>1. ASSUME NEW j \in 1 .. k - 1
          PROVE  Walk(t)[j] \notin Sensors
      <3>1. j \in 0 .. k /\ k - j \in 1 .. k - 1 /\ k - j \in 0 .. C
        BY <1>2
      <3>2. Walk(s)[k - j] \notin Sensors /\ Walk(s)[k - j] \in Nodes
        BY <1>1, <3>1, WalkSteps DEF IsNext
      <3>3. Reverse[Walk(s)[k - j]] \notin Sensors
        BY <3>2, SensorsAssumption, EngineerAssumption
      <3> QED BY <1>4, <3>1, <3>3
    <2> QED BY <1>2, <1>5, <2>1 DEF IsNext
  <1>7. ToSensor(t) = k
    BY <1>6, NextIsUnique
  <1>8. NextSensor[t] = Reverse[s]
    BY <1>3, <1>5, <1>7 DEF NextSensor
  <1>9. ASSUME NEW p \in Segment(s)
        PROVE  p \in Nodes /\ Reverse[NextNode[p]] \in Segment(t)
    <2>1. PICK j \in 0 .. k - 1 : p = Walk(s)[j]
      BY DEF Segment, k
    <2>2. /\ j \in 0 .. C - 1
          /\ k - (j + 1) \in 0 .. k - 1 /\ k - (j + 1) \in 0 .. k
          /\ k - (k - (j + 1)) = j + 1
      BY <1>2
    <2>3. p \in Nodes /\ NextNode[p] = Walk(s)[j + 1]
      BY <1>1, <2>1, <2>2, WalkNext
    <2>4. Reverse[NextNode[p]] = Walk(t)[k - (j + 1)]
      BY <1>4, <2>2, <2>3
    <2> QED BY <1>7, <2>2, <2>3, <2>4 DEF Segment
  <1> QED BY <1>2, <1>3, <1>8, <1>9 DEF t

(* The stretch begins at its sensor, and the next node is on it too unless *)
(* it is a sensor.                                                         *)
LEMMA SegmentFacts ==
    ASSUME NEW s \in Sensors
    PROVE  /\ s \in Segment(s)
           /\ \A p \in Segment(s) : p \in Nodes /\ NextNode[p] \in Nodes
                 /\ (NextNode[p] \notin Sensors => NextNode[p] \in Segment(s))
  <1>1. PICK k : k = ToSensor(s)
    OBVIOUS
  <1>2. k \in 1 .. C /\ Walk(s)[k] \in Sensors /\ s \in Nodes /\ C \in Nat
    BY <1>1, NextIsFound, CIsNat DEF IsNext
  <1>3. s \in Segment(s)
    <2>1. 0 \in 0 .. k - 1
      BY <1>2
    <2> QED BY <1>1, <1>2, <2>1, WalkSteps DEF Segment
  <1>4. ASSUME NEW p \in Segment(s)
        PROVE  /\ p \in Nodes /\ NextNode[p] \in Nodes
               /\ (NextNode[p] \notin Sensors => NextNode[p] \in Segment(s))
    <2>1. PICK j \in 0 .. k - 1 : p = Walk(s)[j]
      BY <1>1 DEF Segment
    <2>2. /\ j \in 0 .. C - 1
          /\ (j + 1 # k => j + 1 \in 0 .. k - 1)
      BY <1>2
    <2>3. p \in Nodes /\ NextNode[p] \in Nodes /\ NextNode[p] = Walk(s)[j + 1]
      BY <1>2, <2>1, <2>2, WalkNext, EngineerAssumption
    <2> QED BY <1>1, <1>2, <2>2, <2>3 DEF Segment
  <1> QED BY <1>3, <1>4
-----------------------------------------------------------------------------
(***************************************************************************)
(* The inductive invariant.                                                *)
(***************************************************************************)
Pcs        == {"ask", "asked", "got", "told", "toldStop", "halting", "toldReverse", "pausing"}
FromWorker == {"commandWorkerRequest", "commandWorkerSpeedSet", "commandWorkerReverseSet"}
Others     == {"setSpeed", "setReverse", "xMark", "go", "updateSensor", "updateLocation"}
Messages   == [type : FromWorker \cup Others, value : Speeds \cup Nodes]
Workers    == [pc : Pcs, command : Commands]

(* What waits in the inbox. *)
Held        == {inbox[i] : i \in DOMAIN inbox}
Has(type)   == \E m \in Held : m.type = type
Once(types) == \A i, j \in DOMAIN inbox :
                  inbox[i].type \in types /\ inbox[j].type \in types => i = j

Typed == TypeOK /\ inbox \in Seq(Messages) /\ worker \in Workers /\ order \in Speeds

(* A report in the inbox is true, and its sender waits for the answer. *)
Reports ==
    \A m \in Held :
       /\ m.type = "setSpeed" => m.value \in Speeds
       /\ m.type \in {"xMark", "go"} => m.value \in Targets
       /\ m.type \in {"setReverse", "commandWorkerReverseSet"} => prevNode # None
       /\ m.type = "commandWorkerRequest" => worker.pc = "asked" /\ ~commandWorkerTid
       /\ m.type = "commandWorkerSpeedSet" =>
             worker.pc \in {"told", "toldStop"} /\ m.value = trainSpeed
       /\ m.type = "commandWorkerReverseSet" =>
             worker.pc = "toldReverse" /\ isForward = ~trainForward
       /\ m.type = "updateSensor" =>
             m.value = at /\ report = None /\ worker.pc # "toldReverse"

OneReport == Once(FromWorker) /\ Once({"updateSensor"})

DeskTyped(d) ==
    /\ d.tid \in BOOLEAN /\ d.queue \in Seq(Commands) /\ Len(d.queue) < Size
    /\ d.worker \in Workers /\ d.order \in Speeds

(* The last order is the last of the queue, or what the worker is at, or   *)
(* what the train does (speed); and nobody has ordered to turn a train     *)
(* round that has not been located.                                        *)
DeskOK(d, s, located) ==
    /\ d.tid => d.queue = << >> /\ d.worker.pc = "asked"
    /\ d.queue # << >> => d.order = d.queue[Len(d.queue)].speed
    /\ d.queue = << >> /\ d.worker.pc \in {"ask", "asked", "told"} => d.order = s
    /\ d.queue = << >> /\ d.worker.pc \notin {"ask", "asked", "told"} =>
          d.order = d.worker.command.speed
    /\ d.worker.pc \in {"toldStop", "halting", "toldReverse"} =>
          d.worker.command.type = "reverse"
    /\ d.worker.command.type = "reverse" => located
    /\ \A i \in DOMAIN d.queue : d.queue[i].type = "reverse" => located

DeskSound == DeskOK(Desk, trainSpeed, prevNode # None)

(* The engineer's picture of the track is of one stretch. *)
Sighted ==
    /\ prevSensor = None <=> prevNode = None
    /\ prevNode = None => state = "Ready"
    /\ prevSensor # None =>
          nextSensor = NextSensor[prevSensor] /\ prevNode \in Segment(prevSensor)

(* A train stands while it turns round, and a hit is never under way then; *)
(* but for a hit or a turn under way, it is where the engineer has it.     *)
Tracked ==
    /\ report # None => report = at /\ worker.pc # "toldReverse"
    /\ worker.pc = "toldReverse" => ~moving
    /\ prevSensor # None /\ report = None /\ ~Has("updateSensor") =>
          /\ ~Has("commandWorkerReverseSet") => at = prevSensor
          /\ Has("commandWorkerReverseSet") => at = Reverse[nextSensor]

Views ==
    /\ ~Has("commandWorkerSpeedSet") => speed = trainSpeed
    /\ ~Has("commandWorkerReverseSet") => isForward = trainForward

IInv ==
    /\ Typed /\ Reports /\ OneReport /\ DeskSound
    /\ Sighted /\ Tracked /\ Views /\ StateFits
-----------------------------------------------------------------------------
LEMMA NoneIsNoNode ==
    /\ None \notin Nodes /\ None \notin Sensors
    /\ Sensors \subseteq Nodes /\ Targets \subseteq Nodes
    /\ \A v \in Speeds : v \in Nat
  BY NoneAssumption, EngineerAssumption

LEMMA InitIInv == Init => IInv
  <1> SUFFICES ASSUME Init PROVE IInv
    OBVIOUS
  <1>1. Held = {}
    BY DEF Init, Held
  <1>2. Typed
    <2>1. worker \in Workers /\ worker.pc = "ask" /\ worker.command \in Commands
      BY EngineerAssumption DEF Init, Workers, Pcs, Done, Command, Commands
    <2>2. /\ trainSpeed \in Speeds /\ speed \in Speeds /\ order \in Speeds
          /\ report = None /\ prevNode = None /\ prevSensor = None /\ nextSensor = None
          /\ targetNode = None /\ location = "delay" /\ state = "Ready"
          /\ commandQueue = << >> /\ inbox = << >> /\ at \in Sensors
      BY EngineerAssumption DEF Init
    <2>3. Len(commandQueue) < Size
      BY <2>2, EngineerAssumption
    <2>4. /\ trainForward \in BOOLEAN /\ moving \in BOOLEAN /\ isForward \in BOOLEAN
          /\ triggeredSensor \in BOOLEAN /\ commandWorkerTid \in BOOLEAN /\ failed \in BOOLEAN
      BY DEF Init
    <2> QED BY <2>1, <2>2, <2>3, <2>4 DEF Typed, TypeOK, States
  <1>3. DeskSound
    BY DEF Init, DeskSound, DeskOK, Desk, Done, Command
  <1>4. OneReport
    BY DEF Init, OneReport, Once
  <1> QED BY <1>1, <1>2, <1>3, <1>4
          DEF Init, IInv, Reports, Sighted, Tracked, Views, StateFits, Has

(* A message sent. *)
LEMMA Sent ==
    ASSUME Typed, OneReport, NEW m \in Messages, inbox' = Append(inbox, m),
           m.type \in FromWorker => \A h \in Held : h.type \notin FromWorker,
           m.type = "updateSensor" => ~Has("updateSensor")
    PROVE  inbox' \in Seq(Messages) /\ Held' = Held \cup {m} /\ OneReport'
  <1>1. inbox \in Seq(Messages) /\ Len(inbox) \in Nat
    BY DEF Typed
  <1>2. /\ inbox' \in Seq(Messages) /\ DOMAIN inbox = 1 .. Len(inbox)
        /\ DOMAIN inbox' = 1 .. Len(inbox) + 1 /\ inbox'[Len(inbox) + 1] = m
        /\ \A i \in 1 .. Len(inbox) : inbox'[i] = inbox[i]
    BY <1>1
  <1>3. Held' = Held \cup {m}
    BY <1>1, <1>2 DEF Held
  <1>4. \A T : Once(T) /\ (m.type \in T => \A h \in Held : h.type \notin T) => Once(T)'
    <2> SUFFICES ASSUME NEW T, Once(T), m.type \in T => \A h \in Held : h.type \notin T,
                        NEW i \in DOMAIN inbox', NEW j \in DOMAIN inbox',
                        inbox'[i].type \in T, inbox'[j].type \in T
                 PROVE  i = j
      BY DEF Once
    <2>1. CASE i \in 1 .. Len(inbox) /\ j \in 1 .. Len(inbox)
      BY <1>2, <2>1 DEF Once
    <2>2. CASE i = Len(inbox) + 1 /\ j \in 1 .. Len(inbox)
      BY <1>2, <2>2 DEF Held
    <2>3. CASE j = Len(inbox) + 1 /\ i \in 1 .. Len(inbox)
      BY <1>2, <2>3 DEF Held
    <2> QED BY <1>1, <1>2, <2>1, <2>2, <2>3
  <1> QED BY <1>2, <1>3, <1>4 DEF OneReport, Has

(* A message handled. *)
LEMMA Handled ==
    ASSUME Typed, OneReport, NEW type, Handles(type)
    PROVE  /\ Head(inbox) \in Messages /\ Head(inbox).type = type
           /\ inbox' \in Seq(Messages) /\ Held = Held' \cup {Head(inbox)} /\ OneReport'
           /\ type \in FromWorker => \A h \in Held' : h.type \notin FromWorker
           /\ type = "updateSensor" => \A h \in Held' : h.type # "updateSensor"
           /\ worker.pc \notin {"ask", "got"}
  <1>1. /\ inbox \in Seq(Messages) /\ inbox # << >> /\ inbox' = Tail(inbox)
        /\ Head(inbox).type = type /\ worker.pc \notin {"ask", "got"}
    BY DEF Typed, Handles, WorkerReady
  <1>2. /\ Head(inbox) = inbox[1] /\ Len(inbox) \in Nat /\ Len(inbox) > 0
        /\ DOMAIN inbox = 1 .. Len(inbox) /\ DOMAIN inbox' = 1 .. Len(inbox) - 1
        /\ inbox' \in Seq(Messages) /\ Head(inbox) \in Messages
        /\ \A i \in 1 .. Len(inbox) - 1 : inbox'[i] = inbox[i + 1]
    BY <1>1
  <1>3. /\ \A i \in 1 .. Len(inbox) - 1 : i + 1 \in 1 .. Len(inbox) /\ i + 1 # 1
        /\ \A i \in 1 .. Len(inbox) : i = 1 \/ i - 1 \in 1 .. Len(inbox) - 1
        /\ \A i \in 1 .. Len(inbox) : (i - 1) + 1 = i
        /\ 1 \in 1 .. Len(inbox)
    BY <1>2
  <1>4. Held = Held' \cup {Head(inbox)}
    <2>1. \A h \in Held' : h \in Held
      BY <1>2, <1>3 DEF Held
    <2>2. ASSUME NEW h \in Held
          PROVE  h = inbox[1] \/ h \in Held'
      <3>1. PICK i \in 1 .. Len(inbox) : h = inbox[i]
        BY <1>2 DEF Held
      <3>2. i # 1 => i - 1 \in DOMAIN inbox' /\ inbox'[i - 1] = inbox[i]
        BY <1>2, <1>3
      <3> QED BY <3>1, <3>2 DEF Held
    <2>3. inbox[1] \in Held
      BY <1>2, <1>3 DEF Held
    <2> QED BY <1>2, <2>1, <2>2, <2>3
  <1>5. \A T : Once(T) => Once(T)' /\ (type \in T => \A h \in Held' : h.type \notin T)
    <2> SUFFICES ASSUME NEW T, Once(T)
                 PROVE  Once(T)' /\ (type \in T => \A h \in Held' : h.type \notin T)
      OBVIOUS
    <2>1. Once(T)'
      <3> SUFFICES ASSUME NEW i \in 1 .. Len(inbox) - 1, NEW j \in 1 .. Len(inbox) - 1,
                          inbox'[i].type \in T, inbox'[j].type \in T
                   PROVE  i = j
        BY <1>2 DEF Once
      <3>1. i + 1 = j + 1
        BY <1>2, <1>3 DEF Once
      <3> QED BY <3>1
    <2>2. ASSUME type \in T, NEW h \in Held', h.type \in T
          PROVE  FALSE
      <3>1. PICK i \in 1 .. Len(inbox) - 1 : h = inbox[i + 1]
        BY <1>2 DEF Held
      <3>2. i + 1 = 1
        BY <1>1, <1>2, <1>3, <2>2, <3>1 DEF Once
      <3> QED BY <3>2, <1>2
    <2> QED BY <2>1, <2>2
  <1>6. OneReport'
    BY <1>5 DEF OneReport
  <1>7. type \in FromWorker => \A h \in Held' : h.type \notin FromWorker
    BY <1>5 DEF OneReport
  <1>8. type = "updateSensor" => \A h \in Held' : h.type # "updateSensor"
    <2>1. "updateSensor" \in {"updateSensor"}
      OBVIOUS
    <2> QED BY <1>5, <2>1 DEF OneReport
  <1> QED BY <1>1, <1>2, <1>4, <1>6, <1>7, <1>8

(* No report of the worker waits while it is at something else. *)
LEMMA WorkerSilent ==
    ASSUME Reports, DeskSound,
           commandWorkerTid \/ worker.pc \in {"ask", "got", "halting", "pausing"}
    PROVE  \A h \in Held : h.type \notin FromWorker
  BY DEF Reports, FromWorker, DeskSound, DeskOK, Desk
-----------------------------------------------------------------------------
(* The train. *)
LEMMA HitKeepsIInv ==
    ASSUME IInv, Hit
    PROVE  IInv'
  <1>1. /\ moving /\ report = None /\ ~Has("updateSensor")
        /\ at' = NextSensor[at] /\ report' = at'
        /\ UNCHANGED <<trainSpeed, trainForward, moving, deskVars, placeVars, motion, location,
                       inbox, triggeredSensor, targetNode, failed>>
    BY DEF Hit, InFlight, Has, Held
  <1>2. /\ at' \in Sensors /\ Held' = Held /\ worker.pc # "toldReverse"
        /\ \A m \in Held : m.type # "updateSensor"
    BY <1>1, Turnabout DEF IInv, Typed, TypeOK, Held, Tracked, Has
  <1>3. Typed'
    BY <1>1, <1>2 DEF IInv, Typed, TypeOK, deskVars, placeVars, motion
  <1>4. Reports'
    BY <1>1, <1>2 DEF IInv, Reports, deskVars, placeVars, motion
  <1>5. OneReport' /\ DeskSound'
    BY <1>1 DEF IInv, OneReport, Once, DeskSound, Desk, deskVars, placeVars
  <1>6. Sighted' /\ Views' /\ StateFits'
    BY <1>1, <1>2 DEF IInv, Sighted, Views, StateFits, Has, placeVars, motion
  <1>7. Tracked'
    BY <1>1, <1>2, NoneIsNoNode DEF IInv, Tracked, Has, deskVars, placeVars
  <1> QED BY <1>3, <1>4, <1>5, <1>6, <1>7 DEF IInv

LEMMA ComesToRestKeepsIInv ==
    ASSUME IInv, ComesToRest
    PROVE  IInv'
  <1>1. /\ moving' = FALSE
        /\ UNCHANGED <<trainSpeed, trainForward, at, report, deskVars, placeVars, motion,
                       location, inbox, triggeredSensor, targetNode, failed>>
    BY DEF ComesToRest
  <1>2. Held' = Held
    BY <1>1 DEF Held
  <1>3. Typed'
    BY <1>1, ZenonT(40) DEF IInv, Typed, TypeOK, deskVars, placeVars, motion
  <1>4. Reports' /\ Views' /\ Tracked'
    BY <1>1, <1>2 DEF IInv, Reports, Views, Tracked, Has, deskVars, placeVars, motion
  <1>5. OneReport' /\ DeskSound' /\ Sighted' /\ StateFits'
    BY <1>1 DEF IInv, OneReport, Once, DeskSound, Desk, Sighted, StateFits,
                deskVars, placeVars, motion
  <1> QED BY <1>3, <1>4, <1>5 DEF IInv

LEMMA DeliverKeepsIInv ==
    ASSUME IInv, Deliver
    PROVE  IInv'
  <1>1. PICK m : m = Message("updateSensor", report)
    OBVIOUS
  <1>2. /\ report # None /\ inbox' = Append(inbox, m) /\ report' = None
        /\ UNCHANGED <<trainSpeed, trainForward, moving, at, deskVars, placeVars, motion,
                       location, triggeredSensor, targetNode, failed>>
    BY <1>1 DEF Deliver
  <1>3. /\ m \in Messages /\ m.type = "updateSensor" /\ m.value = at
        /\ worker.pc # "toldReverse"
    BY <1>1, <1>2, EngineerAssumption
       DEF IInv, Typed, TypeOK, Tracked, Message, Messages, FromWorker, Others
  <1>4. ~Has("updateSensor")
    BY <1>2 DEF IInv, Reports, Has
  <1>5. inbox' \in Seq(Messages) /\ Held' = Held \cup {m} /\ OneReport'
    <2>1. m.type \notin FromWorker
      BY <1>3 DEF FromWorker
    <2> QED BY <1>2, <1>3, <1>4, <2>1, Sent DEF IInv
  <1>6. Typed'
    BY <1>2, <1>5 DEF IInv, Typed, TypeOK, deskVars, placeVars, motion
  <1>7. Reports'
    BY <1>2, <1>3, <1>4, <1>5 DEF IInv, Reports, Has, deskVars, placeVars, motion
  <1>8. DeskSound' /\ Sighted' /\ StateFits'
    BY <1>2 DEF IInv, DeskSound, Desk, Sighted, StateFits, deskVars, placeVars, motion
  <1>9. Views'
    BY <1>2, <1>3, <1>5 DEF IInv, Views, Has, motion
  <1>10. Tracked'
    BY <1>2, <1>3, <1>5 DEF IInv, Tracked, Has, deskVars, placeVars
  <1> QED BY <1>5, <1>6, <1>7, <1>8, <1>9, <1>10 DEF IInv
-----------------------------------------------------------------------------
(* The command worker. *)

(* What WorkerSends leaves alone, and what it appends. *)
LEMMA WorkerSendsEffect ==
    ASSUME IInv, NEW pc \in Pcs, NEW m \in Messages, m.type \in FromWorker,
           WorkerSends(pc, m), worker.pc \in {"ask", "got", "halting", "pausing"}
    PROVE  /\ inbox' \in Seq(Messages) /\ Held' = Held \cup {m} /\ OneReport'
           /\ \A h \in Held : h.type \notin FromWorker
           /\ worker' \in Workers /\ worker'.pc = pc
           /\ worker'.command = IF pc = "told" THEN Done ELSE worker.command
           /\ UNCHANGED <<report, placeVars, motion, location, triggeredSensor, targetNode,
                          commandWorkerTid, commandQueue, order, failed>>
  <1>1. \A h \in Held : h.type \notin FromWorker
    BY WorkerSilent DEF IInv
  <1>2. m.type # "updateSensor"
    BY DEF FromWorker
  <1>3. inbox' \in Seq(Messages) /\ Held' = Held \cup {m} /\ OneReport'
    BY <1>1, <1>2, Sent DEF IInv, WorkerSends
  <1>4. Done \in Commands
    BY EngineerAssumption DEF Done, Command, Commands
  <1>5. /\ worker' \in Workers /\ worker'.pc = pc
        /\ worker'.command = IF pc = "told" THEN Done ELSE worker.command
    BY <1>4 DEF WorkerSends, IInv, Typed, TypeOK, Workers
  <1> QED BY <1>1, <1>3, <1>5 DEF WorkerSends

LEMMA WorkerAsksKeepsIInv ==
    ASSUME IInv, WorkerAsks
    PROVE  IInv'
  <1>1. PICK m : m = Message("commandWorkerRequest", 0)
    OBVIOUS
  <1>2. m \in Messages /\ m.type = "commandWorkerRequest"
    BY <1>1, EngineerAssumption DEF Message, Messages, FromWorker
  <1>3. /\ inbox' \in Seq(Messages) /\ Held' = Held \cup {m} /\ OneReport'
        /\ \A h \in Held : h.type \notin FromWorker
        /\ worker' \in Workers /\ worker'.pc = "asked" /\ worker'.command = worker.command
        /\ UNCHANGED <<report, placeVars, motion, location, triggeredSensor, targetNode,
                       commandWorkerTid, commandQueue, order, failed,
                       trainSpeed, trainForward, moving, at>>
        /\ worker.pc = "ask"
    BY <1>1, <1>2, WorkerSendsEffect DEF WorkerAsks, Pcs, FromWorker
  <1>4. ~commandWorkerTid
    BY <1>3 DEF IInv, DeskSound, DeskOK, Desk
  <1>5. Typed'
    BY <1>3 DEF IInv, Typed, TypeOK, Workers, Pcs, placeVars, motion
  <1>6. Reports'
    BY <1>2, <1>3, <1>4 DEF IInv, Reports, FromWorker, placeVars, motion
  <1>7. DeskSound'
    BY <1>3, <1>4 DEF IInv, DeskSound, DeskOK, Desk, placeVars
  <1>8. Sighted' /\ StateFits'
    BY <1>3 DEF IInv, Sighted, StateFits, placeVars, motion
  <1>9. Views'
    BY <1>2, <1>3 DEF IInv, Views, Has, motion
  <1>10. Tracked'
    BY <1>2, <1>3 DEF IInv, Tracked, Has, placeVars
  <1> QED BY <1>3, <1>5, <1>6, <1>7, <1>8, <1>9, <1>10 DEF IInv

LEMMA WorkerSetsSpeedKeepsIInv ==
    ASSUME IInv, WorkerSetsSpeed
    PROVE  IInv'
  <1>1. PICK m : m = Message("commandWorkerSpeedSet", worker.command.speed)
    OBVIOUS
  <1>2. /\ m \in Messages /\ m.type = "commandWorkerSpeedSet" /\ m.value = worker.command.speed
        /\ worker.command.speed \in Speeds
    BY <1>1 DEF Message, Messages, FromWorker, IInv, Typed, Workers, Commands
  <1>3. /\ inbox' \in Seq(Messages) /\ Held' = Held \cup {m} /\ OneReport'
        /\ \A h \in Held : h.type \notin FromWorker
        /\ worker' \in Workers /\ worker'.pc = "told" /\ worker'.command = Done
        /\ UNCHANGED <<report, placeVars, motion, location, triggeredSensor, targetNode,
                       commandWorkerTid, commandQueue, order, failed, trainForward, at>>
        /\ worker.pc = "got" /\ trainSpeed' = worker.command.speed
        /\ moving' = (moving \/ worker.command.speed > 0)
    BY <1>1, <1>2, WorkerSendsEffect DEF WorkerSetsSpeed, TrainSetSpeed, Pcs, FromWorker
  <1>4. ~commandWorkerTid
    BY <1>3 DEF IInv, DeskSound, DeskOK, Desk
  <1>5. Typed'
    <2>1. moving' \in BOOLEAN
      BY <1>3
    <2> QED BY <1>2, <1>3, <2>1 DEF IInv, Typed, TypeOK, Workers, Pcs, placeVars, motion
  <1>6. Reports'
    BY <1>2, <1>3 DEF IInv, Reports, FromWorker, placeVars, motion
  <1>7. DeskSound'
    BY <1>3, <1>4 DEF IInv, DeskSound, DeskOK, Desk, Done, Command, placeVars
  <1>8. Sighted' /\ StateFits'
    BY <1>3 DEF IInv, Sighted, StateFits, placeVars, motion
  <1>9. Views'
    BY <1>2, <1>3 DEF IInv, Views, Has, motion
  <1>10. Tracked'
    BY <1>2, <1>3 DEF IInv, Tracked, Has, placeVars
  <1> QED BY <1>3, <1>5, <1>6, <1>7, <1>8, <1>9, <1>10 DEF IInv

LEMMA WorkerStopsKeepsIInv ==
    ASSUME IInv, WorkerStops
    PROVE  IInv'
  <1>1. PICK m : m = Message("commandWorkerSpeedSet", 0)
    OBVIOUS
  <1>2. m \in Messages /\ m.type = "commandWorkerSpeedSet" /\ m.value = 0 /\ 0 \in Speeds
    BY <1>1, EngineerAssumption DEF Message, Messages, FromWorker
  <1>3. /\ inbox' \in Seq(Messages) /\ Held' = Held \cup {m} /\ OneReport'
        /\ \A h \in Held : h.type \notin FromWorker
        /\ worker' \in Workers /\ worker'.pc = "toldStop" /\ worker'.command = worker.command
        /\ UNCHANGED <<report, placeVars, motion, location, triggeredSensor, targetNode,
                       commandWorkerTid, commandQueue, order, failed, trainForward, at>>
        /\ worker.pc = "got" /\ worker.command.type = "reverse" /\ trainSpeed' = 0
        /\ moving' = (moving \/ 0 > 0)
    BY <1>1, <1>2, WorkerSendsEffect DEF WorkerStops, TrainSetSpeed, Pcs, FromWorker
  <1>4. ~commandWorkerTid
    BY <1>3 DEF IInv, DeskSound, DeskOK, Desk
  <1>5. Typed'
    <2>1. moving' \in BOOLEAN
      BY <1>3
    <2> QED BY <1>2, <1>3, <2>1 DEF IInv, Typed, TypeOK, Workers, Pcs, placeVars, motion
  <1>6. Reports'
    BY <1>2, <1>3 DEF IInv, Reports, FromWorker, placeVars, motion
  <1>7. DeskSound'
    BY <1>3, <1>4 DEF IInv, DeskSound, DeskOK, Desk, placeVars
  <1>8. Sighted' /\ StateFits'
    BY <1>3 DEF IInv, Sighted, StateFits, placeVars, motion
  <1>9. Views'
    BY <1>2, <1>3 DEF IInv, Views, Has, motion
  <1>10. Tracked'
    BY <1>2, <1>3 DEF IInv, Tracked, Has, placeVars
  <1> QED BY <1>3, <1>5, <1>6, <1>7, <1>8, <1>9, <1>10 DEF IInv

(* The train is turned round when it stands and its last hit was handled:  *)
(* it is at the sensor before, and then at the reverse of the one ahead.   *)
LEMMA WorkerReversesKeepsIInv ==
    ASSUME IInv, WorkerReverses
    PROVE  IInv'
  <1>1. PICK m : m = Message("commandWorkerReverseSet", 0)
    OBVIOUS
  <1>2. m \in Messages /\ m.type = "commandWorkerReverseSet"
    BY <1>1, EngineerAssumption DEF Message, Messages, FromWorker
  <1>3. /\ inbox' \in Seq(Messages) /\ Held' = Held \cup {m} /\ OneReport'
        /\ \A h \in Held : h.type \notin FromWorker
        /\ worker' \in Workers /\ worker'.pc = "toldReverse" /\ worker'.command = worker.command
        /\ UNCHANGED <<report, placeVars, motion, location, triggeredSensor, targetNode,
                       commandWorkerTid, commandQueue, order, failed, trainSpeed, moving>>
        /\ worker.pc = "halting" /\ ~moving
        /\ trainForward' = ~trainForward /\ at' = Reverse[NextSensor[at]]
    BY <1>1, <1>2, WorkerSendsEffect DEF WorkerReverses, Pcs, FromWorker
  <1>4. report = None /\ ~Has("updateSensor")
    BY DEF WorkerReverses, InFlight, Has, Held
  <1>5. /\ ~commandWorkerTid /\ worker.command.type = "reverse" /\ prevNode # None
        /\ isForward = trainForward /\ at \in Sensors /\ trainForward \in BOOLEAN
        /\ prevSensor # None => at = prevSensor
    <2>1. ~commandWorkerTid /\ worker.command.type = "reverse" /\ prevNode # None
      BY <1>3 DEF IInv, DeskSound, DeskOK, Desk
    <2>2. ~Has("commandWorkerReverseSet")
      BY <1>3 DEF Has, FromWorker
    <2> QED BY <1>4, <2>1, <2>2 DEF IInv, Typed, TypeOK, Views, Tracked
  <1>6. at' \in Sensors
    BY <1>3, <1>5, Turnabout
  <1>7. Typed'
    BY <1>3, <1>5, <1>6 DEF IInv, Typed, TypeOK, Workers, Pcs, placeVars, motion
  <1>8. Reports'
    <2>1. isForward' = ~trainForward' /\ prevNode' # None
      BY <1>3, <1>5 DEF motion, placeVars
    <2>2. \A h \in Held : h.type # "updateSensor"
      BY <1>4 DEF Has
    <2> QED BY <1>2, <1>3, <2>1, <2>2 DEF IInv, Reports, FromWorker, placeVars
  <1>9. DeskSound'
    BY <1>3, <1>5 DEF IInv, DeskSound, DeskOK, Desk, placeVars
  <1>10. Sighted' /\ StateFits'
    BY <1>3 DEF IInv, Sighted, StateFits, placeVars, motion
  <1>11. Views'
    BY <1>2, <1>3 DEF IInv, Views, Has, motion
  <1>12. Tracked'
    BY <1>2, <1>3, <1>4, <1>5 DEF IInv, Tracked, Sighted, Has, placeVars
  <1> QED BY <1>3, <1>7, <1>8, <1>9, <1>10, <1>11, <1>12 DEF IInv

LEMMA WorkerResumesKeepsIInv ==
    ASSUME IInv, WorkerResumes
    PROVE  IInv'
  <1>1. /\ worker.pc = "pausing"
        /\ worker' = [pc |-> "got", command |-> Command("setSpeed", worker.command.speed)]
        /\ UNCHANGED <<trainVars, placeVars, motion, location, inbox, triggeredSensor,
                       targetNode, commandWorkerTid, commandQueue, order, failed>>
    BY DEF WorkerResumes
  <1>2. Command("setSpeed", worker.command.speed) \in Commands
    BY DEF Command, Commands, IInv, Typed, Workers
  <1>3. /\ worker' \in Workers /\ worker'.pc = "got" /\ worker'.command.type = "setSpeed"
        /\ worker'.command.speed = worker.command.speed /\ Held' = Held
    BY <1>1, <1>2 DEF Workers, Pcs, Command, Held
  <1>4. ~commandWorkerTid
    BY <1>1 DEF IInv, DeskSound, DeskOK, Desk
  <1>5. Typed'
    BY <1>1, <1>3 DEF IInv, Typed, TypeOK, Workers, trainVars, placeVars, motion
  <1>6. Reports'
    BY <1>1, <1>3 DEF IInv, Reports, trainVars, placeVars, motion
  <1>7. DeskSound'
    BY <1>1, <1>3, <1>4 DEF IInv, DeskSound, DeskOK, Desk, trainVars, placeVars
  <1>8. OneReport' /\ Sighted' /\ StateFits'
    BY <1>1 DEF IInv, OneReport, Once, Sighted, StateFits, placeVars, motion
  <1>9. Views' /\ Tracked'
    BY <1>1, <1>3 DEF IInv, Views, Tracked, Has, trainVars, placeVars, motion
  <1> QED BY <1>5, <1>6, <1>7, <1>8, <1>9 DEF IInv

LEMMA WorkerKeepsIInv == IInv /\ Worker => IInv'
  BY WorkerAsksKeepsIInv, WorkerSetsSpeedKeepsIInv, WorkerStopsKeepsIInv,
     WorkerReversesKeepsIInv, WorkerResumesKeepsIInv DEF Worker
-----------------------------------------------------------------------------
(* The location worker and the user. *)

(* A message that reports nothing, sent by somebody else. *)
LEMMA MessageKeepsIInv ==
    ASSUME IInv, NEW m \in Messages, inbox' = Append(inbox, m),
           m.type \notin FromWorker, m.type # "updateSensor",
           m.type = "setSpeed" => m.value \in Speeds,
           m.type \in {"xMark", "go"} => m.value \in Targets,
           m.type = "setReverse" => prevNode # None,
           location' \in {"asked", "delay"},
           UNCHANGED <<trainVars, deskVars, placeVars, motion, triggeredSensor, targetNode,
                       failed>>
    PROVE  IInv'
  <1>1. inbox' \in Seq(Messages) /\ Held' = Held \cup {m} /\ OneReport'
    BY Sent DEF IInv
  <1>2. Typed'
    BY <1>1 DEF IInv, Typed, TypeOK, trainVars, deskVars, placeVars, motion
  <1>3. Reports'
    BY <1>1 DEF IInv, Reports, FromWorker, trainVars, deskVars, placeVars, motion
  <1>4. DeskSound' /\ Sighted' /\ StateFits'
    BY DEF IInv, DeskSound, Desk, Sighted, StateFits, trainVars, deskVars, placeVars, motion
  <1>5. Views' /\ Tracked'
    BY <1>1 DEF IInv, Views, Tracked, Has, FromWorker, trainVars, deskVars, placeVars, motion
  <1> QED BY <1>1, <1>2, <1>3, <1>4, <1>5 DEF IInv

LEMMA LocationAsksKeepsIInv ==
    ASSUME IInv, LocationAsks
    PROVE  IInv'
  <1>1. PICK m : m = Message("updateLocation", 0)
    OBVIOUS
  <1>2. m \in Messages /\ m.type = "updateLocation"
    BY <1>1, EngineerAssumption DEF Message, Messages, Others
  <1> QED BY <1>1, <1>2, MessageKeepsIInv DEF LocationAsks, FromWorker

LEMMA UserCallsKeepsIInv ==
    ASSUME IInv, UserCalls
    PROVE  IInv'
  <1>1. \A m : <<m>> = Append(<< >>, m)
    OBVIOUS
  <1>2. PICK type \in {"setSpeed", "xMark", "setReverse", "go"}, value \in Speeds \cup Nodes :
           /\ inbox' = Append(inbox, Message(type, value))
           /\ type = "setSpeed" => value \in Speeds
           /\ type \in {"xMark", "go"} => value \in Targets
           /\ type = "setReverse" => prevNode # None
    BY <1>1, EngineerAssumption DEF UserCalls
  <1>3. PICK m : m = Message(type, value)
    OBVIOUS
  <1>4. m \in Messages /\ m.type = type /\ m.value = value
    BY <1>3 DEF Message, Messages, Others
  <1>5. location' \in {"asked", "delay"}
    BY DEF UserCalls, IInv, Typed, TypeOK
  <1> QED BY <1>2, <1>3, <1>4, <1>5, MessageKeepsIInv DEF UserCalls, FromWorker
-----------------------------------------------------------------------------
(* The engineer. *)

(* A command goes to the worker that waits, or the worker is left alone.   *)
Given(d, e) == (d.tid /\ e.worker.pc = "got" /\ ~e.tid)
               \/ (e.worker = d.worker /\ (e.tid => d.tid))

LEMMA IssueEffect ==
    ASSUME NEW d, DeskTyped(d), NEW s, NEW located, DeskOK(d, s, located),
           NEW c \in Commands, c.type = "reverse" => located
    PROVE  /\ DeskTyped(Issue(d, c)) /\ DeskOK(Issue(d, c), s, located)
           /\ Given(d, Issue(d, c))
  <1>1. PICK e : e = Issue(d, c)
    OBVIOUS
  <1>2. c.speed \in Speeds /\ Size \in Nat /\ Size > 1
    BY EngineerAssumption DEF Commands
  <1>3. CASE d.tid
    <2>1. /\ e.tid = FALSE /\ e.queue = << >> /\ e.order = c.speed
          /\ e.worker = [pc |-> "got", command |-> c]
      BY <1>1, <1>3 DEF Issue, DeskOK
    <2>2. e.worker \in Workers
      BY <2>1 DEF Workers, Pcs
    <2>3. DeskTyped(e)
      <3>1. e.queue \in Seq(Commands) /\ Len(e.queue) < Size
        BY <1>2, <2>1
      <3> QED BY <1>2, <2>1, <2>2, <3>1 DEF DeskTyped
    <2>4. DeskOK(e, s, located)
      BY <2>1 DEF DeskOK
    <2> QED BY <1>1, <1>3, <2>1, <2>3, <2>4 DEF Given
  <1>4. CASE ~d.tid
    <2>1. /\ e.tid = FALSE /\ e.queue = Pushed(d.queue, Size, c) /\ e.order = c.speed
          /\ e.worker = d.worker
      BY <1>1, <1>4 DEF Issue
    <2>2. /\ e.queue \in Seq(Commands) /\ Len(e.queue) < Size /\ e.queue # << >>
          /\ e.queue[Len(e.queue)] = c
          /\ \A i \in DOMAIN e.queue : e.queue[i] = c \/ \E j \in DOMAIN d.queue : e.queue[i] = d.queue[j]
      <3>1. d.queue \in Seq(Commands)
        BY DEF DeskTyped
      <3>2. CASE Len(d.queue) < Size - 1
        BY <1>2, <2>1, <3>1, <3>2 DEF Pushed
      <3>3. CASE ~(Len(d.queue) < Size - 1)
        BY <1>2, <2>1, <3>3 DEF Pushed
      <3> QED BY <3>2, <3>3
    <2>3. DeskTyped(e)
      BY <1>2, <2>1, <2>2 DEF DeskTyped
    <2>4. DeskOK(e, s, located)
      BY <2>1, <2>2 DEF DeskOK
    <2> QED BY <1>1, <2>1, <2>3, <2>4 DEF Given
  <1> QED BY <1>1, <1>3, <1>4

LEMMA DeskIsTyped == Typed => DeskTyped(Desk)
  BY DEF Typed, TypeOK, DeskTyped, Desk

(* A handler that issues commands, or none, and reports nothing itself.    *)
LEMMA IssuingKeepsIInv ==
    ASSUME IInv, NEW type, Handles(type),
           type \notin FromWorker, type # "updateSensor",
           NEW e, DeskBecomes(e), DeskTyped(e), Given(Desk, e),
           DeskOK(e, trainSpeed, prevNode' # None),
           prevNode # None => prevNode' # None, Sighted', StateFits',
           state' \in States, prevNode' \in Nodes \cup {None},
           targetNode' \in Targets \cup {None}, location' \in {"asked", "delay"},
           triggeredSensor' \in BOOLEAN, failed' \in BOOLEAN,
           UNCHANGED <<trainVars, prevSensor, nextSensor, isForward, speed>>
    PROVE  IInv'
  <1>1. /\ inbox' \in Seq(Messages) /\ Held = Held' \cup {Head(inbox)} /\ OneReport'
        /\ Head(inbox).type = type
    BY Handled DEF IInv
  <1>2. /\ commandWorkerTid' = e.tid /\ commandQueue' = e.queue
        /\ worker' = e.worker /\ order' = e.order
    BY DEF DeskBecomes
  <1>3. (commandWorkerTid /\ worker'.pc = "got" /\ ~commandWorkerTid')
        \/ (worker' = worker /\ (commandWorkerTid' => commandWorkerTid))
    BY <1>2 DEF Given, Desk
  <1>4. worker'.pc = "toldReverse" => worker.pc = "toldReverse"
    BY <1>3
  <1>5. commandWorkerTid => \A h \in Held : h.type \notin FromWorker
    BY WorkerSilent DEF IInv
  <1>6. Typed'
    BY <1>1, <1>2 DEF IInv, Typed, TypeOK, DeskTyped, Workers, Pcs, trainVars
  <1>7. Reports'
    BY <1>1, <1>3, <1>4, <1>5 DEF IInv, Reports, FromWorker, trainVars
  <1>8. DeskSound'
    <2>1. Desk' = [tid |-> e.tid, queue |-> e.queue, worker |-> e.worker, order |-> e.order]
      BY <1>2 DEF Desk
    <2>2. DeskOK(Desk', trainSpeed, prevNode' # None)
      BY <2>1 DEF DeskOK
    <2> QED BY <2>2 DEF DeskSound, DeskOK, trainVars
  <1>9. Views'
    BY <1>1 DEF IInv, Views, Has, FromWorker, trainVars
  <1>10. Tracked'
    BY <1>1, <1>4 DEF IInv, Tracked, Has, FromWorker, trainVars
  <1> QED BY <1>1, <1>6, <1>7, <1>8, <1>9, <1>10 DEF IInv

(* A handler that leaves the desk alone. *)
LEMMA IdleKeepsIInv ==
    ASSUME IInv, NEW type, Handles(type),
           type \notin FromWorker, type # "updateSensor",
           targetNode' \in Targets \cup {None}, location' \in {"asked", "delay"},
           triggeredSensor' \in BOOLEAN,
           UNCHANGED <<trainVars, deskVars, placeVars, motion, failed>>
    PROVE  IInv'
  <1>1. DeskBecomes(Desk) /\ DeskTyped(Desk) /\ Given(Desk, Desk)
    BY DeskIsTyped DEF IInv, DeskBecomes, Desk, Given, deskVars
  <1>2. DeskOK(Desk, trainSpeed, prevNode' # None)
    BY DEF IInv, DeskSound, placeVars
  <1>3. Sighted' /\ StateFits'
    BY DEF IInv, Sighted, StateFits, placeVars, motion
  <1>4. state' \in States /\ prevNode' \in Nodes \cup {None} /\ failed' \in BOOLEAN
    BY DEF IInv, Typed, TypeOK, placeVars, motion
  <1> QED BY <1>1, <1>2, <1>3, <1>4, IssuingKeepsIInv DEF placeVars, motion

LEMMA OrderedKeepsIInv ==
    ASSUME IInv, NEW type \in {"setSpeed", "setReverse"}, Handles(type),
           NEW c \in Commands, c.type = "reverse" => prevNode # None, Ordered(c),
           UNCHANGED <<trainVars, placeVars, motion, location, triggeredSensor, targetNode>>
    PROVE  IInv'
  <1>1. PICK e : e = Issue(Desk, c)
    OBVIOUS
  <1>2. DeskTyped(e) /\ DeskOK(e, trainSpeed, prevNode # None) /\ Given(Desk, e)
    BY <1>1, IssueEffect, DeskIsTyped DEF IInv, DeskSound
  <1>3. DeskBecomes(e) /\ failed' \in BOOLEAN
    BY <1>1 DEF Ordered, Full
  <1>4. Sighted' /\ StateFits' /\ prevNode' = prevNode
    BY DEF IInv, Sighted, StateFits, placeVars, motion
  <1>5. /\ state' \in States /\ prevNode' \in Nodes \cup {None} /\ triggeredSensor' \in BOOLEAN
        /\ targetNode' \in Targets \cup {None} /\ location' \in {"asked", "delay"}
    BY DEF IInv, Typed, TypeOK, placeVars, motion
  <1>6. type \notin FromWorker /\ type # "updateSensor"
    BY DEF FromWorker
  <1> QED BY <1>2, <1>3, <1>4, <1>5, <1>6, IssuingKeepsIInv DEF placeVars, motion

LEMMA SetSpeedKeepsIInv == IInv /\ SetSpeed => IInv'
  <1> SUFFICES ASSUME IInv, SetSpeed PROVE IInv'
    OBVIOUS
  <1>1. Head(inbox).type = "setSpeed" /\ Head(inbox) \in Held
    BY Handled DEF SetSpeed, IInv
  <1>2. Head(inbox).value \in Speeds
    BY <1>1 DEF IInv, Reports
  <1>3. PICK c : c = Command("setSpeed", Head(inbox).value)
    OBVIOUS
  <1>4. c \in Commands /\ c.type = "setSpeed"
    BY <1>2, <1>3 DEF Command, Commands
  <1> QED BY <1>3, <1>4, OrderedKeepsIInv DEF SetSpeed

LEMMA SetReverseKeepsIInv == IInv /\ SetReverse => IInv'
  <1> SUFFICES ASSUME IInv, SetReverse PROVE IInv'
    OBVIOUS
  <1>1. Head(inbox).type = "setReverse" /\ Head(inbox) \in Held
    BY Handled DEF SetReverse, IInv
  <1>2. prevNode # None /\ speed \in Speeds
    BY <1>1 DEF IInv, Reports, Typed, TypeOK
  <1>3. PICK c : c = Command("reverse", speed)
    OBVIOUS
  <1>4. c \in Commands /\ c.type = "reverse"
    BY <1>2, <1>3 DEF Command, Commands
  <1> QED BY <1>2, <1>3, <1>4, OrderedKeepsIInv DEF SetReverse

LEMMA XMarkOrGoKeepsIInv == IInv /\ (XMark \/ Go) => IInv'
  <1> SUFFICES ASSUME IInv, XMark \/ Go PROVE IInv'
    OBVIOUS
  <1>1. PICK type \in {"xMark", "go"} :
           /\ Handles(type)
           /\ targetNode' \in {targetNode, Head(inbox).value} \cup Targets
           /\ UNCHANGED <<trainVars, deskVars, placeVars, motion, location, triggeredSensor,
                          failed>>
    BY DEF XMark, Go
  <1>2. Head(inbox).type = type /\ Head(inbox) \in Held
    BY <1>1, Handled DEF IInv
  <1>3. Head(inbox).value \in Targets
    BY <1>2 DEF IInv, Reports
  <1>4. /\ targetNode' \in Targets \cup {None} /\ location' \in {"asked", "delay"}
        /\ triggeredSensor' \in BOOLEAN
    BY <1>1, <1>3 DEF IInv, Typed, TypeOK
  <1>5. type \notin FromWorker /\ type # "updateSensor"
    BY DEF FromWorker
  <1> QED BY <1>1, <1>4, <1>5, IdleKeepsIInv

LEMMA LocationKnownKeepsIInv == IInv /\ (LocationUnknown \/ LocationIsSensor) => IInv'
  <1> SUFFICES ASSUME IInv, LocationUnknown \/ LocationIsSensor PROVE IInv'
    OBVIOUS
  <1>1. /\ Handles("updateLocation")
        /\ targetNode' \in Targets \cup {None} /\ location' \in {"asked", "delay"}
        /\ triggeredSensor' \in BOOLEAN
        /\ UNCHANGED <<trainVars, deskVars, placeVars, motion, failed>>
    BY DEF LocationUnknown, LocationIsSensor, IInv, Typed, TypeOK
  <1> QED BY <1>1, IdleKeepsIInv DEF FromWorker

(* The estimate moves on along the stretch and stops before its end.       *)
LEMMA EstimateKeepsIInv ==
    ASSUME IInv, NEW slowed \in BOOLEAN, NEW near \in BOOLEAN, NEW reached \in BOOLEAN,
           NEW denied \in BOOLEAN, LocationEstimated(slowed, near, reached, denied)
    PROVE  IInv'
  <1>1. PICK now : now = IF slowed THEN "Stopped" ELSE state
    OBVIOUS
  <1>2. PICK turning \in BOOLEAN : turning <=> now = "Reversing" /\ ~reached
    OBVIOUS
  <1>3. PICK d : d = IssueIf(near, Desk, StopCommand)
    OBVIOUS
  <1>4. PICK e : e = IF turning THEN d ELSE IssueIf(denied, d, StopCommand)
    OBVIOUS
  <1>5. /\ Handles("updateLocation") /\ state # "Ready"
        /\ slowed => state = "Decelerating"
        /\ reached => NextNode[prevNode] \notin Sensors
        /\ targetNode' = IF near THEN None ELSE targetNode
        /\ prevNode' = IF reached THEN NextNode[prevNode] ELSE prevNode
        /\ UNCHANGED <<trainVars, prevSensor, nextSensor, isForward, speed, triggeredSensor,
                       failed>>
    BY DEF LocationEstimated
  <1>6. /\ DeskBecomes(e) /\ location' = "delay"
        /\ state' = IF turning THEN IF speed = 0 THEN "Stopped" ELSE "Accelerating" ELSE now
    BY <1>1, <1>2, <1>3, <1>4 DEF LocationEstimated, ReversingReply
  <1>7. /\ prevNode # None /\ prevSensor # None /\ prevSensor \in Sensors
        /\ prevNode \in Segment(prevSensor) /\ speed \in Speeds
    BY <1>5 DEF IInv, Sighted, Typed, TypeOK
  <1>8. prevNode' \in Segment(prevSensor) /\ prevNode' \in Nodes /\ prevNode' # None
    BY <1>5, <1>7, SegmentFacts, NoneIsNoNode
  <1>9. DeskTyped(e) /\ DeskOK(e, trainSpeed, prevNode' # None) /\ Given(Desk, e)
    <2>1. StopCommand \in Commands /\ StopCommand.type = "setSpeed"
      BY EngineerAssumption DEF StopCommand, Command, Commands
    <2>2. DeskTyped(Desk) /\ DeskOK(Desk, trainSpeed, prevNode' # None)
      BY <1>7, <1>8, DeskIsTyped DEF IInv, DeskSound, DeskOK
    <2>3. DeskTyped(d) /\ DeskOK(d, trainSpeed, prevNode' # None) /\ Given(Desk, d)
      <3>1. CASE near
        BY <1>3, <2>1, <2>2, <3>1, IssueEffect DEF IssueIf
      <3>2. CASE ~near
        BY <1>3, <2>2, <3>2 DEF IssueIf, Given
      <3> QED BY <3>1, <3>2
    <2>4. CASE e = d
      BY <2>3, <2>4
    <2>5. CASE e = Issue(d, StopCommand)
      <3>1. /\ DeskTyped(e) /\ DeskOK(e, trainSpeed, prevNode' # None) /\ Given(d, e)
        BY <2>1, <2>3, <2>5, IssueEffect
      <3>2. ~e.tid /\ (near => ~d.tid)
        BY <1>3, <2>5 DEF Issue, IssueIf
      <3>3. Given(Desk, e)
        BY <2>3, <3>1, <3>2 DEF Given
      <3> QED BY <3>1, <3>3
    <2> QED BY <1>4, <2>4, <2>5 DEF IssueIf
  <1>10. Sighted'
    BY <1>5, <1>7, <1>8 DEF IInv, Sighted
  <1>11. StateFits'
    <2>1. speed \in Nat
      BY <1>7, NoneIsNoNode
    <2> QED BY <1>1, <1>5, <1>6, <2>1 DEF IInv, StateFits
  <1>12. /\ state' \in States /\ targetNode' \in Targets \cup {None}
         /\ triggeredSensor' \in BOOLEAN /\ failed' \in BOOLEAN
    BY <1>1, <1>5, <1>6 DEF IInv, Typed, TypeOK, States
  <1> QED BY <1>5, <1>6, <1>8, <1>9, <1>10, <1>11, <1>12, IssuingKeepsIInv DEF FromWorker

LEMMA TailOfQueue ==
    ASSUME NEW q \in Seq(Commands), q # << >>, Size \in Nat, Len(q) < Size
    PROVE  /\ Head(q) \in Commands /\ Head(q) = q[1] /\ 1 \in DOMAIN q
           /\ Tail(q) \in Seq(Commands) /\ Len(Tail(q)) < Size
           /\ Tail(q) # << >> => Tail(q)[Len(Tail(q))] = q[Len(q)]
           /\ Tail(q) = << >> => Len(q) = 1
           /\ \A i \in DOMAIN Tail(q) : i + 1 \in DOMAIN q /\ Tail(q)[i] = q[i + 1]
  <1>1. /\ Len(q) \in Nat /\ Len(q) > 0 /\ DOMAIN q = 1 .. Len(q) /\ Head(q) = q[1]
        /\ Tail(q) \in Seq(Commands) /\ Len(Tail(q)) = Len(q) - 1
        /\ DOMAIN Tail(q) = 1 .. Len(q) - 1
        /\ \A i \in 1 .. Len(q) - 1 : Tail(q)[i] = q[i + 1]
    OBVIOUS
  <1>2. Head(q) \in Commands /\ 1 \in DOMAIN q
    BY <1>1
  <1>3. Tail(q) # << >> => Tail(q)[Len(Tail(q))] = q[Len(q)]
    <2> SUFFICES ASSUME Tail(q) # << >> PROVE Tail(q)[Len(Tail(q))] = q[Len(q)]
      OBVIOUS
    <2>1. Len(q) - 1 \in 1 .. Len(q) - 1 /\ (Len(q) - 1) + 1 = Len(q)
      BY <1>1
    <2>2. Tail(q)[Len(q) - 1] = q[(Len(q) - 1) + 1]
      BY <1>1, <2>1
    <2> QED BY <1>1, <2>1, <2>2
  <1>4. Tail(q) = << >> => Len(q) = 1
    <2>1. \A t : t = << >> => Len(t) = 0
      OBVIOUS
    <2>2. Tail(q) = << >> => Len(Tail(q)) = 0
      BY <2>1, Zenon
    <2>3. \A n \in Nat : n - 1 = 0 => n = 1
      OBVIOUS
    <2> QED BY <1>1, <2>2, <2>3, Zenon
  <1>5. \A i \in DOMAIN Tail(q) : i + 1 \in DOMAIN q /\ Tail(q)[i] = q[i + 1]
    BY <1>1
  <1>6. Len(Tail(q)) < Size
    BY <1>1
  <1> QED BY <1>1, <1>2, <1>3, <1>4, <1>5, <1>6

LEMMA CommandWorkerRequestKeepsIInv ==
    ASSUME IInv, CommandWorkerRequest
    PROVE  IInv'
  <1>1. /\ inbox' \in Seq(Messages) /\ Held = Held' \cup {Head(inbox)} /\ OneReport'
        /\ Head(inbox).type = "commandWorkerRequest"
        /\ \A h \in Held' : h.type \notin FromWorker
    BY Handled DEF IInv, CommandWorkerRequest, FromWorker
  <1>2. UNCHANGED <<trainVars, placeVars, motion, location, triggeredSensor, targetNode,
                    order, failed>>
    BY DEF CommandWorkerRequest
  <1>3. worker.pc = "asked" /\ ~commandWorkerTid
    BY <1>1 DEF IInv, Reports
  <1>4. \/ commandQueue = << >> /\ commandWorkerTid' = TRUE /\ UNCHANGED <<worker, commandQueue>>
        \/ /\ commandQueue # << >> /\ commandWorkerTid' = commandWorkerTid
           /\ worker' = [pc |-> "got", command |-> Head(commandQueue)]
           /\ commandQueue' = Tail(commandQueue)
    BY DEF CommandWorkerRequest
  <1>5. commandQueue \in Seq(Commands) /\ Len(commandQueue) < Size /\ Size \in Nat
    BY EngineerAssumption DEF IInv, Typed, TypeOK
  <1>6. commandQueue # << >> =>
           /\ Head(commandQueue) \in Commands /\ Head(commandQueue) = commandQueue[1]
           /\ 1 \in DOMAIN commandQueue
           /\ Tail(commandQueue) \in Seq(Commands) /\ Len(Tail(commandQueue)) < Size
           /\ Tail(commandQueue) # << >> =>
                 Tail(commandQueue)[Len(Tail(commandQueue))] = commandQueue[Len(commandQueue)]
           /\ Tail(commandQueue) = << >> => Len(commandQueue) = 1
           /\ \A i \in DOMAIN Tail(commandQueue) :
                 i + 1 \in DOMAIN commandQueue /\ Tail(commandQueue)[i] = commandQueue[i + 1]
    BY <1>5, TailOfQueue
  <1>7. worker' \in Workers /\ worker'.pc \in {"asked", "got"}
    BY <1>3, <1>4, <1>6 DEF IInv, Typed, Workers, Pcs
  <1>8. Typed'
    <2>1. commandQueue' \in Seq(Commands) /\ Len(commandQueue') < Size
      BY <1>4, <1>5, <1>6
    <2>2. commandWorkerTid' \in BOOLEAN
      BY <1>4 DEF IInv, Typed, TypeOK
    <2> QED BY <1>1, <1>2, <1>7, <2>1, <2>2
            DEF IInv, Typed, TypeOK, Workers, Pcs, trainVars, placeVars, motion
  <1>9. Reports'
    BY <1>1, <1>2, <1>7 DEF IInv, Reports, FromWorker, trainVars, placeVars
  <1>10. DeskSound'
    <2>1. CASE commandQueue = << >>
      BY <1>2, <1>3, <1>4, <2>1 DEF IInv, DeskSound, DeskOK, Desk, trainVars, placeVars
    <2>2. CASE commandQueue # << >>
      <3>1. /\ worker'.pc = "got" /\ worker'.command = commandQueue[1]
            /\ commandQueue' = Tail(commandQueue) /\ ~commandWorkerTid'
        BY <1>3, <1>4, <1>6, <2>2
      <3> QED BY <1>2, <1>6, <2>2, <3>1 DEF IInv, DeskSound, DeskOK, Desk, trainVars, placeVars
    <2> QED BY <2>1, <2>2
  <1>11. Sighted' /\ StateFits'
    BY <1>2 DEF IInv, Sighted, StateFits, placeVars, motion
  <1>12. Views' /\ Tracked'
    BY <1>1, <1>2, <1>7 DEF IInv, Views, Tracked, Has, trainVars, placeVars, motion
  <1> QED BY <1>1, <1>8, <1>9, <1>10, <1>11, <1>12 DEF IInv

(* What the answer to a report lets the worker do. *)
LEMMA WorkerGoesOnEffect ==
    ASSUME Typed, worker.pc \in {"told", "toldStop", "toldReverse"}, WorkerGoesOn
    PROVE  /\ worker' \in Workers /\ worker'.command = worker.command
           /\ worker'.pc = CASE worker.pc = "told"        -> "ask"
                             [] worker.pc = "toldStop"    -> "halting"
                             [] worker.pc = "toldReverse" -> "pausing"
  BY DEF Typed, Workers, Pcs, WorkerGoesOn

LEMMA CommandWorkerSpeedSetKeepsIInv ==
    ASSUME IInv, CommandWorkerSpeedSet
    PROVE  IInv'
  <1>1. /\ inbox' \in Seq(Messages) /\ Held = Held' \cup {Head(inbox)} /\ OneReport'
        /\ Head(inbox).type = "commandWorkerSpeedSet"
        /\ \A h \in Held' : h.type \notin FromWorker
    BY Handled DEF IInv, CommandWorkerSpeedSet, FromWorker
  <1>2. /\ speed' = Head(inbox).value /\ state' = StateAfter(state, speed')
        /\ UNCHANGED <<trainVars, placeVars, isForward, location, triggeredSensor, targetNode,
                       commandWorkerTid, commandQueue, order, failed>>
    BY DEF CommandWorkerSpeedSet
  <1>3. worker.pc \in {"told", "toldStop"} /\ speed' = trainSpeed
    BY <1>1, <1>2 DEF IInv, Reports
  <1>4. /\ worker' \in Workers /\ worker'.command = worker.command
        /\ worker'.pc = IF worker.pc = "told" THEN "ask" ELSE "halting"
    BY <1>3, WorkerGoesOnEffect DEF IInv, CommandWorkerSpeedSet
  <1>5. speed' \in Speeds /\ speed' \in Nat
    BY <1>3, NoneIsNoNode DEF IInv, Typed, TypeOK
  <1>6. state' \in States /\ StateFits' /\ (state = "Ready" => state' = "Ready")
    BY <1>2, <1>5 DEF IInv, Typed, TypeOK, States, StateFits, StateAfter
  <1>7. Typed'
    BY <1>1, <1>2, <1>4, <1>5, <1>6 DEF IInv, Typed, TypeOK, Workers, Pcs, trainVars, placeVars
  <1>8. Reports'
    BY <1>1, <1>2, <1>4 DEF IInv, Reports, FromWorker, trainVars, placeVars
  <1>9. DeskSound'
    BY <1>2, <1>3, <1>4 DEF IInv, DeskSound, DeskOK, Desk, trainVars, placeVars
  <1>10. Sighted'
    BY <1>2, <1>6 DEF IInv, Sighted, placeVars
  <1>11. Views'
    BY <1>1, <1>2, <1>3 DEF IInv, Views, Has, FromWorker, trainVars
  <1>12. Tracked'
    BY <1>1, <1>2, <1>4 DEF IInv, Tracked, Has, FromWorker, trainVars, placeVars
  <1> QED BY <1>1, <1>6, <1>7, <1>8, <1>9, <1>10, <1>11, <1>12 DEF IInv

(* The sensors ahead and behind change places, turned round: the engineer  *)
(* has the train where WorkerReverses put it.                              *)
LEMMA CommandWorkerReverseSetKeepsIInv ==
    ASSUME IInv, CommandWorkerReverseSet
    PROVE  IInv'
  <1>1. /\ inbox' \in Seq(Messages) /\ Held = Held' \cup {Head(inbox)} /\ OneReport'
        /\ Head(inbox).type = "commandWorkerReverseSet"
        /\ \A h \in Held' : h.type \notin FromWorker
    BY Handled DEF IInv, CommandWorkerReverseSet, FromWorker
  <1>2. /\ isForward' = ~isForward /\ state' = "Reversing"
        /\ prevNode' = Reverse[NextNode[prevNode]]
        /\ prevSensor' = Reverse[nextSensor] /\ nextSensor' = Reverse[prevSensor]
        /\ UNCHANGED <<trainVars, speed, location, triggeredSensor, targetNode,
                       commandWorkerTid, commandQueue, order, failed>>
    BY DEF CommandWorkerReverseSet, Turned
  <1>3. /\ worker.pc = "toldReverse" /\ isForward = ~trainForward /\ prevNode # None
        /\ Has("commandWorkerReverseSet")
    BY <1>1 DEF IInv, Reports, Has
  <1>4. worker' \in Workers /\ worker'.command = worker.command /\ worker'.pc = "pausing"
    BY <1>3, WorkerGoesOnEffect DEF IInv, CommandWorkerReverseSet
  <1>5. /\ prevSensor # None /\ prevSensor \in Sensors /\ nextSensor = NextSensor[prevSensor]
        /\ prevNode \in Segment(prevSensor)
    BY <1>3 DEF IInv, Sighted, Typed, TypeOK
  <1>6. /\ nextSensor \in Sensors /\ prevSensor' \in Sensors
        /\ nextSensor' = NextSensor[prevSensor'] /\ nextSensor' \in Sensors
        /\ prevNode' \in Segment(prevSensor')
    BY <1>2, <1>5, Turnabout, SensorsAssumption
  <1>7. prevNode' \in Nodes /\ prevNode' # None /\ prevSensor' # None
    BY <1>6, SegmentFacts, NoneIsNoNode
  <1>8. Typed'
    <2>1. isForward' \in BOOLEAN
      BY <1>2
    <2> QED BY <1>1, <1>2, <1>4, <1>6, <1>7, <2>1
            DEF IInv, Typed, TypeOK, Workers, Pcs, States, trainVars
  <1>9. Reports'
    BY <1>1, <1>2, <1>4, <1>7 DEF IInv, Reports, FromWorker, trainVars
  <1>10. DeskSound'
    BY <1>2, <1>3, <1>4, <1>7 DEF IInv, DeskSound, DeskOK, Desk, trainVars
  <1>11. Sighted' /\ StateFits'
    BY <1>2, <1>6, <1>7 DEF Sighted, StateFits
  <1>12. Views'
    <2>1. trainForward \in BOOLEAN /\ trainForward' = trainForward
      BY <1>2 DEF IInv, Typed, TypeOK, trainVars
    <2>2. isForward' = trainForward'
      BY <1>2, <1>3, <2>1
    <2>3. ~Has("commandWorkerSpeedSet")
      BY <1>3 DEF IInv, Reports, Has
    <2> QED BY <1>2, <2>2, <2>3 DEF IInv, Views, trainVars
  <1>13. Tracked'
    <2>1. ~Has("commandWorkerReverseSet")' /\ (Has("updateSensor")' <=> Has("updateSensor"))
      BY <1>1 DEF Has, FromWorker
    <2>2. report = None /\ ~Has("updateSensor")
      BY <1>3 DEF IInv, Tracked, Reports, Has
    <2>3. at = Reverse[nextSensor]
      BY <1>3, <1>5, <2>2 DEF IInv, Tracked
    <2> QED BY <1>2, <1>4, <2>1, <2>2, <2>3 DEF Tracked, trainVars
  <1> QED BY <1>1, <1>8, <1>9, <1>10, <1>11, <1>12, <1>13 DEF IInv

LEMMA UpdateSensorKeepsIInv ==
    ASSUME IInv, UpdateSensor
    PROVE  IInv'
  <1>1. /\ inbox' \in Seq(Messages) /\ Held = Held' \cup {Head(inbox)} /\ OneReport'
        /\ Head(inbox).type = "updateSensor"
        /\ \A h \in Held' : h.type # "updateSensor"
    BY Handled DEF IInv, UpdateSensor
  <1>2. /\ prevNode' = Head(inbox).value /\ prevSensor' = prevNode'
        /\ nextSensor' = NextSensor[prevNode'] /\ triggeredSensor' = TRUE
        /\ UNCHANGED <<trainVars, deskVars, isForward, speed, targetNode, failed>>
    BY DEF UpdateSensor
  <1>3. /\ state' = CASE state = "Ready" -> IF speed > 0 THEN "Accelerating" ELSE "Stopped"
                      [] state = "Accelerating" -> "Running"
                      [] OTHER -> state
        /\ location' \in {location, "delay"}
    BY DEF UpdateSensor
  <1>4. /\ prevNode' = at /\ at \in Sensors /\ report = None /\ worker.pc # "toldReverse"
        /\ speed \in Nat /\ state \in States
    BY <1>1, <1>2, NoneIsNoNode DEF IInv, Reports, Typed, TypeOK
  <1>5. /\ prevNode' \in Nodes /\ prevNode' # None /\ prevSensor' # None
        /\ prevNode' \in Segment(prevSensor') /\ nextSensor' \in Sensors
    BY <1>2, <1>4, NoneIsNoNode, SegmentFacts, Turnabout
  <1>6. StateFits' /\ state' \in States
    BY <1>2, <1>3, <1>4 DEF IInv, StateFits, States
  <1>7. Typed'
    BY <1>1, <1>2, <1>3, <1>4, <1>5, <1>6 DEF IInv, Typed, TypeOK, trainVars, deskVars
  <1>8. Reports'
    BY <1>1, <1>2, <1>5 DEF IInv, Reports, trainVars, deskVars
  <1>9. DeskSound'
    BY <1>2, <1>5 DEF IInv, DeskSound, DeskOK, Desk, trainVars, deskVars
  <1>10. Sighted'
    BY <1>2, <1>5 DEF Sighted
  <1>11. Views'
    BY <1>1, <1>2 DEF IInv, Views, Has, trainVars
  <1>12. Tracked'
    <2>1. ~Has("commandWorkerReverseSet")'
      BY <1>1, <1>4 DEF IInv, Reports, Has
    <2> QED BY <1>2, <1>4, <2>1 DEF Tracked, trainVars, deskVars
  <1> QED BY <1>1, <1>6, <1>7, <1>8, <1>9, <1>10, <1>11, <1>12 DEF IInv

LEMMA ServerKeepsIInv == IInv /\ Server => IInv'
  BY SetSpeedKeepsIInv, SetReverseKeepsIInv, XMarkOrGoKeepsIInv, LocationKnownKeepsIInv,
     CommandWorkerRequestKeepsIInv, CommandWorkerSpeedSetKeepsIInv,
     CommandWorkerReverseSetKeepsIInv, UpdateSensorKeepsIInv, EstimateKeepsIInv
     DEF Server, Estimate

LEMMA NextKeepsIInv == IInv /\ [Next]_vars => IInv'
  <1> SUFFICES ASSUME IInv, [Next]_vars PROVE IInv'
    OBVIOUS
  <1>1. CASE UNCHANGED vars
    <2>1. Held' = Held
      BY <1>1 DEF Held, vars
    <2> QED BY <1>1, <2>1
            DEF IInv, Typed, TypeOK, Reports, OneReport, Once, DeskSound, Desk, Sighted,
                Tracked, Views, StateFits, Has, vars, trainVars, deskVars, placeVars, motion
  <1>2. CASE Halted
    BY <1>1, <1>2 DEF Halted
  <1> QED BY <1>1, <1>2, HitKeepsIInv, ComesToRestKeepsIInv, DeliverKeepsIInv, WorkerKeepsIInv,
             LocationAsksKeepsIInv, UserCallsKeepsIInv, ServerKeepsIInv DEF Next

THEOREM Inductive == Spec => []IInv
  BY InitIInv, NextKeepsIInv, PTL DEF Spec

(* Every variable holds what its declaration can hold: the engineer's      *)
(* command queue never has more than Size-1 commands, and the speeds set   *)
(* are speeds (engineer.c).                                                *)
THEOREM TypeCorrect == Spec => []TypeOK
  <1>1. IInv => TypeOK
    BY DEF IInv, Typed
  <1> QED BY <1>1, Inductive, PTL

(* Whatever orders, reversals and hits come in between, a train whose      *)
(* state is Running or Accelerating has been set going, and one that is    *)
(* Stopped or Decelerating has been stopped (engineer.c, updateState).     *)
THEOREM StateIsRight == Spec => []StateFits
  <1>1. IInv => StateFits
    BY DEF IInv
  <1> QED BY <1>1, Inductive, PTL

(* What the engineer takes for the train's speed and direction is what the *)
(* worker told the train, but for a report on its way (engineer.c).        *)
THEOREM ViewsAreRight == Spec => []ViewsAgree
  <1>1. IInv => ViewsAgree
    BY DEF IInv, Views, ViewsAgree, Reported, Has, Held
  <1> QED BY <1>1, Inductive, PTL

(* On every track the engineer has the train between the two sensors it is *)
(* between, after any number of reversals, and its estimate stays there.   *)
THEOREM PositionIsRight == Spec => []PositionFollows
  <1>1. IInv => PositionFollows
    BY DEF IInv, Sighted, Tracked, PositionFollows, InFlight, Reported, Has, Held
  <1> QED BY <1>1, Inductive, PTL

(* A worker that waits has carried out the last order, whatever came in    *)
(* while it was at a reversal, and however often the queue overflowed.     *)
THEOREM LastOrderIsDone == Spec => []LastOrderWins
  <1>1. IInv => LastOrderWins
    BY DEF IInv, DeskSound, DeskOK, Desk, LastOrderWins
  <1> QED BY <1>1, Inductive, PTL
-----------------------------------------------------------------------------
(***************************************************************************)
(* planRoute, on every track and whoever owns it.                          *)
(***************************************************************************)

(* The heap as a tree. *)

LEMMA TreeFacts ==
    ASSUME NEW i \in Nat \ {0}
    PROVE  /\ RIGHT(i) \in Nat \ {0, 1} /\ LEFT(i) \in Nat \ {0, 1}
           /\ i < RIGHT(i) /\ RIGHT(i) < LEFT(i)
           /\ PARENT(RIGHT(i)) = i /\ PARENT(LEFT(i)) = i
           /\ i # 1 => /\ PARENT(i) \in Nat \ {0} /\ PARENT(i) < i
                       /\ i = RIGHT(PARENT(i)) \/ i = LEFT(PARENT(i))
  BY DEF PARENT, RIGHT, LEFT

LEMMA ParentIn ==
    ASSUME NEW n \in Nat, NEW j \in 2 .. n
    PROVE  j \in Nat \ {0, 1} /\ j \in 1 .. n /\ PARENT(j) \in 1 .. n /\ PARENT(j) < j
  <1>1. j \in Nat \ {0} /\ j # 1 /\ j <= n
    OBVIOUS
  <1>2. PARENT(j) \in Nat \ {0} /\ PARENT(j) < j
    BY <1>1, TreeFacts
  <1> QED BY <1>1, <1>2

LEMMA ChildOf ==
    ASSUME NEW i \in Nat \ {0}, NEW j \in Nat \ {0, 1}, PARENT(j) = i
    PROVE  j = RIGHT(i) \/ j = LEFT(i)
  BY TreeFacts

(* i and what is below it. *)
Sub(i) ==
    {j \in Nat : \A K \in SUBSET Nat :
        i \in K /\ (\A c \in K : RIGHT(c) \in K /\ LEFT(c) \in K) => j \in K}

LEMMA SubIsLeast ==
    ASSUME NEW i, NEW K \in SUBSET Nat, i \in K, \A c \in K : RIGHT(c) \in K /\ LEFT(c) \in K
    PROVE  Sub(i) \subseteq K
  BY DEF Sub

LEMMA SubFacts ==
    ASSUME NEW i \in Nat \ {0}
    PROVE  /\ i \in Sub(i) /\ Sub(i) \subseteq Nat
           /\ \A j \in Sub(i) : RIGHT(j) \in Sub(i) /\ LEFT(j) \in Sub(i)
           /\ Sub(RIGHT(i)) \subseteq Sub(i) /\ Sub(LEFT(i)) \subseteq Sub(i)
           /\ \A j \in Sub(i) : i <= j
           /\ LEFT(i) \notin Sub(RIGHT(i))
  <1>1. i \in Sub(i) /\ Sub(i) \subseteq Nat
    BY DEF Sub
  <1>2. ASSUME NEW j \in Sub(i) PROVE RIGHT(j) \in Sub(i) /\ LEFT(j) \in Sub(i)
    <2>1. RIGHT(j) \in Nat /\ LEFT(j) \in Nat
      BY <1>1 DEF RIGHT, LEFT
    <2>2. \A K \in SUBSET Nat :
             i \in K /\ (\A c \in K : RIGHT(c) \in K /\ LEFT(c) \in K) => RIGHT(j) \in K /\ LEFT(j) \in K
      BY DEF Sub
    <2> QED BY <2>1, <2>2 DEF Sub
  <1>3. Sub(RIGHT(i)) \subseteq Sub(i)
    <2>1. RIGHT(i) \in Sub(i) /\ Sub(i) \in SUBSET Nat
      BY <1>1, <1>2
    <2> QED BY <1>2, <2>1, SubIsLeast
  <1>4. Sub(LEFT(i)) \subseteq Sub(i)
    <2>1. LEFT(i) \in Sub(i) /\ Sub(i) \in SUBSET Nat
      BY <1>1, <1>2
    <2> QED BY <1>2, <2>1, SubIsLeast
  <1>5. \A j \in Sub(i) : i <= j
    <2> DEFINE K == {j \in Nat : i <= j}
    <2>1. K \in SUBSET Nat /\ i \in K
      OBVIOUS
    <2>2. \A c \in K : RIGHT(c) \in K /\ LEFT(c) \in K
      BY DEF RIGHT, LEFT
    <2>3. Sub(i) \subseteq K
      BY <2>1, <2>2, SubIsLeast
    <2> QED BY <2>3
  <1>6. LEFT(i) \notin Sub(RIGHT(i))
    <2> DEFINE K == {j \in Nat : RIGHT(i) <= j /\ j # LEFT(i)}
    <2>1. K \in SUBSET Nat /\ RIGHT(i) \in K
      BY DEF RIGHT, LEFT
    <2>2. \A c \in K : RIGHT(c) \in K /\ LEFT(c) \in K
      BY DEF RIGHT, LEFT
    <2>3. Sub(RIGHT(i)) \subseteq K
      BY <2>1, <2>2, SubIsLeast
    <2> QED BY <2>3
  <1> QED BY <1>1, <1>2, <1>3, <1>4, <1>5, <1>6
-----------------------------------------------------------------------------
(* Elements of the heap change places. *)

(* A heap of n of the PathNodes, whose costs are numbers. *)
Priced(ns) == Len(ns) \in Nat /\ \A x \in 1 .. Len(ns) : ns[x].cost \in Nat

Distinct(n, g) == \A i, j \in 1 .. n : g[i] = g[j] => i = j

Rearranged(n, g, e) ==
    /\ {e[k] : k \in 1 .. n} = {g[k] : k \in 1 .. n}
    /\ Distinct(n, g) => Distinct(n, e)

LEMMA SwappedFacts ==
    ASSUME NEW ns, NEW n \in Nat, NEW g \in Heaps(ns, n), NEW i \in 1 .. n, NEW j \in 1 .. n, i # j
    PROVE  /\ Swapped(g, i, j) \in Heaps(ns, n)
           /\ Swapped(g, i, j)[i] = g[j] /\ Swapped(g, i, j)[j] = g[i]
           /\ \A k \in 1 .. n : k # i /\ k # j => Swapped(g, i, j)[k] = g[k]
           /\ Rearranged(n, g, Swapped(g, i, j))
  <1> DEFINE e == Swapped(g, i, j)
  <1>1. e = [k \in 1 .. n |-> IF k = j THEN g[i] ELSE IF k = i THEN g[j] ELSE g[k]]
    BY DEF Swapped, Heaps
  <1>2. e \in Heaps(ns, n)
    BY <1>1 DEF Heaps
  <1>3. e[i] = g[j] /\ e[j] = g[i] /\ \A k \in 1 .. n : k # i /\ k # j => e[k] = g[k]
    BY <1>1
  <1> HIDE DEF e
  <1>4. {e[k] : k \in 1 .. n} = {g[k] : k \in 1 .. n}
    <2>1. ASSUME NEW k \in 1 .. n PROVE \E l \in 1 .. n : e[k] = g[l]
      BY <1>3
    <2>2. ASSUME NEW k \in 1 .. n PROVE \E l \in 1 .. n : g[k] = e[l]
      BY <1>3
    <2> QED BY <2>1, <2>2
  <1>5. Distinct(n, g) => Distinct(n, e)
    BY <1>3 DEF Distinct
  <1> QED BY <1>2, <1>3, <1>4, <1>5 DEF e, Rearranged

LEMMA RearrangedTwice ==
    ASSUME NEW n, NEW g, NEW e, NEW d, Rearranged(n, g, e), Rearranged(n, e, d)
    PROVE  Rearranged(n, g, d)
  BY DEF Rearranged

LEMMA RearrangedSame == ASSUME NEW n, NEW g PROVE Rearranged(n, g, g)
  BY DEF Rearranged
-----------------------------------------------------------------------------
(* SiftDown. *)

ParentFirst(ns, g, j) == ns[g[PARENT(j)]].cost <= ns[g[j]].cost

(* What is above i is not dearer than what is below i. *)
GrandparentFirst(ns, n, g, i) ==
    i # 1 => \A c \in 2 .. n : PARENT(c) = i => ns[g[PARENT(i)]].cost <= ns[g[c]].cost

(* The heap is in order but for i and its children, and for the nodes of X *)
(* and their parents.                                                      *)
MaySink(ns, n, g, i, X) ==
    /\ g \in Heaps(ns, n) /\ i \in 1 .. n /\ X \in SUBSET (2 .. n)
    /\ \A j \in 2 .. n : j \notin X /\ PARENT(j) # i => ParentFirst(ns, g, j)
    /\ GrandparentFirst(ns, n, g, i)
    /\ \A j \in X : j \notin Sub(i)

(* It has been put in order below i. *)
HasSunk(ns, n, g, e, i, X) ==
    /\ e \in Heaps(ns, n) /\ Rearranged(n, g, e)
    /\ \A j \in 2 .. n : j \notin X => ParentFirst(ns, e, j)
    /\ \A j \in 1 .. n : j \notin Sub(i) => e[j] = g[j]

(* The same with the left child still to be looked at. *)
HalfSunk(ns, n, g, e, i, X) ==
    /\ e \in Heaps(ns, n) /\ Rearranged(n, g, e)
    /\ \A j \in 2 .. n : j \notin X /\ j # LEFT(i) => ParentFirst(ns, e, j)
    /\ \A j \in 1 .. n : j \notin Sub(i) => e[j] = g[j]
    /\ LEFT(i) <= n => e[LEFT(i)] = g[LEFT(i)]

Sinks(ns, n, f, c) ==
    \A g \in Heaps(ns, n), X \in SUBSET (2 .. n) :
        MaySink(ns, n, g, c, X) => HasSunk(ns, n, g, f[c][g], c, X)

Child(ns, n, f, g, c, j) ==
    IF c <= n /\ Cheaper(ns, g, c, j) THEN f[c][Swapped(g, j, c)] ELSE g

LEMMA CostIsNat ==
    ASSUME NEW ns, Priced(ns), NEW n \in Nat, NEW g \in Heaps(ns, n), NEW j \in 1 .. n
    PROVE  ns[g[j]].cost \in Nat
  BY DEF Priced, Heaps

LEMMA SinkRight ==
    ASSUME NEW ns, Priced(ns), NEW n \in Nat, NEW g, NEW i, NEW X, MaySink(ns, n, g, i, X),
           NEW f, RIGHT(i) <= n => Sinks(ns, n, f, RIGHT(i))
    PROVE  HalfSunk(ns, n, g, Child(ns, n, f, g, RIGHT(i), i), i, X)
  <1> DEFINE r == RIGHT(i)
             l == LEFT(i)
             s == Swapped(g, i, r)
  <1>1. /\ g \in Heaps(ns, n) /\ i \in 1 .. n /\ i \in Nat \ {0} /\ X \in SUBSET (2 .. n)
        /\ \A j \in 2 .. n : j \notin X /\ PARENT(j) # i => ParentFirst(ns, g, j)
        /\ GrandparentFirst(ns, n, g, i)
        /\ \A j \in X : j \notin Sub(i)
    BY DEF MaySink
  <1>2. /\ r \in Nat \ {0, 1} /\ l \in Nat \ {0, 1} /\ i < r /\ r < l
        /\ PARENT(r) = i /\ PARENT(l) = i
        /\ i # 1 => PARENT(i) \in Nat \ {0} /\ PARENT(i) < i
    BY <1>1, TreeFacts
  <1>3. /\ i \in Sub(i) /\ r \in Sub(i) /\ Sub(r) \subseteq Sub(i) /\ r \in Sub(r)
        /\ l \notin Sub(r) /\ \A j \in Sub(r) : r <= j
        /\ \A j \in Sub(i) : RIGHT(j) \in Sub(i) /\ LEFT(j) \in Sub(i)
    BY <1>1, <1>2, SubFacts
  <1>4. \A j \in 2 .. n : PARENT(j) = i => j = r \/ j = l
    BY <1>1, ChildOf
  <1>5. \A j \in 2 .. n : j \in Nat \ {0, 1} /\ PARENT(j) \in 1 .. n /\ PARENT(j) < j
    BY ParentIn
  <1>6. CASE r <= n /\ Cheaper(ns, g, r, i)
    <2>1. r \in 1 .. n /\ r \in 2 .. n /\ r # i
      BY <1>2, <1>6
    <2>2. /\ s \in Heaps(ns, n) /\ s[i] = g[r] /\ s[r] = g[i] /\ Rearranged(n, g, s)
          /\ \A k \in 1 .. n : k # i /\ k # r => s[k] = g[k]
      <3>1. ASSUME NEW x \in 1 .. n, x # i
            PROVE  /\ Swapped(g, i, x) \in Heaps(ns, n)
                   /\ Swapped(g, i, x)[i] = g[x] /\ Swapped(g, i, x)[x] = g[i]
                   /\ Rearranged(n, g, Swapped(g, i, x))
                   /\ \A k \in 1 .. n : k # i /\ k # x => Swapped(g, i, x)[k] = g[k]
        BY <1>1, <3>1, SwappedFacts
      <3> QED BY <2>1, <3>1
    <2> HIDE DEF s
    <2>3. ns[g[r]].cost < ns[g[i]].cost
      BY <1>6 DEF Cheaper
    <2> DEFINE Y == X \cup ({l} \cap (2 .. n))
    <2>4. Y \in SUBSET (2 .. n) /\ \A j \in Y : j \notin Sub(r)
      BY <1>1, <1>3
    <2>5. ASSUME NEW j \in 2 .. n, j \notin Y, PARENT(j) # r PROVE ParentFirst(ns, s, j)
      <3>1. j # l /\ j \notin X
        BY <2>5
      <3>2. CASE j = r
        <4>1. ns[s[i]].cost \in Nat /\ ns[s[r]].cost \in Nat /\ ns[g[r]].cost \in Nat /\ ns[g[i]].cost \in Nat
          BY <1>1, <2>1, <2>2, CostIsNat
        <4> QED BY <1>2, <2>2, <2>3, <3>2, <4>1 DEF ParentFirst
      <3>3. CASE j = i
        <4>1. ns[g[PARENT(i)]].cost <= ns[g[r]].cost
          BY <1>1, <1>2, <2>1, <3>3 DEF GrandparentFirst
        <4>2. s[PARENT(i)] = g[PARENT(i)]
          BY <1>2, <1>5, <2>2, <3>3
        <4> QED BY <2>2, <3>3, <4>1, <4>2 DEF ParentFirst
      <3>4. CASE j # r /\ j # i
        <4>1. PARENT(j) # i
          BY <1>4, <3>1, <3>4
        <4>2. ParentFirst(ns, g, j)
          BY <1>1, <3>1, <4>1
        <4>3. s[j] = g[j] /\ s[PARENT(j)] = g[PARENT(j)]
          BY <1>5, <2>2, <2>5, <3>4, <4>1
        <4> QED BY <4>2, <4>3 DEF ParentFirst
      <3> QED BY <3>2, <3>3, <3>4
    <2>6. GrandparentFirst(ns, n, s, r)
      <3>1. ASSUME NEW c \in 2 .. n, PARENT(c) = r PROVE ns[s[PARENT(r)]].cost <= ns[s[c]].cost
        <4>1. c = RIGHT(r) \/ c = LEFT(r)
          BY <1>2, <1>5, <3>1, ChildOf
        <4>2. c \in Sub(i) /\ c \notin X
          BY <1>1, <1>3, <4>1
        <4>3. PARENT(c) # i /\ c # i /\ c # r
          BY <1>2, <1>5, <3>1
        <4>4. ParentFirst(ns, g, c)
          BY <1>1, <4>2, <4>3
        <4>5. s[c] = g[c] /\ s[PARENT(r)] = g[r]
          BY <1>2, <2>2, <3>1, <4>3
        <4> QED BY <3>1, <4>4, <4>5 DEF ParentFirst
      <3> QED BY <3>1 DEF GrandparentFirst
    <2>7. MaySink(ns, n, s, r, Y)
      BY <2>1, <2>2, <2>4, <2>5, <2>6 DEF MaySink
    <2>8. HasSunk(ns, n, s, f[r][s], r, Y)
      BY <1>6, <2>2, <2>4, <2>7 DEF Sinks
    <2>9. Child(ns, n, f, g, r, i) = f[r][s]
      BY <1>6 DEF Child, s
    <2> DEFINE e == f[r][s]
    <2>10. /\ e \in Heaps(ns, n) /\ Rearranged(n, s, e)
           /\ \A j \in 2 .. n : j \notin Y => ParentFirst(ns, e, j)
           /\ \A j \in 1 .. n : j \notin Sub(r) => e[j] = s[j]
      BY <2>8 DEF HasSunk
    <2> HIDE DEF e
    <2>11. Rearranged(n, g, e)
      BY <2>2, <2>10, RearrangedTwice
    <2>12. \A j \in 1 .. n : j \notin Sub(i) => e[j] = g[j]
      BY <1>3, <2>2, <2>10
    <2>13. l <= n => e[l] = g[l]
      <3>1. l # i /\ l # r /\ (l <= n => l \in 1 .. n)
        BY <1>2
      <3> QED BY <1>3, <2>2, <2>10, <3>1
    <2> QED BY <2>9, <2>10, <2>11, <2>12, <2>13 DEF HalfSunk, e
  <1>7. CASE ~(r <= n /\ Cheaper(ns, g, r, i))
    <2>1. Child(ns, n, f, g, r, i) = g
      BY <1>7 DEF Child
    <2>2. ASSUME NEW j \in 2 .. n, j \notin X, j # l PROVE ParentFirst(ns, g, j)
      <3>1. CASE j = r
        <4>1. ns[g[r]].cost \in Nat /\ ns[g[i]].cost \in Nat
          BY <1>1, <3>1, CostIsNat
        <4>2. ~(ns[g[r]].cost < ns[g[i]].cost)
          BY <1>7, <3>1 DEF Cheaper
        <4> QED BY <1>2, <3>1, <4>1, <4>2 DEF ParentFirst
      <3>2. CASE j # r
        BY <1>1, <1>4, <2>2, <3>2
      <3> QED BY <3>1, <3>2
    <2> QED BY <1>1, <2>1, <2>2, RearrangedSame DEF HalfSunk
  <1> QED BY <1>6, <1>7

LEMMA SinkLeft ==
    ASSUME NEW ns, Priced(ns), NEW n \in Nat, NEW g, NEW i, NEW X, MaySink(ns, n, g, i, X),
           NEW e, HalfSunk(ns, n, g, e, i, X),
           NEW f, LEFT(i) <= n => Sinks(ns, n, f, LEFT(i))
    PROVE  HasSunk(ns, n, g, Child(ns, n, f, e, LEFT(i), i), i, X)
  <1> DEFINE r == RIGHT(i)
             l == LEFT(i)
             s == Swapped(e, i, l)
  <1>1. /\ g \in Heaps(ns, n) /\ i \in 1 .. n /\ i \in Nat \ {0} /\ X \in SUBSET (2 .. n)
        /\ GrandparentFirst(ns, n, g, i)
        /\ \A j \in X : j \notin Sub(i)
    BY DEF MaySink
  <1>2. /\ r \in Nat \ {0, 1} /\ l \in Nat \ {0, 1} /\ i < r /\ r < l
        /\ PARENT(r) = i /\ PARENT(l) = i
        /\ i # 1 => PARENT(i) \in Nat \ {0} /\ PARENT(i) < i
    BY <1>1, TreeFacts
  <1>3. /\ i \in Sub(i) /\ r \in Sub(i) /\ l \in Sub(i) /\ Sub(l) \subseteq Sub(i)
        /\ \A j \in Sub(l) : l <= j
        /\ \A j \in Sub(i) : i <= j
        /\ \A j \in Sub(i) : RIGHT(j) \in Sub(i) /\ LEFT(j) \in Sub(i)
    BY <1>1, <1>2, SubFacts
  <1>4. \A j \in 2 .. n : PARENT(j) = i => j = r \/ j = l
    BY <1>1, ChildOf
  <1>5. \A j \in 2 .. n : j \in Nat \ {0, 1} /\ PARENT(j) \in 1 .. n /\ PARENT(j) < j
    BY ParentIn
  <1>6. /\ e \in Heaps(ns, n) /\ Rearranged(n, g, e)
        /\ \A j \in 2 .. n : j \notin X /\ j # l => ParentFirst(ns, e, j)
        /\ \A j \in 1 .. n : j \notin Sub(i) => e[j] = g[j]
        /\ l <= n => e[l] = g[l]
    BY DEF HalfSunk
  <1>7. CASE l <= n /\ Cheaper(ns, e, l, i)
    <2>1. l \in 1 .. n /\ l \in 2 .. n /\ l # i
      BY <1>2, <1>7
    <2>2. /\ s \in Heaps(ns, n) /\ s[i] = e[l] /\ s[l] = e[i] /\ Rearranged(n, e, s)
          /\ \A k \in 1 .. n : k # i /\ k # l => s[k] = e[k]
      <3>1. ASSUME NEW x \in 1 .. n, x # i
            PROVE  /\ Swapped(e, i, x) \in Heaps(ns, n)
                   /\ Swapped(e, i, x)[i] = e[x] /\ Swapped(e, i, x)[x] = e[i]
                   /\ Rearranged(n, e, Swapped(e, i, x))
                   /\ \A k \in 1 .. n : k # i /\ k # x => Swapped(e, i, x)[k] = e[k]
        BY <1>1, <1>6, <3>1, SwappedFacts
      <3> QED BY <2>1, <3>1
    <2> HIDE DEF s
    <2>3. ns[e[l]].cost < ns[e[i]].cost
      BY <1>7 DEF Cheaper
    <2>4. \A j \in X : j \notin Sub(l)
      BY <1>1, <1>3
    <2>5. ASSUME NEW j \in 2 .. n, j \notin X, PARENT(j) # l PROVE ParentFirst(ns, s, j)
      <3>1. CASE j = l
        <4>1. ns[e[l]].cost \in Nat /\ ns[e[i]].cost \in Nat
          BY <1>1, <1>6, <2>1, CostIsNat
        <4> QED BY <1>2, <2>2, <2>3, <3>1, <4>1 DEF ParentFirst
      <3>2. CASE j = r
        <4>1. ns[e[l]].cost \in Nat /\ ns[e[i]].cost \in Nat /\ ns[e[r]].cost \in Nat
          BY <1>1, <1>6, <2>1, <3>2, CostIsNat
        <4>2. ns[e[i]].cost <= ns[e[r]].cost
          BY <1>2, <1>6, <2>5, <3>2 DEF ParentFirst
        <4>3. s[r] = e[r]
          BY <1>2, <2>2, <3>2
        <4> QED BY <1>2, <2>2, <2>3, <3>2, <4>1, <4>2, <4>3 DEF ParentFirst
      <3>3. CASE j = i
        <4>1. ns[g[PARENT(i)]].cost <= ns[g[l]].cost
          BY <1>1, <1>2, <2>1, <3>3 DEF GrandparentFirst
        <4>2. s[PARENT(i)] = e[PARENT(i)] /\ PARENT(i) \in 1 .. n /\ PARENT(i) \notin Sub(i)
          BY <1>2, <1>3, <1>5, <2>2, <3>3
        <4>3. e[PARENT(i)] = g[PARENT(i)] /\ e[l] = g[l]
          BY <1>6, <1>7, <4>2
        <4> QED BY <2>2, <3>3, <4>1, <4>2, <4>3 DEF ParentFirst
      <3>4. CASE j # r /\ j # i /\ j # l
        <4>1. PARENT(j) # i
          BY <1>4, <3>4
        <4>2. ParentFirst(ns, e, j)
          BY <1>6, <2>5, <3>4
        <4>3. s[j] = e[j] /\ s[PARENT(j)] = e[PARENT(j)]
          BY <1>5, <2>2, <2>5, <3>4, <4>1
        <4> QED BY <4>2, <4>3 DEF ParentFirst
      <3> QED BY <3>1, <3>2, <3>3, <3>4
    <2>6. GrandparentFirst(ns, n, s, l)
      <3>1. ASSUME NEW c \in 2 .. n, PARENT(c) = l PROVE ns[s[PARENT(l)]].cost <= ns[s[c]].cost
        <4>1. c = RIGHT(l) \/ c = LEFT(l)
          BY <1>2, <1>5, <3>1, ChildOf
        <4>2. c \in Sub(i) /\ c \notin X
          BY <1>1, <1>3, <4>1
        <4>3. c # i /\ c # l
          BY <1>2, <1>5, <3>1
        <4>4. ParentFirst(ns, e, c)
          BY <1>6, <4>2, <4>3
        <4>5. s[c] = e[c] /\ s[PARENT(l)] = e[l]
          BY <1>2, <2>2, <3>1, <4>3
        <4> QED BY <3>1, <4>4, <4>5 DEF ParentFirst
      <3> QED BY <3>1 DEF GrandparentFirst
    <2>7. MaySink(ns, n, s, l, X)
      BY <1>1, <2>1, <2>2, <2>4, <2>5, <2>6 DEF MaySink
    <2>8. HasSunk(ns, n, s, f[l][s], l, X)
      BY <1>1, <1>7, <2>2, <2>7 DEF Sinks
    <2>9. Child(ns, n, f, e, l, i) = f[l][s]
      BY <1>7 DEF Child, s
    <2> DEFINE d == f[l][s]
    <2>10. /\ d \in Heaps(ns, n) /\ Rearranged(n, s, d)
           /\ \A j \in 2 .. n : j \notin X => ParentFirst(ns, d, j)
           /\ \A j \in 1 .. n : j \notin Sub(l) => d[j] = s[j]
      BY <2>8 DEF HasSunk
    <2> HIDE DEF d
    <2>11. Rearranged(n, g, d)
      BY <1>6, <2>2, <2>10, RearrangedTwice
    <2>12. \A j \in 1 .. n : j \notin Sub(i) => d[j] = g[j]
      BY <1>3, <1>6, <2>2, <2>10
    <2> QED BY <2>9, <2>10, <2>11, <2>12 DEF HasSunk, d
  <1>8. CASE ~(l <= n /\ Cheaper(ns, e, l, i))
    <2>1. Child(ns, n, f, e, l, i) = e
      BY <1>8 DEF Child
    <2>2. ASSUME NEW j \in 2 .. n, j \notin X PROVE ParentFirst(ns, e, j)
      <3>1. CASE j = l
        <4>1. ns[e[l]].cost \in Nat /\ ns[e[i]].cost \in Nat
          BY <1>1, <1>6, <3>1, CostIsNat
        <4>2. ~(ns[e[l]].cost < ns[e[i]].cost)
          BY <1>8, <3>1 DEF Cheaper
        <4> QED BY <1>2, <3>1, <4>1, <4>2 DEF ParentFirst
      <3>2. CASE j # l
        BY <1>6, <2>2, <3>2
      <3> QED BY <3>1, <3>2
    <2> QED BY <1>6, <2>1, <2>2 DEF HasSunk
  <1> QED BY <1>7, <1>8

(* down is SiftDown from j on. *)
SinksAs(ns, n, f, k) ==
    \A j \in 1 .. n, g \in Heaps(ns, n) :
        j >= k => f[j][g] = Child(ns, n, f, Child(ns, n, f, g, RIGHT(j), j), LEFT(j), j)

LEMMA SinksRight ==
    ASSUME NEW ns, Priced(ns), NEW n \in Nat, NEW f, SinksAs(ns, n, f, 1), NEW i \in 1 .. n
    PROVE  Sinks(ns, n, f, i)
  <1> DEFINE Bad == {k \in Nat : \E j \in 1 .. n : k = n - j /\ ~Sinks(ns, n, f, j)}
  <1>1. SUFFICES ASSUME Bad # {} PROVE FALSE
    <2>1. n - i \in Nat
      OBVIOUS
    <2> QED BY <2>1
  <1>2. PICK b \in Bad : \A k \in Bad : b <= k
    BY <1>1, LeastExists
  <1>3. PICK j \in 1 .. n : b = n - j /\ ~Sinks(ns, n, f, j)
    OBVIOUS
  <1>4. ASSUME NEW c \in Nat, j < c, c <= n PROVE Sinks(ns, n, f, c)
    <2>1. n - c \in Nat /\ ~(b <= n - c) /\ c \in 1 .. n
      BY <1>3, <1>4
    <2> QED BY <1>2, <2>1
  <1>5. RIGHT(j) \in Nat /\ j < RIGHT(j) /\ LEFT(j) \in Nat /\ j < LEFT(j)
    BY DEF RIGHT, LEFT
  <1>6. ASSUME NEW g \in Heaps(ns, n), NEW X \in SUBSET (2 .. n), MaySink(ns, n, g, j, X)
        PROVE  HasSunk(ns, n, g, f[j][g], j, X)
    <2>1. HalfSunk(ns, n, g, Child(ns, n, f, g, RIGHT(j), j), j, X)
      BY <1>4, <1>5, <1>6, SinkRight
    <2>2. HasSunk(ns, n, g, Child(ns, n, f, Child(ns, n, f, g, RIGHT(j), j), LEFT(j), j), j, X)
      BY <1>4, <1>5, <1>6, <2>1, SinkLeft
    <2>3. f[j][g] = Child(ns, n, f, Child(ns, n, f, g, RIGHT(j), j), LEFT(j), j)
      BY DEF SinksAs
    <2> QED BY <2>2, <2>3
  <1> QED BY <1>3, <1>6 DEF Sinks

LEMMA ChildFacts ==
    ASSUME NEW ns, NEW n \in Nat, NEW f \in [1 .. n -> [Heaps(ns, n) -> Heaps(ns, n)]],
           NEW e, NEW g \in Heaps(ns, n), NEW j \in 1 .. n, NEW c \in Nat, j < c,
           c <= n => \A x \in Heaps(ns, n) : e[c][x] = f[c][x]
    PROVE  Child(ns, n, f, g, c, j) \in Heaps(ns, n) /\ Child(ns, n, e, g, c, j) = Child(ns, n, f, g, c, j)
  <1>1. CASE c <= n
    <2>1. c \in 1 .. n /\ c # j
      BY <1>1
    <2>2. Swapped(g, j, c) \in Heaps(ns, n)
      BY <2>1, SwappedFacts
    <2>3. f[c][Swapped(g, j, c)] \in Heaps(ns, n) /\ e[c][Swapped(g, j, c)] = f[c][Swapped(g, j, c)]
      BY <1>1, <2>1, <2>2
    <2> QED BY <2>3 DEF Child
  <1>2. CASE ~(c <= n)
    BY <1>2 DEF Child
  <1> QED BY <1>1, <1>2

LEMMA SinkExists ==
    ASSUME NEW ns, NEW n \in Nat
    PROVE  \E f : /\ f \in [1 .. n -> [Heaps(ns, n) -> Heaps(ns, n)]]
                  /\ SinksAs(ns, n, f, 1)
  <1> DEFINE H == Heaps(ns, n)
             Fits(f, k) == f \in [1 .. n -> [H -> H]] /\ SinksAs(ns, n, f, k)
             Bad == {m \in Nat : m <= n /\ ~\E f : Fits(f, n + 1 - m)}
  <1> HIDE DEF H
  <1>1. SUFFICES Bad = {}
    <2>1. n \in Nat /\ n <= n /\ n + 1 - n = 1
      OBVIOUS
    <2>2. \E f : Fits(f, n + 1 - n)
      BY <2>1
    <2> QED BY <2>1, <2>2 DEF H
  <1>2. SUFFICES ASSUME Bad # {} PROVE FALSE
    OBVIOUS
  <1>3. PICK m \in Bad : \A k \in Bad : m <= k
    BY <1>2, LeastExists
  <1>4. m \in Nat /\ m <= n /\ ~\E f : Fits(f, n + 1 - m)
    OBVIOUS
  <1>5. CASE m = 0
    <2> DEFINE f == [j \in 1 .. n |-> [g \in H |-> g]]
    <2>1. f \in [1 .. n -> [H -> H]]
      OBVIOUS
    <2>2. \A j \in 1 .. n : ~(j >= n + 1 - m)
      BY <1>5
    <2>3. SinksAs(ns, n, f, n + 1 - m)
      BY <2>2 DEF SinksAs
    <2> QED BY <1>4, <2>1, <2>3
  <1>6. CASE m # 0
    <2>1. m - 1 \in Nat /\ m - 1 <= n /\ ~(m <= m - 1) /\ n + 1 - m \in 1 .. n /\ n + 1 - (m - 1) = n + 1 - m + 1
      BY <1>4, <1>6
    <2>2. PICK k : k = n + 1 - m
      OBVIOUS
    <2>3. PICK f : Fits(f, k + 1)
      BY <1>3, <2>1, <2>2
    <2>4. k \in 1 .. n
      BY <2>1, <2>2
    <2>5. f \in [1 .. n -> [H -> H]] /\ SinksAs(ns, n, f, k + 1)
      BY <2>3
    <2> DEFINE Body(j, g) == Child(ns, n, f, Child(ns, n, f, g, RIGHT(j), j), LEFT(j), j)
               e == [j \in 1 .. n |-> [g \in H |-> IF j = k THEN Body(j, g) ELSE f[j][g]]]
    <2>6. ASSUME NEW j \in 1 .. n, NEW g \in H PROVE Body(j, g) \in H
      <3>1. RIGHT(j) \in Nat /\ j < RIGHT(j) /\ LEFT(j) \in Nat /\ j < LEFT(j)
        BY DEF RIGHT, LEFT
      <3>2. Child(ns, n, f, g, RIGHT(j), j) \in H
        BY <2>5, <3>1, ChildFacts DEF H
      <3> QED BY <2>5, <3>1, <3>2, ChildFacts DEF H
    <2>7. \A j \in 1 .. n, g \in H : Body(j, g) \in H /\ f[j][g] \in H
      BY <2>5, <2>6
    <2> HIDE DEF Body
    <2>8. e \in [1 .. n -> [H -> H]]
      BY <2>7
    <2>9. \A j \in 1 .. n, g \in H : e[j][g] = IF j = k THEN Body(j, g) ELSE f[j][g]
      OBVIOUS
    <2> HIDE DEF e
    <2>10. ASSUME NEW j \in 1 .. n, NEW g \in H, j >= k
           PROVE  e[j][g] = Child(ns, n, e, Child(ns, n, e, g, RIGHT(j), j), LEFT(j), j)
      <3>1. RIGHT(j) \in Nat /\ j < RIGHT(j) /\ LEFT(j) \in Nat /\ j < LEFT(j)
        BY DEF RIGHT, LEFT
      <3>2. ASSUME NEW c \in Nat, j < c, c <= n PROVE \A x \in H : e[c][x] = f[c][x]
        <4>1. c \in 1 .. n /\ c # k
          BY <2>4, <2>10, <3>2
        <4> QED BY <2>9, <4>1
      <3>3. Child(ns, n, f, g, RIGHT(j), j) \in H /\ Child(ns, n, e, g, RIGHT(j), j) = Child(ns, n, f, g, RIGHT(j), j)
        BY <2>5, <3>1, <3>2, ChildFacts DEF H
      <3>4. Child(ns, n, e, Child(ns, n, f, g, RIGHT(j), j), LEFT(j), j) = Body(j, g)
        BY <2>5, <3>1, <3>2, <3>3, ChildFacts DEF H, Body
      <3>5. e[j][g] = Body(j, g)
        <4>1. CASE j = k
          BY <2>9, <4>1
        <4>2. CASE j # k
          <5>1. j >= k + 1
            BY <2>4, <2>10, <4>2
          <5>2. f[j][g] = Body(j, g)
            BY <2>5, <5>1 DEF SinksAs, H, Body
          <5> QED BY <2>9, <4>2, <5>2
        <4> QED BY <4>1, <4>2
      <3> QED BY <3>3, <3>4, <3>5
    <2>11. SinksAs(ns, n, e, k)
      BY <2>10 DEF SinksAs, H
    <2> QED BY <1>4, <2>2, <2>8, <2>11
  <1> QED BY <1>5, <1>6

(* SiftDown puts the heap in order below i. *)
LEMMA SiftDownEffect ==
    ASSUME NEW ns, Priced(ns), NEW h \in Seq(Nat), NEW i, NEW X, MaySink(ns, Len(h), h, i, X)
    PROVE  HasSunk(ns, Len(h), h, SiftDown(ns, h, i), i, X)
  <1> DEFINE n == Len(h)
             H == Heaps(ns, n)
             Sift(f) == f = [j \in 1 .. n |-> [g \in H |->
                           Child(ns, n, f, Child(ns, n, f, g, RIGHT(j), j), LEFT(j), j)]]
  <1>1. n \in Nat
    OBVIOUS
  <1>2. PICK f : f \in [1 .. n -> [H -> H]] /\ SinksAs(ns, n, f, 1)
    BY <1>1, SinkExists
  <1>3. Sift(f)
    <2>1. \A j \in 1 .. n, g \in H : f[j][g] = Child(ns, n, f, Child(ns, n, f, g, RIGHT(j), j), LEFT(j), j)
      BY <1>2 DEF SinksAs
    <2>2. f = [j \in 1 .. n |-> f[j]] /\ \A j \in 1 .. n : f[j] = [g \in H |-> f[j][g]]
      BY <1>2
    <2>3. \A j \in 1 .. n : f[j] = [g \in H |-> Child(ns, n, f, Child(ns, n, f, g, RIGHT(j), j), LEFT(j), j)]
      BY <2>1, <2>2
    <2> QED BY <2>2, <2>3
  <1>4. PICK d : d = CHOOSE x : Sift(x)
    OBVIOUS
  <1>5. Sift(d)
    BY <1>3, <1>4, Zenon
  <1>6. SiftDown(ns, h, i) = d[i][h]
    BY <1>4 DEF SiftDown, Child
  <1>7. SinksAs(ns, n, d, 1)
    <2>1. \A j \in 1 .. n, g \in H : d[j][g] = Child(ns, n, d, Child(ns, n, d, g, RIGHT(j), j), LEFT(j), j)
      BY <1>5
    <2> QED BY <2>1 DEF SinksAs
  <1>8. i \in 1 .. n /\ h \in H /\ X \in SUBSET (2 .. n)
    BY DEF MaySink
  <1>9. Sinks(ns, n, d, i)
    BY <1>1, <1>7, <1>8, SinksRight
  <1> QED BY <1>6, <1>8, <1>9 DEF Sinks
-----------------------------------------------------------------------------
(* SiftUp. *)

(* The heap is in order but for i and its parent. *)
MayRise(ns, n, g, i) ==
    /\ g \in Heaps(ns, n) /\ i \in 1 .. n
    /\ \A j \in 2 .. n : j # i => ParentFirst(ns, g, j)
    /\ GrandparentFirst(ns, n, g, i)

HasRisen(ns, n, g, e) ==
    /\ e \in Heaps(ns, n) /\ Rearranged(n, g, e)
    /\ \A j \in 2 .. n : ParentFirst(ns, e, j)

Parent(ns, f, g, j) ==
    IF j # 1 /\ Cheaper(ns, g, j, PARENT(j)) THEN f[PARENT(j)][Swapped(g, j, PARENT(j))] ELSE g

(* up is SiftUp as far as j. *)
RisesAs(ns, n, f, k) ==
    \A j \in 1 .. n, g \in Heaps(ns, n) : j <= k => f[j][g] = Parent(ns, f, g, j)

LEMMA RiseStep ==
    ASSUME NEW ns, Priced(ns), NEW n \in Nat, NEW g, NEW i, MayRise(ns, n, g, i),
           i # 1, Cheaper(ns, g, i, PARENT(i))
    PROVE  /\ MayRise(ns, n, Swapped(g, i, PARENT(i)), PARENT(i))
           /\ Rearranged(n, g, Swapped(g, i, PARENT(i)))
  <1> DEFINE p == PARENT(i)
             s == Swapped(g, i, p)
  <1>1. /\ g \in Heaps(ns, n) /\ i \in 1 .. n /\ i \in Nat \ {0}
        /\ \A j \in 2 .. n : j # i => ParentFirst(ns, g, j)
        /\ GrandparentFirst(ns, n, g, i)
    BY DEF MayRise
  <1>2. p \in 1 .. n /\ p \in Nat \ {0} /\ p < i /\ i \in 2 .. n
    BY <1>1, TreeFacts
  <1>3. p # 1 => PARENT(p) \in 1 .. n /\ PARENT(p) < p /\ p \in 2 .. n
    BY <1>2, TreeFacts
  <1>4. \A j \in 2 .. n : j \in Nat \ {0, 1} /\ PARENT(j) \in 1 .. n /\ PARENT(j) < j
    BY ParentIn
  <1>5. /\ s \in Heaps(ns, n) /\ s[i] = g[p] /\ s[p] = g[i] /\ Rearranged(n, g, s)
        /\ \A k \in 1 .. n : k # i /\ k # p => s[k] = g[k]
    <2>1. ASSUME NEW x \in 1 .. n, x # i
          PROVE  /\ Swapped(g, i, x) \in Heaps(ns, n)
                 /\ Swapped(g, i, x)[i] = g[x] /\ Swapped(g, i, x)[x] = g[i]
                 /\ Rearranged(n, g, Swapped(g, i, x))
                 /\ \A k \in 1 .. n : k # i /\ k # x => Swapped(g, i, x)[k] = g[k]
      BY <1>1, <2>1, SwappedFacts
    <2> QED BY <1>2, <2>1
  <1> HIDE DEF s
  <1>6. ns[g[i]].cost < ns[g[p]].cost
    BY DEF Cheaper
  <1>7. \A k \in 1 .. n : ns[g[k]].cost \in Nat
    BY <1>1, CostIsNat
  <1>8. ASSUME NEW j \in 2 .. n, j # p PROVE ParentFirst(ns, s, j)
    <2>1. CASE j = i
      BY <1>1, <1>2, <1>5, <1>6, <1>7, <2>1 DEF ParentFirst
    <2>2. CASE j # i /\ PARENT(j) = i
      <3>1. ns[g[p]].cost <= ns[g[j]].cost
        BY <1>1, <2>2 DEF GrandparentFirst
      <3>2. s[j] = g[j]
        BY <1>5, <1>8, <2>2
      <3> QED BY <1>5, <2>2, <3>1, <3>2 DEF ParentFirst
    <2>3. CASE j # i /\ PARENT(j) = p
      <3>1. ns[g[p]].cost <= ns[g[j]].cost
        BY <1>1, <2>3 DEF ParentFirst
      <3>2. s[j] = g[j]
        BY <1>5, <1>8, <2>3
      <3>3. ns[g[j]].cost \in Nat /\ ns[g[p]].cost \in Nat /\ ns[g[i]].cost \in Nat
        BY <1>1, <1>2, <1>7
      <3> QED BY <1>5, <1>6, <2>3, <3>1, <3>2, <3>3 DEF ParentFirst
    <2>4. CASE j # i /\ PARENT(j) # i /\ PARENT(j) # p
      <3>1. s[j] = g[j] /\ s[PARENT(j)] = g[PARENT(j)]
        BY <1>4, <1>5, <1>8, <2>4
      <3> QED BY <1>1, <2>4, <3>1 DEF ParentFirst
    <2> QED BY <2>1, <2>2, <2>3, <2>4
  <1>9. GrandparentFirst(ns, n, s, p)
    <2>1. ASSUME p # 1, NEW c \in 2 .. n, PARENT(c) = p PROVE ns[s[PARENT(p)]].cost <= ns[s[c]].cost
      <3>1. PARENT(p) \in 1 .. n /\ PARENT(p) # p /\ PARENT(p) # i /\ p # i
        BY <1>2, <1>3, <2>1
      <3>2. s[PARENT(p)] = g[PARENT(p)]
        BY <1>5, <3>1
      <3>3. ns[g[PARENT(p)]].cost <= ns[g[p]].cost
        BY <1>1, <1>3, <2>1, <3>1 DEF ParentFirst
      <3>4. CASE c = i
        BY <1>5, <3>2, <3>3, <3>4
      <3>5. CASE c # i
        <4>1. c # p
          BY <1>4, <2>1
        <4>2. s[c] = g[c] /\ ns[g[p]].cost <= ns[g[c]].cost
          BY <1>1, <1>5, <2>1, <3>5, <4>1 DEF ParentFirst
        <4>3. ns[g[PARENT(p)]].cost \in Nat /\ ns[g[p]].cost \in Nat /\ ns[g[c]].cost \in Nat
          BY <1>2, <1>7, <3>1
        <4> QED BY <3>2, <3>3, <4>2, <4>3
      <3> QED BY <3>4, <3>5
    <2> QED BY <2>1 DEF GrandparentFirst
  <1>10. MayRise(ns, n, s, p)
    BY <1>2, <1>5, <1>8, <1>9 DEF MayRise
  <1> QED BY <1>5, <1>10 DEF s

LEMMA RisesRight ==
    ASSUME NEW ns, Priced(ns), NEW n \in Nat, NEW f, RisesAs(ns, n, f, n),
           NEW i, NEW h, MayRise(ns, n, h, i)
    PROVE  HasRisen(ns, n, h, f[i][h])
  <1> DEFINE Rises(j) == \A g \in Heaps(ns, n) : MayRise(ns, n, g, j) => HasRisen(ns, n, g, f[j][g])
             Bad == {j \in 1 .. n : ~Rises(j)}
  <1>1. i \in 1 .. n /\ h \in Heaps(ns, n)
    BY DEF MayRise
  <1>2. SUFFICES ASSUME Bad # {} PROVE FALSE
    BY <1>1
  <1>3. Bad \subseteq Nat
    OBVIOUS
  <1>4. PICK j \in Bad : \A k \in Bad : j <= k
    BY <1>2, <1>3, LeastExists
  <1>5. j \in 1 .. n /\ ~Rises(j)
    BY Zenon
  <1>6. ASSUME NEW g \in Heaps(ns, n), MayRise(ns, n, g, j)
        PROVE  HasRisen(ns, n, g, f[j][g])
    <2>1. f[j][g] = Parent(ns, f, g, j)
      BY <1>5 DEF RisesAs
    <2>2. CASE j # 1 /\ Cheaper(ns, g, j, PARENT(j))
      <3>1. /\ MayRise(ns, n, Swapped(g, j, PARENT(j)), PARENT(j))
            /\ Rearranged(n, g, Swapped(g, j, PARENT(j)))
        BY <1>6, <2>2, RiseStep
      <3>2. PARENT(j) \in 1 .. n /\ ~(j <= PARENT(j))
        BY <1>5, <2>2, TreeFacts
      <3>3. Rises(PARENT(j))
        BY <1>4, <3>2
      <3>4. Swapped(g, j, PARENT(j)) \in Heaps(ns, n)
        BY <3>1 DEF MayRise
      <3>5. HasRisen(ns, n, Swapped(g, j, PARENT(j)), f[j][g])
        BY <2>1, <2>2, <3>1, <3>3, <3>4 DEF Parent
      <3>6. Rearranged(n, g, f[j][g])
        BY <3>1, <3>5, RearrangedTwice DEF HasRisen
      <3> QED BY <3>5, <3>6 DEF HasRisen
    <2>3. CASE ~(j # 1 /\ Cheaper(ns, g, j, PARENT(j)))
      <3>1. f[j][g] = g
        BY <2>1, <2>3 DEF Parent
      <3>2. ASSUME NEW k \in 2 .. n PROVE ParentFirst(ns, g, k)
        <4>1. CASE k # j
          BY <1>6, <4>1 DEF MayRise
        <4>2. CASE k = j
          <5>1. PARENT(j) \in 1 .. n
            BY <1>5, <4>2, TreeFacts
          <5>2. ns[g[j]].cost \in Nat /\ ns[g[PARENT(j)]].cost \in Nat
            BY <1>5, <5>1, CostIsNat
          <5>3. ~(ns[g[j]].cost < ns[g[PARENT(j)]].cost)
            BY <2>3, <4>2 DEF Cheaper
          <5> QED BY <4>2, <5>2, <5>3 DEF ParentFirst
        <4> QED BY <4>1, <4>2
      <3> QED BY <1>6, <3>1, <3>2, RearrangedSame DEF HasRisen
    <2> QED BY <2>2, <2>3
  <1> QED BY <1>5, <1>6

LEMMA RiseExists ==
    ASSUME NEW ns, NEW n \in Nat
    PROVE  \E f : f \in [1 .. n -> [Heaps(ns, n) -> Heaps(ns, n)]] /\ RisesAs(ns, n, f, n)
  <1> DEFINE H == Heaps(ns, n)
             Fits(f, k) == f \in [1 .. n -> [H -> H]] /\ RisesAs(ns, n, f, k)
             Bad == {k \in Nat : k <= n /\ ~\E f : Fits(f, k)}
  <1> HIDE DEF H
  <1>1. SUFFICES Bad = {}
    <2>1. n \in Nat /\ n <= n
      OBVIOUS
    <2>2. \E f : Fits(f, n)
      BY <2>1
    <2> QED BY <2>2 DEF H
  <1>2. SUFFICES ASSUME Bad # {} PROVE FALSE
    OBVIOUS
  <1>3. PICK k \in Bad : \A l \in Bad : k <= l
    BY <1>2, LeastExists
  <1>4. k \in Nat /\ k <= n /\ ~\E f : Fits(f, k)
    OBVIOUS
  <1>5. CASE k = 0
    <2> DEFINE f == [j \in 1 .. n |-> [g \in H |-> g]]
    <2>1. f \in [1 .. n -> [H -> H]]
      <3>1. [g \in H |-> g] \in [H -> H]
        OBVIOUS
      <3> QED BY <3>1
    <2>2. \A j \in 1 .. n : ~(j <= k)
      BY <1>5
    <2>3. RisesAs(ns, n, f, k)
      BY <2>2 DEF RisesAs
    <2> QED BY <1>4, <2>1, <2>3
  <1>6. CASE k # 0
    <2>1. k - 1 \in Nat /\ k - 1 <= n /\ ~(k <= k - 1) /\ k \in 1 .. n
      BY <1>4, <1>6
    <2>2. PICK f : Fits(f, k - 1)
      BY <1>3, <2>1
    <2>3. f \in [1 .. n -> [H -> H]] /\ RisesAs(ns, n, f, k - 1)
      BY <2>2
    <2> DEFINE e == [j \in 1 .. n |-> [g \in H |-> IF j = k THEN Parent(ns, f, g, j) ELSE f[j][g]]]
    <2>4. ASSUME NEW j \in 1 .. n, NEW g \in H, j # 1
          PROVE  PARENT(j) \in 1 .. n /\ PARENT(j) < j /\ Swapped(g, j, PARENT(j)) \in H
      <3>0. j \in Nat \ {0} /\ j <= n
        OBVIOUS
      <3>1. PARENT(j) \in 1 .. n /\ PARENT(j) < j
        BY <2>4, <3>0, TreeFacts
      <3>2. \A p \in 1 .. n : p # j => Swapped(g, j, p) \in H
        BY SwappedFacts DEF H
      <3> QED BY <3>1, <3>2
    <2>5. ASSUME NEW j \in 1 .. n, NEW g \in H PROVE Parent(ns, f, g, j) \in H
      BY <2>3, <2>4 DEF Parent
    <2>6. e \in [1 .. n -> [H -> H]]
      BY <2>3, <2>5
    <2>7. \A j \in 1 .. n, g \in H : e[j][g] = IF j = k THEN Parent(ns, f, g, j) ELSE f[j][g]
      OBVIOUS
    <2> HIDE DEF e
    <2>8. ASSUME NEW j \in 1 .. n, NEW g \in H, j <= k PROVE e[j][g] = Parent(ns, e, g, j)
      <3>1. Parent(ns, e, g, j) = Parent(ns, f, g, j)
        <4>1. CASE j # 1
          <5>1. PARENT(j) \in 1 .. n /\ PARENT(j) # k /\ Swapped(g, j, PARENT(j)) \in H
            BY <2>4, <2>8, <4>1
          <5>2. e[PARENT(j)][Swapped(g, j, PARENT(j))] = f[PARENT(j)][Swapped(g, j, PARENT(j))]
            BY <2>7, <5>1
          <5> QED BY <5>2 DEF Parent
        <4>2. CASE j = 1
          BY <4>2 DEF Parent
        <4> QED BY <4>1, <4>2
      <3>2. CASE j = k
        BY <2>7, <3>1, <3>2
      <3>3. CASE j # k
        <4>1. j <= k - 1
          BY <1>4, <2>8, <3>3
        <4>2. f[j][g] = Parent(ns, f, g, j)
          BY <2>3, <4>1 DEF RisesAs, H
        <4> QED BY <2>7, <3>1, <3>3, <4>2
      <3> QED BY <3>2, <3>3
    <2>9. RisesAs(ns, n, e, k)
      BY <2>8 DEF RisesAs, H
    <2> QED BY <1>4, <2>6, <2>9
  <1> QED BY <1>5, <1>6

(* SiftUp puts the heap in order if only i may be cheaper than its parent. *)
LEMMA SiftUpEffect ==
    ASSUME NEW ns, Priced(ns), NEW h \in Seq(Nat), NEW i, MayRise(ns, Len(h), h, i)
    PROVE  HasRisen(ns, Len(h), h, SiftUp(ns, h, i))
  <1> DEFINE n == Len(h)
             H == Heaps(ns, n)
             Sift(f) == f = [j \in 1 .. n |-> [g \in H |-> Parent(ns, f, g, j)]]
  <1>1. n \in Nat
    OBVIOUS
  <1>2. PICK f : f \in [1 .. n -> [H -> H]] /\ RisesAs(ns, n, f, n)
    BY <1>1, RiseExists
  <1>3. Sift(f)
    <2>1. \A j \in 1 .. n, g \in H : f[j][g] = Parent(ns, f, g, j)
      BY <1>1, <1>2 DEF RisesAs
    <2>2. f = [j \in 1 .. n |-> f[j]] /\ \A j \in 1 .. n : f[j] = [g \in H |-> f[j][g]]
      BY <1>2
    <2>3. \A j \in 1 .. n : f[j] = [g \in H |-> Parent(ns, f, g, j)]
      BY <2>1, <2>2
    <2> QED BY <2>2, <2>3
  <1>4. PICK u : u = CHOOSE x : Sift(x)
    OBVIOUS
  <1>5. Sift(u)
    BY <1>3, <1>4, Zenon
  <1>6. SiftUp(ns, h, i) = u[i][h]
    BY <1>4 DEF SiftUp, Parent
  <1>7. RisesAs(ns, n, u, n)
    <2>1. \A j \in 1 .. n : u[j] = [g \in H |-> Parent(ns, u, g, j)]
      BY <1>5
    <2>2. \A j \in 1 .. n, g \in H : u[j][g] = Parent(ns, u, g, j)
      BY <2>1
    <2> QED BY <2>2 DEF RisesAs
  <1> QED BY <1>1, <1>6, <1>7, RisesRight
-----------------------------------------------------------------------------
(* Push and Pop. *)

Queued(h) == {h[k] : k \in 1 .. Len(h)}

(* h is a heap of some of the PathNodes, each once. *)
IsHeap(ns, h) ==
    /\ h \in Seq(1 .. Len(ns))
    /\ Distinct(Len(h), h)
    /\ \A j \in 2 .. Len(h) : ParentFirst(ns, h, j)

LEMMA FunctionIsSeq ==
    ASSUME NEW S, NEW n \in Nat, NEW e \in [1 .. n -> S]
    PROVE  e \in Seq(S) /\ Len(e) = n
  OBVIOUS

LEMMA HeapFacts ==
    ASSUME NEW ns, Priced(ns), NEW h, IsHeap(ns, h)
    PROVE  /\ Len(h) \in Nat /\ h \in Heaps(ns, Len(h)) /\ h \in Seq(Nat)
           /\ \A j \in 1 .. Len(h) : ns[h[j]].cost \in Nat
  <1>1. Len(h) \in Nat /\ h \in [1 .. Len(h) -> 1 .. Len(ns)]
    BY DEF IsHeap
  <1>2. h \in Seq(Nat)
    <2>1. h \in [1 .. Len(h) -> Nat]
      BY <1>1
    <2> QED BY <1>1, <2>1, FunctionIsSeq
  <1> QED BY <1>1, <1>2 DEF Heaps, Priced

LEMMA RootIsLeast ==
    ASSUME NEW ns, Priced(ns), NEW h, IsHeap(ns, h), NEW j \in 1 .. Len(h)
    PROVE  ns[h[1]].cost <= ns[h[j]].cost
  <1> DEFINE Bad == {k \in 1 .. Len(h) : ~(ns[h[1]].cost <= ns[h[k]].cost)}
  <1>1. SUFFICES ASSUME Bad # {} PROVE FALSE
    OBVIOUS
  <1>2. Bad \subseteq Nat
    OBVIOUS
  <1>3. PICK k \in Bad : \A l \in Bad : k <= l
    BY <1>1, <1>2, LeastExists
  <1>4. k \in 1 .. Len(h) /\ ~(ns[h[1]].cost <= ns[h[k]].cost)
    OBVIOUS
  <1>5. Len(h) \in Nat /\ \A l \in 1 .. Len(h) : ns[h[l]].cost \in Nat
    BY HeapFacts
  <1>6. k # 1
    BY <1>4, <1>5
  <1>7. k \in 2 .. Len(h) /\ 1 \in 1 .. Len(h)
    BY <1>4, <1>5, <1>6
  <1>8. PARENT(k) \in 1 .. Len(h) /\ ~(k <= PARENT(k))
    <2>1. PARENT(k) \in 1 .. Len(h) /\ PARENT(k) < k /\ k \in Nat
      BY <1>5, <1>7, ParentIn
    <2> QED BY <2>1
  <1>9. ns[h[1]].cost <= ns[h[PARENT(k)]].cost
    BY <1>3, <1>8
  <1>10. ns[h[PARENT(k)]].cost <= ns[h[k]].cost
    BY <1>7 DEF IsHeap, ParentFirst
  <1> QED BY <1>4, <1>5, <1>8, <1>9, <1>10

LEMMA PushEffect ==
    ASSUME NEW ns, Priced(ns), NEW h, IsHeap(ns, h), NEW x \in 1 .. Len(ns), x \notin Queued(h)
    PROVE  IsHeap(ns, Push(ns, h, x)) /\ Queued(Push(ns, h, x)) = Queued(h) \cup {x}
  <1> DEFINE g == Append(h, x)
             n == Len(h) + 1
  <1>1. h \in Seq(1 .. Len(ns)) /\ Len(h) \in Nat /\ n \in 1 .. n /\ n \in Nat
    BY DEF IsHeap
  <1>2. /\ g \in Seq(1 .. Len(ns)) /\ Len(g) = n /\ g[n] = x
        /\ \A k \in 1 .. Len(h) : g[k] = h[k]
    BY <1>1
  <1>3. g \in Heaps(ns, n) /\ g \in Seq(Nat)
    <2> HIDE DEF g
    <2>1. g \in [1 .. n -> 1 .. Len(ns)]
      BY <1>1, <1>2
    <2>2. g \in [1 .. n -> Nat]
      BY <2>1
    <2> QED BY <1>1, <2>1, <2>2, FunctionIsSeq DEF Heaps
  <1>4. \A k \in 1 .. n : k = n \/ k \in 1 .. Len(h)
    BY <1>1
  <1> HIDE DEF g
  <1>5. Distinct(n, g)
    <2>1. \A k \in 1 .. Len(h) : h[k] # x
      BY DEF Queued
    <2> QED BY <1>2, <1>4, <2>1 DEF Distinct, IsHeap
  <1>6. ASSUME NEW j \in 2 .. n, j # n PROVE ParentFirst(ns, g, j)
    <2>1. j \in 2 .. Len(h) /\ j \in 1 .. Len(h)
      BY <1>1, <1>6
    <2>2. PARENT(j) \in 1 .. Len(h)
      BY <1>1, <2>1, ParentIn
    <2> QED BY <1>2, <2>1, <2>2 DEF IsHeap, ParentFirst
  <1>7. GrandparentFirst(ns, n, g, n)
    <2>1. ASSUME NEW c \in 2 .. n PROVE PARENT(c) # n
      <3>1. PARENT(c) < c /\ c <= n /\ PARENT(c) \in Nat
        BY <1>1, ParentIn
      <3> QED BY <1>1, <3>1
    <2> QED BY <2>1 DEF GrandparentFirst
  <1>8. MayRise(ns, n, g, n)
    BY <1>1, <1>3, <1>6, <1>7 DEF MayRise
  <1>9. HasRisen(ns, n, g, SiftUp(ns, g, n))
    BY <1>2, <1>3, <1>8, SiftUpEffect
  <1> DEFINE e == SiftUp(ns, g, n)
  <1>10. Push(ns, h, x) = e
    BY DEF Push, g
  <1>11. /\ e \in Heaps(ns, n) /\ {e[k] : k \in 1 .. n} = {g[k] : k \in 1 .. n} /\ Distinct(n, e)
         /\ \A j \in 2 .. n : ParentFirst(ns, e, j)
    BY <1>5, <1>9 DEF HasRisen, Rearranged
  <1> HIDE DEF e
  <1>12. e \in Seq(1 .. Len(ns)) /\ Len(e) = n
    BY <1>1, <1>11, FunctionIsSeq DEF Heaps
  <1>13. {g[k] : k \in 1 .. n} = Queued(h) \cup {x}
    <2>1. ASSUME NEW k \in 1 .. n PROVE g[k] \in Queued(h) \cup {x}
      BY <1>2, <1>4 DEF Queued
    <2>2. ASSUME NEW k \in 1 .. Len(h) PROVE k \in 1 .. n /\ h[k] = g[k]
      BY <1>1, <1>2
    <2> QED BY <1>1, <1>2, <2>1, <2>2 DEF Queued
  <1> QED BY <1>10, <1>11, <1>12, <1>13 DEF IsHeap, Queued

LEMMA PoppedEffect ==
    ASSUME NEW ns, Priced(ns), NEW h, IsHeap(ns, h), h # <<>>
    PROVE  /\ Head(h) = h[1] /\ h[1] \in Queued(h)
           /\ IsHeap(ns, Popped(ns, h)) /\ Queued(Popped(ns, h)) = Queued(h) \ {h[1]}
  <1>1. /\ h \in Seq(1 .. Len(ns)) /\ Len(h) \in Nat \ {0} /\ Distinct(Len(h), h)
        /\ Head(h) = h[1] /\ 1 \in 1 .. Len(h)
        /\ \A k \in 1 .. Len(h) : h[k] \in 1 .. Len(ns)
    BY DEF IsHeap
  <1>2. h[1] \in Queued(h)
    BY <1>1 DEF Queued
  <1>3. CASE Len(h) = 1
    <2>1. Popped(ns, h) = <<>>
      BY <1>3 DEF Popped
    <2>2. Queued(h) = {h[1]} /\ Queued(<<>>) = {}
      BY <1>3 DEF Queued
    <2>3. IsHeap(ns, <<>>)
      BY DEF IsHeap, Distinct
    <2> QED BY <1>1, <1>2, <2>1, <2>2, <2>3
  <1>4. CASE Len(h) # 1
    <2> DEFINE g == <<h[Len(h)]>> \o SubSeq(h, 2, Len(h) - 1)
    <2>0. PICK n : n = Len(h) - 1
      OBVIOUS
    <2>1. /\ n \in Nat \ {0} /\ Len(h) = n + 1 /\ 1 \in 1 .. n /\ n + 1 \in 1 .. Len(h)
          /\ Len(h) - 1 = n
      BY <1>1, <1>4, <2>0
    <2>2. /\ g \in [1 .. n -> 1 .. Len(ns)] /\ g[1] = h[n + 1]
          /\ \A k \in 2 .. n : g[k] = h[k]
      <3>1. PICK m : m = SubSeq(h, 2, Len(h) - 1)
        OBVIOUS
      <3>2. m \in Seq(1 .. Len(ns)) /\ Len(m) = n - 1 /\ \A k \in 1 .. n - 1 : m[k] = h[k + 1]
        BY <1>1, <2>1, <3>1
      <3>3. PICK y \in 1 .. Len(ns) : y = h[Len(h)]
        BY <1>1, <2>1
      <3>4. PICK l : l = <<y>> \o m
        OBVIOUS
      <3>5. l \in Seq(1 .. Len(ns)) /\ Len(l) = n /\ l[1] = y /\ \A k \in 2 .. n : l[k] = m[k - 1]
        BY <2>1, <3>2, <3>4
      <3>6. \A k \in 2 .. n : k - 1 \in 1 .. n - 1 /\ k - 1 + 1 = k
        BY <2>1
      <3>7. g = l
        BY <3>1, <3>3, <3>4
      <3>8. l \in [1 .. n -> 1 .. Len(ns)]
        BY <3>5
      <3>9. ASSUME NEW k \in 2 .. n PROVE l[k] = h[k]
        BY <3>2, <3>5, <3>6
      <3>10. y = h[n + 1]
        BY <2>1, <3>3
      <3> QED BY <3>5, <3>7, <3>8, <3>9, <3>10
    <2>3. g \in Heaps(ns, n) /\ g \in Seq(Nat) /\ Len(g) = n
      <3>1. g \in [1 .. n -> 1 .. Len(ns)] /\ g \in [1 .. n -> Nat]
        BY <2>2
      <3> QED BY <2>1, <3>1, FunctionIsSeq DEF Heaps
    <2>4. Popped(ns, h) = SiftDown(ns, g, 1)
      BY <1>4 DEF Popped
    <2> HIDE DEF g
    <2>5. \A k \in 1 .. n : k = 1 \/ k \in 2 .. n
      BY <2>1
    <2>6. Distinct(n, g)
      <3>1. \A k \in 2 .. n : k \in 1 .. Len(h) /\ k # n + 1
        BY <2>1
      <3> QED BY <1>1, <2>1, <2>2, <2>5, <3>1 DEF Distinct
    <2>7. ASSUME NEW j \in 2 .. n, PARENT(j) # 1 PROVE ParentFirst(ns, g, j)
      <3>1. j \in 2 .. Len(h)
        BY <2>1
      <3>2. PARENT(j) \in 2 .. n
        <4>1. PARENT(j) \in 1 .. n
          BY <2>1, ParentIn
        <4> QED BY <2>7, <4>1
      <3> QED BY <2>2, <3>1, <3>2 DEF IsHeap, ParentFirst
    <2>8. MaySink(ns, n, g, 1, {})
      BY <2>1, <2>3, <2>7 DEF MaySink, GrandparentFirst
    <2>9. HasSunk(ns, n, g, SiftDown(ns, g, 1), 1, {})
      BY <2>3, <2>8, SiftDownEffect
    <2> DEFINE e == SiftDown(ns, g, 1)
    <2>10. /\ e \in Heaps(ns, n) /\ {e[k] : k \in 1 .. n} = {g[k] : k \in 1 .. n} /\ Distinct(n, e)
           /\ \A j \in 2 .. n : ParentFirst(ns, e, j)
      BY <2>6, <2>9 DEF HasSunk, Rearranged
    <2> HIDE DEF e
    <2>11. e \in Seq(1 .. Len(ns)) /\ Len(e) = n
      BY <2>1, <2>10, FunctionIsSeq DEF Heaps
    <2>12. {g[k] : k \in 1 .. n} = Queued(h) \ {h[1]}
      <3>1. ASSUME NEW k \in 1 .. n PROVE g[k] \in Queued(h) \ {h[1]}
        <4>1. CASE k = 1
          <5>1. g[k] = h[n + 1] /\ n + 1 # 1
            BY <2>1, <2>2, <4>1
          <5> QED BY <1>1, <2>1, <5>1 DEF Queued, Distinct
        <4>2. CASE k \in 2 .. n
          <5>1. g[k] = h[k] /\ k # 1 /\ k \in 1 .. Len(h)
            BY <2>1, <2>2, <4>2
          <5> QED BY <1>1, <5>1 DEF Queued, Distinct
        <4> QED BY <2>5, <4>1, <4>2
      <3>2. ASSUME NEW k \in 1 .. Len(h), h[k] # h[1] PROVE \E l \in 1 .. n : h[k] = g[l]
        <4>1. CASE k = n + 1
          BY <2>1, <2>2, <4>1
        <4>2. CASE k # n + 1
          <5>1. k \in 2 .. n /\ k \in 1 .. n
            BY <2>1, <3>2, <4>2
          <5> QED BY <2>2, <5>1
        <4> QED BY <4>1, <4>2
      <3> QED BY <3>1, <3>2 DEF Queued
    <2>13. Queued(e) = Queued(h) \ {h[1]}
      BY <2>10, <2>11, <2>12 DEF Queued
    <2>14. IsHeap(ns, e)
      BY <2>10, <2>11 DEF IsHeap
    <2>15. Popped(ns, h) = e
      BY <2>4 DEF e
    <2> QED BY <1>2, <2>13, <2>14, <2>15
  <1> QED BY <1>3, <1>4

(* The heap stays one when PathNodes are added. *)
LEMMA MorePathNodes ==
    ASSUME NEW ns, NEW ms, NEW h, IsHeap(ns, h), Len(ns) \in Nat, Len(ms) \in Nat, Len(ns) <= Len(ms),
           \A x \in 1 .. Len(ns) : ms[x] = ns[x]
    PROVE  IsHeap(ms, h)
  <1>1. h \in Seq(1 .. Len(ns)) /\ Len(h) \in Nat /\ \A k \in 1 .. Len(h) : h[k] \in 1 .. Len(ns)
    BY DEF IsHeap
  <1>2. h \in Seq(1 .. Len(ms))
    <2>1. h \in [1 .. Len(h) -> 1 .. Len(ms)]
      BY <1>1
    <2> QED BY <1>1, <2>1, FunctionIsSeq
  <1>3. ASSUME NEW j \in 2 .. Len(h) PROVE ParentFirst(ms, h, j)
    <2>1. PARENT(j) \in 1 .. Len(h) /\ j \in 1 .. Len(h)
      BY <1>1, ParentIn
    <2>2. ms[h[j]] = ns[h[j]] /\ ms[h[PARENT(j)]] = ns[h[PARENT(j)]]
      BY <1>1, <2>1
    <2> QED BY <2>2 DEF IsHeap, ParentFirst
  <1> QED BY <1>2, <1>3 DEF IsHeap
-----------------------------------------------------------------------------
(* The track and the ways over it. *)

LEMMA EdgeFacts ==
    ASSUME NEW t \in TrackNodes
    PROVE  /\ Edges[t] \in Seq([dest : TrackNodes, dist : Nat])
           /\ Len(Edges[t]) \in 0 .. 2 /\ DOMAIN Edges[t] = 1 .. Len(Edges[t])
           /\ \A k \in DOMAIN Edges[t] : Edges[t][k].dest \in TrackNodes /\ Edges[t][k].dist \in Nat
           /\ IsExit(t) <=> Len(Edges[t]) = 0
  <1>1. PICK e : e = Edges[t]
    OBVIOUS
  <1>2. PICK S : S = [dest : TrackNodes, dist : Nat]
    OBVIOUS
  <1>3. e \in Seq(S) /\ Len(e) <= 2
    BY <1>1, <1>2, PathAssumption
  <1>4. Len(e) \in 0 .. 2 /\ DOMAIN e = 1 .. Len(e) /\ (e = <<>> <=> Len(e) = 0)
    <2>1. Len(e) \in Nat /\ DOMAIN e = 1 .. Len(e)
      BY <1>3
    <2>2. e # <<>> => Len(e) \in Nat \ {0}
      BY <1>3, EmptySeq, Zenon
    <2>3. e = <<>> => Len(e) = 0
      OBVIOUS
    <2> QED BY <1>3, <2>1, <2>2, <2>3
  <1>5. \A k \in DOMAIN e : e[k] \in S
    BY <1>3
  <1>6. \A k \in DOMAIN e : e[k].dest \in TrackNodes /\ e[k].dist \in Nat
    BY <1>2, <1>5
  <1> QED BY <1>1, <1>2, <1>3, <1>4, <1>6 DEF IsExit

LEMMA OnwardFacts ==
    ASSUME NEW t \in TrackNodes, NEW c \in Nat, NEW w \in Onward(<<t, c>>)
    PROVE  w \in TrackNodes \X Nat /\ c <= w[2]
  <1>1. PICK k \in DOMAIN Edges[t] : w = <<Edges[t][k].dest, c + Edges[t][k].dist>>
    BY DEF Onward
  <1> QED BY <1>1, EdgeFacts

(* f is ways of Ways(s, avoid, n). *)
AreWays(s, avoid, n, f) ==
    f = [k \in 0 .. n |->
            IF k = 0 THEN {<<s, 0>>}
            ELSE UNION {{w} \cup (IF w[1] \in avoid THEN {} ELSE Onward(w)) : w \in f[k - 1]}]

LEMMA WaysExist ==
    ASSUME NEW s, NEW avoid, NEW n \in Nat
    PROVE  \E f : AreWays(s, avoid, n, f)
  <1> DEFINE Further(W) == UNION {{w} \cup (IF w[1] \in avoid THEN {} ELSE Onward(w)) : w \in W}
             Bad == {k \in Nat : ~\E f : AreWays(s, avoid, k, f)}
  <1> HIDE DEF Further
  <1>1. SUFFICES ASSUME Bad # {} PROVE FALSE
    OBVIOUS
  <1>2. PICK k \in Bad : \A l \in Bad : k <= l
    BY <1>1, LeastExists
  <1>3. k \in Nat /\ ~\E f : AreWays(s, avoid, k, f)
    OBVIOUS
  <1>4. CASE k = 0
    <2>1. PICK f : f = [j \in 0 .. 0 |-> {<<s, 0>>}]
      OBVIOUS
    <2>2. \A j \in 0 .. 0 : j = 0
      OBVIOUS
    <2>3. f = [j \in 0 .. 0 |-> IF j = 0 THEN {<<s, 0>>} ELSE Further(f[j - 1])]
      BY <2>1, <2>2, Zenon
    <2> QED BY <1>3, <1>4, <2>3 DEF AreWays, Further
  <1>5. CASE k # 0
    <2>1. k - 1 \in Nat /\ ~(k <= k - 1) /\ k - 1 \in 0 .. k - 1
      BY <1>3, <1>5
    <2>2. PICK f : AreWays(s, avoid, k - 1, f)
      BY <1>2, <2>1
    <2>3. PICK g : g = [j \in 0 .. k |-> IF j = k THEN Further(f[k - 1]) ELSE f[j]]
      OBVIOUS
    <2>4. f = [j \in 0 .. k - 1 |-> IF j = 0 THEN {<<s, 0>>} ELSE Further(f[j - 1])]
      BY <2>2 DEF AreWays, Further
    <2>5. \A j \in 0 .. k - 1 : f[j] = IF j = 0 THEN {<<s, 0>>} ELSE Further(f[j - 1])
      BY <2>4, Zenon
    <2>6. ASSUME NEW j \in 0 .. k
          PROVE  g[j] = IF j = 0 THEN {<<s, 0>>} ELSE Further(g[j - 1])
      <3>1. CASE j = k
        <4>1. k - 1 \in 0 .. k /\ k - 1 # k /\ k \in 0 .. k
          BY <2>1
        <4>2. g[k - 1] = f[k - 1] /\ g[k] = Further(f[k - 1])
          BY <2>3, <4>1
        <4> QED BY <1>5, <3>1, <4>2
      <3>2. CASE j # k
        <4>1. j \in 0 .. k - 1 /\ (j # 0 => j - 1 \in 0 .. k /\ j - 1 # k)
          BY <1>3, <3>2
        <4>2. g[j] = f[j] /\ (j # 0 => g[j - 1] = f[j - 1])
          BY <2>3, <3>2, <4>1
        <4> QED BY <2>5, <4>1, <4>2
      <3> QED BY <3>1, <3>2
    <2>7. g = [j \in 0 .. k |-> g[j]]
      BY <2>3
    <2>8. g = [j \in 0 .. k |-> IF j = 0 THEN {<<s, 0>>} ELSE Further(g[j - 1])]
      BY <2>6, <2>7, Zenon
    <2> QED BY <1>3, <2>8 DEF AreWays, Further
  <1> QED BY <1>4, <1>5

(* There are the ways of no edge and those that go one edge further.       *)
LEMMA WaysSteps ==
    ASSUME NEW s, NEW avoid, NEW n \in Nat
    PROVE  \E f : /\ Ways(s, avoid, n) = f[n]
                  /\ f[0] = {<<s, 0>>}
                  /\ \A k \in 1 .. n : \A w \in f[k] :
                        \/ w \in f[k - 1]
                        \/ \E v \in f[k - 1] : v[1] \notin avoid /\ w \in Onward(v)
  <1>1. PICK f : f = CHOOSE g : AreWays(s, avoid, n, g)
    OBVIOUS
  <1>2. AreWays(s, avoid, n, f)
    BY <1>1, WaysExist, Zenon
  <1>3. Ways(s, avoid, n) = f[n]
    BY <1>1 DEF Ways, AreWays
  <1>4. 0 \in 0 .. n
    OBVIOUS
  <1>5. f[0] = {<<s, 0>>}
    BY <1>2, <1>4 DEF AreWays
  <1>6. ASSUME NEW k \in 1 .. n, NEW w \in f[k]
        PROVE  \/ w \in f[k - 1]
               \/ \E v \in f[k - 1] : v[1] \notin avoid /\ w \in Onward(v)
    <2>1. k \in 0 .. n /\ k # 0
      OBVIOUS
    <2>2. f[k] = UNION {{v} \cup (IF v[1] \in avoid THEN {} ELSE Onward(v)) : v \in f[k - 1]}
      BY <1>2, <2>1 DEF AreWays
    <2>3. PICK v \in f[k - 1] : w \in {v} \cup (IF v[1] \in avoid THEN {} ELSE Onward(v))
      BY <1>6, <2>2
    <2> QED BY <2>3
  <1> QED BY <1>3, <1>5, <1>6
-----------------------------------------------------------------------------
(* The search. *)

PathNode == [from : Nat, tn : TrackNodes, cost : Nat]

(* The nodes this search is not followed beyond: somebody owned them when  *)
(* it began, and train_num is not his tid.                                 *)
barred == Barred(ownedAt, train_num)

(* No way of at most n edges that does not leave such a node gets to dst   *)
(* for less than cost, or at all.                                          *)
Shortest(n, cost) == \A w \in Ways(src, barred, n) : w[1] = dst => cost <= w[2]
ShutOff(n)        == \A w \in Ways(src, barred, n) : w[1] # dst

Place(i) == <<g_nodes[i].tn, g_nodes[i].cost>>

(* The PathNodes form a tree of ways that are free. *)
Grown ==
    /\ Len(g_nodes) >= 1 /\ g_nodes[1] = [from |-> 0, tn |-> src, cost |-> 0]
    /\ \A i \in 2 .. Len(g_nodes) :
          /\ g_nodes[i].from \in 1 .. i - 1
          /\ g_nodes[g_nodes[i].from].tn \notin barred
          /\ Place(i) \in Onward(Place(g_nodes[i].from))

(* Those that are no longer in the heap were not the destination, and the  *)
(* search has been one edge further from them, unless they are barred.     *)
Explored ==
    \A i \in 1 .. Len(g_nodes) :
        i \notin Queued(heap) =>
            /\ g_nodes[i].tn # dst
            /\ \/ g_nodes[i].tn \in barred
               \/ \A w \in Onward(Place(i)) : \E j \in 1 .. Len(g_nodes) : Place(j) = w

SearchInv ==
    /\ phase \in {"idle", "search", "found", "lost", "full", "overrun", "wild"}
    /\ owner \in [TrackNodes -> Owners \cup {NoOne}]
    /\ g_nodes \in Seq(PathNode)
    /\ phase \in {"search", "found", "lost"} => src \in TrackNodes
    /\ phase \in {"idle", "wild"} => heap = <<>>
    /\ phase = "search" =>
          barred = Barred(owner, train_num) /\ IsHeap(g_nodes, heap) /\ Grown /\ Explored
    /\ phase = "found" /\ heap # <<>> =>
          /\ Grown /\ Len(heap) = 1 /\ heap[1] \in 1 .. Len(g_nodes) /\ g_nodes[heap[1]].tn = dst
          /\ \A n \in Nat : Shortest(n, g_nodes[heap[1]].cost)
    /\ phase = "lost" => \A n \in Nat : ShutOff(n)

LEMMA PathNodeFacts ==
    ASSUME g_nodes \in Seq(PathNode)
    PROVE  /\ Len(g_nodes) \in Nat /\ DOMAIN g_nodes = 1 .. Len(g_nodes) /\ Priced(g_nodes)
           /\ \A i \in 1 .. Len(g_nodes) :
                 /\ g_nodes[i] \in PathNode
                 /\ g_nodes[i].from \in Nat /\ g_nodes[i].tn \in TrackNodes /\ g_nodes[i].cost \in Nat
  <1>1. \A i \in 1 .. Len(g_nodes) : g_nodes[i] \in PathNode
    OBVIOUS
  <1> QED BY <1>1 DEF PathNode, Priced

(* Every way that is free has been gone, or begins with one in the heap.   *)
LEMMA Covered ==
    ASSUME SearchInv, phase = "search", NEW n \in Nat, NEW w \in Ways(src, barred, n)
    PROVE  /\ w \in TrackNodes \X Nat
           /\ \/ \E i \in 1 .. Len(g_nodes) : i \notin Queued(heap) /\ Place(i) = w
              \/ \E i \in Queued(heap) : i \in 1 .. Len(g_nodes) /\ g_nodes[i].cost <= w[2]
  <1>1. PICK f : /\ Ways(src, barred, n) = f[n] /\ f[0] = {<<src, 0>>}
                 /\ \A k \in 1 .. n : \A x \in f[k] :
                        \/ x \in f[k - 1]
                        \/ \E v \in f[k - 1] : v[1] \notin barred /\ x \in Onward(v)
    BY WaysSteps
  <1>2. /\ g_nodes \in Seq(PathNode) /\ Grown /\ Explored /\ IsHeap(g_nodes, heap) /\ src \in TrackNodes
    BY DEF SearchInv
  <1>3. /\ Len(g_nodes) \in Nat
        /\ \A i \in 1 .. Len(g_nodes) : g_nodes[i].tn \in TrackNodes /\ g_nodes[i].cost \in Nat
    BY <1>2, PathNodeFacts
  <1> DEFINE Gone(x) == \E i \in 1 .. Len(g_nodes) : i \notin Queued(heap) /\ Place(i) = x
             Begun(x) == \E i \in Queued(heap) : i \in 1 .. Len(g_nodes) /\ g_nodes[i].cost <= x[2]
             Known(x) == x \in TrackNodes \X Nat /\ (Gone(x) \/ Begun(x))
             Bad == {k \in 0 .. n : ~\A x \in f[k] : Known(x)}
  <1>4. ASSUME NEW i \in 1 .. Len(g_nodes) PROVE Known(Place(i))
    <2>1. Place(i) \in TrackNodes \X Nat /\ Place(i)[2] = g_nodes[i].cost /\ g_nodes[i].cost <= g_nodes[i].cost
      BY <1>3 DEF Place
    <2> QED BY <2>1
  <1> HIDE DEF Known
  <1>5. Bad = {}
    <2>1. SUFFICES ASSUME Bad # {} PROVE FALSE
      OBVIOUS
    <2>2. Bad \subseteq Nat
      OBVIOUS
    <2>3. PICK k \in Bad : \A l \in Bad : k <= l
      BY <2>1, <2>2, LeastExists
    <2>4. k \in 0 .. n /\ \E x \in f[k] : ~Known(x)
      OBVIOUS
    <2>5. PICK x \in f[k] : ~Known(x)
      BY <2>4
    <2>6. CASE k = 0
      <3>1. x = <<src, 0>>
        BY <1>1, <2>6
      <3>2. 1 \in 1 .. Len(g_nodes) /\ Place(1) = <<src, 0>>
        BY <1>2, <1>3 DEF Grown, Place
      <3> QED BY <1>4, <2>5, <3>1, <3>2
    <2>7. CASE k # 0
      <3>1. k \in 1 .. n /\ k - 1 \in 0 .. n /\ ~(k <= k - 1)
        BY <2>4, <2>7
      <3>2. \A v \in f[k - 1] : Known(v)
        BY <2>3, <3>1
      <3>3. PICK v \in f[k - 1] : v[1] \notin barred /\ x \in Onward(v)
        BY <1>1, <2>5, <3>1, <3>2
      <3>4. v \in TrackNodes \X Nat /\ (Gone(v) \/ Begun(v))
        BY <3>2 DEF Known
      <3>5. PICK t \in TrackNodes, c \in Nat : v = <<t, c>>
        BY <3>4
      <3>6. x \in TrackNodes \X Nat /\ c <= x[2] /\ x[2] \in Nat
        BY <3>3, <3>5, OnwardFacts
      <3>7. CASE Gone(v)
        <4>1. PICK i \in 1 .. Len(g_nodes) : i \notin Queued(heap) /\ Place(i) = v
          BY <3>7
        <4>2. g_nodes[i].tn \notin barred
          BY <3>3, <4>1 DEF Place
        <4>3. PICK j \in 1 .. Len(g_nodes) : Place(j) = x
          BY <1>2, <3>3, <4>1, <4>2 DEF Explored
        <4> QED BY <1>4, <2>5, <4>3
      <3>8. CASE Begun(v)
        <4>1. PICK i \in Queued(heap) : i \in 1 .. Len(g_nodes) /\ g_nodes[i].cost <= c
          BY <3>5, <3>8
        <4>2. g_nodes[i].cost <= x[2]
          BY <1>3, <3>6, <4>1
        <4> QED BY <2>5, <3>6, <4>1, <4>2 DEF Known
      <3> QED BY <3>4, <3>7, <3>8
    <2> QED BY <2>6, <2>7
  <1>6. Known(w)
    <2>1. n \in 0 .. n /\ w \in f[n]
      BY <1>1
    <2> QED BY <1>5, <2>1
  <1> QED BY <1>6 DEF Known

LEMMA SearchUnchanged ==
    SearchInv /\ UNCHANGED routeVars => SearchInv'
  <1> SUFFICES ASSUME SearchInv, UNCHANGED routeVars PROVE SearchInv'
    OBVIOUS
  <1> USE DEF routeVars, barred
  <1>1. Grown => Grown'
    BY DEF Grown, Place
  <1>2. Explored => Explored'
    BY DEF Explored, Place
  <1>3. ASSUME \A n \in Nat : Shortest(n, g_nodes[heap[1]].cost)
        PROVE  (\A n \in Nat : Shortest(n, g_nodes[heap[1]].cost))'
    BY <1>3 DEF Shortest
  <1>4. ASSUME \A n \in Nat : ShutOff(n)
        PROVE  (\A n \in Nat : ShutOff(n))'
    BY <1>4 DEF ShutOff
  <1> QED BY <1>1, <1>2, <1>3, <1>4 DEF SearchInv

LEMMA BarredKept ==
    ASSUME UNCHANGED <<train_num, ownedAt>>
    PROVE  barred' = barred
  BY DEF barred

LEMMA ReserveKeepsSearchInv ==
    ASSUME SearchInv, NEW own \in Reservations, Reserve(own)
    PROVE  SearchInv'
  <1>0. UNCHANGED <<src, dst, train_num, g_nodes, heap, phase, ownedAt>> /\ phase # "search"
    BY DEF Reserve
  <1>1. UNCHANGED <<src, dst, g_nodes, heap, phase, barred>> /\ phase # "search"
    BY <1>0, BarredKept
  <1>2. owner' \in [TrackNodes -> Owners \cup {NoOne}]
    BY PathAssumption DEF Reserve
  <1>3. Grown => Grown'
    BY <1>1 DEF Grown, Place
  <1>4. ASSUME \A n \in Nat : Shortest(n, g_nodes[heap[1]].cost)
        PROVE  (\A n \in Nat : Shortest(n, g_nodes[heap[1]].cost))'
    BY <1>1, <1>4 DEF Shortest
  <1>5. ASSUME \A n \in Nat : ShutOff(n)
        PROVE  (\A n \in Nat : ShutOff(n))'
    BY <1>1, <1>5 DEF ShutOff
  <1> QED BY <1>1, <1>2, <1>3, <1>4, <1>5 DEF SearchInv

LEMMA BookKeepsSearchInv ==
    ASSUME SearchInv, Book
    PROVE  SearchInv'
  <1>1. phase' \in {"idle", "wild"} /\ owner' = owner /\ g_nodes' = <<>> /\ heap' = <<>>
    BY DEF Book
  <1>2. <<>> \in Seq(PathNode)
    OBVIOUS
  <1> QED BY <1>1, <1>2 DEF SearchInv

LEMMA PlanRouteKeepsSearchInv ==
    ASSUME SearchInv, NEW s \in Starts, NEW d \in Ends, NEW num \in Owners, PlanRoute(s, d, num)
    PROVE  SearchInv'
  <1>1. s \in TrackNodes /\ src' = s /\ barred' = Barred(owner, num) /\ owner' = owner /\ train_num' = num
    BY PathAssumption DEF PlanRoute, barred
  <1>2. CASE ReverseNode[s] = d
    <2>1. phase' = "found" /\ g_nodes' = g_nodes /\ heap' = heap /\ phase = "idle"
      BY <1>2 DEF PlanRoute
    <2> QED BY <1>1, <2>1 DEF SearchInv
  <1>3. CASE ReverseNode[s] # d
    <2>1. phase' = "search" /\ g_nodes' = <<[from |-> 0, tn |-> s, cost |-> 0]>> /\ heap' = <<1>>
      BY <1>3 DEF PlanRoute
    <2>2. PICK p : p = [from |-> 0, tn |-> s, cost |-> 0]
      OBVIOUS
    <2>3. p \in PathNode
      BY <1>1, <2>2 DEF PathNode
    <2>4. g_nodes' \in Seq(PathNode) /\ Len(g_nodes') = 1 /\ g_nodes'[1] = p
      BY <2>1, <2>2, <2>3
    <2>5. heap' \in Seq(1 .. Len(g_nodes')) /\ Len(heap') = 1 /\ heap'[1] = 1
      <3>1. \A S : 1 \in S => <<1>> \in Seq(S) /\ Len(<<1>>) = 1 /\ <<1>>[1] = 1
        OBVIOUS
      <3> QED BY <2>1, <2>4, <3>1
    <2>6. IsHeap(g_nodes, heap)' /\ 1 \in Queued(heap')
      BY <2>5 DEF IsHeap, Queued, Distinct
    <2>7. Grown'
      BY <1>1, <2>2, <2>4 DEF Grown
    <2>8. Explored'
      BY <2>4, <2>6 DEF Explored
    <2> QED BY <1>1, <2>1, <2>4, <2>6, <2>7, <2>8 DEF SearchInv
  <1> QED BY <1>2, <1>3
-----------------------------------------------------------------------------
(* One turn of the loop. *)

LEMMA NothingLeft ==
    ASSUME SearchInv, phase = "search", heap = <<>>, NEW n \in Nat
    PROVE  ShutOff(n)
  <1>1. Queued(heap) = {}
    BY DEF Queued
  <1>2. ASSUME NEW w \in Ways(src, barred, n) PROVE w[1] # dst
    <2>1. PICK i \in 1 .. Len(g_nodes) : i \notin Queued(heap) /\ Place(i) = w
      BY <1>1, Covered
    <2>2. g_nodes[i].tn # dst
      BY <2>1 DEF SearchInv, Explored
    <2> QED BY <2>1, <2>2 DEF Place
  <1> QED BY <1>2 DEF ShutOff

LEMMA RootIsShortest ==
    ASSUME SearchInv, phase = "search", heap # <<>>, g_nodes[heap[1]].tn = dst, NEW n \in Nat
    PROVE  Shortest(n, g_nodes[heap[1]].cost)
  <1>1. IsHeap(g_nodes, heap) /\ Explored /\ g_nodes \in Seq(PathNode)
    BY DEF SearchInv
  <1>2. Priced(g_nodes) /\ heap[1] \in 1 .. Len(g_nodes)
    <2>1. heap \in Seq(1 .. Len(g_nodes)) /\ Len(heap) \in Nat \ {0}
      BY <1>1, EmptySeq DEF IsHeap
    <2>2. heap[1] \in 1 .. Len(g_nodes)
      BY <2>1
    <2> QED BY <1>1, <2>2, PathNodeFacts
  <1>3. ASSUME NEW w \in Ways(src, barred, n), w[1] = dst PROVE g_nodes[heap[1]].cost <= w[2]
    <2>1. ASSUME NEW i \in 1 .. Len(g_nodes), i \notin Queued(heap), Place(i) = w PROVE FALSE
      BY <1>1, <1>3, <2>1 DEF Explored, Place
    <2>2. PICK i \in Queued(heap) : i \in 1 .. Len(g_nodes) /\ g_nodes[i].cost <= w[2]
      BY <2>1, Covered
    <2>3. PICK k \in 1 .. Len(heap) : heap[k] = i
      BY <2>2 DEF Queued
    <2>4. g_nodes[heap[1]].cost <= g_nodes[i].cost
      BY <1>1, <1>2, <2>3, RootIsLeast
    <2>5. g_nodes[heap[1]].cost \in Nat /\ g_nodes[i].cost \in Nat
      BY <1>1, <1>2, <2>2, PathNodeFacts
    <2>6. w[2] \in Nat
      BY Covered
    <2> QED BY <2>2, <2>4, <2>5, <2>6
  <1> QED BY <1>3 DEF Shortest

(* What planRoute does with the PathNode it has popped. *)
LEMMA RestIsHeap ==
    ASSUME SearchInv, phase = "search", heap # <<>>
    PROVE  /\ Head(heap) = heap[1] /\ heap[1] \in 1 .. Len(g_nodes)
           /\ IsHeap(g_nodes, Popped(g_nodes, heap))
           /\ Queued(Popped(g_nodes, heap)) = Queued(heap) \ {heap[1]}
           /\ Queued(heap) \subseteq 1 .. Len(g_nodes)
  <1>1. IsHeap(g_nodes, heap) /\ g_nodes \in Seq(PathNode)
    BY DEF SearchInv
  <1>2. Priced(g_nodes)
    BY <1>1, PathNodeFacts
  <1>3. heap \in Seq(1 .. Len(g_nodes))
    BY <1>1 DEF IsHeap
  <1>4. \A k \in 1 .. Len(heap) : heap[k] \in 1 .. Len(g_nodes)
    BY <1>3
  <1>5. Queued(heap) \subseteq 1 .. Len(g_nodes)
    BY <1>4 DEF Queued
  <1> QED BY <1>1, <1>2, <1>5, PoppedEffect

(* A node that leads nowhere, or that somebody else owns. *)
LEMMA DroppedKeeps ==
    ASSUME SearchInv, phase = "search", heap # <<>>,
           UNCHANGED <<owner, src, dst, train_num, ownedAt, g_nodes, phase>>,
           heap' = Popped(g_nodes, heap),
           g_nodes[heap[1]].tn # dst, IsExit(g_nodes[heap[1]].tn) \/ g_nodes[heap[1]].tn \in barred
    PROVE  SearchInv'
  <1>1. /\ g_nodes \in Seq(PathNode) /\ Grown /\ Explored
        /\ barred = Barred(owner, train_num) /\ src \in TrackNodes
        /\ owner \in [TrackNodes -> Owners \cup {NoOne}]
    BY DEF SearchInv
  <1>2. /\ heap[1] \in 1 .. Len(g_nodes) /\ IsHeap(g_nodes, heap')
        /\ Queued(heap') = Queued(heap) \ {heap[1]}
    BY RestIsHeap
  <1>7. barred' = barred
    BY BarredKept
  <1>3. Grown'
    BY <1>1, <1>7 DEF Grown, Place
  <1>4. g_nodes[heap[1]].tn \in barred \/ Onward(Place(heap[1])) = {}
    <2>1. ASSUME IsExit(g_nodes[heap[1]].tn) PROVE Onward(Place(heap[1])) = {}
      <3>1. DOMAIN Edges[g_nodes[heap[1]].tn] = {}
        BY <2>1 DEF IsExit
      <3> QED BY <3>1 DEF Onward, Place
    <2> QED BY <2>1
  <1>5. ASSUME NEW i \in 1 .. Len(g_nodes), i \notin Queued(heap')
        PROVE  /\ g_nodes[i].tn # dst
               /\ \/ g_nodes[i].tn \in barred
                  \/ \A w \in Onward(Place(i)) : \E j \in 1 .. Len(g_nodes) : Place(j) = w
    <2>1. CASE i = heap[1]
      BY <1>4, <2>1
    <2>2. CASE i # heap[1]
      <3>1. i \notin Queued(heap)
        BY <1>2, <1>5, <2>2
      <3> QED BY <1>1, <3>1 DEF Explored
    <2> QED BY <2>1, <2>2
  <1>6. Explored'
    BY <1>5, <1>7 DEF Explored, Place
  <1> QED BY <1>1, <1>2, <1>3, <1>6, <1>7 DEF SearchInv

LEMMA ConcatFacts ==
    ASSUME NEW S, NEW g \in Seq(S), NEW m \in Seq(S)
    PROVE  /\ g \o m \in Seq(S) /\ Len(g \o m) = Len(g) + Len(m)
           /\ \A j \in 1 .. Len(g) : (g \o m)[j] = g[j]
           /\ \A k \in 1 .. Len(m) : (g \o m)[Len(g) + k] = m[k]
  <1>1. PICK L \in Nat : L = Len(g)
    OBVIOUS
  <1>2. PICK n \in Nat : n = Len(m)
    OBVIOUS
  <1>3. g \o m \in Seq(S) /\ Len(g \o m) = L + n
    BY <1>1, <1>2, ConcatProperties
  <1>4. \A j \in 1 .. L + n : (g \o m)[j] = IF j <= L THEN g[j] ELSE m[j - L]
    BY <1>1, <1>2, ConcatProperties
  <1>5. ASSUME NEW k \in 1 .. n PROVE (g \o m)[L + k] = m[k]
    <2>1. L + k \in 1 .. L + n /\ ~(L + k <= L) /\ (L + k) - L = k
      OBVIOUS
    <2> QED BY <1>4, <2>1
  <1>6. ASSUME NEW j \in 1 .. L PROVE (g \o m)[j] = g[j]
    <2>1. j \in 1 .. L + n /\ j <= L
      OBVIOUS
    <2> QED BY <1>4, <2>1
  <1> QED BY <1>1, <1>2, <1>3, <1>5, <1>6

(* In ns the PathNodes after the i-th, which are n, follow the first L. *)
AreNext(ns, L, n, i) ==
    /\ ns \in Seq(PathNode) /\ n \in 0 .. 2 /\ L \in Nat /\ Len(ns) = L + n
    /\ \A j \in 1 .. L : ns[j] = g_nodes[j]
    /\ \A k \in 1 .. n :
          /\ ns[L + k].from = i
          /\ <<ns[L + k].tn, ns[L + k].cost>> \in Onward(Place(i))
    /\ \A w \in Onward(Place(i)) : \E k \in 1 .. n : <<ns[L + k].tn, ns[L + k].cost>> = w

LEMMA NextPathNodes ==
    ASSUME g_nodes \in Seq(PathNode), NEW i \in 1 .. Len(g_nodes)
    PROVE  AreNext(g_nodes \o PathNodes(i), Len(g_nodes), Len(Edges[g_nodes[i].tn]), i)
  <1> DEFINE n == Len(Edges[g_nodes[i].tn])
             ns == g_nodes \o PathNodes(i)
             L == Len(g_nodes)
  <1> HIDE DEF n, ns, L
  <1>1. PICK t : t = g_nodes[i].tn
    OBVIOUS
  <1>2. PICK c : c = g_nodes[i].cost
    OBVIOUS
  <1>3. PICK e : e = Edges[t]
    OBVIOUS
  <1>4. t \in TrackNodes /\ c \in Nat /\ i \in Nat /\ L \in Nat
    BY <1>1, <1>2, PathNodeFacts DEF L
  <1>5. /\ n = Len(e) /\ n \in 0 .. 2 /\ DOMAIN e = 1 .. n
        /\ \A k \in 1 .. n : e[k].dest \in TrackNodes /\ e[k].dist \in Nat
    <2>1. n = Len(Edges[t])
      BY <1>1 DEF n
    <2> QED BY <1>3, <1>4, <2>1, EdgeFacts
  <1>6. PICK m : m = [k \in 1 .. n |-> [from |-> i, tn |-> e[k].dest, cost |-> c + e[k].dist]]
    OBVIOUS
  <1>7. PathNodes(i) = m
    BY <1>1, <1>2, <1>3, <1>5, <1>6 DEF PathNodes
  <1>8. /\ m \in [1 .. n -> PathNode]
        /\ \A k \in 1 .. n : /\ m[k].from = i /\ m[k].tn = e[k].dest /\ m[k].cost = c + e[k].dist
    <2>1. \A k \in 1 .. n : [from |-> i, tn |-> e[k].dest, cost |-> c + e[k].dist] \in PathNode
      BY <1>4, <1>5 DEF PathNode
    <2> QED BY <1>6, <2>1
  <1>9. m \in Seq(PathNode) /\ Len(m) = n
    BY <1>5, <1>8, FunctionIsSeq
  <1>10. /\ ns \in Seq(PathNode) /\ Len(ns) = L + n
         /\ \A j \in 1 .. L : ns[j] = g_nodes[j]
         /\ \A k \in 1 .. n : ns[L + k] = m[k]
    <2>1. ns = g_nodes \o m
      BY <1>7 DEF ns
    <2>2. m \in Seq(PathNode)
      BY <1>9
    <2>3. /\ g_nodes \o m \in Seq(PathNode) /\ Len(g_nodes \o m) = Len(g_nodes) + Len(m)
          /\ \A j \in 1 .. Len(g_nodes) : (g_nodes \o m)[j] = g_nodes[j]
          /\ \A k \in 1 .. Len(m) : (g_nodes \o m)[Len(g_nodes) + k] = m[k]
      <3>1. PICK g : g = g_nodes
        OBVIOUS
      <3>2. PICK S : S = PathNode
        OBVIOUS
      <3>3. g \in Seq(S) /\ m \in Seq(S)
        BY <2>2, <3>1, <3>2
      <3>4. /\ g \o m \in Seq(S) /\ Len(g \o m) = Len(g) + Len(m)
            /\ \A j \in 1 .. Len(g) : (g \o m)[j] = g[j]
            /\ \A k \in 1 .. Len(m) : (g \o m)[Len(g) + k] = m[k]
        BY <3>3, ConcatFacts
      <3> QED BY <3>1, <3>2, <3>4
    <2>4. /\ ns \in Seq(PathNode) /\ Len(ns) = L + n
          /\ \A j \in 1 .. L : (g_nodes \o m)[j] = g_nodes[j]
          /\ \A k \in 1 .. n : (g_nodes \o m)[L + k] = m[k]
      BY <1>9, <2>1, <2>3, Zenon DEF L
    <2> QED BY <2>1, <2>4, Zenon
  <1>11. Onward(Place(i)) = {<<e[k].dest, c + e[k].dist>> : k \in 1 .. n}
    BY <1>1, <1>2, <1>3, <1>5 DEF Onward, Place
  <1>12. \A k \in 1 .. n : <<ns[L + k].tn, ns[L + k].cost>> = <<e[k].dest, c + e[k].dist>>
    BY <1>8, <1>10
  <1>13. \A k \in 1 .. n : ns[L + k].from = i
    BY <1>8, <1>10
  <1>14. \A k \in 1 .. n : <<ns[L + k].tn, ns[L + k].cost>> \in Onward(Place(i))
    BY <1>11, <1>12
  <1>15. \A w \in Onward(Place(i)) : \E k \in 1 .. n : <<ns[L + k].tn, ns[L + k].cost>> = w
    BY <1>11, <1>12
  <1>16. AreNext(ns, L, n, i)
    BY <1>4, <1>5, <1>10, <1>13, <1>14, <1>15, Zenon DEF AreNext
  <1> QED BY <1>16 DEF ns, L, n

LEMMA PushedLastEffect ==
    ASSUME NEW ns, Priced(ns), NEW h, IsHeap(ns, h), NEW L \in Nat, NEW n \in {1, 2},
           Len(ns) = L + n, Queued(h) \subseteq 1 .. L
    PROVE  /\ IsHeap(ns, PushedLast(ns, h, n))
           /\ \A i : i \in Queued(PushedLast(ns, h, n)) <=> i \in Queued(h) \/ i \in L + 1 .. L + n
  <1>1. PICK x : x = L + 1
    OBVIOUS
  <1>2. x \in 1 .. Len(ns) /\ x \notin Queued(h) /\ Len(ns) - n + 1 = x
    BY <1>1
  <1>3. PICK one : one = Push(ns, h, x)
    OBVIOUS
  <1>4. IsHeap(ns, one) /\ Queued(one) = Queued(h) \cup {x}
    BY <1>2, <1>3, PushEffect
  <1>5. PushedLast(ns, h, n) = IF n = 1 THEN one ELSE Push(ns, one, Len(ns))
    BY <1>2, <1>3 DEF PushedLast
  <1>6. CASE n = 1
    <2>1. \A i : i \in L + 1 .. L + n <=> i = x
      BY <1>1, <1>6
    <2> QED BY <1>4, <1>5, <1>6, <2>1
  <1>7. CASE n = 2
    <2>1. PICK y : y = Len(ns)
      OBVIOUS
    <2>2. y \in 1 .. Len(ns) /\ y \notin Queued(h) /\ y # x
      BY <1>1, <1>7, <2>1
    <2>3. PICK two : two = Push(ns, one, y)
      OBVIOUS
    <2>4. IsHeap(ns, two) /\ Queued(two) = Queued(one) \cup {y}
      BY <1>4, <2>2, <2>3, PushEffect
    <2>5. \A i : i \in L + 1 .. L + n <=> i = x \/ i = y
      BY <1>1, <1>7, <2>1
    <2>6. PushedLast(ns, h, n) = two
      BY <1>5, <1>7, <2>1, <2>3
    <2> QED BY <1>4, <2>4, <2>5, <2>6
  <1> QED BY <1>6, <1>7

(* The nodes after it are put into the heap. *)
LEMMA ExpandedKeeps ==
    ASSUME SearchInv, phase = "search", heap # <<>>,
           UNCHANGED <<owner, src, dst, train_num, ownedAt, phase>>,
           g_nodes' = g_nodes \o PathNodes(heap[1]),
           heap' = PushedLast(g_nodes', Popped(g_nodes, heap), Len(Edges[g_nodes[heap[1]].tn])),
           g_nodes[heap[1]].tn # dst, ~IsExit(g_nodes[heap[1]].tn), g_nodes[heap[1]].tn \notin barred
    PROVE  SearchInv'
  <1>1. /\ g_nodes \in Seq(PathNode) /\ Grown /\ Explored
        /\ barred = Barred(owner, train_num) /\ src \in TrackNodes
        /\ owner \in [TrackNodes -> Owners \cup {NoOne}]
    BY DEF SearchInv
  <1>2. PICK i : i = heap[1]
    OBVIOUS
  <1>3. PICK rest : rest = Popped(g_nodes, heap)
    OBVIOUS
  <1>4. PICK n : n = Len(Edges[g_nodes[i].tn])
    OBVIOUS
  <1>5. PICK L : L = Len(g_nodes)
    OBVIOUS
  <1>6. PICK ns : ns = g_nodes'
    OBVIOUS
  <1>7. /\ i \in 1 .. L /\ IsHeap(g_nodes, rest)
        /\ Queued(rest) = Queued(heap) \ {i} /\ Queued(heap) \subseteq 1 .. L
    BY <1>2, <1>3, <1>5, RestIsHeap
  <1>8. AreNext(ns, L, n, i)
    <2>1. i \in 1 .. Len(g_nodes) /\ ns = g_nodes \o PathNodes(i)
      BY <1>2, <1>5, <1>6, <1>7
    <2> QED BY <1>1, <1>4, <1>5, <2>1, NextPathNodes
  <1>9. n \in {1, 2}
    <2>1. g_nodes[i].tn \in TrackNodes
      BY <1>1, <1>5, <1>7, PathNodeFacts
    <2>2. n # 0
      BY <1>2, <1>4, <2>1, EdgeFacts
    <2> QED BY <1>8, <2>2 DEF AreNext
  <1>10. Priced(ns)
    <2>1. \A j \in 1 .. Len(ns) : ns[j] \in PathNode
      BY <1>8 DEF AreNext
    <2>2. Len(ns) \in Nat
      BY <1>8 DEF AreNext
    <2> QED BY <2>1, <2>2 DEF Priced, PathNode
  <1>11. IsHeap(ns, rest)
    <2>1. Len(ns) \in Nat /\ L <= Len(ns)
      BY <1>8, <1>9 DEF AreNext
    <2>2. \A j \in 1 .. L : ns[j] = g_nodes[j]
      BY <1>8 DEF AreNext
    <2> QED BY <1>5, <1>7, <1>8, <2>1, <2>2, MorePathNodes DEF AreNext
  <1>12. heap' = PushedLast(ns, rest, n)
    BY <1>2, <1>3, <1>4, <1>6
  <1>13. /\ IsHeap(ns, heap')
         /\ \A j : j \in Queued(heap') <=> j \in Queued(rest) \/ j \in L + 1 .. L + n
    <2>1. Queued(rest) \subseteq 1 .. L /\ L \in Nat /\ Len(ns) = L + n
      BY <1>7, <1>8 DEF AreNext
    <2> QED BY <1>9, <1>10, <1>11, <1>12, <2>1, PushedLastEffect
  <1> DEFINE P(j) == <<ns[j].tn, ns[j].cost>>
  <1>14. ASSUME NEW j \in 1 .. Len(ns)
         PROVE  j \in 1 .. L \/ \E k \in 1 .. n : j = L + k
    <2>1. L \in Nat /\ Len(ns) = L + n /\ n \in Nat
      BY <1>8 DEF AreNext
    <2>2. j \notin 1 .. L => j - L \in 1 .. n /\ j = L + (j - L)
      BY <2>1
    <2> QED BY <2>2
  <1>15. ASSUME NEW j \in 1 .. L PROVE ns[j] = g_nodes[j] /\ P(j) = Place(j)
    BY <1>8, <1>15 DEF AreNext, Place
  <1>16. L \in Nat /\ Len(ns) \in Nat /\ L <= Len(ns) /\ i \in 1 .. Len(ns)
    BY <1>7, <1>8 DEF AreNext
  <1>17. ASSUME NEW j \in 2 .. Len(ns)
         PROVE  ns[j].from \in 1 .. j - 1 /\ ns[ns[j].from].tn \notin barred /\ P(j) \in Onward(P(ns[j].from))
    <2>1. j \in 1 .. Len(ns)
      BY <1>16
    <2>2. CASE j \in 1 .. L
      <3>1. j \in 2 .. Len(g_nodes) /\ ns[j] = g_nodes[j] /\ P(j) = Place(j)
        BY <1>5, <1>15, <1>16, <2>2
      <3>2. PICK f : f = g_nodes[j].from
        OBVIOUS
      <3>3. f \in 1 .. j - 1 /\ g_nodes[f].tn \notin barred /\ Place(j) \in Onward(Place(f))
        BY <1>1, <3>1, <3>2 DEF Grown
      <3>4. f \in 1 .. L
        BY <1>16, <2>2, <3>3
      <3>5. ns[f] = g_nodes[f] /\ P(f) = Place(f)
        BY <1>15, <3>4
      <3> QED BY <3>1, <3>2, <3>3, <3>5
    <2>3. ASSUME NEW k \in 1 .. n, j = L + k
          PROVE  ns[j].from \in 1 .. j - 1 /\ ns[ns[j].from].tn \notin barred /\ P(j) \in Onward(P(ns[j].from))
      <3>1. ns[j].from = i /\ P(j) \in Onward(Place(i))
        BY <1>8, <2>3 DEF AreNext
      <3>2. i \in 1 .. j - 1
        BY <1>7, <1>8, <2>3 DEF AreNext
      <3>3. ns[i].tn \notin barred /\ P(i) = Place(i)
        BY <1>2, <1>7, <1>15
      <3> QED BY <3>1, <3>2, <3>3
    <2> QED BY <1>14, <2>1, <2>2, <2>3
  <1>18. 1 \in 1 .. L /\ Len(ns) >= 1 /\ ns[1] = [from |-> 0, tn |-> src, cost |-> 0]
    <2>1. 1 \in 1 .. L /\ g_nodes[1] = [from |-> 0, tn |-> src, cost |-> 0]
      BY <1>1, <1>5, <1>16 DEF Grown
    <2>2. ns[1] = g_nodes[1]
      BY <1>15, <2>1, Zenon
    <2>3. Len(ns) >= 1
      BY <1>16, <2>1
    <2> QED BY <2>1, <2>2, <2>3, Zenon
  <1>19. ASSUME NEW j \in 1 .. Len(ns), j \notin Queued(heap')
         PROVE  /\ ns[j].tn # dst
                /\ \/ ns[j].tn \in barred
                   \/ \A w \in Onward(P(j)) : \E k \in 1 .. Len(ns) : P(k) = w
    <2>1. j \in 1 .. L
      <3>1. ASSUME NEW k \in 1 .. n, j = L + k PROVE j \in L + 1 .. L + n
        BY <1>9, <1>16, <3>1
      <3> QED BY <1>13, <1>14, <1>19, <3>1
    <2>2. ns[j] = g_nodes[j] /\ P(j) = Place(j) /\ j \notin Queued(rest)
      BY <1>13, <1>15, <1>19, <2>1
    <2>3. CASE j = i
      <3>1. ns[j].tn # dst
        BY <1>2, <2>2, <2>3
      <3>2. ASSUME NEW w \in Onward(P(j)) PROVE \E k \in 1 .. Len(ns) : P(k) = w
        <4>1. PICK k \in 1 .. n : P(L + k) = w
          BY <1>8, <2>2, <2>3 DEF AreNext
        <4>2. L + k \in 1 .. Len(ns)
          BY <1>8, <1>9 DEF AreNext
        <4> QED BY <4>1, <4>2
      <3> QED BY <3>1, <3>2
    <2>4. CASE j # i
      <3>1. j \in 1 .. Len(g_nodes) /\ j \notin Queued(heap)
        BY <1>5, <1>7, <2>1, <2>2, <2>4
      <3>2. /\ g_nodes[j].tn # dst
            /\ \/ g_nodes[j].tn \in barred
               \/ \A w \in Onward(Place(j)) : \E k \in 1 .. Len(g_nodes) : Place(k) = w
        BY <1>1, <3>1 DEF Explored
      <3>3. ASSUME NEW w, NEW k \in 1 .. Len(g_nodes), Place(k) = w PROVE \E l \in 1 .. Len(ns) : P(l) = w
        <4>1. k \in 1 .. L /\ k \in 1 .. Len(ns)
          BY <1>5, <1>16
        <4> QED BY <1>15, <3>3, <4>1
      <3> QED BY <2>2, <3>2, <3>3
    <2> QED BY <2>3, <2>4
  <1>22. barred' = barred
    BY BarredKept
  <1>20. Grown'
    BY <1>6, <1>17, <1>18, <1>22 DEF Grown, Place
  <1>21. Explored'
    <2>1. \A j : Place(j)' = P(j)
      BY <1>6 DEF Place
    <2> HIDE DEF P
    <2>2. \A j \in 1 .. Len(ns) : j \notin Queued(heap') =>
             /\ ns[j].tn # dst
             /\ \/ ns[j].tn \in barred
                \/ \A w \in Onward(P(j)) : \E k \in 1 .. Len(ns) : P(k) = w
      BY <1>19, Zenon
    <2>3. \A j \in 1 .. Len(g_nodes') : j \notin Queued(heap') =>
             /\ g_nodes'[j].tn # dst'
             /\ \/ g_nodes'[j].tn \in barred'
                \/ \A w \in Onward(Place(j)') : \E k \in 1 .. Len(g_nodes') : Place(k)' = w
      BY <1>6, <1>22, <2>1, <2>2
    <2> QED BY <2>3 DEF Explored
  <1> QED BY <1>1, <1>6, <1>8, <1>13, <1>20, <1>21, <1>22 DEF SearchInv, AreNext

LEMMA SearchKeepsSearchInv ==
    ASSUME SearchInv, Search
    PROVE  SearchInv'
  <1>0. phase = "search" /\ UNCHANGED <<owner, src, dst, train_num, ownedAt>>
    BY DEF Search
  <1>1. phase = "search" /\ UNCHANGED <<owner, src, dst, train_num, ownedAt, barred>>
    BY <1>0, BarredKept
  <1>2. /\ g_nodes \in Seq(PathNode) /\ Grown /\ src \in TrackNodes
        /\ owner \in [TrackNodes -> Owners \cup {NoOne}] /\ barred = Barred(owner, train_num)
    BY <1>1 DEF SearchInv
  <1>3. CASE heap = <<>>
    <2>1. phase' = "lost" /\ UNCHANGED <<g_nodes, heap>>
      BY <1>3 DEF Search
    <2>2. \A n \in Nat : ShutOff(n)
      BY <1>1, <1>3, NothingLeft
    <2>3. (\A n \in Nat : ShutOff(n))'
      BY <1>1, <2>2 DEF ShutOff
    <2> QED BY <1>1, <1>2, <2>1, <2>3 DEF SearchInv
  <1>4. CASE heap # <<>>
    <2>1. Head(heap) = heap[1] /\ heap[1] \in 1 .. Len(g_nodes)
      BY <1>1, <1>4, RestIsHeap
    <2>2. PICK i : i = heap[1]
      OBVIOUS
    <2>3. \/ /\ g_nodes[i].tn = dst
             /\ phase' = "found" /\ heap' = <<i>> /\ UNCHANGED g_nodes
          \/ /\ g_nodes[i].tn # dst
             /\ IsExit(g_nodes[i].tn) \/ g_nodes[i].tn \in Barred(owner, train_num)
             /\ heap' = Popped(g_nodes, heap) /\ UNCHANGED <<phase, g_nodes>>
          \/ /\ g_nodes[i].tn # dst
             /\ ~IsExit(g_nodes[i].tn) /\ g_nodes[i].tn \notin Barred(owner, train_num)
             /\ Expand(i, Popped(g_nodes, heap))
      BY <1>1, <1>4, <2>1, <2>2, Zenon DEF Search
    <2>4. CASE g_nodes[i].tn = dst
      <3>1. phase' = "found" /\ heap' = <<i>> /\ UNCHANGED g_nodes
        BY <2>3, <2>4
      <3>2. \A n \in Nat : Shortest(n, g_nodes[i].cost)
        BY <1>1, <1>4, <2>2, <2>4, RootIsShortest
      <3>3. heap'[1] = i /\ Len(heap') = 1
        BY <3>1
      <3>4. (\A n \in Nat : Shortest(n, g_nodes[heap[1]].cost))'
        BY <1>1, <3>1, <3>2, <3>3 DEF Shortest
      <3>5. Grown'
        BY <1>1, <1>2, <3>1 DEF Grown, Place
      <3>6. heap'[1] \in 1 .. Len(g_nodes') /\ g_nodes'[heap'[1]].tn = dst'
        BY <1>1, <2>1, <2>2, <2>4, <3>1, <3>3
      <3> QED BY <1>1, <1>2, <3>1, <3>3, <3>4, <3>5, <3>6 DEF SearchInv
    <2>5. CASE g_nodes[i].tn # dst /\ (IsExit(g_nodes[i].tn) \/ g_nodes[i].tn \in barred)
      <3>1. heap' = Popped(g_nodes, heap) /\ UNCHANGED <<phase, g_nodes>>
        BY <1>2, <2>3, <2>5
      <3> QED BY <1>1, <1>4, <2>2, <2>5, <3>1, DroppedKeeps
    <2>6. CASE g_nodes[i].tn # dst /\ ~IsExit(g_nodes[i].tn) /\ g_nodes[i].tn \notin barred
      <3>1. Expand(i, Popped(g_nodes, heap))
        BY <1>2, <2>3, <2>6
      <3>2. \/ /\ g_nodes' = g_nodes \o PathNodes(i)
               /\ heap' = PushedLast(g_nodes', Popped(g_nodes, heap), Len(Edges[g_nodes[i].tn]))
               /\ UNCHANGED phase
            \/ phase' \in {"full", "overrun"} /\ UNCHANGED <<g_nodes, heap>>
        BY <3>1 DEF Expand
      <3>3. CASE phase' \in {"full", "overrun"} /\ UNCHANGED <<g_nodes, heap>>
        BY <1>1, <1>2, <3>3 DEF SearchInv
      <3> QED BY <1>1, <1>4, <2>2, <2>6, <3>2, <3>3, ExpandedKeeps
    <2> QED BY <2>4, <2>5, <2>6
  <1> QED BY <1>3, <1>4

(* In every state of planRoute's search its PathNodes are a tree of ways   *)
(* over free track, its queue is a binary heap, and each PathNode that has *)
(* been popped has been followed by all edges (pathfinding.c:94-227).      *)
THEOREM SearchSound == RouteSpec => []SearchInv
  <1>1. RouteInit => SearchInv
    <2> SUFFICES ASSUME RouteInit PROVE SearchInv
      OBVIOUS
    <2>1. /\ phase = "idle" /\ g_nodes = <<>> /\ heap = <<>>
          /\ owner \in [TrackNodes -> Owners \cup {NoOne}]
      BY PathAssumption DEF RouteInit
    <2>2. g_nodes \in Seq(PathNode)
      BY <2>1
    <2> QED BY <2>1, <2>2 DEF SearchInv
  <1>2. SearchInv /\ [RouteNext]_routeVars => SearchInv'
    <2> SUFFICES ASSUME SearchInv, [RouteNext]_routeVars PROVE SearchInv'
      OBVIOUS
    <2>1. ASSUME NEW s \in Starts, NEW d \in Ends, NEW num \in Owners, PlanRoute(s, d, num)
          PROVE  SearchInv'
      BY <2>1, PlanRouteKeepsSearchInv
    <2>2. CASE Search
      BY <2>2, SearchKeepsSearchInv
    <2>3. ASSUME NEW own \in Reservations, Reserve(own) PROVE SearchInv'
      BY <2>3, ReserveKeepsSearchInv
    <2>4. CASE Book
      BY <2>4, BookKeepsSearchInv
    <2>5. CASE UNCHANGED routeVars
      BY <2>5, SearchUnchanged
    <2> QED BY <2>1, <2>2, <2>3, <2>4, <2>5 DEF RouteNext
  <1> QED BY <1>1, <1>2, PTL DEF RouteSpec
-----------------------------------------------------------------------------
(* The path. *)

(* f is path of PathTo, as far as the k-th of the PathNodes ns.            *)
ArePaths(ns, k, f) ==
    f = [j \in 1 .. k |-> IF ns[j].from = 0 THEN <<ns[j].tn>>
                          ELSE Append(f[ns[j].from], ns[j].tn)]

LEMMA PathsExist ==
    ASSUME NEW ns, NEW n \in Nat,
           \A j \in 1 .. n : ns[j].from = 0 \/ ns[j].from \in 1 .. j - 1
    PROVE  \E f : ArePaths(ns, n, f)
  <1> DEFINE Bad == {k \in 0 .. n : ~\E f : ArePaths(ns, k, f)}
  <1>1. SUFFICES ASSUME Bad # {} PROVE FALSE
    <2>1. n \in 0 .. n
      OBVIOUS
    <2> QED BY <2>1
  <1>2. Bad \subseteq Nat
    OBVIOUS
  <1>3. PICK k \in Bad : \A l \in Bad : k <= l
    BY <1>1, <1>2, LeastExists
  <1>4. k \in 0 .. n /\ k \in Nat /\ ~\E f : ArePaths(ns, k, f)
    OBVIOUS
  <1>5. CASE k = 0
    <2>1. PICK f : f = [j \in 1 .. 0 |-> <<>>]
      OBVIOUS
    <2>2. \A j \in 1 .. 0 : FALSE
      OBVIOUS
    <2>3. f = [j \in 1 .. 0 |-> IF ns[j].from = 0 THEN <<ns[j].tn>>
                                 ELSE Append(f[ns[j].from], ns[j].tn)]
      BY <2>1, <2>2, Zenon
    <2> QED BY <1>4, <1>5, <2>3 DEF ArePaths
  <1>6. CASE k # 0
    <2>1. k - 1 \in 0 .. n /\ ~(k <= k - 1)
      BY <1>4, <1>6
    <2>2. PICK f : ArePaths(ns, k - 1, f)
      BY <1>3, <2>1
    <2>3. PICK last : last = IF ns[k].from = 0 THEN <<ns[k].tn>> ELSE Append(f[ns[k].from], ns[k].tn)
      OBVIOUS
    <2>4. PICK g : g = [j \in 1 .. k |-> IF j = k THEN last ELSE f[j]]
      OBVIOUS
    <2>5. \A j \in 1 .. k - 1 : f[j] = IF ns[j].from = 0 THEN <<ns[j].tn>>
                                        ELSE Append(f[ns[j].from], ns[j].tn)
      BY <2>2, Zenon DEF ArePaths
    <2>6. ASSUME NEW j \in 1 .. k
          PROVE  g[j] = IF ns[j].from = 0 THEN <<ns[j].tn>> ELSE Append(g[ns[j].from], ns[j].tn)
      <3>1. j \in 1 .. n /\ j \in Nat
        BY <1>4
      <3>2. PICK b : b = ns[j].from
        OBVIOUS
      <3>3. b = 0 \/ b \in 1 .. j - 1
        BY <3>1, <3>2
      <3>4. b # 0 => b \in 1 .. k /\ b # k
        BY <1>4, <3>1, <3>3
      <3>5. b # 0 => g[b] = f[b]
        BY <2>4, <3>4
      <3>6. CASE j = k
        <4>1. g[j] = last
          BY <2>4, <3>6
        <4> QED BY <2>3, <3>2, <3>5, <3>6, <4>1
      <3>7. CASE j # k
        <4>1. j \in 1 .. k - 1
          BY <1>4, <3>1, <3>7
        <4>2. g[j] = f[j]
          BY <2>4, <3>7
        <4> QED BY <2>5, <3>2, <3>5, <4>1, <4>2
      <3> QED BY <3>6, <3>7
    <2>7. g = [j \in 1 .. k |-> g[j]]
      BY <2>4
    <2>8. g = [j \in 1 .. k |-> IF ns[j].from = 0 THEN <<ns[j].tn>> ELSE Append(g[ns[j].from], ns[j].tn)]
      BY <2>6, <2>7, Zenon
    <2> QED BY <1>4, <2>8 DEF ArePaths
  <1> QED BY <1>5, <1>6

(* p leads from src to the i-th PathNode over free track, and what it costs *)
(* to get to each of its nodes is in d.                                     *)
LeadsTo(p, d, i) ==
    /\ p \in Seq(TrackNodes) /\ Len(p) >= 1 /\ p[1] = src /\ p[Len(p)] = g_nodes[i].tn
    /\ \A l \in 1 .. Len(p) - 1 : p[l] \notin barred
    /\ d[1] = 0 /\ d[Len(p)] = g_nodes[i].cost
    /\ \A l \in 2 .. Len(p) : <<p[l], d[l]>> \in Onward(<<p[l - 1], d[l - 1]>>)

(* A path with a node more. *)
LEMMA LeadsOneFurther ==
    ASSUME g_nodes \in Seq(PathNode), Grown, NEW i \in 2 .. Len(g_nodes), NEW p, NEW d,
           LeadsTo(p, d, g_nodes[i].from)
    PROVE  \E e : LeadsTo(Append(p, g_nodes[i].tn), e, i)
  <1>1. PICK t : t = g_nodes[i].tn
    OBVIOUS
  <1>2. PICK f : f = g_nodes[i].from
    OBVIOUS
  <1>3. PICK q : q = Append(p, t)
    OBVIOUS
  <1>4. t \in TrackNodes /\ g_nodes[f].tn \notin barred /\ <<t, g_nodes[i].cost>> \in Onward(<<g_nodes[f].tn, g_nodes[f].cost>>)
    <2>1. i \in 1 .. Len(g_nodes)
      BY PathNodeFacts
    <2> QED BY <1>1, <1>2, <2>1, PathNodeFacts DEF Grown, Place
  <1>5. PICK L : L = Len(p)
    OBVIOUS
  <1>6. /\ p \in Seq(TrackNodes) /\ L \in Nat \ {0} /\ p[1] = src /\ p[L] = g_nodes[f].tn
        /\ \A l \in 1 .. L - 1 : p[l] \notin barred
        /\ d[1] = 0 /\ d[L] = g_nodes[f].cost
        /\ \A l \in 2 .. L : <<p[l], d[l]>> \in Onward(<<p[l - 1], d[l - 1]>>)
    BY <1>2, <1>5 DEF LeadsTo
  <1>7. q \in Seq(TrackNodes) /\ Len(q) = L + 1 /\ q[L + 1] = t /\ \A l \in 1 .. L : q[l] = p[l]
    BY <1>3, <1>4, <1>5, <1>6
  <1>8. PICK e : e = [l \in 1 .. L + 1 |-> IF l = L + 1 THEN g_nodes[i].cost ELSE d[l]]
    OBVIOUS
  <1>9. e[L + 1] = g_nodes[i].cost /\ \A l \in 1 .. L : e[l] = d[l]
    BY <1>6, <1>8
  <1>10. 1 \in 1 .. L /\ L \in 1 .. L
    BY <1>6
  <1>11. ASSUME NEW l \in 1 .. L PROVE q[l] \notin barred
    <2>1. l = L \/ l \in 1 .. L - 1
      BY <1>6
    <2> QED BY <1>4, <1>6, <1>7, <2>1
  <1>12. ASSUME NEW l \in 2 .. L + 1 PROVE <<q[l], e[l]>> \in Onward(<<q[l - 1], e[l - 1]>>)
    <2>1. CASE l = L + 1
      <3>1. l - 1 = L
        BY <1>6, <2>1
      <3> QED BY <1>4, <1>6, <1>7, <1>9, <1>10, <2>1, <3>1
    <2>2. CASE l # L + 1
      <3>1. l \in 2 .. L /\ l \in 1 .. L /\ l - 1 \in 1 .. L
        BY <1>6, <2>2
      <3> QED BY <1>6, <1>7, <1>9, <3>1
    <2> QED BY <2>1, <2>2
  <1>13. Len(q) - 1 = L /\ Len(q) >= 1
    BY <1>6, <1>7
  <1>14. LeadsTo(q, e, i)
    BY <1>1, <1>6, <1>7, <1>9, <1>10, <1>11, <1>12, <1>13 DEF LeadsTo
  <1> QED BY <1>1, <1>3, <1>14

LEMMA PathLeads ==
    ASSUME g_nodes \in Seq(PathNode), Grown, NEW i \in 1 .. Len(g_nodes)
    PROVE  \E d : LeadsTo(PathTo(i), d, i)
  <1>1. PICK n : n = Len(g_nodes)
    OBVIOUS
  <1>2. n \in Nat /\ i \in 1 .. n /\ \A j \in 1 .. n : g_nodes[j].tn \in TrackNodes
    BY <1>1, PathNodeFacts
  <1>3. g_nodes[1] = [from |-> 0, tn |-> src, cost |-> 0] /\ \A j \in 2 .. n : g_nodes[j].from \in 1 .. j - 1
    BY <1>1 DEF Grown
  <1>4. \A j \in 1 .. n : g_nodes[j].from = 0 \/ g_nodes[j].from \in 1 .. j - 1
    <2>1. ASSUME NEW j \in 1 .. n PROVE j = 1 \/ j \in 2 .. n
      BY <1>2
    <2>2. g_nodes[1].from = 0
      BY <1>3
    <2> QED BY <1>3, <2>1, <2>2
  <1>5. PICK f : f = CHOOSE g : ArePaths(g_nodes, n, g)
    OBVIOUS
  <1>6. ArePaths(g_nodes, n, f)
    BY <1>2, <1>4, <1>5, PathsExist, Zenon
  <1>7. PathTo(i) = f[i]
    BY <1>1, <1>5 DEF PathTo, ArePaths
  <1>8. \A j \in 1 .. n : f[j] = IF g_nodes[j].from = 0 THEN <<g_nodes[j].tn>>
                                  ELSE Append(f[g_nodes[j].from], g_nodes[j].tn)
    BY <1>6, Zenon DEF ArePaths
  <1> DEFINE Bad == {k \in 1 .. n : ~\E d : LeadsTo(f[k], d, k)}
  <1>9. Bad = {}
    <2>1. SUFFICES ASSUME Bad # {} PROVE FALSE
      OBVIOUS
    <2>2. Bad \subseteq Nat
      OBVIOUS
    <2>3. PICK k \in Bad : \A l \in Bad : k <= l
      BY <2>1, <2>2, LeastExists
    <2>4. k \in 1 .. n /\ k \in Nat /\ ~\E d : LeadsTo(f[k], d, k)
      OBVIOUS
    <2>5. CASE k = 1
      <3>1. f[k] = <<src>>
        <4>1. g_nodes[k].from = 0 /\ g_nodes[k].tn = src
          BY <1>3, <2>5
        <4>2. f[k] = IF g_nodes[k].from = 0 THEN <<g_nodes[k].tn>>
                     ELSE Append(f[g_nodes[k].from], g_nodes[k].tn)
          BY <1>8, <2>4
        <4> QED BY <4>1, <4>2, Zenon
      <3>2. src \in TrackNodes
        BY <1>2, <1>3, <2>4, <2>5
      <3>3. PICK d : d = <<0>>
        OBVIOUS
      <3>4. PICK p : p = <<src>>
        OBVIOUS
      <3>5. p \in Seq(TrackNodes) /\ Len(p) = 1 /\ p[1] = src /\ d[1] = 0
        BY <3>2, <3>3, <3>4
      <3>6. \A l \in 1 .. Len(p) - 1 : FALSE
        BY <3>5
      <3>7. \A l \in 2 .. Len(p) : FALSE
        BY <3>5
      <3>8. g_nodes[1].tn = src /\ g_nodes[1].cost = 0
        BY <1>3
      <3>9. LeadsTo(p, d, 1)
        BY <3>5, <3>6, <3>7, <3>8 DEF LeadsTo
      <3> QED BY <2>4, <2>5, <3>1, <3>4, <3>9
    <2>6. CASE k # 1
      <3>1. k \in 2 .. n
        BY <2>4, <2>6
      <3>2. PICK b : b = g_nodes[k].from
        OBVIOUS
      <3>3. b \in 1 .. k - 1
        BY <1>3, <3>1, <3>2
      <3>4. b \in 1 .. n /\ ~(k <= b) /\ b # 0
        BY <1>2, <2>4, <3>3
      <3>5. PICK d : LeadsTo(f[b], d, b)
        BY <2>3, <3>4
      <3>6. f[k] = Append(f[b], g_nodes[k].tn)
        BY <1>8, <2>4, <3>2, <3>4
      <3>7. \E e : LeadsTo(Append(f[b], g_nodes[k].tn), e, k)
        BY <1>1, <3>1, <3>2, <3>5, LeadsOneFurther
      <3> QED BY <2>4, <3>6, <3>7
    <2> QED BY <2>5, <2>6
  <1> QED BY <1>2, <1>7, <1>9

(* f is costs of Costs, as far as the k-th node of the path.               *)
AreCosts(path, k, f) ==
    f = [i \in 1 .. k |->
            IF i = 1 THEN {0}
            ELSE {c[2] : c \in {w \in UNION {Onward(<<path[i - 1], b>>) : b \in f[i - 1]} : w[1] = path[i]}}]

LEMMA CostsExist ==
    ASSUME NEW path, NEW n \in Nat \ {0}
    PROVE  \E f : AreCosts(path, n, f)
  <1> DEFINE Further(i, B) ==
               {c[2] : c \in {w \in UNION {Onward(<<path[i - 1], b>>) : b \in B} : w[1] = path[i]}}
             Bad == {k \in Nat \ {0} : ~\E f : AreCosts(path, k, f)}
  <1> HIDE DEF Further
  <1>1. SUFFICES ASSUME Bad # {} PROVE FALSE
    OBVIOUS
  <1>2. PICK k \in Bad : \A l \in Bad : k <= l
    <2>1. Bad \subseteq Nat
      OBVIOUS
    <2> QED BY <1>1, <2>1, LeastExists
  <1>3. k \in Nat \ {0} /\ ~\E f : AreCosts(path, k, f)
    OBVIOUS
  <1>4. CASE k = 1
    <2>1. PICK f : f = [j \in 1 .. 1 |-> {0}]
      OBVIOUS
    <2>2. \A j \in 1 .. 1 : j = 1
      OBVIOUS
    <2>3. f = [j \in 1 .. 1 |-> IF j = 1 THEN {0} ELSE Further(j, f[j - 1])]
      BY <2>1, <2>2, Zenon
    <2> QED BY <1>3, <1>4, <2>3 DEF AreCosts, Further
  <1>5. CASE k # 1
    <2>1. k - 1 \in Nat \ {0} /\ ~(k <= k - 1) /\ k - 1 \in 1 .. k - 1
      BY <1>3, <1>5
    <2>2. PICK f : AreCosts(path, k - 1, f)
      BY <1>2, <2>1
    <2>3. PICK g : g = [j \in 1 .. k |-> IF j = k THEN Further(k, f[k - 1]) ELSE f[j]]
      OBVIOUS
    <2>4. f = [j \in 1 .. k - 1 |-> IF j = 1 THEN {0} ELSE Further(j, f[j - 1])]
      BY <2>2 DEF AreCosts, Further
    <2>5. \A j \in 1 .. k - 1 : f[j] = IF j = 1 THEN {0} ELSE Further(j, f[j - 1])
      BY <2>4, Zenon
    <2>6. ASSUME NEW j \in 1 .. k
          PROVE  g[j] = IF j = 1 THEN {0} ELSE Further(j, g[j - 1])
      <3>1. CASE j = k
        <4>1. k - 1 \in 1 .. k /\ k - 1 # k /\ k \in 1 .. k
          BY <2>1
        <4>2. g[k - 1] = f[k - 1] /\ g[k] = Further(k, f[k - 1])
          BY <2>3, <4>1
        <4> QED BY <1>5, <3>1, <4>2
      <3>2. CASE j # k
        <4>1. j \in 1 .. k - 1 /\ (j # 1 => j - 1 \in 1 .. k /\ j - 1 # k)
          BY <1>3, <3>2
        <4>2. g[j] = f[j] /\ (j # 1 => g[j - 1] = f[j - 1])
          BY <2>3, <3>2, <4>1
        <4> QED BY <2>5, <4>1, <4>2
      <3> QED BY <3>1, <3>2
    <2>7. g = [j \in 1 .. k |-> g[j]]
      BY <2>3
    <2>8. g = [j \in 1 .. k |-> IF j = 1 THEN {0} ELSE Further(j, g[j - 1])]
      BY <2>6, <2>7, Zenon
    <2> QED BY <1>3, <2>8 DEF AreCosts, Further
  <1> QED BY <1>4, <1>5

(* What it costs to follow the path by those edges is one of its costs.    *)
LEMMA CostOfPath ==
    ASSUME NEW p, NEW d, NEW n \in Nat \ {0}, n = Len(p), d[1] = 0,
           \A l \in 2 .. n : <<p[l], d[l]>> \in Onward(<<p[l - 1], d[l - 1]>>)
    PROVE  d[n] \in Costs(p)
  <1>1. PICK f : f = CHOOSE g : AreCosts(p, n, g)
    OBVIOUS
  <1>2. AreCosts(p, n, f)
    BY <1>1, CostsExist, Zenon
  <1>3. Costs(p) = f[n]
    BY <1>1 DEF Costs, AreCosts
  <1>4. ASSUME NEW i \in 1 .. n
        PROVE  f[i] = IF i = 1 THEN {0}
                      ELSE {c[2] : c \in {w \in UNION {Onward(<<p[i - 1], b>>) : b \in f[i - 1]} : w[1] = p[i]}}
    BY <1>2, Zenon DEF AreCosts
  <1> DEFINE Bad == {k \in 1 .. n : d[k] \notin f[k]}
  <1>5. Bad = {}
    <2>1. SUFFICES ASSUME Bad # {} PROVE FALSE
      OBVIOUS
    <2>2. Bad \subseteq Nat
      OBVIOUS
    <2>3. PICK k \in Bad : \A l \in Bad : k <= l
      BY <2>1, <2>2, LeastExists
    <2>4. k \in 1 .. n /\ k \in Nat /\ d[k] \notin f[k]
      OBVIOUS
    <2>5. CASE k = 1
      BY <1>4, <2>4, <2>5
    <2>6. CASE k # 1
      <3>1. k \in 2 .. n /\ k - 1 \in 1 .. n /\ ~(k <= k - 1)
        BY <2>4, <2>6
      <3>2. d[k - 1] \in f[k - 1]
        BY <2>3, <3>1
      <3>3. PICK w : w = <<p[k], d[k]>>
        OBVIOUS
      <3>4. w \in Onward(<<p[k - 1], d[k - 1]>>) /\ w[1] = p[k] /\ w[2] = d[k]
        BY <3>1, <3>3
      <3>5. f[k] = {c[2] : c \in {x \in UNION {Onward(<<p[k - 1], b>>) : b \in f[k - 1]} : x[1] = p[k]}}
        BY <1>4, <2>4, <2>6
      <3>6. w \in UNION {Onward(<<p[k - 1], b>>) : b \in f[k - 1]}
        BY <3>2, <3>4
      <3> QED BY <2>4, <3>4, <3>5, <3>6
    <2> QED BY <2>5, <2>6
  <1>6. n \in 1 .. n
    OBVIOUS
  <1> QED BY <1>3, <1>5, <1>6
-----------------------------------------------------------------------------
(* The answer of planRoute, whatever the length of the ways it is compared *)
(* with.                                                                   *)
Answered ==
    /\ phase = "found" /\ heap # <<>> =>
          /\ Path[1] = src /\ Path[Len(Path)] = dst
          /\ \A i \in 1 .. Len(Path) - 1 : Path[i] \notin barred
          /\ g_nodes[Head(heap)].cost \in Costs(Path)
          /\ \A n \in Nat : Shortest(n, g_nodes[Head(heap)].cost)
    /\ phase = "lost" => \A n \in Nat : ShutOff(n)

LEMMA SearchAnswers == SearchInv => Answered
  <1> SUFFICES ASSUME SearchInv PROVE Answered
    OBVIOUS
  <1>1. ASSUME phase = "found", heap # <<>>
        PROVE  /\ Path[1] = src /\ Path[Len(Path)] = dst
               /\ \A i \in 1 .. Len(Path) - 1 : Path[i] \notin barred
               /\ g_nodes[Head(heap)].cost \in Costs(Path)
               /\ \A n \in Nat : Shortest(n, g_nodes[Head(heap)].cost)
    <2>1. /\ g_nodes \in Seq(PathNode) /\ Grown
          /\ heap[1] \in 1 .. Len(g_nodes) /\ g_nodes[heap[1]].tn = dst
          /\ \A n \in Nat : Shortest(n, g_nodes[heap[1]].cost)
      BY <1>1 DEF SearchInv
    <2>2. Head(heap) = heap[1]
      OBVIOUS
    <2>3. PICK i : i = heap[1]
      OBVIOUS
    <2>4. PICK p : p = Path
      OBVIOUS
    <2>5. p = PathTo(i)
      BY <1>1, <2>2, <2>3, <2>4 DEF Path
    <2>6. PICK d : LeadsTo(p, d, i)
      BY <2>1, <2>3, <2>5, PathLeads
    <2>7. p \in Seq(TrackNodes) /\ Len(p) \in Nat \ {0}
      BY <2>6 DEF LeadsTo
    <2>8. d[Len(p)] \in Costs(p)
      BY <2>6, <2>7, CostOfPath DEF LeadsTo
    <2> QED BY <2>1, <2>2, <2>3, <2>4, <2>6, <2>8 DEF LeadsTo
  <1>2. phase = "lost" => \A n \in Nat : ShutOff(n)
    BY DEF SearchInv
  <1> QED BY <1>1, <1>2 DEF Answered

(* What planRoute returns is a path from src to dst over track that is     *)
(* nobody's or train_num's, whoever's tid the uninitialised train_num is,  *)
(* and no way over such track, however long, costs less; where it finds    *)
(* its heap empty there is no way (pathfinding.c:94-227).                  *)
THEOREM RouteAnswered == RouteSpec => []Answered
  <1>1. SearchInv => Answered
    BY SearchAnswers
  <1> QED BY <1>1, SearchSound, PTL

(* The more nodes are avoided, the fewer ways there are.                   *)
LEMMA FewerWays ==
    ASSUME NEW s, NEW some, NEW more, some \subseteq more, NEW n \in Nat
    PROVE  Ways(s, more, n) \subseteq Ways(s, some, n)
  <1>1. PICK f : f = CHOOSE h : AreWays(s, more, n, h)
    OBVIOUS
  <1>2. PICK g : g = CHOOSE h : AreWays(s, some, n, h)
    OBVIOUS
  <1>3. AreWays(s, more, n, f) /\ AreWays(s, some, n, g)
    BY <1>1, <1>2, WaysExist, Zenon
  <1>4. Ways(s, more, n) = f[n] /\ Ways(s, some, n) = g[n]
    BY <1>1, <1>2 DEF Ways, AreWays
  <1>5. \A k \in 0 .. n :
           /\ f[k] = IF k = 0 THEN {<<s, 0>>}
                     ELSE UNION {{w} \cup (IF w[1] \in more THEN {} ELSE Onward(w)) : w \in f[k - 1]}
           /\ g[k] = IF k = 0 THEN {<<s, 0>>}
                     ELSE UNION {{w} \cup (IF w[1] \in some THEN {} ELSE Onward(w)) : w \in g[k - 1]}
    BY <1>3, Zenon DEF AreWays
  <1> DEFINE Bad == {k \in 0 .. n : ~(f[k] \subseteq g[k])}
  <1>6. Bad = {}
    <2>1. SUFFICES ASSUME Bad # {} PROVE FALSE
      OBVIOUS
    <2>2. Bad \subseteq Nat
      OBVIOUS
    <2>3. PICK k \in Bad : \A j \in Bad : k <= j
      BY <2>1, <2>2, LeastExists
    <2>4. k \in 0 .. n /\ k \in Nat /\ ~(f[k] \subseteq g[k])
      OBVIOUS
    <2>5. k # 0
      BY <1>5, <2>4
    <2>6. k - 1 \in 0 .. n /\ ~(k <= k - 1)
      BY <2>4, <2>5
    <2>7. f[k - 1] \subseteq g[k - 1]
      BY <2>3, <2>6
    <2>8. ASSUME NEW w \in f[k - 1]
          PROVE  (IF w[1] \in more THEN {} ELSE Onward(w)) \subseteq (IF w[1] \in some THEN {} ELSE Onward(w))
      OBVIOUS
    <2>9. f[k] \subseteq g[k]
      <3>1. f[k] = UNION {{w} \cup (IF w[1] \in more THEN {} ELSE Onward(w)) : w \in f[k - 1]}
        BY <1>5, <2>4, <2>5
      <3>2. g[k] = UNION {{w} \cup (IF w[1] \in some THEN {} ELSE Onward(w)) : w \in g[k - 1]}
        BY <1>5, <2>4, <2>5
      <3> QED BY <2>7, <2>8, <3>1, <3>2
    <2> QED BY <2>4, <2>9
  <1>7. n \in 0 .. n
    OBVIOUS
  <1> QED BY <1>4, <1>6, <1>7

(* For ways over track nobody owns, of no more edges than there are nodes, *)
(* as TLC checks it.                                                       *)
THEOREM RouteShortest == RouteSpec => []ShortestPath
  <1>1. Answered => ShortestPath
    <2>1. Cardinality(TrackNodes) \in Nat
      BY FS_CardinalityType, PathAssumption
    <2>2. PICK N \in Nat : N = Cardinality(TrackNodes)
      BY <2>1
    <2>3. Ways(src, taken, N) \subseteq Ways(src, barred, N)
      <3>1. barred \subseteq taken
        BY DEF barred, Barred, taken
      <3> QED BY <3>1, FewerWays
    <2>4. \A c : Shortest(N, c) => NoneCheaper(N, c)
      BY <2>3 DEF Shortest, NoneCheaper
    <2>5. ShutOff(N) => Unreachable(N)
      BY <2>3 DEF ShutOff, Unreachable
    <2> QED BY <2>2, <2>4, <2>5 DEF Answered, ShortestPath
  <1> QED BY <1>1, RouteAnswered, PTL
-----------------------------------------------------------------------------
(* The turnouts. *)

LEMMA WaysAgree ==
    ASSUME NEW s, NEW avoid, NEW n \in Nat, NEW m \in Nat, NEW f, NEW g,
           AreWays(s, avoid, n, f), AreWays(s, avoid, m, g), NEW i \in Nat, i <= n, i <= m
    PROVE  f[i] = g[i]
  <1> DEFINE Further(W) == UNION {{w} \cup (IF w[1] \in avoid THEN {} ELSE Onward(w)) : w \in W}
             Bad == {k \in Nat : k <= n /\ k <= m /\ f[k] # g[k]}
  <1>1. /\ \A k \in 0 .. n : f[k] = IF k = 0 THEN {<<s, 0>>} ELSE Further(f[k - 1])
        /\ \A k \in 0 .. m : g[k] = IF k = 0 THEN {<<s, 0>>} ELSE Further(g[k - 1])
    BY Zenon DEF AreWays
  <1> HIDE DEF Further
  <1>2. SUFFICES ASSUME Bad # {} PROVE FALSE
    OBVIOUS
  <1>3. PICK k \in Bad : \A l \in Bad : k <= l
    BY <1>2, LeastExists
  <1>4. k \in 0 .. n /\ k \in 0 .. m /\ f[k] # g[k]
    OBVIOUS
  <1>5. k # 0
    BY <1>1, <1>4
  <1>6. k - 1 \in Nat /\ k - 1 <= n /\ k - 1 <= m /\ ~(k <= k - 1)
    BY <1>4, <1>5
  <1>7. f[k - 1] = g[k - 1]
    BY <1>3, <1>6
  <1> QED BY <1>1, <1>4, <1>5, <1>7

LEMMA WaysFurther ==
    ASSUME NEW s, NEW avoid, NEW n \in Nat, NEW v \in Ways(s, avoid, n), v[1] \notin avoid,
           NEW w \in Onward(v)
    PROVE  w \in Ways(s, avoid, n + 1)
  <1>1. PICK f : f = CHOOSE h : AreWays(s, avoid, n, h)
    OBVIOUS
  <1>2. PICK g : g = CHOOSE h : AreWays(s, avoid, n + 1, h)
    OBVIOUS
  <1>3. n + 1 \in Nat /\ n \in 0 .. n + 1 /\ n + 1 \in 0 .. n + 1 /\ n + 1 # 0 /\ (n + 1) - 1 = n
        /\ n <= n /\ n <= n + 1
    OBVIOUS
  <1>4. AreWays(s, avoid, n, f)
    BY <1>1, WaysExist, Zenon
  <1>5. AreWays(s, avoid, n + 1, g)
    BY <1>2, <1>3, WaysExist, Zenon
  <1>6. Ways(s, avoid, n) = f[n] /\ Ways(s, avoid, n + 1) = g[n + 1]
    BY <1>1, <1>2 DEF Ways, AreWays
  <1>7. f[n] = g[n]
    BY <1>3, <1>4, <1>5, WaysAgree
  <1>8. g[n + 1] = UNION {{x} \cup (IF x[1] \in avoid THEN {} ELSE Onward(x)) : x \in g[(n + 1) - 1]}
    BY <1>3, <1>5, Zenon DEF AreWays
  <1>9. w \in {v} \cup (IF v[1] \in avoid THEN {} ELSE Onward(v)) /\ v \in g[(n + 1) - 1]
    BY <1>3, <1>6, <1>7
  <1> QED BY <1>6, <1>8, <1>9

(* One gets to w over free track. *)
Free(w) == \E n \in Nat : w \in Ways(src, barred, n)

LEMMA FreeSteps ==
    /\ Free(<<src, 0>>)
    /\ \A v : Free(v) /\ v[1] \notin barred => \A w \in Onward(v) : Free(w)
  <1>1. Free(<<src, 0>>)
    <2>1. PICK f : f = CHOOSE h : AreWays(src, barred, 0, h)
      OBVIOUS
    <2>2. AreWays(src, barred, 0, f)
      BY <2>1, WaysExist, Zenon
    <2>3. Ways(src, barred, 0) = f[0]
      BY <2>1 DEF Ways, AreWays
    <2>4. f[0] = {<<src, 0>>}
      BY <2>2 DEF AreWays
    <2> QED BY <2>3, <2>4 DEF Free
  <1>2. ASSUME NEW v, Free(v), v[1] \notin barred, NEW w \in Onward(v) PROVE Free(w)
    <2>1. PICK n \in Nat : v \in Ways(src, barred, n)
      BY <1>2 DEF Free
    <2>2. w \in Ways(src, barred, n + 1) /\ n + 1 \in Nat
      BY <1>2, <2>1, WaysFurther
    <2> QED BY <2>2 DEF Free
  <1> QED BY <1>1, <1>2

(* A path of L nodes follows edges. *)
Follows(p, d, L) ==
    /\ L \in Nat \ {0} /\ \A l \in 1 .. L : p[l] \in TrackNodes /\ d[l] \in Nat
    /\ \A l \in 1 .. L - 1 : \E k \in DOMAIN Edges[p[l]] :
          p[l + 1] = Edges[p[l]][k].dest /\ d[l + 1] = d[l] + Edges[p[l]][k].dist

LEMMA PathEdges ==
    ASSUME NEW p, NEW d, NEW i, LeadsTo(p, d, i)
    PROVE  Follows(p, d, Len(p))
  <1>1. PICK L : L = Len(p)
    OBVIOUS
  <1>2. /\ L \in Nat \ {0} /\ \A l \in 1 .. L : p[l] \in TrackNodes
        /\ d[1] = 0 /\ \A l \in 2 .. L : <<p[l], d[l]>> \in Onward(<<p[l - 1], d[l - 1]>>)
    BY <1>1 DEF LeadsTo
  <1>3. ASSUME NEW l \in 1 .. L - 1
        PROVE  \E k \in DOMAIN Edges[p[l]] :
                  p[l + 1] = Edges[p[l]][k].dest /\ d[l + 1] = d[l] + Edges[p[l]][k].dist
    <2>1. l + 1 \in 2 .. L /\ (l + 1) - 1 = l
      BY <1>2
    <2>2. <<p[l + 1], d[l + 1]>> \in Onward(<<p[l], d[l]>>)
      BY <1>2, <2>1
    <2> QED BY <2>2 DEF Onward
  <1> DEFINE Bad == {l \in 1 .. L : d[l] \notin Nat}
  <1>4. Bad = {}
    <2>1. SUFFICES ASSUME Bad # {} PROVE FALSE
      OBVIOUS
    <2>2. Bad \subseteq Nat
      OBVIOUS
    <2>3. PICK b \in Bad : \A l \in Bad : b <= l
      BY <2>1, <2>2, LeastExists
    <2>4. b \in 1 .. L /\ b \in Nat /\ d[b] \notin Nat
      OBVIOUS
    <2>5. b # 1
      BY <1>2, <2>4
    <2>6. PICK a : a = b - 1
      OBVIOUS
    <2>7. a \in 1 .. L - 1 /\ a \in 1 .. L /\ ~(b <= a) /\ a + 1 = b
      BY <1>2, <2>4, <2>5, <2>6
    <2>8. d[a] \in Nat /\ p[a] \in TrackNodes
      BY <1>2, <2>3, <2>7
    <2>9. PICK k \in DOMAIN Edges[p[a]] : d[b] = d[a] + Edges[p[a]][k].dist
      BY <1>3, <2>7
    <2>10. Edges[p[a]][k].dist \in Nat
      BY <2>8, EdgeFacts
    <2> QED BY <2>4, <2>8, <2>9, <2>10
  <1> QED BY <1>1, <1>2, <1>3, <1>4 DEF Follows

LEMMA CostsGrow ==
    ASSUME NEW p, NEW d, NEW i, LeadsTo(p, d, i), NEW a \in 1 .. Len(p), NEW b \in 1 .. Len(p), a <= b
    PROVE  d[a] <= d[b]
  <1>1. PICK L : L = Len(p)
    OBVIOUS
  <1>2. /\ L \in Nat \ {0} /\ \A l \in 1 .. L : p[l] \in TrackNodes /\ d[l] \in Nat
        /\ \A l \in 1 .. L - 1 : \E k \in DOMAIN Edges[p[l]] :
              p[l + 1] = Edges[p[l]][k].dest /\ d[l + 1] = d[l] + Edges[p[l]][k].dist
    <2>1. Follows(p, d, L)
      BY <1>1, PathEdges
    <2> QED BY <2>1 DEF Follows
  <1> DEFINE Bad == {l \in a .. L : ~(d[a] <= d[l])}
  <1>3. Bad = {}
    <2>1. SUFFICES ASSUME Bad # {} PROVE FALSE
      OBVIOUS
    <2>2. Bad \subseteq Nat
      BY <1>1, <1>2
    <2>3. PICK c \in Bad : \A l \in Bad : c <= l
      BY <2>1, <2>2, LeastExists
    <2>4. a \in 1 .. L /\ c \in a .. L /\ ~(d[a] <= d[c])
      BY <1>1
    <2>5. PICK e : e = c - 1
      OBVIOUS
    <2>6. c # a
      BY <1>2, <2>4
    <2>7. e \in 1 .. L - 1 /\ e \in 1 .. L /\ e \in a .. L /\ ~(c <= e) /\ e + 1 = c
      BY <1>2, <2>4, <2>5, <2>6
    <2>8. d[a] <= d[e]
      BY <2>3, <2>7
    <2>9. PICK k \in DOMAIN Edges[p[e]] : d[c] = d[e] + Edges[p[e]][k].dist
      BY <1>2, <2>7
    <2>10. Edges[p[e]][k].dist \in Nat /\ d[e] \in Nat /\ d[a] \in Nat
      BY <1>2, <2>4, <2>7, EdgeFacts
    <2> QED BY <2>4, <2>8, <2>9, <2>10
  <1>4. b \in a .. L
    BY <1>1, <1>2
  <1> QED BY <1>3, <1>4

(* What is free at one node of a path is free from there on, for as much   *)
(* less as it is there.                                                    *)
LEMMA PathIsFree ==
    ASSUME NEW p, NEW d, NEW i, LeadsTo(p, d, i), NEW b \in 1 .. Len(p), NEW c \in Nat,
           c <= d[b], Free(<<p[b], d[b] - c>>), NEW l \in 1 .. Len(p), b <= l
    PROVE  Free(<<p[l], d[l] - c>>)
  <1>1. PICK L : L = Len(p)
    OBVIOUS
  <1>2. /\ L \in Nat \ {0} /\ \A m \in 1 .. L : p[m] \in TrackNodes /\ d[m] \in Nat
        /\ \A m \in 1 .. L - 1 : \E k \in DOMAIN Edges[p[m]] :
              p[m + 1] = Edges[p[m]][k].dest /\ d[m + 1] = d[m] + Edges[p[m]][k].dist
    <2>1. Follows(p, d, L)
      BY <1>1, PathEdges
    <2> QED BY <2>1 DEF Follows
  <1>3. \A m \in 1 .. L - 1 : p[m] \notin barred
    BY <1>1 DEF LeadsTo
  <1> DEFINE Bad == {m \in b .. L : ~Free(<<p[m], d[m] - c>>)}
  <1>4. Bad = {}
    <2>1. SUFFICES ASSUME Bad # {} PROVE FALSE
      OBVIOUS
    <2>2. Bad \subseteq Nat
      BY <1>1, <1>2
    <2>3. PICK m \in Bad : \A j \in Bad : m <= j
      BY <2>1, <2>2, LeastExists
    <2>4. b \in 1 .. L /\ m \in b .. L /\ ~Free(<<p[m], d[m] - c>>)
      BY <1>1
    <2>5. m # b
      BY <2>4
    <2>6. PICK e : e = m - 1
      OBVIOUS
    <2>7. e \in 1 .. L - 1 /\ e \in 1 .. L /\ e \in b .. L /\ ~(m <= e) /\ e + 1 = m
      BY <1>2, <2>4, <2>5, <2>6
    <2>8. Free(<<p[e], d[e] - c>>)
      BY <2>3, <2>7
    <2>9. PICK k \in DOMAIN Edges[p[e]] : p[m] = Edges[p[e]][k].dest /\ d[m] = d[e] + Edges[p[e]][k].dist
      BY <1>2, <2>7
    <2>10. Edges[p[e]][k].dist \in Nat /\ d[e] \in Nat
      BY <1>2, <2>7, EdgeFacts
    <2>11. d[m] - c = (d[e] - c) + Edges[p[e]][k].dist
      BY <2>9, <2>10
    <2>12. PICK v : v = <<p[e], d[e] - c>>
      OBVIOUS
    <2>13. <<p[m], d[m] - c>> \in Onward(v)
      BY <2>9, <2>11, <2>12 DEF Onward
    <2>14. v[1] \notin barred
      BY <1>3, <2>7, <2>12
    <2> QED BY <2>4, <2>8, <2>12, <2>13, <2>14, FreeSteps
  <1>5. l \in b .. L
    BY <1>1, <1>2
  <1> QED BY <1>4, <1>5

(* A track can be driven on: the two edges of a branch lead to different   *)
(* nodes, and there is no loop of length 0.                                *)
BranchesPart == \A n \in TrackNodes : IsBranch(n) => Edges[n][1].dest # Edges[n][2].dest
NoFreeLoop ==
    \A S \in SUBSET TrackNodes : S # {} =>
        \E n \in S : \A k \in DOMAIN Edges[n] : Edges[n][k].dest \in S => Edges[n][k].dist # 0

(* A shortest path does not come to a node twice.                          *)
LEMMA NoNodeTwice ==
    ASSUME NoFreeLoop, NEW p, NEW d, NEW i, LeadsTo(p, d, i), p[Len(p)] = dst,
           \A n \in Nat : Shortest(n, d[Len(p)]),
           NEW a \in 1 .. Len(p), NEW b \in 1 .. Len(p), a < b
    PROVE  p[a] # p[b]
  <1>1. SUFFICES ASSUME p[a] = p[b] PROVE FALSE
    OBVIOUS
  <1>2. PICK L : L = Len(p)
    OBVIOUS
  <1>3. /\ L \in Nat \ {0} /\ \A l \in 1 .. L : p[l] \in TrackNodes /\ d[l] \in Nat
        /\ \A l \in 1 .. L - 1 : \E k \in DOMAIN Edges[p[l]] :
              p[l + 1] = Edges[p[l]][k].dest /\ d[l + 1] = d[l] + Edges[p[l]][k].dist
    <2>1. Follows(p, d, L)
      BY <1>2, PathEdges
    <2> QED BY <2>1 DEF Follows
  <1>4. a \in 1 .. L /\ b \in 1 .. L /\ L \in 1 .. L /\ 1 \in 1 .. L /\ a <= b /\ b <= L /\ 1 <= a
    BY <1>2, <1>3
  <1>5. d[a] <= d[b] /\ d[a] \in Nat /\ d[b] \in Nat /\ d[L] \in Nat /\ d[b] <= d[L]
    <2>1. d[a] <= d[b]
      BY <1>2, <1>4, CostsGrow
    <2>2. d[b] <= d[L]
      BY <1>2, <1>4, CostsGrow
    <2> QED BY <1>3, <1>4, <2>1, <2>2
  <1>6. CASE d[a] < d[b]
    <2>1. PICK c : c = d[b] - d[a]
      OBVIOUS
    <2>2. c \in Nat /\ c <= d[b] /\ d[b] - c = d[a] /\ d[L] - c < d[L] /\ d[L] - c \in Int
      BY <1>5, <1>6, <2>1
    <2>3. d[1] = 0 /\ p[1] = src /\ 0 \in Nat /\ d[1] - 0 = 0 /\ 0 <= d[1]
      BY DEF LeadsTo
    <2>4. Free(<<p[a], d[a] - 0>>)
      <3>1. Free(<<p[1], d[1] - 0>>)
        BY <2>3, FreeSteps
      <3>2. 1 \in 1 .. Len(p) /\ 1 <= a
        BY <1>2, <1>4
      <3> QED BY <2>3, <3>1, <3>2, PathIsFree
    <2>5. Free(<<p[b], d[b] - c>>)
      <3>1. d[a] - 0 = d[b] - c
        BY <1>5, <2>2
      <3> QED BY <1>1, <2>4, <3>1
    <2>6. Free(<<p[L], d[L] - c>>)
      BY <1>2, <1>4, <2>2, <2>5, PathIsFree
    <2>7. PICK w : w = <<p[L], d[L] - c>>
      OBVIOUS
    <2>8. PICK n \in Nat : w \in Ways(src, barred, n)
      BY <2>6, <2>7 DEF Free
    <2>9. d[L] <= w[2]
      BY <1>2, <2>7, <2>8 DEF Shortest
    <2> QED BY <1>5, <2>2, <2>7, <2>9
  <1>7. CASE d[a] = d[b]
    <2>1. \A l \in a .. b : l \in 1 .. L /\ d[l] = d[a]
      <3>1. ASSUME NEW l \in a .. b PROVE l \in 1 .. L /\ d[l] = d[a]
        <4>1. l \in 1 .. L /\ a <= l /\ l <= b
          BY <1>3, <1>4
        <4>2. d[a] <= d[l]
          BY <1>2, <1>4, <4>1, CostsGrow
        <4>3. d[l] <= d[b]
          BY <1>2, <1>4, <4>1, CostsGrow
        <4>4. d[l] \in Nat
          BY <1>3, <4>1
        <4> QED BY <1>5, <1>7, <4>1, <4>2, <4>3, <4>4
      <3> QED BY <3>1
    <2>2. PICK S : S = {p[l] : l \in a .. b}
      OBVIOUS
    <2>3. S \in SUBSET TrackNodes /\ S # {}
      <3>1. a \in a .. b
        BY <1>4
      <3> QED BY <1>3, <2>1, <2>2, <3>1
    <2>4. PICK n \in S : \A k \in DOMAIN Edges[n] : Edges[n][k].dest \in S => Edges[n][k].dist # 0
      BY <2>3 DEF NoFreeLoop
    <2>5. PICK l \in a .. b - 1 : p[l] = n
      <3>1. PICK m \in a .. b : p[m] = n
        BY <2>2
      <3>2. a \in a .. b - 1 /\ (m # b => m \in a .. b - 1)
        BY <1>4
      <3> QED BY <1>1, <3>1, <3>2
    <2>6. l \in a .. b /\ l + 1 \in a .. b /\ l \in 1 .. L - 1
      BY <1>3, <1>4
    <2>7. PICK k \in DOMAIN Edges[n] : p[l + 1] = Edges[n][k].dest /\ d[l + 1] = d[l] + Edges[n][k].dist
      BY <1>3, <2>5, <2>6
    <2>8. Edges[n][k].dist \in Nat
      BY <2>3, EdgeFacts
    <2>9. Edges[n][k].dist = 0
      BY <1>5, <2>1, <2>6, <2>7, <2>8
    <2>10. p[l + 1] \in S
      BY <2>2, <2>6
    <2> QED BY <2>4, <2>7, <2>9, <2>10
  <1> QED BY <1>5, <1>6, <1>7

LEMMA LookaheadFacts ==
    ASSUME BranchesPart, NEW t \in TrackNodes, NEW k \in DOMAIN Edges[t]
    PROVE  /\ ~IsBranch(t) => Lookahead(t, Edges[t][k].dest) = 0 /\ k = 1
           /\ IsBranch(t) =>
                 /\ k \in {1, 2} /\ Lookahead(t, Edges[t][k].dest) # 0
                 /\ TurnopTracknode(Lookahead(t, Edges[t][k].dest)) = t
                 /\ TurnopCurve(Lookahead(t, Edges[t][k].dest)) <=> k = 2
  <1>1. Len(Edges[t]) \in 0 .. 2 /\ DOMAIN Edges[t] = 1 .. Len(Edges[t])
    BY EdgeFacts
  <1>2. PICK u : u = Edges[t][k].dest
    OBVIOUS
  <1>3. ASSUME ~IsBranch(t) PROVE Lookahead(t, u) = 0 /\ k = 1
    <2>1. k = 1
      <3>1. PICK m : m = Len(Edges[t])
        OBVIOUS
      <3>2. m \in 0 .. 2 /\ k \in 1 .. m /\ m # 2
        BY <1>1, <1>3, <3>1 DEF IsBranch
      <3> QED BY <3>2
    <2> QED BY <1>3, <2>1 DEF Lookahead
  <1>4. ASSUME IsBranch(t)
        PROVE  /\ k \in {1, 2} /\ Lookahead(t, u) # 0
               /\ TurnopTracknode(Lookahead(t, u)) = t
               /\ TurnopCurve(Lookahead(t, u)) <=> k = 2
    <2>1. k \in {1, 2}
      BY <1>1, <1>4 DEF IsBranch
    <2>2. t \in Nat \ {0}
      BY PathAssumption
    <2>3. Lookahead(t, u) = IF k = 1 THEN 2 * t ELSE 2 * t + 1
      <3>1. Edges[t][1].dest # Edges[t][2].dest
        BY <1>4 DEF BranchesPart
      <3>2. CASE k = 1
        BY <1>2, <1>4, <3>2 DEF Lookahead
      <3>3. CASE k = 2
        BY <1>2, <1>4, <3>1, <3>3 DEF Lookahead
      <3> QED BY <2>1, <3>2, <3>3
    <2>4. (2 * t) \div 2 = t /\ (2 * t + 1) \div 2 = t /\ (2 * t) % 2 = 0 /\ (2 * t + 1) % 2 = 1
          /\ 2 * t # 0 /\ 2 * t + 1 # 0
      BY <2>2
    <2> QED BY <2>1, <2>3, <2>4 DEF TurnopTracknode, TurnopCurve
  <1> QED BY <1>2, <1>3, <1>4

(* f is set of SetTargetFromEnstruction, as far as the n-th node.          *)
AreSet(c, ens, n, f) ==
    f = [j \in 0 .. n |->
            IF j = 0 THEN c
            ELSE IF ens[j].turnop = 0 THEN f[j - 1]
            ELSE SetTurnout(f[j - 1], ens[j].turnop)]

LEMMA SetExists ==
    ASSUME NEW c, NEW ens, NEW n \in Nat
    PROVE  \E f : AreSet(c, ens, n, f)
  <1> DEFINE Further(j, S) == IF ens[j].turnop = 0 THEN S ELSE SetTurnout(S, ens[j].turnop)
             Bad == {k \in Nat : ~\E f : AreSet(c, ens, k, f)}
  <1> HIDE DEF Further
  <1>1. SUFFICES ASSUME Bad # {} PROVE FALSE
    OBVIOUS
  <1>2. PICK k \in Bad : \A l \in Bad : k <= l
    BY <1>1, LeastExists
  <1>3. k \in Nat /\ ~\E f : AreSet(c, ens, k, f)
    OBVIOUS
  <1>4. CASE k = 0
    <2>1. PICK f : f = [j \in 0 .. 0 |-> c]
      OBVIOUS
    <2>2. \A j \in 0 .. 0 : j = 0
      OBVIOUS
    <2>3. f = [j \in 0 .. 0 |-> IF j = 0 THEN c ELSE Further(j, f[j - 1])]
      BY <2>1, <2>2, Zenon
    <2> QED BY <1>3, <1>4, <2>3 DEF AreSet, Further
  <1>5. CASE k # 0
    <2>1. k - 1 \in Nat /\ ~(k <= k - 1) /\ k - 1 \in 0 .. k - 1
      BY <1>3, <1>5
    <2>2. PICK f : AreSet(c, ens, k - 1, f)
      BY <1>2, <2>1
    <2>3. PICK g : g = [j \in 0 .. k |-> IF j = k THEN Further(k, f[k - 1]) ELSE f[j]]
      OBVIOUS
    <2>4. f = [j \in 0 .. k - 1 |-> IF j = 0 THEN c ELSE Further(j, f[j - 1])]
      BY <2>2 DEF AreSet, Further
    <2>5. \A j \in 0 .. k - 1 : f[j] = IF j = 0 THEN c ELSE Further(j, f[j - 1])
      BY <2>4, Zenon
    <2>6. ASSUME NEW j \in 0 .. k
          PROVE  g[j] = IF j = 0 THEN c ELSE Further(j, g[j - 1])
      <3>1. CASE j = k
        <4>1. k - 1 \in 0 .. k /\ k - 1 # k /\ k \in 0 .. k
          BY <2>1
        <4>2. g[k - 1] = f[k - 1] /\ g[k] = Further(k, f[k - 1])
          BY <2>3, <4>1
        <4> QED BY <1>5, <3>1, <4>2
      <3>2. CASE j # k
        <4>1. j \in 0 .. k - 1 /\ (j # 0 => j - 1 \in 0 .. k /\ j - 1 # k)
          BY <1>3, <3>2
        <4>2. g[j] = f[j] /\ (j # 0 => g[j - 1] = f[j - 1])
          BY <2>3, <3>2, <4>1
        <4> QED BY <2>5, <4>1, <4>2
      <3> QED BY <3>1, <3>2
    <2>7. g = [j \in 0 .. k |-> g[j]]
      BY <2>3
    <2>8. g = [j \in 0 .. k |-> IF j = 0 THEN c ELSE Further(j, g[j - 1])]
      BY <2>6, <2>7, Zenon
    <2> QED BY <1>3, <2>8 DEF AreSet, Further
  <1> QED BY <1>4, <1>5

NoneTwice(p, L) == \A a, b \in 1 .. L : a < b => p[a] # p[b]

(* Along a path of L nodes, c has the branches curved where it goes curved. *)
Leads(c, p, L) ==
    \A l \in 1 .. L - 1 : \A k \in DOMAIN Edges[p[l]] :
        p[l + 1] = Edges[p[l]][k].dest => NextEdge(p[l], c) = Edges[p[l]][k]

(* All turnouts of a path without loops are set along it.                  *)
LEMMA TurnoutsSet ==
    ASSUME BranchesPart, NEW p, NEW d, NEW L, L = Len(p), Follows(p, d, L), NoneTwice(p, L),
           SetTargetFromEnstruction(Enstruction(p))
    PROVE  target' = p[L] /\ Leads(curved', p, L)
  <1> USE DEF NoneTwice, Leads
  <1>1. PICK ens : ens = Enstruction(p)
    OBVIOUS
  <1>2. /\ L \in Nat \ {0} /\ \A l \in 1 .. L : p[l] \in TrackNodes
        /\ \A l \in 1 .. L - 1 : \E k \in DOMAIN Edges[p[l]] : p[l + 1] = Edges[p[l]][k].dest
    BY DEF Follows
  <1>3. ens = [l \in 1 .. L |-> [node |-> p[l], turnop |-> IF l = L THEN 0 ELSE Lookahead(p[l], p[l + 1])]]
    BY <1>1 DEF Enstruction
  <1>4. Len(ens) = L /\ ens[L].node = p[L] /\ \A l \in 1 .. L : ens[l].turnop = IF l = L THEN 0 ELSE Lookahead(p[l], p[l + 1])
    <2>1. L \in 1 .. L /\ L \in Nat
      BY <1>2
    <2> QED BY <1>3, <2>1
  <1>5. PICK f : f = CHOOSE g : AreSet(curved, ens, L, g)
    OBVIOUS
  <1>6. AreSet(curved, ens, L, f)
    BY <1>2, <1>5, SetExists, Zenon
  <1>7. curved' = f[L] /\ target' = p[L]
    <2>1. SetTargetFromEnstruction(ens)
      BY <1>1
    <2> QED BY <1>4, <1>5, <2>1 DEF SetTargetFromEnstruction, AreSet
  <1>8. \A j \in 1 .. L : f[j] = IF ens[j].turnop = 0 THEN f[j - 1] ELSE SetTurnout(f[j - 1], ens[j].turnop)
    <2>1. \A j \in 0 .. L : f[j] = IF j = 0 THEN curved
                                   ELSE IF ens[j].turnop = 0 THEN f[j - 1]
                                   ELSE SetTurnout(f[j - 1], ens[j].turnop)
      BY <1>6, Zenon DEF AreSet
    <2>2. \A j \in 1 .. L : j \in 0 .. L /\ j # 0
      BY <1>2
    <2> QED BY <2>1, <2>2
  <1> DEFINE Set(l, B) == \A k \in DOMAIN Edges[p[l]] :
                 p[l + 1] = Edges[p[l]][k].dest /\ IsBranch(p[l]) => (p[l] \in B <=> k = 2)
             Bad == {j \in 1 .. L : ~\A l \in 1 .. L - 1 : l <= j => Set(l, f[j])}
  <1>9. ASSUME NEW l \in 1 .. L - 1, IsBranch(p[l])
        PROVE  Set(l, f[l])
    <2>1. l \in 1 .. L /\ l # L /\ p[l] \in TrackNodes
      BY <1>2
    <2>2. ASSUME NEW k \in DOMAIN Edges[p[l]], p[l + 1] = Edges[p[l]][k].dest
          PROVE  p[l] \in f[l] <=> k = 2
      <3>1. PICK op : op = ens[l].turnop
        OBVIOUS
      <3>2. op = Lookahead(p[l], Edges[p[l]][k].dest)
        BY <1>4, <2>1, <2>2, <3>1
      <3>3. k \in {1, 2} /\ op # 0 /\ TurnopTracknode(op) = p[l] /\ (TurnopCurve(op) <=> k = 2)
        BY <1>9, <2>1, <3>2, LookaheadFacts
      <3>4. f[l] = SetTurnout(f[l - 1], op)
        BY <1>8, <2>1, <3>1, <3>3
      <3> QED BY <3>3, <3>4 DEF SetTurnout
    <2> QED BY <2>2
  <1>10. ASSUME NEW l \in 1 .. L - 1, NEW j \in 1 .. L, l < j, Set(l, f[j - 1])
         PROVE  Set(l, f[j])
    <2>1. CASE ens[j].turnop = 0
      BY <1>8, <1>10, <2>1
    <2>2. CASE ens[j].turnop # 0
      <3>1. PICK op : op = ens[j].turnop
        OBVIOUS
      <3>2. j # L /\ j \in 1 .. L - 1 /\ op = Lookahead(p[j], p[j + 1])
        BY <1>2, <1>4, <2>2, <3>1
      <3>3. PICK k \in DOMAIN Edges[p[j]] : p[j + 1] = Edges[p[j]][k].dest
        BY <1>2, <3>2
      <3>4. TurnopTracknode(op) = p[j]
        BY <1>2, <2>2, <3>1, <3>2, <3>3, LookaheadFacts
      <3>5. p[l] # p[j]
        BY <1>2, <1>10
      <3>6. f[j] = SetTurnout(f[j - 1], op)
        BY <1>8, <2>2, <3>1
      <3>7. p[l] \in f[j] <=> p[l] \in f[j - 1]
        BY <3>4, <3>5, <3>6 DEF SetTurnout
      <3> QED BY <1>10, <3>7
    <2> QED BY <2>1, <2>2
  <1> HIDE DEF Set
  <1>11. Bad = {}
    <2>1. SUFFICES ASSUME Bad # {} PROVE FALSE
      OBVIOUS
    <2>2. Bad \subseteq Nat
      OBVIOUS
    <2>3. PICK j \in Bad : \A m \in Bad : j <= m
      BY <2>1, <2>2, LeastExists
    <2>4. j \in 1 .. L /\ ~\A l \in 1 .. L - 1 : l <= j => Set(l, f[j])
      OBVIOUS
    <2>5. PICK l \in 1 .. L - 1 : l <= j /\ ~Set(l, f[j])
      BY <2>4
    <2>6. CASE l = j
      <3>1. ~IsBranch(p[l]) => Set(l, f[j])
        BY DEF Set
      <3> QED BY <1>9, <2>5, <2>6, <3>1
    <2>7. CASE l # j
      <3>1. l < j /\ j - 1 \in 1 .. L /\ l <= j - 1 /\ ~(j <= j - 1)
        BY <1>2, <2>4, <2>5, <2>7
      <3>2. Set(l, f[j - 1])
        BY <2>3, <3>1
      <3> QED BY <1>10, <2>4, <2>5, <3>1, <3>2
    <2> QED BY <2>6, <2>7
  <1>12. ASSUME NEW l \in 1 .. L - 1, NEW k \in DOMAIN Edges[p[l]], p[l + 1] = Edges[p[l]][k].dest
         PROVE  NextEdge(p[l], curved') = Edges[p[l]][k]
    <2>1. l \in 1 .. L /\ L \in 1 .. L /\ l <= L /\ p[l] \in TrackNodes
      BY <1>2
    <2>2. Set(l, f[L])
      BY <1>11, <2>1
    <2>3. CASE IsBranch(p[l])
      <3>1. p[l] \in f[L] <=> k = 2
        BY <1>12, <2>2, <2>3 DEF Set
      <3>2. k \in {1, 2}
        BY <2>1, <2>3, LookaheadFacts
      <3> QED BY <1>7, <2>3, <3>1, <3>2 DEF NextEdge
    <2>4. CASE ~IsBranch(p[l])
      <3>1. k = 1
        BY <2>1, <2>4, LookaheadFacts
      <3> QED BY <2>4, <3>1 DEF NextEdge
    <2> QED BY <2>3, <2>4
  <1> QED BY <1>7, <1>12

(* f is walk of DistanceBetween, as far as n steps.                        *)
AreSteps(from, to, c, n, f) ==
    f = [i \in 0 .. n |->
            IF i = 0 THEN [node |-> from, dist |-> 0, done |-> FALSE]
            ELSE IF f[i - 1].done \/ IsExit(f[i - 1].node) THEN f[i - 1]
            ELSE [node |-> NextEdge(f[i - 1].node, c).dest,
                  dist |-> f[i - 1].dist + NextEdge(f[i - 1].node, c).dist,
                  done |-> NextEdge(f[i - 1].node, c).dest = to]]

LEMMA StepsFound ==
    ASSUME NEW from, NEW to, NEW c, NEW n \in Nat
    PROVE  \E f : AreSteps(from, to, c, n, f)
  <1> DEFINE Start == [node |-> from, dist |-> 0, done |-> FALSE]
             Further(w) == IF w.done \/ IsExit(w.node) THEN w
                           ELSE [node |-> NextEdge(w.node, c).dest,
                                 dist |-> w.dist + NextEdge(w.node, c).dist,
                                 done |-> NextEdge(w.node, c).dest = to]
             Bad == {k \in Nat : ~\E f : AreSteps(from, to, c, k, f)}
  <1> HIDE DEF Start, Further
  <1>1. SUFFICES ASSUME Bad # {} PROVE FALSE
    OBVIOUS
  <1>2. PICK k \in Bad : \A l \in Bad : k <= l
    BY <1>1, LeastExists
  <1>3. k \in Nat /\ ~\E f : AreSteps(from, to, c, k, f)
    OBVIOUS
  <1>4. CASE k = 0
    <2>1. PICK f : f = [j \in 0 .. 0 |-> Start]
      OBVIOUS
    <2>2. \A j \in 0 .. 0 : j = 0
      OBVIOUS
    <2>3. f = [j \in 0 .. 0 |-> IF j = 0 THEN Start ELSE Further(f[j - 1])]
      BY <2>1, <2>2, Zenon
    <2> QED BY <1>3, <1>4, <2>3 DEF AreSteps, Further, Start
  <1>5. CASE k # 0
    <2>1. k - 1 \in Nat /\ ~(k <= k - 1) /\ k - 1 \in 0 .. k - 1
      BY <1>3, <1>5
    <2>2. PICK f : AreSteps(from, to, c, k - 1, f)
      BY <1>2, <2>1
    <2>3. PICK g : g = [j \in 0 .. k |-> IF j = k THEN Further(f[k - 1]) ELSE f[j]]
      OBVIOUS
    <2>4. f = [j \in 0 .. k - 1 |-> IF j = 0 THEN Start ELSE Further(f[j - 1])]
      BY <2>2 DEF AreSteps, Further, Start
    <2>5. \A j \in 0 .. k - 1 : f[j] = IF j = 0 THEN Start ELSE Further(f[j - 1])
      BY <2>4, Zenon
    <2>6. ASSUME NEW j \in 0 .. k
          PROVE  g[j] = IF j = 0 THEN Start ELSE Further(g[j - 1])
      <3>1. CASE j = k
        <4>1. k - 1 \in 0 .. k /\ k - 1 # k /\ k \in 0 .. k
          BY <2>1
        <4>2. g[k - 1] = f[k - 1] /\ g[k] = Further(f[k - 1])
          BY <2>3, <4>1
        <4> QED BY <1>5, <3>1, <4>2
      <3>2. CASE j # k
        <4>1. j \in 0 .. k - 1 /\ (j # 0 => j - 1 \in 0 .. k /\ j - 1 # k)
          BY <1>3, <3>2
        <4>2. g[j] = f[j] /\ (j # 0 => g[j - 1] = f[j - 1])
          BY <2>3, <3>2, <4>1
        <4> QED BY <2>5, <4>1, <4>2
      <3> QED BY <3>1, <3>2
    <2>7. g = [j \in 0 .. k |-> g[j]]
      BY <2>3
    <2>8. g = [j \in 0 .. k |-> IF j = 0 THEN Start ELSE Further(g[j - 1])]
      BY <2>6, <2>7, Zenon
    <2> QED BY <1>3, <2>8 DEF AreSteps, Further, Start
  <1> QED BY <1>4, <1>5

(* Along turnouts that are set so, distanceBetween comes to the end of the *)
(* path and finds it as long as it is.                                     *)
LEMMA DistanceOfPath ==
    ASSUME NEW p, NEW d, NEW L, Follows(p, d, L), L >= 2, d[1] = 0, NoneTwice(p, L),
           NEW c, Leads(c, p, L), L - 1 <= Cardinality(TrackNodes) \div 2
    PROVE  DistanceBetween(p[1], p[L], c) = 1000 * d[L]
  <1> USE DEF NoneTwice, Leads
  <1>1. PICK N : N = Cardinality(TrackNodes) \div 2
    OBVIOUS
  <1>2. N \in Nat /\ L - 1 <= N
    <2>1. Cardinality(TrackNodes) \in Nat
      BY FS_CardinalityType, PathAssumption
    <2> QED BY <1>1, <2>1
  <1>3. /\ L \in Nat \ {0} /\ \A l \in 1 .. L : p[l] \in TrackNodes /\ d[l] \in Nat
        /\ \A l \in 1 .. L - 1 : \E k \in DOMAIN Edges[p[l]] :
              p[l + 1] = Edges[p[l]][k].dest /\ d[l + 1] = d[l] + Edges[p[l]][k].dist
    BY DEF Follows
  <1>4. PICK f : f = CHOOSE g : AreSteps(p[1], p[L], c, N, g)
    OBVIOUS
  <1>5. AreSteps(p[1], p[L], c, N, f)
    BY <1>2, <1>4, StepsFound, Zenon
  <1>6. DistanceBetween(p[1], p[L], c) = IF f[N].done THEN 1000 * f[N].dist ELSE -1
    BY <1>1, <1>4 DEF DistanceBetween, AreSteps
  <1>7. \A i \in 0 .. N :
           f[i] = IF i = 0 THEN [node |-> p[1], dist |-> 0, done |-> FALSE]
                  ELSE IF f[i - 1].done \/ IsExit(f[i - 1].node) THEN f[i - 1]
                  ELSE [node |-> NextEdge(f[i - 1].node, c).dest,
                        dist |-> f[i - 1].dist + NextEdge(f[i - 1].node, c).dist,
                        done |-> NextEdge(f[i - 1].node, c).dest = p[L]]
    BY <1>5, Zenon DEF AreSteps
  <1> DEFINE On(l) == [node |-> p[l], dist |-> d[l], done |-> FALSE]
             There == [node |-> p[L], dist |-> d[L], done |-> TRUE]
             Good(i) == /\ i + 1 < L => f[i] = On(i + 1)
                        /\ ~(i + 1 < L) => f[i] = There
             Bad == {i \in 0 .. N : ~Good(i)}
  <1>8. Bad = {}
    <2>1. SUFFICES ASSUME Bad # {} PROVE FALSE
      OBVIOUS
    <2>2. Bad \subseteq Nat
      OBVIOUS
    <2>3. PICK i \in Bad : \A m \in Bad : i <= m
      BY <2>1, <2>2, LeastExists
    <2>4. i \in 0 .. N /\ i \in Nat /\ ~Good(i)
      OBVIOUS
    <2>5. CASE i = 0
      <3>1. f[0] = [node |-> p[1], dist |-> 0, done |-> FALSE]
        BY <1>7, <2>4, <2>5
      <3>2. 0 + 1 < L /\ 0 + 1 = 1
        BY <1>3
      <3> QED BY <2>4, <2>5, <3>1, <3>2
    <2>6. CASE i # 0
      <3>1. PICK h : h = i - 1
        OBVIOUS
      <3>2. h \in 0 .. N /\ ~(i <= h) /\ h + 1 = i /\ h \in Nat
        BY <1>2, <2>4, <2>6, <3>1
      <3>3. Good(h)
        BY <2>3, <3>2
      <3>4. f[i] = IF f[h].done \/ IsExit(f[h].node) THEN f[h]
                   ELSE [node |-> NextEdge(f[h].node, c).dest,
                         dist |-> f[h].dist + NextEdge(f[h].node, c).dist,
                         done |-> NextEdge(f[h].node, c).dest = p[L]]
        BY <1>7, <2>4, <2>6, <3>1
      <3>5. CASE i < L
        <4>1. i \in 1 .. L - 1 /\ i \in 1 .. L /\ i + 1 \in 1 .. L /\ h + 1 < L /\ L \in 1 .. L
          BY <1>3, <2>4, <2>6, <3>2, <3>5
        <4>2. f[h] = On(i)
          BY <3>2, <3>3, <4>1
        <4>3. PICK k \in DOMAIN Edges[p[i]] : p[i + 1] = Edges[p[i]][k].dest /\ d[i + 1] = d[i] + Edges[p[i]][k].dist
          BY <1>3, <4>1
        <4>4. NextEdge(p[i], c) = Edges[p[i]][k]
          BY <4>1, <4>3
        <4>5. ~IsExit(p[i])
          <5>1. DOMAIN Edges[p[i]] # {}
            BY <4>3
          <5> QED BY <5>1 DEF IsExit
        <4>6. f[h].node = p[i] /\ f[h].dist = d[i]
          BY <4>2
        <4>7. ~f[h].done
          BY <4>2
        <4>8. f[i] = [node |-> p[i + 1], dist |-> d[i + 1], done |-> p[i + 1] = p[L]]
          <5>1. f[i] = [node |-> NextEdge(f[h].node, c).dest,
                        dist |-> f[h].dist + NextEdge(f[h].node, c).dist,
                        done |-> NextEdge(f[h].node, c).dest = p[L]]
            BY <3>4, <4>5, <4>6, <4>7, Zenon
          <5> QED BY <4>3, <4>4, <4>6, <5>1, Zenon
        <4>9. CASE i + 1 = L
          <5>1. (p[i + 1] = p[L]) = TRUE
            BY <4>9, Zenon
          <5>2. f[i] = There
            BY <4>8, <4>9, <5>1, Zenon
          <5>3. ~(i + 1 < L)
            BY <1>3, <4>9
          <5> QED BY <2>4, <5>2, <5>3, Zenon
        <4>10. CASE i + 1 # L
          <5>1. i + 1 < L
            BY <1>3, <4>1, <4>10
          <5>2. p[i + 1] # p[L]
            BY <4>1, <5>1
          <5>3. (p[i + 1] = p[L]) = FALSE
            BY <5>2, Zenon
          <5>4. f[i] = On(i + 1)
            BY <4>8, <5>3, Zenon
          <5> QED BY <2>4, <5>1, <5>4, Zenon
        <4> QED BY <4>9, <4>10
      <3>6. CASE ~(i < L)
        <4>1. ~(h + 1 < L) /\ ~(i + 1 < L)
          BY <1>3, <2>4, <3>2, <3>6
        <4>2. f[h] = There
          BY <3>3, <4>1, Zenon
        <4>3. f[h].done
          BY <4>2
        <4>4. f[i] = There
          BY <3>4, <4>2, <4>3, Zenon
        <4> QED BY <2>4, <4>1, <4>4, Zenon
      <3> QED BY <3>5, <3>6
    <2> QED BY <2>5, <2>6
  <1>9. f[N] = There
    <2>1. N \in 0 .. N /\ ~(N + 1 < L)
      BY <1>2, <1>3
    <2>2. Good(N)
      BY <1>8, <2>1
    <2> QED BY <2>1, <2>2, Zenon
  <1>10. f[N].done /\ f[N].dist = d[L]
    <2>1. f[N].done
      BY <1>9
    <2>2. f[N].dist = d[L]
      BY <1>9
    <2> QED BY <2>1, <2>2, Zenon
  <1>11. PICK x, y : x = 1000 * f[N].dist /\ y = -1
    OBVIOUS
  <1>12. DistanceBetween(p[1], p[L], c) = IF f[N].done THEN x ELSE y
    BY <1>6, <1>11
  <1>13. DistanceBetween(p[1], p[L], c) = x
    BY <1>10, <1>12, Zenon
  <1> QED BY <1>10, <1>11, <1>13

(* No path that is found is longer than distanceBetween looks.             *)
PathsFit == phase = "found" => Len(Path) - 1 <= Cardinality(TrackNodes) \div 2

LEMMA PathsAgree ==
    ASSUME SearchInv, phase = "found", heap # <<>>
    PROVE  \E d, i : /\ LeadsTo(Path, d, i) /\ i = Head(heap)
                     /\ Path[1] = src /\ Path[Len(Path)] = dst /\ d[1] = 0
                     /\ d[Len(Path)] = g_nodes[Head(heap)].cost
                     /\ \A n \in Nat : Shortest(n, d[Len(Path)])
  <1>1. /\ Grown /\ Len(heap) = 1 /\ heap[1] \in 1 .. Len(g_nodes) /\ g_nodes[heap[1]].tn = dst
        /\ \A n \in Nat : Shortest(n, g_nodes[heap[1]].cost)
        /\ g_nodes \in Seq(PathNode)
    BY DEF SearchInv
  <1>2. PICK i : i = heap[1]
    OBVIOUS
  <1>3. i = Head(heap) /\ Path = PathTo(i)
    BY <1>1, <1>2 DEF Path
  <1>4. PICK d : LeadsTo(Path, d, i)
    BY <1>1, <1>2, <1>3, PathLeads
  <1>5. Path[1] = src /\ Path[Len(Path)] = dst /\ d[1] = 0 /\ d[Len(Path)] = g_nodes[i].cost
    BY <1>1, <1>2, <1>4, Zenon DEF LeadsTo
  <1>6. \A n \in Nat : Shortest(n, d[Len(Path)])
    BY <1>1, <1>2, <1>5
  <1> QED BY <1>3, <1>4, <1>5, <1>6, Zenon

(* On a track where the edges of each branch part and no loop is of length *)
(* 0, while no path is longer than distanceBetween looks, the turnouts of  *)
(* each path lead the train along it, whatever they were                   *)
(* (pathfinding.c:229-251, engineer.c:286-314, 568).                       *)
THEOREM TurnoutsLeadThere ==
    ASSUME BranchesPart, NoFreeLoop
    PROVE  RouteSpec /\ []PathsFit => TurnoutsLead
  <1>1. ASSUME SearchInv, PathsFit, [RouteNext]_routeVars
        PROVE  [phase = "found" /\ phase' = "idle" /\ Len(Path) >= 2 =>
                  /\ target' = dst
                  /\ DistanceBetween(src, target', curved') = 1000 * g_nodes[Head(heap)].cost]_routeVars
    <2>1. SUFFICES ASSUME RouteNext, phase = "found", phase' = "idle", Len(Path) >= 2
                   PROVE  /\ target' = dst
                          /\ DistanceBetween(src, target', curved') = 1000 * g_nodes[Head(heap)].cost
      BY <1>1
    <2>2. Book
      BY <2>1 DEF RouteNext, PlanRoute, Search, Reserve
    <2>3. heap # <<>>
      BY <2>1 DEF Path
    <2>4. PICK d, i : /\ LeadsTo(Path, d, i) /\ i = Head(heap)
                      /\ Path[1] = src /\ Path[Len(Path)] = dst /\ d[1] = 0
                      /\ d[Len(Path)] = g_nodes[Head(heap)].cost
                      /\ \A n \in Nat : Shortest(n, d[Len(Path)])
      BY <1>1, <2>1, <2>3, PathsAgree
    <2>5. PICK p, L : p = Path /\ L = Len(p)
      OBVIOUS
    <2>6. Follows(p, d, L)
      BY <2>4, <2>5, PathEdges
    <2>7. NoneTwice(p, L)
      <3>1. SUFFICES ASSUME NEW a \in 1 .. L, NEW b \in 1 .. L, a < b PROVE p[a] # p[b]
        BY DEF NoneTwice
      <3>2. LeadsTo(p, d, i) /\ p[Len(p)] = dst /\ \A n \in Nat : Shortest(n, d[Len(p)])
        BY <2>4, <2>5
      <3>3. a \in 1 .. Len(p) /\ b \in 1 .. Len(p)
        BY <2>5
      <3> QED BY <3>1, <3>2, <3>3, NoNodeTwice
    <2>8. ebook' = Enstruction(p) /\ SetTargetFromEnstruction(Enstruction(p))
      <3>1. L \in Nat /\ L >= 2
        BY <2>1, <2>5, <2>6 DEF Follows
      <3>2. ebook' = Enstruction(p)
        BY <2>2, <2>5, <3>1 DEF Book
      <3>3. Enstruction(p) # <<>>
        <4>1. DOMAIN Enstruction(p) = 1 .. L /\ 1 \in 1 .. L
          BY <2>5, <3>1 DEF Enstruction
        <4>2. DOMAIN <<>> = {}
          OBVIOUS
        <4> QED BY <4>1, <4>2
      <3>4. SetTargetFromEnstruction(ebook')
        BY <2>2, <3>2, <3>3 DEF Book
      <3> QED BY <3>2, <3>4
    <2>9. target' = p[L] /\ Leads(curved', p, L)
      BY <2>5, <2>6, <2>7, <2>8, TurnoutsSet
    <2>10. DistanceBetween(p[1], p[L], curved') = 1000 * d[L]
      <3>1. L >= 2 /\ d[1] = 0 /\ L - 1 <= Cardinality(TrackNodes) \div 2
        BY <1>1, <2>1, <2>4, <2>5 DEF PathsFit
      <3>2. PICK c : c = curved'
        OBVIOUS
      <3>3. Leads(c, p, L)
        BY <2>9, <3>2
      <3>4. DistanceBetween(p[1], p[L], c) = 1000 * d[L]
        BY <2>6, <2>7, <3>1, <3>3, DistanceOfPath
      <3> QED BY <3>2, <3>4
    <2> QED BY <2>4, <2>5, <2>9, <2>10
  <1> QED BY <1>1, SearchSound, PTL DEF RouteSpec, TurnoutsLead
=============================================================================
