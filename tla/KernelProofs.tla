---------------------------- MODULE KernelProofs ----------------------------
(***************************************************************************)
(* Theorems about Kernel, for every number of tasks, priorities, events    *)
(* and message lengths, and about the kernel's ring buffer, CBuffer.       *)
(*                                                                         *)
(* The first part is about the invariant and what follows from it at once; *)
(* the second about the order of the queues, priorities, the refinement of *)
(* Rendezvous, and nobody being lost; the last about the ring.             *)
(***************************************************************************)
EXTENDS Kernel, CBuffer, SequenceTheorems, WellFoundedInduction, TLAPS

USE DEF NoTask, NoPrio, NoSender, NoRet

ReadyType == [queues : [Priorities -> Seq(Tids)], bits : SUBSET Priorities]
Exact(r)  == \A p \in Priorities : p \in r.bits <=> r.queues[p] # <<>>

-----------------------------------------------------------------------------
(***************************************************************************)
(* Queues.                                                                 *)
(***************************************************************************)

(* Appending t adds t to the members and keeps them distinct if it is new. *)
LEMMA AppendMembers ==
    ASSUME NEW S, NEW q \in Seq(S), NEW t \in S
    PROVE  /\ Append(q, t) \in Seq(S) /\ Append(q, t) # <<>>
           /\ \A u : InQueue(u, Append(q, t)) <=> InQueue(u, q) \/ u = t
           /\ Distinct(q) /\ ~InQueue(t, q) => Distinct(Append(q, t))
  <1>1. /\ Append(q, t) \in Seq(S)
        /\ Len(Append(q, t)) = Len(q) + 1
        /\ \A i \in 1 .. Len(q) : Append(q, t)[i] = q[i]
        /\ Append(q, t)[Len(q) + 1] = t
    BY AppendProperties
  <1>2. /\ Len(q) \in Nat /\ DOMAIN q = 1 .. Len(q)
        /\ DOMAIN Append(q, t) = 1 .. Len(q) + 1
    BY <1>1, LenProperties
  <1>3. Append(q, t) # <<>>
    BY <1>1, <1>2, EmptySeq
  <1>4. \A i \in DOMAIN Append(q, t) : i \in DOMAIN q \/ i = Len(q) + 1
    BY <1>2
  <1>5. \A u : InQueue(u, Append(q, t)) <=> InQueue(u, q) \/ u = t
    BY <1>1, <1>2, <1>4 DEF InQueue
  <1>6. Distinct(q) /\ ~InQueue(t, q) => Distinct(Append(q, t))
    BY <1>1, <1>2, <1>4 DEF InQueue, Distinct
  <1> QED BY <1>1, <1>3, <1>5, <1>6

(* Linking t in front of the head does the same. *)
LEMMA PrependMembers ==
    ASSUME NEW S, NEW q \in Seq(S), NEW t \in S
    PROVE  /\ <<t>> \o q \in Seq(S) /\ <<t>> \o q # <<>>
           /\ \A u : InQueue(u, <<t>> \o q) <=> InQueue(u, q) \/ u = t
           /\ Distinct(q) /\ ~InQueue(t, q) => Distinct(<<t>> \o q)
  <1>0. <<t>> \in Seq(S) /\ Len(<<t>>) = 1 /\ <<t>>[1] = t
    OBVIOUS
  <1>1. /\ <<t>> \o q \in Seq(S)
        /\ Len(<<t>> \o q) = Len(q) + 1
        /\ \A i \in 1 .. Len(q) + 1 : (<<t>> \o q)[i] = IF i <= 1 THEN t ELSE q[i - 1]
    BY <1>0, ConcatProperties, LenProperties
  <1>2. /\ Len(q) \in Nat /\ DOMAIN q = 1 .. Len(q)
        /\ DOMAIN (<<t>> \o q) = 1 .. Len(q) + 1
    BY <1>1, LenProperties
  <1>3. <<t>> \o q # <<>>
    BY <1>1, <1>2, EmptySeq
  <1>4. /\ 1 \in DOMAIN (<<t>> \o q) /\ (<<t>> \o q)[1] = t
        /\ \A i \in DOMAIN q : i + 1 \in DOMAIN (<<t>> \o q) /\ (<<t>> \o q)[i + 1] = q[i]
        /\ \A i \in DOMAIN (<<t>> \o q) :
              i = 1 \/ (i - 1 \in DOMAIN q /\ (<<t>> \o q)[i] = q[i - 1])
    BY <1>1, <1>2
  <1>5. \A u : InQueue(u, <<t>> \o q) <=> InQueue(u, q) \/ u = t
    BY <1>2, <1>4, ZenonT(40) DEF InQueue
  <1>6. Distinct(q) /\ ~InQueue(t, q) => Distinct(<<t>> \o q)
    BY <1>2, <1>4 DEF InQueue, Distinct
  <1> QED BY <1>1, <1>3, <1>5, <1>6

(* Unlinking the head removes it and nothing else. *)
LEMMA TailMembers ==
    ASSUME NEW S, NEW q \in Seq(S), q # <<>>
    PROVE  /\ Head(q) \in S /\ Tail(q) \in Seq(S) /\ InQueue(Head(q), q)
           /\ Tail(q) = <<>> <=> Len(q) = 1
           /\ \A u : InQueue(u, q) <=> u = Head(q) \/ InQueue(u, Tail(q))
           /\ Distinct(q) => Distinct(Tail(q)) /\ ~InQueue(Head(q), Tail(q))
  <1>1. /\ Head(q) \in S /\ Tail(q) \in Seq(S) /\ Len(Tail(q)) = Len(q) - 1
        /\ \A i \in 1 .. Len(Tail(q)) : Tail(q)[i] = q[i + 1]
    BY HeadTailProperties
  <1>2. /\ Len(q) \in Nat \ {0} /\ DOMAIN q = 1 .. Len(q)
        /\ DOMAIN Tail(q) = 1 .. Len(q) - 1
    BY <1>1, LenProperties, EmptySeq
  <1>3. Head(q) = q[1]
    OBVIOUS
  <1>4. Tail(q) = <<>> <=> Len(q) = 1
    BY <1>1, <1>2, EmptySeq
  <1>5. /\ \A i \in DOMAIN Tail(q) : i + 1 \in DOMAIN q /\ Tail(q)[i] = q[i + 1]
        /\ \A i \in DOMAIN q : i = 1 \/ (i - 1 \in DOMAIN Tail(q) /\ q[i] = Tail(q)[i - 1])
        /\ 1 \in DOMAIN q
    BY <1>1, <1>2
  <1>6. \A u : InQueue(u, q) <=> u = Head(q) \/ InQueue(u, Tail(q))
    BY <1>2, <1>3, <1>5 DEF InQueue
  <1>7. Distinct(q) => Distinct(Tail(q)) /\ ~InQueue(Head(q), Tail(q))
    BY <1>2, <1>3, <1>5 DEF InQueue, Distinct
  <1> QED BY <1>1, <1>3, <1>4, <1>5, <1>6, <1>7 DEF InQueue

-----------------------------------------------------------------------------
(***************************************************************************)
(* The scheduler's operations.                                             *)
(***************************************************************************)

(* n is r with task t added to the queue of priority p. *)
Joined(r, n, t, p) ==
    /\ n \in ReadyType
    /\ Exact(r) => Exact(n)
    /\ \A q \in Priorities : \A u :
          InQueue(u, n.queues[q]) <=> InQueue(u, r.queues[q]) \/ (q = p /\ u = t)
    /\ (\A q \in Priorities : Distinct(r.queues[q])) /\ ~InQueue(t, r.queues[p])
         => \A q \in Priorities : Distinct(n.queues[q])

(* n is r with task t, the head of queue p, taken off. *)
Left(r, n, t, p) ==
    /\ p \in Priorities /\ t \in Tids
    /\ n \in ReadyType
    /\ Exact(n)
    /\ InQueue(t, r.queues[p])
    /\ \A q \in Priorities : \A u :
          InQueue(u, r.queues[q]) <=> InQueue(u, n.queues[q]) \/ (q = p /\ u = t)
    /\ (\A q \in Priorities : Distinct(r.queues[q]))
         => /\ \A q \in Priorities : Distinct(n.queues[q])
            /\ ~InQueue(t, n.queues[p])
    /\ \A q \in Priorities : q < p => n.queues[q] = <<>>

(* queueTask: t joins the queue of priority p, the others are untouched,   *)
(* and the bitmap stays exact.                                             *)
LEMMA QueueTaskEffect ==
    ASSUME NEW r \in ReadyType, NEW t \in Tids, NEW p \in Priorities
    PROVE  Joined(r, QueueTask(r, t, p), t, p)
  <1> DEFINE n == QueueTask(r, t, p)
  <1>1. r.queues[p] \in Seq(Tids)
    BY DEF ReadyType
  <1>2. /\ Append(r.queues[p], t) \in Seq(Tids) /\ Append(r.queues[p], t) # <<>>
        /\ \A u : InQueue(u, Append(r.queues[p], t)) <=> InQueue(u, r.queues[p]) \/ u = t
        /\ Distinct(r.queues[p]) /\ ~InQueue(t, r.queues[p])
             => Distinct(Append(r.queues[p], t))
    BY <1>1, AppendMembers
  <1>3. /\ n.queues[p] = Append(r.queues[p], t)
        /\ \A q \in Priorities : q # p => n.queues[q] = r.queues[q]
    BY DEF QueueTask, ReadyType
  <1>4. n \in ReadyType
    BY <1>2 DEF QueueTask, ReadyType
  <1>5. Exact(r) => Exact(n)
    BY <1>2, <1>3 DEF QueueTask, Exact
  <1> QED BY <1>2, <1>3, <1>4, <1>5 DEF Joined

(* addToFront: likewise. *)
LEMMA AddToFrontEffect ==
    ASSUME NEW r \in ReadyType, NEW t \in Tids, NEW p \in Priorities
    PROVE  Joined(r, AddToFront(r, t, p), t, p)
  <1> DEFINE n == AddToFront(r, t, p)
  <1>1. r.queues[p] \in Seq(Tids)
    BY DEF ReadyType
  <1>2. /\ <<t>> \o r.queues[p] \in Seq(Tids) /\ <<t>> \o r.queues[p] # <<>>
        /\ \A u : InQueue(u, <<t>> \o r.queues[p]) <=> InQueue(u, r.queues[p]) \/ u = t
        /\ Distinct(r.queues[p]) /\ ~InQueue(t, r.queues[p])
             => Distinct(<<t>> \o r.queues[p])
    BY <1>1, PrependMembers
  <1>3. /\ n.queues[p] = <<t>> \o r.queues[p]
        /\ \A q \in Priorities : q # p => n.queues[q] = r.queues[q]
    BY DEF AddToFront, ReadyType
  <1>4. n \in ReadyType
    BY <1>2 DEF AddToFront, ReadyType
  <1>5. Exact(r) => Exact(n)
    BY <1>2, <1>3 DEF AddToFront, Exact
  <1> QED BY <1>2, <1>3, <1>4, <1>5 DEF Joined

(* A non-empty set of priorities has a lowest member, the one Highest picks. *)
LEMMA HighestIsLowestBit ==
    ASSUME NEW r \in ReadyType, r.bits # {}
    PROVE  Highest(r) \in r.bits /\ \A q \in r.bits : Highest(r) <= q
  <1>1. r.bits \subseteq Nat
    BY MaxPriorityAssumption DEF ReadyType, Priorities
  <1>2. \E p \in r.bits : \A q \in r.bits : ~(<<q, p>> \in OpToRel(<, Nat))
    BY <1>1, NatLessThanWellFounded, WFMin
  <1>3. \A p, q \in Nat : q < p => <<q, p>> \in OpToRel(<, Nat)
    BY DEF OpToRel
  <1>4. \A p, q \in Nat : ~(q < p) => p <= q
    OBVIOUS
  <1>5. \E p \in r.bits : \A q \in r.bits : p <= q
    BY <1>1, <1>2, <1>3, <1>4
  <1> QED BY <1>5 DEF Highest

(* schedule(): the head of the most urgent non-empty queue leaves it. *)
LEMMA DequeuedEffect ==
    ASSUME NEW r \in ReadyType, r.bits # {}, Exact(r)
    PROVE  Left(r, Dequeued(r), Scheduled(r), Highest(r))
  <1> DEFINE n == Dequeued(r)
             p == Highest(r)
             t == Scheduled(r)
  <1>1. /\ p \in r.bits /\ p \in Priorities
        /\ \A q \in r.bits : p <= q
    BY HighestIsLowestBit DEF ReadyType
  <1>2. r.queues[p] \in Seq(Tids) /\ r.queues[p] # <<>>
    BY <1>1 DEF ReadyType, Exact
  <1>3. /\ t \in Tids /\ Tail(r.queues[p]) \in Seq(Tids) /\ InQueue(t, r.queues[p])
        /\ Tail(r.queues[p]) = <<>> <=> Len(r.queues[p]) = 1
        /\ \A u : InQueue(u, r.queues[p]) <=> u = t \/ InQueue(u, Tail(r.queues[p]))
        /\ Distinct(r.queues[p])
             => Distinct(Tail(r.queues[p])) /\ ~InQueue(t, Tail(r.queues[p]))
    BY <1>2, TailMembers DEF Scheduled
  <1>4. /\ n.queues[p] = Tail(r.queues[p])
        /\ \A q \in Priorities : q # p => n.queues[q] = r.queues[q]
        /\ n.bits = IF Len(r.queues[p]) = 1 THEN r.bits \ {p} ELSE r.bits
    BY <1>1 DEF Dequeued, ReadyType
  <1>5. n \in ReadyType
    BY <1>1, <1>3 DEF Dequeued, ReadyType
  <1>6. Exact(n)
    BY <1>1, <1>3, <1>4 DEF Exact
  <1>7. \A q \in Priorities : q < p => n.queues[q] = <<>>
    <2> SUFFICES ASSUME NEW q \in Priorities, q < p
                 PROVE  n.queues[q] = <<>>
      OBVIOUS
    <2>1. q \notin r.bits /\ q # p
      BY <1>1 DEF Priorities
    <2> QED BY <2>1, <1>4 DEF Exact
  <1> QED BY <1>1, <1>3, <1>4, <1>5, <1>6, <1>7 DEF Left

-----------------------------------------------------------------------------
(***************************************************************************)
(* The inductive invariant.  TypeOK does not stand alone: that a woken     *)
(* task has a priority to be queued at follows from where it was found, so *)
(* typing, the places of tasks and the free part of the table are carried  *)
(* together.                                                               *)
(***************************************************************************)

LEMMA NoTaskIsNoTid == NoTask \notin Tids
  BY DEF Tids

LEMMA LengthsAreNumbers == \A l \in Lengths \cup {0} : l \in Nat /\ l \in Int
  <1>1. Lengths \subseteq Nat
    BY KernelAssumption
  <1> QED BY <1>1

LEMMA NoPrioIsNoPriority == NoPrio \notin Priorities
  BY MaxPriorityAssumption DEF Priorities

(* A descriptor without an id is idle, and those not given out have none. *)
Vacant ==
    /\ \A t \in Tids : ~Exists(t) => status[t] = "ready"
    /\ \A t \in Tids : t >= nextTid => ~Exists(t)

IInv ==
    /\ TypeOK
    /\ Vacant
    /\ OnePlace
    /\ BitmapExact
    /\ NoMissedRendezvous

LEMMA InitIInv == Init => IInv
  <1> SUFFICES ASSUME Init PROVE IInv
    OBVIOUS
  <1> USE DEF Init
  <1>1. 1 \in Tids /\ 0 \in Priorities
    BY KernelAssumption, MaxPriorityAssumption DEF Tids, Priorities
  <1>2. /\ NoneReady \in ReadyType /\ Exact(NoneReady)
        /\ \A q \in Priorities : Distinct(NoneReady.queues[q])
        /\ \A q \in Priorities : \A u : ~InQueue(u, NoneReady.queues[q])
    BY DEF NoneReady, ReadyType, Exact, Distinct, InQueue
  <1>3. /\ ready \in ReadyType /\ Exact(ready)
        /\ \A q \in Priorities : Distinct(ready.queues[q])
        /\ \A q \in Priorities : \A u : InQueue(u, ready.queues[q]) => q = 0 /\ u = 1
    <2>1. Joined(NoneReady, ready, 1, 0)
      BY <1>1, <1>2, QueueTaskEffect
    <2> QED BY <1>1, <1>2, <2>1 DEF Joined
  <1>4. TypeOK
    BY <1>1, <1>3, KernelAssumption, MaxPriorityAssumption
    DEF TypeOK, ReadyType, Status, Modes, Tids
  <1>5. Vacant
    BY DEF Vacant, Exists, Tids
  <1>6. OnePlace
    <2>1. ActiveReady
      BY DEF ActiveReady
    <2>2. ReadyQueuesSound
      <3>1. \A t \in Tids : t # active
        BY DEF Tids
      <3>2. \A p \in Priorities : \A t \in Tids :
              InQueue(t, Queue(p)) => prio[t] = p /\ status[t] = "ready"
        BY <1>3 DEF Queue
      <3> QED BY <1>3, <3>1, <3>2 DEF ReadyQueuesSound, Queue
    <2>3. Distinct(<<>>) /\ \A t : ~InQueue(t, <<>>)
      BY DEF Distinct, InQueue
    <2>4. SendQueuesSound
      BY <2>3 DEF SendQueuesSound
    <2>5. AwaitersSound
      BY DEF AwaitersSound
    <2> QED BY <2>1, <2>2, <2>4, <2>5 DEF OnePlace
  <1>7. BitmapExact /\ NoMissedRendezvous
    BY <1>3 DEF BitmapExact, Exact, Queue, NoMissedRendezvous
  <1> QED BY <1>4, <1>5, <1>6, <1>7 DEF IInv

(* The task on the processor is on no queue and in no event slot. *)
LEMMA ActiveFacts ==
    ASSUME IInv, InUserMode
    PROVE  /\ active \in Tids /\ active # NoTask
           /\ prio[active] \in Priorities /\ status[active] = "ready"
           /\ \A p \in Priorities : ~InQueue(active, Queue(p))
           /\ \A r \in Tids : ~InQueue(active, sendQueues[r])
           /\ \A e \in Events : eventTable[e] # active
           /\ ready \in ReadyType /\ Exact(ready)
           /\ \A p \in Priorities : Distinct(ready.queues[p])
  <1> USE DEF IInv, OnePlace
  <1>1. active \in Tids /\ active # NoTask /\ ready \in ReadyType
    BY DEF InUserMode, TypeOK, ReadyType
  <1>2. prio[active] \in Priorities /\ status[active] = "ready"
    BY <1>1 DEF ActiveReady, Exists, TypeOK
  <1>3. \A p \in Priorities : ~InQueue(active, Queue(p)) /\ Distinct(ready.queues[p])
    BY <1>1 DEF ReadyQueuesSound, Queue
  <1>4. \A r \in Tids : ~InQueue(active, sendQueues[r])
    BY <1>1, <1>2 DEF SendQueuesSound
  <1>5. \A e \in Events : eventTable[e] # active
    BY <1>1 DEF AwaitersSound
  <1>6. Exact(ready)
    BY DEF BitmapExact, Exact, Queue
  <1> QED BY <1>1, <1>2, <1>3, <1>4, <1>5, <1>6

(* A task in the event table has a priority and is on no ready queue. *)
LEMMA AwaiterFacts ==
    ASSUME IInv, NEW e \in Events, eventTable[e] # NoTask
    PROVE  LET w == eventTable[e] IN
           /\ w \in Tids /\ prio[w] \in Priorities /\ status[w] = "ready" /\ w # active
           /\ \A p \in Priorities : ~InQueue(w, Queue(p))
           /\ \A r \in Tids : ~InQueue(w, sendQueues[r])
  <1> DEFINE w == eventTable[e]
  <1> USE DEF IInv, OnePlace
  <1>1. w \in Tids
    BY DEF TypeOK
  <1>2. /\ prio[w] \in Priorities /\ status[w] = "ready" /\ w # active
        /\ ~InQueue(w, Queue(prio[w]))
    BY <1>1 DEF AwaitersSound, Exists, TypeOK
  <1>3. \A p \in Priorities : ~InQueue(w, Queue(p))
    BY <1>1, <1>2 DEF ReadyQueuesSound
  <1>4. \A r \in Tids : ~InQueue(w, sendQueues[r])
    BY <1>1, <1>2 DEF SendQueuesSound
  <1> QED BY <1>1, <1>2, <1>3, <1>4

(* A handler that only sends the active task to the end of its queue. *)
LEMMA ReturnKeepsIInv ==
    ASSUME IInv, InUserMode, NEW v \in Int, Return(v),
           UNCHANGED <<sendQueues, eventTable, nextTid, tdVars, heard, mode>>
    PROVE  IInv'
  <1> USE DEF Return, tdVars
  <1>1. ready' = QueueTask(ready, active, prio[active])
    OBVIOUS
  <1>2. /\ ready' \in ReadyType /\ Exact(ready')
        /\ \A q \in Priorities : Distinct(ready'.queues[q])
        /\ \A q \in Priorities : \A u :
             InQueue(u, ready'.queues[q])
               <=> InQueue(u, ready.queues[q]) \/ (q = prio[active] /\ u = active)
    <2>1. /\ ready \in ReadyType /\ active \in Tids /\ prio[active] \in Priorities
          /\ Exact(ready) /\ \A q \in Priorities : Distinct(ready.queues[q])
          /\ ~InQueue(active, ready.queues[prio[active]])
      BY ActiveFacts DEF Queue
    <2>2. Joined(ready, ready', active, prio[active])
      BY <1>1, <2>1, QueueTaskEffect
    <2> QED BY <2>1, <2>2 DEF Joined
  <1>3. TypeOK'
    BY <1>2, ActiveFacts DEF IInv, TypeOK, ReadyType
  <1>4. Vacant'
    BY DEF IInv, Vacant, Exists
  <1>5. ActiveReady' /\ SendQueuesSound'
    BY DEF IInv, OnePlace, ActiveReady, SendQueuesSound
  <1>6. ReadyQueuesSound'
    BY <1>2, ActiveFacts DEF IInv, OnePlace, ReadyQueuesSound, Queue, Tids
  <1>7. AwaitersSound'
    <2>1. \A e \in Events : eventTable[e] # NoTask
            => prio[eventTable[e]] \in Priorities /\ eventTable[e] # active
      BY AwaiterFacts, ActiveFacts
    <2> QED BY <1>2, <2>1 DEF IInv, OnePlace, AwaitersSound, Queue, Exists
  <1>8. BitmapExact' /\ NoMissedRendezvous'
    BY <1>2 DEF IInv, BitmapExact, Exact, Queue, NoMissedRendezvous
  <1> QED BY <1>3, <1>4, <1>5, <1>6, <1>7, <1>8 DEF IInv, OnePlace

(* A step that changes nothing but the mode. *)
LEMMA ModeKeepsIInv ==
    ASSUME IInv, mode' \in Modes,
           UNCHANGED <<ready, sendQueues, eventTable, nextTid, tdVars, outVars, active>>
    PROVE  IInv'
  <1> USE DEF tdVars, outVars
  <1>1. TypeOK'
    BY DEF IInv, TypeOK
  <1>2. Vacant' /\ BitmapExact' /\ NoMissedRendezvous'
    BY DEF IInv, Vacant, Exists, BitmapExact, NoMissedRendezvous, Queue
  <1>3. OnePlace'
    BY DEF IInv, OnePlace, ActiveReady, ReadyQueuesSound, SendQueuesSound, AwaitersSound,
           Exists, Queue
  <1> QED BY <1>1, <1>2, <1>3 DEF IInv

LEMMA RefuseKeepsIInv ==
    ASSUME IInv, InUserMode, NEW v \in Int, Refuse(v)
    PROVE  IInv'
  <1>1. CASE Production
    BY <1>1, ReturnKeepsIInv DEF Refuse
  <1>2. CASE ~Production
    BY <1>2, ModeKeepsIInv DEF Refuse, Modes, outVars
  <1> QED BY <1>1, <1>2

LEMMA ScheduleKeepsIInv ==
    ASSUME IInv, Schedule
    PROVE  IInv'
  <1>1. ready \in ReadyType /\ ready.bits # {} /\ Exact(ready)
    BY DEF Schedule, IInv, TypeOK, ReadyType, BitmapExact, Exact, Queue
  <1>2. Left(ready, ready', Scheduled(ready), Highest(ready))
    BY <1>1, DequeuedEffect DEF Schedule
  <1>3. PICK t \in Tids, p \in Priorities : Left(ready, ready', t, p) /\ t = Scheduled(ready)
    BY <1>2 DEF Left
  <1>4. /\ active' = t
        /\ ret' = [ret EXCEPT ![t] = NoRet] /\ heard' = [heard EXCEPT ![t] = NoTask]
        /\ UNCHANGED <<sendQueues, eventTable, nextTid, prio, parent, status,
                       originalReceiver, recvLen, sendLen, mode>>
    BY <1>3 DEF Schedule, tdVars
  <1>5. \A q \in Priorities : Distinct(ready.queues[q])
    BY DEF IInv, OnePlace, ReadyQueuesSound, Queue
  <1>6. /\ ready' \in ReadyType /\ Exact(ready')
        /\ InQueue(t, ready.queues[p]) /\ ~InQueue(t, ready'.queues[p])
        /\ \A q \in Priorities : \A u :
              InQueue(u, ready.queues[q]) <=> InQueue(u, ready'.queues[q]) \/ (q = p /\ u = t)
        /\ \A q \in Priorities : Distinct(ready'.queues[q])
    BY <1>3, <1>5 DEF Left
  <1>7. prio[t] = p /\ status[t] = "ready"
    BY <1>6 DEF IInv, OnePlace, ReadyQueuesSound, Queue
  <1>8. TypeOK'
    BY <1>4, <1>6 DEF IInv, TypeOK, ReadyType
  <1>9. Vacant' /\ BitmapExact' /\ NoMissedRendezvous'
    BY <1>4, <1>6 DEF IInv, Vacant, Exists, BitmapExact, Exact, NoMissedRendezvous, Queue
  <1>10. ActiveReady'
    BY <1>4, <1>7, NoPrioIsNoPriority DEF ActiveReady, Exists
  <1>11. ReadyQueuesSound'
    <2>1. \A q \in Priorities : \A u \in Tids : InQueue(u, ready'.queues[q]) =>
             prio[u] = q /\ status[u] = "ready" /\ u # t
      BY <1>6, <1>7 DEF IInv, OnePlace, ReadyQueuesSound, Queue
    <2> QED BY <1>4, <1>6, <2>1 DEF ReadyQueuesSound, Queue
  <1>12. SendQueuesSound'
    BY <1>4 DEF IInv, OnePlace, SendQueuesSound
  <1>13. AwaitersSound'
    <2>1. \A e \in Events : eventTable[e] # NoTask =>
             /\ prio[eventTable[e]] \in Priorities /\ eventTable[e] # t
             /\ ~InQueue(eventTable[e], ready'.queues[prio[eventTable[e]]])
      BY <1>6, AwaiterFacts DEF Queue
    <2> QED BY <1>4, <2>1 DEF IInv, OnePlace, AwaitersSound, Exists, Queue
  <1> QED BY <1>8, <1>9, <1>10, <1>11, <1>12, <1>13 DEF IInv, OnePlace

LEMMA SendToReceiverKeepsIInv ==
    ASSUME IInv, NEW tid \in Tids, NEW m \in Lengths, NEW l \in Lengths,
           SendToReceiver(tid, m, l)
    PROVE  IInv'
  <1>1. InUserMode /\ status[tid] = "receive_block"
    BY DEF SendToReceiver
  <1>2. /\ active' = NoTask
        /\ ret' = [ret EXCEPT ![tid] = m] /\ heard' = [heard EXCEPT ![tid] = active]
        /\ recvLen' = [recvLen EXCEPT ![active] = l, ![tid] = 0]
        /\ status' = [status EXCEPT ![active] = "reply_block", ![tid] = "ready"]
        /\ originalReceiver' = [originalReceiver EXCEPT ![active] = tid]
        /\ ready' = QueueTask(ready, tid, prio[tid])
        /\ UNCHANGED <<sendQueues, eventTable, nextTid, prio, parent, sendLen, mode>>
    BY DEF SendToReceiver, Bind
  <1>3. /\ active \in Tids /\ status[active] = "ready" /\ active # tid
        /\ prio[active] \in Priorities
        /\ ready \in ReadyType /\ Exact(ready)
        /\ \A q \in Priorities : Distinct(ready.queues[q]) /\ ~InQueue(active, ready.queues[q])
        /\ \A e \in Events : eventTable[e] # active
    BY <1>1, ActiveFacts DEF Queue
  <1>4. /\ prio[tid] \in Priorities
        /\ \A q \in Priorities : ~InQueue(tid, ready.queues[q])
        /\ \A r \in Tids : ~InQueue(tid, sendQueues[r]) /\ ~InQueue(active, sendQueues[r])
        /\ \A e \in Events : eventTable[e] # tid
    <2>1. prio[tid] \in Priorities
      BY <1>1 DEF IInv, Vacant, Exists, TypeOK
    <2>2. \A q \in Priorities : ~InQueue(tid, ready.queues[q])
      BY <1>1 DEF IInv, OnePlace, ReadyQueuesSound, Queue
    <2>3. \A r \in Tids : ~InQueue(tid, sendQueues[r]) /\ ~InQueue(active, sendQueues[r])
      BY <1>1, <1>3 DEF IInv, OnePlace, SendQueuesSound
    <2>4. \A e \in Events : eventTable[e] # tid
      BY <1>1, AwaiterFacts DEF Tids
    <2> QED BY <2>1, <2>2, <2>3, <2>4
  <1>5. Joined(ready, ready', tid, prio[tid])
    BY <1>2, <1>3, <1>4, QueueTaskEffect
  <1>6. /\ ready' \in ReadyType /\ Exact(ready')
        /\ \A q \in Priorities : \A u :
              InQueue(u, ready'.queues[q])
                <=> InQueue(u, ready.queues[q]) \/ (q = prio[tid] /\ u = tid)
        /\ \A q \in Priorities : Distinct(ready'.queues[q])
    BY <1>3, <1>4, <1>5 DEF Joined
  <1>7. /\ status'[active] = "reply_block" /\ status'[tid] = "ready"
        /\ \A u \in Tids : u # active /\ u # tid => status'[u] = status[u]
    BY <1>2, <1>3 DEF IInv, TypeOK
  <1>8. TypeOK'
    <2>1. /\ ret' \in [Tids -> Int] /\ heard' \in [Tids -> Tids \cup {NoTask}]
          /\ originalReceiver' \in [Tids -> Tids \cup {NoSender}]
      BY <1>2, <1>3, KernelAssumption DEF IInv, TypeOK
    <2>2. recvLen' \in [Tids -> Lengths \cup {0}] /\ status' \in [Tids -> Status]
      BY <1>2, <1>3 DEF IInv, TypeOK, Status
    <2> QED BY <1>2, <1>6, <2>1, <2>2 DEF IInv, TypeOK, ReadyType
  <1>9. Vacant'
    <2>1. Exists(active) /\ Exists(tid)
      BY <1>3, <1>4, NoPrioIsNoPriority DEF Exists
    <2>2. \A u \in Tids : Exists(u)' <=> Exists(u)
      BY <1>2 DEF Exists
    <2> QED BY <1>2, <1>7, <2>1, <2>2 DEF IInv, Vacant
  <1>10. BitmapExact' /\ NoMissedRendezvous'
    BY <1>2, <1>6, <1>7 DEF IInv, BitmapExact, Exact, NoMissedRendezvous, Queue
  <1>11. ActiveReady'
    BY <1>2 DEF ActiveReady
  <1>12. ReadyQueuesSound'
    <2>1. \A q \in Priorities : \A u \in Tids : InQueue(u, ready'.queues[q]) =>
             prio[u] = q /\ status'[u] = "ready"
      BY <1>3, <1>6, <1>7 DEF IInv, OnePlace, ReadyQueuesSound, Queue
    <2> QED BY <1>2, <1>6, <2>1, NoTaskIsNoTid DEF ReadyQueuesSound, Queue
  <1>13. SendQueuesSound'
    BY <1>2, <1>4, <1>7, ZenonT(40) DEF IInv, OnePlace, SendQueuesSound
  <1>14. AwaitersSound'
    <2>1. \A e \in Events : eventTable[e] # NoTask =>
             /\ status'[eventTable[e]] = "ready" /\ prio[eventTable[e]] \in Priorities
             /\ ~InQueue(eventTable[e], ready'.queues[prio[eventTable[e]]])
      BY <1>3, <1>4, <1>6, <1>7, AwaiterFacts DEF Queue
    <2> QED BY <1>2, <2>1 DEF IInv, OnePlace, AwaitersSound, Exists, Queue
  <1> QED BY <1>8, <1>9, <1>10, <1>11, <1>12, <1>13, <1>14 DEF IInv, OnePlace

LEMMA SendToQueueKeepsIInv ==
    ASSUME IInv, NEW tid \in Tids, NEW m \in Lengths, NEW l \in Lengths,
           SendToQueue(tid, m, l)
    PROVE  IInv'
  <1>1. InUserMode /\ status[tid] # "receive_block"
    BY DEF SendToQueue
  <1>2. /\ active' = NoTask
        /\ recvLen' = [recvLen EXCEPT ![active] = l]
        /\ sendLen' = [sendLen EXCEPT ![active] = m]
        /\ status' = [status EXCEPT ![active] = "send_block"]
        /\ sendQueues' = [sendQueues EXCEPT ![tid] = Append(@, active)]
        /\ UNCHANGED <<ready, eventTable, nextTid, prio, parent, originalReceiver,
                       outVars, mode>>
    BY DEF SendToQueue
  <1>3. /\ active \in Tids /\ status[active] = "ready" /\ prio[active] \in Priorities
        /\ \A q \in Priorities : ~InQueue(active, Queue(q))
        /\ \A r \in Tids : ~InQueue(active, sendQueues[r])
        /\ \A e \in Events : eventTable[e] # active
    BY <1>1, ActiveFacts
  <1>4. /\ status'[active] = "send_block"
        /\ \A u \in Tids : u # active => status'[u] = status[u]
    BY <1>2, <1>3 DEF IInv, TypeOK
  <1>5. /\ \A r \in Tids : sendQueues[r] \in Seq(Tids) /\ Distinct(sendQueues[r])
        /\ sendQueues' \in [Tids -> Seq(Tids)]
        /\ sendQueues'[tid] = Append(sendQueues[tid], active)
        /\ \A r \in Tids : r # tid => sendQueues'[r] = sendQueues[r]
    BY <1>2, <1>3, AppendMembers DEF IInv, TypeOK, OnePlace, SendQueuesSound
  <1>6. /\ \A r \in Tids : Distinct(sendQueues'[r])
        /\ \A r \in Tids : \A u :
             InQueue(u, sendQueues'[r]) <=> InQueue(u, sendQueues[r]) \/ (r = tid /\ u = active)
    <2>1. /\ \A u : InQueue(u, sendQueues'[tid]) <=> InQueue(u, sendQueues[tid]) \/ u = active
          /\ Distinct(sendQueues'[tid])
      BY <1>3, <1>5, AppendMembers
    <2> QED BY <1>5, <2>1
  <1>7. TypeOK'
    BY <1>2, <1>3, <1>5 DEF IInv, TypeOK, Status, outVars
  <1>8. Vacant'
    BY <1>2, <1>3, <1>4, NoPrioIsNoPriority DEF IInv, Vacant, Exists
  <1>9. BitmapExact' /\ NoMissedRendezvous'
    BY <1>1, <1>2, <1>4, <1>5 DEF IInv, BitmapExact, NoMissedRendezvous, Queue
  <1>10. ActiveReady'
    BY <1>2 DEF ActiveReady
  <1>11. ReadyQueuesSound'
    BY <1>2, <1>3, <1>4 DEF IInv, OnePlace, ReadyQueuesSound, Queue, Tids
  <1>12. SendQueuesSound'
    BY <1>3, <1>4, <1>6 DEF IInv, OnePlace, SendQueuesSound
  <1>13. AwaitersSound'
    BY <1>2, <1>3, <1>4, AwaiterFacts DEF IInv, OnePlace, AwaitersSound, Exists, Queue
  <1> QED BY <1>7, <1>8, <1>9, <1>10, <1>11, <1>12, <1>13 DEF IInv, OnePlace

LEMMA ReceiveBlockKeepsIInv ==
    ASSUME IInv, NEW m \in Lengths, ReceiveBlock(m)
    PROVE  IInv'
  <1>1. /\ InUserMode /\ sendQueues[active] = <<>>
        /\ active' = NoTask
        /\ recvLen' = [recvLen EXCEPT ![active] = m]
        /\ status' = [status EXCEPT ![active] = "receive_block"]
        /\ UNCHANGED <<ready, sendQueues, eventTable, nextTid, prio, parent,
                       originalReceiver, sendLen, outVars, mode>>
    BY DEF ReceiveBlock, NoSenderWaits
  <1>2. /\ active \in Tids /\ status[active] = "ready" /\ prio[active] \in Priorities
        /\ \A q \in Priorities : ~InQueue(active, Queue(q))
        /\ \A r \in Tids : ~InQueue(active, sendQueues[r])
        /\ \A e \in Events : eventTable[e] # active
    BY <1>1, ActiveFacts
  <1>3. /\ status'[active] = "receive_block"
        /\ \A u \in Tids : u # active => status'[u] = status[u]
    BY <1>1, <1>2 DEF IInv, TypeOK
  <1>4. TypeOK'
    BY <1>1, <1>2 DEF IInv, TypeOK, Status, outVars
  <1>5. Vacant'
    BY <1>1, <1>2, <1>3, NoPrioIsNoPriority DEF IInv, Vacant, Exists
  <1>6. BitmapExact' /\ NoMissedRendezvous'
    BY <1>1, <1>3 DEF IInv, BitmapExact, NoMissedRendezvous, Queue
  <1>7. ActiveReady' /\ ReadyQueuesSound'
    BY <1>1, <1>2, <1>3 DEF IInv, OnePlace, ActiveReady, ReadyQueuesSound, Queue, Tids
  <1>8. SendQueuesSound'
    BY <1>1, <1>2, <1>3 DEF IInv, OnePlace, SendQueuesSound
  <1>9. AwaitersSound'
    BY <1>1, <1>2, <1>3, AwaiterFacts DEF IInv, OnePlace, AwaitersSound, Exists, Queue
  <1> QED BY <1>4, <1>5, <1>6, <1>7, <1>8, <1>9 DEF IInv, OnePlace

LEMMA ReceiveQueuedKeepsIInv ==
    ASSUME IInv, ReceiveQueued
    PROVE  IInv'
  <1>1. InUserMode /\ sendQueues[active] # <<>>
    BY DEF ReceiveQueued, NoSenderWaits
  <1>2. PICK s : s = Head(sendQueues[active])
    OBVIOUS
  <1>3. /\ active' = NoTask
        /\ heard' = [heard EXCEPT ![active] = s]
        /\ status' = [status EXCEPT ![s] = "reply_block", ![active] = "ready"]
        /\ sendLen' = [sendLen EXCEPT ![s] = 0]
        /\ originalReceiver' = [originalReceiver EXCEPT ![s] = active]
        /\ ret' = [ret EXCEPT ![active] = sendLen[s]]
        /\ ready' = QueueTask(ready, active, prio[active])
        /\ sendQueues' = [sendQueues EXCEPT ![active] = Tail(@)]
        /\ UNCHANGED <<eventTable, nextTid, prio, parent, recvLen, mode>>
    BY <1>2 DEF ReceiveQueued, Return, Bind
  <1>4. /\ active \in Tids /\ status[active] = "ready" /\ prio[active] \in Priorities
        /\ ready \in ReadyType /\ Exact(ready)
        /\ \A q \in Priorities : Distinct(ready.queues[q]) /\ ~InQueue(active, ready.queues[q])
        /\ \A e \in Events : eventTable[e] # active
    BY <1>1, ActiveFacts DEF Queue
  <1>5. /\ s \in Tids /\ Tail(sendQueues[active]) \in Seq(Tids)
        /\ \A u : InQueue(u, sendQueues[active])
                    <=> u = s \/ InQueue(u, Tail(sendQueues[active]))
        /\ Distinct(Tail(sendQueues[active])) /\ ~InQueue(s, Tail(sendQueues[active]))
    <2>1. sendQueues[active] \in Seq(Tids) /\ Distinct(sendQueues[active])
      BY <1>4 DEF IInv, TypeOK, OnePlace, SendQueuesSound
    <2> QED BY <1>1, <1>2, <2>1, TailMembers
  <1>6. /\ status[s] = "send_block" /\ s # active
        /\ prio[s] \in Priorities
        /\ \A r \in Tids : InQueue(s, sendQueues[r]) => r = active
        /\ \A q \in Priorities : ~InQueue(s, ready.queues[q])
        /\ \A e \in Events : eventTable[e] # s
    <2>1. status[s] = "send_block" /\ \A r \in Tids : InQueue(s, sendQueues[r]) => r = active
      BY <1>4, <1>5 DEF IInv, OnePlace, SendQueuesSound
    <2>2. s # active
      BY <1>4, <2>1
    <2>3. prio[s] \in Priorities
      BY <1>5, <2>1 DEF IInv, Vacant, Exists, TypeOK
    <2>4. \A q \in Priorities : ~InQueue(s, ready.queues[q])
      BY <1>5, <2>1 DEF IInv, OnePlace, ReadyQueuesSound, Queue
    <2>5. \A e \in Events : eventTable[e] # s
      BY <1>5, <2>1, AwaiterFacts, NoTaskIsNoTid
    <2> QED BY <2>1, <2>2, <2>3, <2>4, <2>5
  <1>7. Joined(ready, ready', active, prio[active])
    BY <1>3, <1>4, QueueTaskEffect
  <1>8. /\ ready' \in ReadyType /\ Exact(ready')
        /\ \A q \in Priorities : \A u :
              InQueue(u, ready'.queues[q])
                <=> InQueue(u, ready.queues[q]) \/ (q = prio[active] /\ u = active)
        /\ \A q \in Priorities : Distinct(ready'.queues[q])
    BY <1>4, <1>7 DEF Joined
  <1>9. /\ status'[s] = "reply_block" /\ status'[active] = "ready"
        /\ \A u \in Tids : u # active /\ u # s => status'[u] = status[u]
    BY <1>3, <1>4, <1>5, <1>6 DEF IInv, TypeOK
  <1>10. /\ sendQueues' \in [Tids -> Seq(Tids)]
         /\ sendQueues'[active] = Tail(sendQueues[active])
         /\ \A r \in Tids : r # active => sendQueues'[r] = sendQueues[r]
    BY <1>3, <1>4, <1>5 DEF IInv, TypeOK
  <1>11. TypeOK'
    <2>1. sendLen[s] \in Int
      <3>1. sendLen[s] \in Lengths \cup {0}
        BY <1>5 DEF IInv, TypeOK
      <3> QED BY <3>1, LengthsAreNumbers
    <2>2. /\ ret' \in [Tids -> Int] /\ heard' \in [Tids -> Tids \cup {NoTask}]
          /\ originalReceiver' \in [Tids -> Tids \cup {NoSender}]
      BY <1>3, <1>4, <1>5, <2>1 DEF IInv, TypeOK
    <2>3. sendLen' \in [Tids -> Lengths \cup {0}] /\ status' \in [Tids -> Status]
      BY <1>3, <1>4, <1>5 DEF IInv, TypeOK, Status
    <2> QED BY <1>3, <1>8, <1>10, <2>2, <2>3 DEF IInv, TypeOK, ReadyType
  <1>12. Vacant'
    <2>1. Exists(active) /\ Exists(s)
      BY <1>4, <1>6, NoPrioIsNoPriority DEF Exists
    <2>2. \A u \in Tids : Exists(u)' <=> Exists(u)
      BY <1>3 DEF Exists
    <2> QED BY <1>3, <1>9, <2>1, <2>2 DEF IInv, Vacant
  <1>13. BitmapExact' /\ NoMissedRendezvous'
    BY <1>3, <1>8, <1>9, <1>10 DEF IInv, BitmapExact, Exact, NoMissedRendezvous, Queue
  <1>14. ActiveReady'
    BY <1>3 DEF ActiveReady
  <1>15. ReadyQueuesSound'
    <2>1. \A q \in Priorities : \A u \in Tids : InQueue(u, ready'.queues[q]) =>
             prio[u] = q /\ status'[u] = "ready"
      BY <1>4, <1>6, <1>8, <1>9 DEF IInv, OnePlace, ReadyQueuesSound, Queue
    <2> QED BY <1>3, <1>8, <2>1, NoTaskIsNoTid DEF ReadyQueuesSound, Queue
  <1>16. SendQueuesSound'
    <2>1. \A r \in Tids : \A u \in Tids : InQueue(u, sendQueues'[r]) =>
             InQueue(u, sendQueues[r]) /\ u # s
      BY <1>5, <1>6, <1>10
    <2>2. \A r \in Tids : Distinct(sendQueues'[r])
      BY <1>5, <1>10 DEF IInv, OnePlace, SendQueuesSound
    <2>3. \A r \in Tids : \A u \in Tids : InQueue(u, sendQueues[r]) =>
             /\ status[u] = "send_block"
             /\ \A r2 \in Tids : InQueue(u, sendQueues[r2]) => r2 = r
      BY DEF IInv, OnePlace, SendQueuesSound
    <2>4. \A r \in Tids : \A u \in Tids : InQueue(u, sendQueues'[r]) =>
             status'[u] = "send_block"
      BY <1>4, <1>9, <2>1, <2>3
    <2> QED BY <2>1, <2>2, <2>3, <2>4 DEF SendQueuesSound
  <1>17. AwaitersSound'
    <2>1. \A e \in Events : eventTable[e] # NoTask =>
             /\ status'[eventTable[e]] = "ready" /\ prio[eventTable[e]] \in Priorities
             /\ ~InQueue(eventTable[e], ready'.queues[prio[eventTable[e]]])
      BY <1>4, <1>6, <1>8, <1>9, AwaiterFacts DEF Queue
    <2> QED BY <1>3, <2>1 DEF IInv, OnePlace, AwaitersSound, Exists, Queue
  <1> QED BY <1>11, <1>12, <1>13, <1>14, <1>15, <1>16, <1>17 DEF IInv, OnePlace

LEMMA ReplyKeepsIInv ==
    ASSUME IInv, NEW tid \in Tids, NEW l \in Lengths, Reply(tid, l)
    PROVE  IInv'
  <1>1. InUserMode /\ status[tid] = "reply_block"
    BY DEF Reply, MayReply
  <1>2. PICK mid : mid = QueueTask(ready, tid, prio[tid])
    OBVIOUS
  <1>3. /\ active' = NoTask
        /\ ret' = [ret EXCEPT ![active] = IF l > recvLen[tid] THEN -4 ELSE 0, ![tid] = l]
        /\ recvLen' = [recvLen EXCEPT ![tid] = 0]
        /\ originalReceiver' = [originalReceiver EXCEPT ![tid] = NoSender]
        /\ status' = [status EXCEPT ![active] = "ready", ![tid] = "ready"]
        /\ ready' = QueueTask(mid, active, prio[active])
        /\ UNCHANGED <<sendQueues, eventTable, nextTid, prio, parent, sendLen, heard, mode>>
    BY <1>2 DEF Reply
  <1>4. /\ active \in Tids /\ status[active] = "ready" /\ prio[active] \in Priorities
        /\ active # tid
        /\ ready \in ReadyType /\ Exact(ready)
        /\ \A q \in Priorities : Distinct(ready.queues[q]) /\ ~InQueue(active, ready.queues[q])
        /\ \A e \in Events : eventTable[e] # active
    BY <1>1, ActiveFacts DEF Queue
  <1>5. /\ prio[tid] \in Priorities
        /\ \A q \in Priorities : ~InQueue(tid, ready.queues[q])
        /\ \A r \in Tids : ~InQueue(tid, sendQueues[r]) /\ ~InQueue(active, sendQueues[r])
        /\ \A e \in Events : eventTable[e] # tid
    <2>1. prio[tid] \in Priorities
      BY <1>1 DEF IInv, Vacant, Exists, TypeOK
    <2>2. \A q \in Priorities : ~InQueue(tid, ready.queues[q])
      BY <1>1 DEF IInv, OnePlace, ReadyQueuesSound, Queue
    <2>3. \A r \in Tids : ~InQueue(tid, sendQueues[r]) /\ ~InQueue(active, sendQueues[r])
      BY <1>1, <1>4 DEF IInv, OnePlace, SendQueuesSound
    <2>4. \A e \in Events : eventTable[e] # tid
      BY <1>1, AwaiterFacts, NoTaskIsNoTid
    <2> QED BY <2>1, <2>2, <2>3, <2>4
  <1>6. Joined(ready, mid, tid, prio[tid])
    BY <1>2, <1>4, <1>5, QueueTaskEffect
  <1>7. /\ mid \in ReadyType /\ Exact(mid)
        /\ \A q \in Priorities : \A u :
              InQueue(u, mid.queues[q])
                <=> InQueue(u, ready.queues[q]) \/ (q = prio[tid] /\ u = tid)
        /\ \A q \in Priorities : Distinct(mid.queues[q]) /\ ~InQueue(active, mid.queues[q])
    BY <1>4, <1>5, <1>6 DEF Joined
  <1>8. Joined(mid, ready', active, prio[active])
    BY <1>3, <1>4, <1>7, QueueTaskEffect
  <1>9. /\ ready' \in ReadyType /\ Exact(ready')
        /\ \A q \in Priorities : \A u :
              InQueue(u, ready'.queues[q])
                <=> (InQueue(u, ready.queues[q]) \/ (q = prio[tid] /\ u = tid)
                                                \/ (q = prio[active] /\ u = active))
        /\ \A q \in Priorities : Distinct(ready'.queues[q])
    BY <1>4, <1>7, <1>8 DEF Joined
  <1>10. /\ status'[active] = "ready" /\ status'[tid] = "ready"
         /\ \A u \in Tids : u # active /\ u # tid => status'[u] = status[u]
    BY <1>3, <1>4 DEF IInv, TypeOK
  <1>11. TypeOK'
    <2>1. (IF l > recvLen[tid] THEN -4 ELSE 0) \in Int /\ l \in Int
      BY KernelAssumption
    <2>2. /\ ret' \in [Tids -> Int]
          /\ originalReceiver' \in [Tids -> Tids \cup {NoSender}]
          /\ recvLen' \in [Tids -> Lengths \cup {0}]
      BY <1>3, <1>4, <2>1 DEF IInv, TypeOK
    <2>3. status' \in [Tids -> Status]
      BY <1>3, <1>4 DEF IInv, TypeOK, Status
    <2> QED BY <1>3, <1>9, <2>2, <2>3 DEF IInv, TypeOK, ReadyType
  <1>12. Vacant'
    <2>1. Exists(active) /\ Exists(tid)
      BY <1>4, <1>5, NoPrioIsNoPriority DEF Exists
    <2>2. \A u \in Tids : Exists(u)' <=> Exists(u)
      BY <1>3 DEF Exists
    <2> QED BY <1>3, <1>10, <2>1, <2>2 DEF IInv, Vacant
  <1>13. BitmapExact' /\ NoMissedRendezvous'
    BY <1>3, <1>9, <1>10 DEF IInv, BitmapExact, Exact, NoMissedRendezvous, Queue
  <1>14. ActiveReady'
    BY <1>3 DEF ActiveReady
  <1>15. ReadyQueuesSound'
    <2>1. \A q \in Priorities : \A u \in Tids : InQueue(u, ready'.queues[q]) =>
             prio[u] = q /\ status'[u] = "ready"
      BY <1>4, <1>9, <1>10 DEF IInv, OnePlace, ReadyQueuesSound, Queue
    <2> QED BY <1>3, <1>9, <2>1, NoTaskIsNoTid DEF ReadyQueuesSound, Queue
  <1>16. SendQueuesSound'
    BY <1>3, <1>5, <1>10, ZenonT(40) DEF IInv, OnePlace, SendQueuesSound
  <1>17. AwaitersSound'
    <2>1. \A e \in Events : eventTable[e] # NoTask =>
             /\ status'[eventTable[e]] = "ready" /\ prio[eventTable[e]] \in Priorities
             /\ ~InQueue(eventTable[e], ready'.queues[prio[eventTable[e]]])
      BY <1>4, <1>5, <1>9, <1>10, AwaiterFacts DEF Queue
    <2> QED BY <1>3, <2>1 DEF IInv, OnePlace, AwaitersSound, Exists, Queue
  <1> QED BY <1>11, <1>12, <1>13, <1>14, <1>15, <1>16, <1>17 DEF IInv, OnePlace

LEMMA AwaitEventKeepsIInv ==
    ASSUME IInv, NEW e \in Events, AwaitEvent(e)
    PROVE  IInv'
  <1>1. /\ InUserMode /\ active' = NoTask
        /\ eventTable' = [eventTable EXCEPT ![e] = active]
        /\ UNCHANGED <<ready, sendQueues, nextTid, prio, parent, status, originalReceiver,
                       recvLen, sendLen, outVars, mode>>
    BY DEF AwaitEvent, tdVars
  <1>2. /\ active \in Tids /\ status[active] = "ready" /\ prio[active] \in Priorities
        /\ \A q \in Priorities : ~InQueue(active, Queue(q))
        /\ \A f \in Events : eventTable[f] # active
    BY <1>1, ActiveFacts
  <1>3. eventTable'[e] = active /\ \A f \in Events : f # e => eventTable'[f] = eventTable[f]
    BY <1>1 DEF IInv, TypeOK
  <1>4. TypeOK'
    BY <1>1, <1>2 DEF IInv, TypeOK, outVars
  <1>5. Vacant' /\ BitmapExact' /\ NoMissedRendezvous'
    BY <1>1 DEF IInv, Vacant, Exists, BitmapExact, NoMissedRendezvous, Queue
  <1>6. ActiveReady' /\ SendQueuesSound'
    BY <1>1 DEF IInv, OnePlace, ActiveReady, SendQueuesSound
  <1>7. ReadyQueuesSound'
    BY <1>1, NoTaskIsNoTid DEF IInv, OnePlace, ReadyQueuesSound, Queue
  <1>8. AwaitersSound'
    <2>1. \A f \in Events : eventTable'[f] # NoTask =>
             /\ status[eventTable'[f]] = "ready" /\ Exists(eventTable'[f])
             /\ ~InQueue(eventTable'[f], Queue(prio[eventTable'[f]]))
      BY <1>2, <1>3, NoPrioIsNoPriority DEF IInv, OnePlace, AwaitersSound, Exists
    <2>2. \A f, g \in Events : eventTable'[f] # NoTask /\ eventTable'[g] = eventTable'[f] => g = f
      BY <1>2, <1>3 DEF IInv, OnePlace, AwaitersSound
    <2> QED BY <1>1, <2>1, <2>2 DEF AwaitersSound, Exists, Queue
  <1> QED BY <1>4, <1>5, <1>6, <1>7, <1>8 DEF IInv, OnePlace

(* The scheduler's state after the waiter w, if there is one, is queued. *)
Woken(mid, w) ==
    /\ mid \in ReadyType /\ Exact(mid)
    /\ \A q \in Priorities : Distinct(mid.queues[q])
    /\ \A q \in Priorities : \A u : InQueue(u, mid.queues[q]) <=>
          (InQueue(u, ready.queues[q]) \/ (w # NoTask /\ q = prio[w] /\ u = w))

(* The second half of an interrupt, after the waiter is woken. *)
LEMMA InterruptedKeepsIInv ==
    ASSUME IInv, InUserMode, NEW e \in Events,
           NEW mid, NEW w, Woken(mid, w),
           \/ w = NoTask /\ UNCHANGED eventTable
           \/ /\ w = eventTable[e] /\ eventTable' = [eventTable EXCEPT ![e] = NoTask],
           ready' = AddToFront(mid, active, prio[active]),
           ret' \in [Tids -> Int],
           active' = NoTask,
           UNCHANGED <<sendQueues, nextTid, tdVars, heard, mode>>
    PROVE  IInv'
  <1> USE DEF tdVars, Woken
  <1>1. /\ active \in Tids /\ status[active] = "ready" /\ prio[active] \in Priorities
        /\ \A q \in Priorities : ~InQueue(active, ready.queues[q])
        /\ \A f \in Events : eventTable[f] # active
    BY ActiveFacts DEF Queue
  <1>2. /\ w # active
        /\ w # NoTask => w \in Tids /\ status[w] = "ready"
    BY <1>1, AwaiterFacts, NoTaskIsNoTid
  <1>3. Joined(mid, ready', active, prio[active])
    BY <1>1, AddToFrontEffect
  <1>4. \A q \in Priorities : ~InQueue(active, mid.queues[q])
    BY <1>1, <1>2
  <1>5. /\ ready' \in ReadyType /\ Exact(ready')
        /\ \A q \in Priorities : \A u :
              InQueue(u, ready'.queues[q])
                <=> (InQueue(u, ready.queues[q]) \/ (w # NoTask /\ q = prio[w] /\ u = w)
                                                \/ (q = prio[active] /\ u = active))
        /\ \A q \in Priorities : Distinct(ready'.queues[q])
    BY <1>1, <1>3, <1>4 DEF Joined
  <1>6. /\ eventTable' \in [Events -> Tids \cup {NoTask}]
        /\ \A f \in Events : eventTable'[f] # NoTask =>
              eventTable'[f] = eventTable[f] /\ (w # NoTask => eventTable[f] # w)
    BY DEF IInv, TypeOK, OnePlace, AwaitersSound
  <1>7. TypeOK'
    BY <1>5, <1>6 DEF IInv, TypeOK, ReadyType
  <1>8. Vacant' /\ BitmapExact' /\ NoMissedRendezvous'
    BY <1>5 DEF IInv, Vacant, Exists, BitmapExact, Exact, NoMissedRendezvous, Queue
  <1>9. ActiveReady' /\ SendQueuesSound'
    BY DEF IInv, OnePlace, ActiveReady, SendQueuesSound
  <1>10. ReadyQueuesSound'
    <2>1. \A q \in Priorities : \A u \in Tids : InQueue(u, ready'.queues[q]) =>
             prio[u] = q /\ status[u] = "ready"
      BY <1>1, <1>2, <1>5 DEF IInv, OnePlace, ReadyQueuesSound, Queue
    <2> QED BY <1>5, <2>1, NoTaskIsNoTid DEF ReadyQueuesSound, Queue
  <1>11. AwaitersSound'
    <2>1. \A f \in Events : eventTable'[f] # NoTask =>
             /\ status[eventTable'[f]] = "ready" /\ Exists(eventTable'[f])
             /\ ~InQueue(eventTable'[f], ready'.queues[prio[eventTable'[f]]])
      <3> SUFFICES ASSUME NEW f \in Events, eventTable'[f] # NoTask
                   PROVE  /\ status[eventTable[f]] = "ready" /\ Exists(eventTable[f])
                          /\ ~InQueue(eventTable[f], ready'.queues[prio[eventTable[f]]])
        BY <1>6
      <3>1. /\ prio[eventTable[f]] \in Priorities /\ status[eventTable[f]] = "ready"
            /\ \A q \in Priorities : ~InQueue(eventTable[f], ready.queues[q])
            /\ eventTable[f] # active /\ (w # NoTask => eventTable[f] # w)
        BY <1>1, <1>6, AwaiterFacts DEF Queue
      <3> QED BY <1>5, <3>1, NoPrioIsNoPriority DEF Exists
    <2>2. \A f, g \in Events : eventTable'[f] # NoTask /\ eventTable'[g] = eventTable'[f] => g = f
      BY <1>6 DEF IInv, OnePlace, AwaitersSound
    <2> QED BY <2>1, <2>2, NoTaskIsNoTid DEF AwaitersSound, Exists, Queue
  <1> QED BY <1>7, <1>8, <1>9, <1>10, <1>11 DEF IInv, OnePlace

LEMMA InterruptKeepsIInv ==
    ASSUME IInv, NEW e \in Events, Interrupt(e)
    PROVE  IInv'
  <1>0. PICK w : w = eventTable[e]
    OBVIOUS
  <1>1. /\ InUserMode /\ active' = NoTask
        /\ ready' = AddToFront(IF w = NoTask THEN ready ELSE QueueTask(ready, w, prio[w]),
                               active, prio[active])
        /\ ret' = IF w = NoTask THEN ret ELSE [ret EXCEPT ![w] = 0]
        /\ eventTable' = [eventTable EXCEPT ![e] = NoTask]
        /\ UNCHANGED <<sendQueues, nextTid, tdVars, heard, mode>>
    BY <1>0 DEF Interrupt
  <1>2. /\ ready \in ReadyType /\ Exact(ready)
        /\ \A q \in Priorities : Distinct(ready.queues[q])
    BY <1>1, ActiveFacts
  <1>3. ret' \in [Tids -> Int]
    BY <1>0, <1>1 DEF IInv, TypeOK
  <1>4. CASE w = NoTask
    <2>1. ready' = AddToFront(ready, active, prio[active]) /\ UNCHANGED eventTable
      BY <1>0, <1>1, <1>4 DEF IInv, TypeOK
    <2>2. Woken(ready, w)
      BY <1>2, <1>4 DEF Woken
    <2> QED BY <1>1, <1>3, <1>4, <2>1, <2>2, InterruptedKeepsIInv
  <1>5. CASE w # NoTask
    <2>1. /\ w \in Tids /\ prio[w] \in Priorities
          /\ \A q \in Priorities : ~InQueue(w, ready.queues[q])
      BY <1>0, <1>5, AwaiterFacts DEF Queue
    <2>2. PICK mid : mid = QueueTask(ready, w, prio[w])
      OBVIOUS
    <2>3. Joined(ready, mid, w, prio[w])
      BY <1>2, <2>1, <2>2, QueueTaskEffect
    <2>4. /\ mid \in ReadyType /\ Exact(mid)
          /\ \A q \in Priorities : Distinct(mid.queues[q])
          /\ \A q \in Priorities : \A u : InQueue(u, mid.queues[q]) <=>
                (InQueue(u, ready.queues[q]) \/ (w # NoTask /\ q = prio[w] /\ u = w))
      BY <1>2, <1>5, <2>1, <2>3 DEF Joined
    <2>5. Woken(mid, w)
      BY <2>4 DEF Woken
    <2>6. ready' = AddToFront(mid, active, prio[active])
      BY <1>1, <1>5, <2>2
    <2> QED BY <1>0, <1>1, <1>3, <2>5, <2>6, InterruptedKeepsIInv
  <1> QED BY <1>4, <1>5

LEMMA SilentInterruptKeepsIInv ==
    ASSUME IInv, SilentInterrupt
    PROVE  IInv'
  <1>1. /\ InUserMode /\ active' = NoTask
        /\ ready' = AddToFront(ready, active, prio[active])
        /\ UNCHANGED <<sendQueues, eventTable, nextTid, prio, parent, status, originalReceiver,
                       recvLen, sendLen, ret, heard, mode>>
    BY DEF SilentInterrupt, tdVars, outVars
  <1>2. /\ active \in Tids /\ status[active] = "ready" /\ prio[active] \in Priorities
        /\ ready \in ReadyType /\ Exact(ready)
        /\ \A q \in Priorities : ~InQueue(active, ready.queues[q]) /\ Distinct(ready.queues[q])
        /\ \A f \in Events : eventTable[f] # active
    BY <1>1, ActiveFacts DEF Queue
  <1>3. Joined(ready, ready', active, prio[active])
    BY <1>1, <1>2, AddToFrontEffect
  <1>4. /\ ready' \in ReadyType /\ Exact(ready')
        /\ \A q \in Priorities : \A u :
              InQueue(u, ready'.queues[q])
                <=> InQueue(u, ready.queues[q]) \/ (q = prio[active] /\ u = active)
        /\ \A q \in Priorities : Distinct(ready'.queues[q])
    BY <1>2, <1>3 DEF Joined
  <1>5. TypeOK'
    BY <1>1, <1>4 DEF IInv, TypeOK, ReadyType
  <1>6. Vacant' /\ BitmapExact' /\ NoMissedRendezvous'
    BY <1>1, <1>4 DEF IInv, Vacant, Exists, BitmapExact, Exact, NoMissedRendezvous, Queue
  <1>7. ActiveReady' /\ SendQueuesSound'
    BY <1>1 DEF IInv, OnePlace, ActiveReady, SendQueuesSound
  <1>8. ReadyQueuesSound'
    <2>1. \A q \in Priorities : \A u \in Tids : InQueue(u, ready'.queues[q]) =>
             prio[u] = q /\ status[u] = "ready"
      BY <1>2, <1>4 DEF IInv, OnePlace, ReadyQueuesSound, Queue
    <2> QED BY <1>1, <1>4, <2>1, NoTaskIsNoTid DEF ReadyQueuesSound, Queue
  <1>9. AwaitersSound'
    <2>1. \A f \in Events : eventTable[f] # NoTask =>
             /\ prio[eventTable[f]] \in Priorities
             /\ ~InQueue(eventTable[f], ready'.queues[prio[eventTable[f]]])
      BY <1>2, <1>4, AwaiterFacts DEF Queue
    <2> QED BY <1>1, <2>1 DEF IInv, OnePlace, AwaitersSound, Exists, Queue
  <1> QED BY <1>5, <1>6, <1>7, <1>8, <1>9 DEF IInv, OnePlace

LEMMA ExitKeepsIInv ==
    ASSUME IInv, Exit
    PROVE  IInv'
  <1>1. /\ InUserMode /\ active' = NoTask
        /\ prio' = [prio EXCEPT ![active] = NoPrio]
        /\ parent' = [parent EXCEPT ![active] = NoTask]
        /\ status' = [status EXCEPT ![active] = "ready"]
        /\ recvLen' = [recvLen EXCEPT ![active] = 0]
        /\ sendLen' = [sendLen EXCEPT ![active] = 0]
        /\ UNCHANGED <<ready, sendQueues, eventTable, nextTid, originalReceiver, ret, heard, mode>>
    BY DEF Exit, outVars
  <1>2. /\ active \in Tids /\ status[active] = "ready"
        /\ \A q \in Priorities : ~InQueue(active, Queue(q))
        /\ \A f \in Events : eventTable[f] # active
    BY <1>1, ActiveFacts
  <1>3. /\ status' = status
        /\ prio'[active] = NoPrio
        /\ \A u \in Tids : u # active => prio'[u] = prio[u]
    BY <1>1, <1>2 DEF IInv, TypeOK
  <1>4. TypeOK'
    BY <1>1, <1>2, <1>3 DEF IInv, TypeOK
  <1>5. Vacant'
    BY <1>1, <1>2, <1>3 DEF IInv, Vacant, Exists
  <1>6. BitmapExact' /\ NoMissedRendezvous'
    BY <1>1, <1>3 DEF IInv, BitmapExact, NoMissedRendezvous, Queue
  <1>7. ActiveReady' /\ SendQueuesSound'
    BY <1>1, <1>3 DEF IInv, OnePlace, ActiveReady, SendQueuesSound
  <1>8. ReadyQueuesSound'
    BY <1>1, <1>2, <1>3, NoTaskIsNoTid DEF IInv, OnePlace, ReadyQueuesSound, Queue
  <1>9. AwaitersSound'
    <2>1. \A f \in Events : eventTable[f] # NoTask => eventTable[f] \in Tids
      BY DEF IInv, TypeOK
    <2> QED BY <1>1, <1>2, <1>3, <2>1 DEF IInv, OnePlace, AwaitersSound, Exists, Queue
  <1> QED BY <1>4, <1>5, <1>6, <1>7, <1>8, <1>9 DEF IInv, OnePlace

LEMMA CreateKeepsIInv ==
    ASSUME IInv, NEW p \in -1 .. MaxPriority, NEW failure \in Int, Create(p, failure)
    PROVE  IInv'
  <1>1. CASE CreateResult(p) < 0
    BY <1>1, ReturnKeepsIInv DEF Create, tdVars
  <1>2. CASE ~(CreateResult(p) < 0)
    <2>1. PICK new : new = nextTid
      OBVIOUS
    <2>2. /\ CreateResult(p) = new /\ p \in Priorities
          /\ new \in Tids /\ new < MaxTasks /\ new \in Nat
      BY <1>2, <2>1, KernelAssumption DEF CreateResult, IInv, TypeOK, Tids
    <2>3. PICK mid : mid = QueueTask(ready, new, p)
      OBVIOUS
    <2>4. /\ InUserMode /\ active' = NoTask
          /\ nextTid' = nextTid + 1
          /\ prio' = [prio EXCEPT ![new] = p]
          /\ parent' = [parent EXCEPT ![new] = active]
          /\ ret' = [ret EXCEPT ![active] = new]
          /\ ready' = QueueTask(mid, active, prio[active])
          /\ UNCHANGED <<sendQueues, eventTable, status, originalReceiver, recvLen,
                         sendLen, heard, mode>>
      BY <1>2, <2>2, <2>3 DEF Create
    <2>5. /\ active \in Tids /\ status[active] = "ready" /\ prio[active] \in Priorities
          /\ ready \in ReadyType /\ Exact(ready)
          /\ \A q \in Priorities : ~InQueue(active, ready.queues[q]) /\ Distinct(ready.queues[q])
          /\ \A f \in Events : eventTable[f] # active
      BY <2>4, ActiveFacts DEF Queue
    <2>6. /\ ~Exists(new) /\ status[new] = "ready" /\ new # active
          /\ \A q \in Priorities : ~InQueue(new, ready.queues[q])
          /\ \A f \in Events : eventTable[f] # new
      <3>1. ~Exists(new) /\ status[new] = "ready"
        BY <2>1, <2>2 DEF IInv, Vacant
      <3>2. new # active
        BY <2>5, <3>1, NoPrioIsNoPriority DEF Exists
      <3>3. \A q \in Priorities : ~InQueue(new, ready.queues[q])
        BY <2>2, <3>1, NoPrioIsNoPriority DEF IInv, OnePlace, ReadyQueuesSound, Queue, Exists
      <3>4. \A f \in Events : eventTable[f] # new
        BY <2>2, <3>1, AwaiterFacts, NoTaskIsNoTid, NoPrioIsNoPriority DEF Exists
      <3> QED BY <3>1, <3>2, <3>3, <3>4
    <2>7. Joined(ready, mid, new, p)
      BY <2>2, <2>3, <2>5, QueueTaskEffect
    <2>8. /\ mid \in ReadyType /\ Exact(mid)
          /\ \A q \in Priorities : \A u :
                InQueue(u, mid.queues[q]) <=> InQueue(u, ready.queues[q]) \/ (q = p /\ u = new)
          /\ \A q \in Priorities : Distinct(mid.queues[q]) /\ ~InQueue(active, mid.queues[q])
      BY <2>2, <2>5, <2>6, <2>7 DEF Joined
    <2>9. Joined(mid, ready', active, prio[active])
      BY <2>4, <2>5, <2>8, QueueTaskEffect
    <2>10. /\ ready' \in ReadyType /\ Exact(ready')
           /\ \A q \in Priorities : \A u :
                InQueue(u, ready'.queues[q])
                  <=> (InQueue(u, ready.queues[q]) \/ (q = p /\ u = new)
                                                  \/ (q = prio[active] /\ u = active))
           /\ \A q \in Priorities : Distinct(ready'.queues[q])
      BY <2>5, <2>8, <2>9 DEF Joined
    <2>11. /\ prio'[new] = p
           /\ \A u \in Tids : u # new => prio'[u] = prio[u]
      BY <2>2, <2>4 DEF IInv, TypeOK
    <2>12. TypeOK'
      <3>1. nextTid' \in 2 .. MaxTasks
        BY <2>1, <2>2, <2>4, KernelAssumption DEF IInv, TypeOK
      <3>2. ret' \in [Tids -> Int] /\ parent' \in [Tids -> Tids \cup {NoTask}]
            /\ prio' \in [Tids -> Priorities \cup {NoPrio}]
        BY <2>2, <2>4, <2>5 DEF IInv, TypeOK
      <3> QED BY <2>4, <2>10, <3>1, <3>2 DEF IInv, TypeOK, ReadyType
    <2>13. Vacant'
      <3>1. \A u \in Tids : u >= nextTid' => u # new /\ u >= nextTid
        BY <2>1, <2>2, <2>4 DEF Tids
      <3> QED BY <2>4, <2>6, <2>11, <3>1 DEF IInv, Vacant, Exists
    <2>14. BitmapExact' /\ NoMissedRendezvous'
      BY <2>4, <2>10 DEF IInv, BitmapExact, Exact, NoMissedRendezvous, Queue
    <2>15. ActiveReady' /\ SendQueuesSound'
      BY <2>4 DEF IInv, OnePlace, ActiveReady, SendQueuesSound
    <2>16. ReadyQueuesSound'
      <3>1. \A q \in Priorities : \A u \in Tids : InQueue(u, ready'.queues[q]) =>
               prio'[u] = q /\ status[u] = "ready"
        BY <2>5, <2>6, <2>10, <2>11 DEF IInv, OnePlace, ReadyQueuesSound, Queue
      <3> QED BY <2>4, <2>10, <3>1, NoTaskIsNoTid DEF ReadyQueuesSound, Queue
    <2>17. AwaitersSound'
      <3>1. \A f \in Events : eventTable[f] # NoTask =>
               /\ prio'[eventTable[f]] \in Priorities
               /\ prio'[eventTable[f]] = prio[eventTable[f]]
               /\ ~InQueue(eventTable[f], ready'.queues[prio[eventTable[f]]])
        BY <2>5, <2>6, <2>10, <2>11, AwaiterFacts DEF Queue
      <3> QED BY <2>4, <3>1 DEF IInv, OnePlace, AwaitersSound, Exists, Queue
    <2> QED BY <2>12, <2>13, <2>14, <2>15, <2>16, <2>17 DEF IInv, OnePlace
  <1> QED BY <1>1, <1>2

LEMMA NextKeepsIInv == IInv /\ [Next]_vars => IInv'
  <1> SUFFICES ASSUME IInv, [Next]_vars
               PROVE  IInv'
    OBVIOUS
  <1>1. CASE Schedule
    BY <1>1, ScheduleKeepsIInv
  <1>2. CASE NothingReady
    BY <1>2, ModeKeepsIInv DEF NothingReady, Modes
  <1>3. CASE \E tid \in 0 .. MaxTasks : SendImpossible(tid)
    BY <1>3, RefuseKeepsIInv DEF SendImpossible
  <1>4. CASE \E tid \in Tids, m \in Lengths, r \in Lengths :
               SendToReceiver(tid, m, r) \/ SendToQueue(tid, m, r)
    BY <1>4, SendToReceiverKeepsIInv, SendToQueueKeepsIInv
  <1>5. CASE \E m \in Lengths : ReceiveBlock(m)
    BY <1>5, ReceiveBlockKeepsIInv
  <1>6. CASE ReceiveQueued
    BY <1>6, ReceiveQueuedKeepsIInv
  <1>7. CASE \E tid \in 0 .. MaxTasks : ReplyRefused(tid)
    BY <1>7, RefuseKeepsIInv DEF ReplyRefused
  <1>8. CASE \E tid \in Tids, r \in Lengths : Reply(tid, r)
    BY <1>8, ReplyKeepsIInv
  <1>9. CASE \E e \in Events : AwaitEvent(e) \/ Interrupt(e)
    BY <1>9, AwaitEventKeepsIInv, InterruptKeepsIInv
  <1>10. CASE AwaitNoEvent(-1)
    BY <1>10, ReturnKeepsIInv DEF AwaitNoEvent
  <1>11. CASE SilentInterrupt
    BY <1>11, SilentInterruptKeepsIInv
  <1>12. CASE \E p \in -1 .. MaxPriority : CreateTask(p) \/ SpawnTask(p)
    <2>1. \A p \in -1 .. MaxPriority : CreateResult(p) \in Int
      BY DEF CreateResult, IInv, TypeOK
    <2> QED BY <1>12, <2>1, CreateKeepsIInv DEF CreateTask, SpawnTask
  <1>13. CASE Exit
    BY <1>13, ExitKeepsIInv
  <1>14. CASE Query
    <2>1. active \in Int /\ parent[active] \in Int
      <3>1. active \in Tids
        BY <1>14, ActiveFacts DEF Query, MyTid, MyParentTid, Pass
      <3>2. parent[active] \in Tids \cup {NoTask}
        BY <3>1 DEF IInv, TypeOK
      <3>3. \A t \in Tids \cup {NoTask} : t \in Int
        BY DEF Tids
      <3> QED BY <3>1, <3>2, <3>3
    <2> QED BY <1>14, <2>1, ReturnKeepsIInv DEF Query, MyTid, MyParentTid, Pass
  <1>15. CASE Halt
    BY <1>15, ModeKeepsIInv DEF Halt, Modes
  <1>16. CASE UNCHANGED vars
    BY <1>16, ModeKeepsIInv DEF vars, IInv, TypeOK
  <1> QED BY <1>1, <1>2, <1>3, <1>4, <1>5, <1>6, <1>7, <1>8, <1>9, <1>10, <1>11, <1>12,
             <1>13, <1>14, <1>15, <1>16 DEF Next

(* The invariant that carries the theorems below. *)
THEOREM Inductive == Spec => []IInv
  BY InitIInv, NextKeepsIInv, PTL DEF Spec

(* Every variable of the kernel keeps its type, for any number of tasks,   *)
(* priorities, events and message lengths.                                 *)
THEOREM TypeCorrect == Spec => []TypeOK
  <1>1. IInv => TypeOK
    BY DEF IInv
  <1> QED BY Inductive, <1>1, PTL

(* No task is ever in two places: the link td->next that ready and send    *)
(* queues share belongs to one of them at a time.                          *)
THEOREM QueuesDisjoint == Spec => []OnePlace
  <1>1. IInv => OnePlace
    BY DEF IInv
  <1> QED BY Inductive, <1>1, PTL

(* The bitmap the scheduler trusts is exact after every handler. *)
THEOREM BitmapCorrect == Spec => []BitmapExact
  <1>1. IInv => BitmapExact
    BY DEF IInv
  <1> QED BY Inductive, <1>1, PTL

(* A sender and its receiver never wait for each other unnoticed. *)
THEOREM RendezvousNotMissed == Spec => []NoMissedRendezvous
  <1>1. IInv => NoMissedRendezvous
    BY DEF IInv
  <1> QED BY Inductive, <1>1, PTL
-----------------------------------------------------------------------------
(***************************************************************************)
(* What QueueTask, AddToFront and Dequeued do to each queue.               *)
(***************************************************************************)

LEMMA QueueTaskQueues ==
    ASSUME NEW r \in ReadyType, NEW t \in Tids, NEW p \in Priorities, NEW q \in Priorities
    PROVE  QueueTask(r, t, p).queues[q]
             = IF q = p THEN Append(r.queues[q], t) ELSE r.queues[q]
  BY DEF QueueTask, ReadyType

LEMMA AddToFrontQueues ==
    ASSUME NEW r \in ReadyType, NEW t \in Tids, NEW p \in Priorities, NEW q \in Priorities
    PROVE  AddToFront(r, t, p).queues[q]
             = IF q = p THEN <<t>> \o r.queues[q] ELSE r.queues[q]
  BY DEF AddToFront, ReadyType

(* A task appended is behind all others. *)
LEMMA AppendKeepsOrder ==
    ASSUME NEW q \in Seq(Tids), NEW t \in Tids, ~InQueue(t, q),
           NEW a, NEW b, InQueue(a, q), Before(Append(q, t), b, a)
    PROVE  Before(q, b, a)
  <1> DEFINE n == Append(q, t)
  <1>1. PICK i, j \in DOMAIN n : i < j /\ n[i] = b /\ n[j] = a
    BY DEF Before
  <1>2. /\ Len(q) \in Nat /\ DOMAIN q = 1 .. Len(q)
        /\ Len(n) = Len(q) + 1 /\ DOMAIN n = 1 .. Len(q) + 1
        /\ n[Len(q) + 1] = t
        /\ \A k \in 1 .. Len(q) : n[k] = q[k]
    OBVIOUS
  <1>3. j # Len(q) + 1
    BY <1>1, <1>2 DEF InQueue
  <1>4. i \in DOMAIN q /\ j \in DOMAIN q
    BY <1>1, <1>2, <1>3
  <1> QED BY <1>1, <1>2, <1>4 DEF Before

(* A task put in front gets ahead of the others, and nobody else does. *)
LEMMA PrependKeepsOrder ==
    ASSUME NEW q \in Seq(Tids), NEW t \in Tids, ~InQueue(t, q),
           NEW a, NEW b, Before(<<t>> \o q, b, a)
    PROVE  b = t \/ Before(q, b, a)
  <1> DEFINE n == <<t>> \o q
  <1>1. PICK i, j \in DOMAIN n : i < j /\ n[i] = b /\ n[j] = a
    BY DEF Before
  <1>2. <<t>> \in Seq(Tids) /\ Len(<<t>>) = 1 /\ <<t>>[1] = t
    OBVIOUS
  <1>3. /\ Len(q) \in Nat /\ DOMAIN q = 1 .. Len(q)
        /\ Len(n) = Len(q) + 1 /\ DOMAIN n = 1 .. Len(q) + 1
        /\ n[1] = t
        /\ \A k \in 2 .. Len(q) + 1 : n[k] = q[k - 1]
    BY <1>2
  <1>4. CASE i = 1
    BY <1>1, <1>3, <1>4
  <1>5. CASE i # 1
    <2>1. /\ i - 1 \in DOMAIN q /\ j - 1 \in DOMAIN q /\ i - 1 < j - 1
          /\ q[i - 1] = b /\ q[j - 1] = a
      BY <1>1, <1>3, <1>5
    <2> QED BY <2>1 DEF Before
  <1> QED BY <1>4, <1>5

(* Those that stay when the head leaves keep their order. *)
LEMMA TailKeepsOrder ==
    ASSUME NEW q \in Seq(Tids), q # <<>>, NEW a, NEW b, Before(Tail(q), b, a)
    PROVE  Before(q, b, a)
  <1> DEFINE n == Tail(q)
  <1>1. PICK i, j \in DOMAIN n : i < j /\ n[i] = b /\ n[j] = a
    BY DEF Before
  <1>2. /\ Len(q) \in Nat /\ DOMAIN q = 1 .. Len(q) /\ Len(q) >= 1
        /\ DOMAIN n = 1 .. Len(q) - 1
        /\ \A k \in 1 .. Len(q) - 1 : n[k] = q[k + 1]
    <2>1. n \in Seq(Tids) /\ Len(n) = Len(q) - 1 /\ \A k \in 1 .. Len(n) : n[k] = q[k + 1]
      BY HeadTailProperties
    <2> QED BY <2>1
  <1>3. i + 1 \in DOMAIN q /\ j + 1 \in DOMAIN q /\ i + 1 < j + 1
    BY <1>1, <1>2
  <1> QED BY <1>1, <1>2, <1>3 DEF Before
-----------------------------------------------------------------------------
(***************************************************************************)
(* The most urgent task runs.                                              *)
(***************************************************************************)

(* schedule() leaves nothing more urgent than the task it returns; a       *)
(* handler that wakes a task leaves nobody on the processor.               *)
LEMMA NextKeepsUrgency == IInv /\ HighestPriorityRuns /\ [Next]_vars => HighestPriorityRuns'
  <1> SUFFICES ASSUME IInv, HighestPriorityRuns, [Next]_vars
               PROVE  HighestPriorityRuns'
    OBVIOUS
  <1>1. CASE Schedule
    <2>1. ready \in ReadyType /\ ready.bits # {} /\ Exact(ready)
      BY <1>1 DEF Schedule, IInv, TypeOK, ReadyType, BitmapExact, Exact, Queue
    <2>2. Left(ready, ready', Scheduled(ready), Highest(ready))
      BY <1>1, <2>1, DequeuedEffect DEF Schedule
    <2>3. active' = Scheduled(ready) /\ prio' = prio
      BY <1>1 DEF Schedule, tdVars
    <2>4. prio[active'] = Highest(ready)
      BY <2>2, <2>3 DEF Left, IInv, OnePlace, ReadyQueuesSound, Queue
    <2> QED BY <2>2, <2>3, <2>4 DEF Left, HighestPriorityRuns, Queue
  <1>2. CASE active' = NoTask
    BY <1>2 DEF HighestPriorityRuns
  <1>3. CASE UNCHANGED <<ready, tdVars, active>>
    BY <1>3 DEF HighestPriorityRuns, Queue, tdVars
  <1>4. CASE Next
    BY <1>1, <1>2, <1>3, <1>4
    DEF Next, NothingReady, SendImpossible, SendToReceiver, SendToQueue, ReceiveBlock,
        ReceiveQueued, ReplyRefused, Reply, AwaitEvent, Interrupt, AwaitNoEvent,
        SilentInterrupt, CreateTask, SpawnTask, Create, Exit, Query, MyTid, MyParentTid,
        Pass, Halt, Refuse, Return
  <1>5. CASE UNCHANGED vars
    BY <1>3, <1>5 DEF vars
  <1> QED BY <1>4, <1>5

(* While a task runs no task of a more urgent priority is ready, for any   *)
(* number of tasks and priorities.                                         *)
THEOREM MostUrgentRuns == Spec => []HighestPriorityRuns
  <1>1. Init => HighestPriorityRuns
    BY DEF Init, HighestPriorityRuns
  <1> QED BY <1>1, NextKeepsUrgency, Inductive, PTL DEF Spec
-----------------------------------------------------------------------------
(***************************************************************************)
(* The ready queue of what a handler queues.                               *)
(***************************************************************************)

(* A blocked task exists and is on no ready queue. *)
LEMMA BlockedFacts ==
    ASSUME IInv, NEW t \in Tids, status[t] # "ready"
    PROVE  /\ Exists(t) /\ prio[t] \in Priorities /\ t # active
           /\ \A q \in Priorities : ~InQueue(t, ready.queues[q])
           /\ \A e \in Events : eventTable[e] # t
  <1>1. Exists(t) /\ prio[t] \in Priorities
    BY DEF IInv, Vacant, Exists, TypeOK
  <1>2. t # active
    BY NoTaskIsNoTid DEF IInv, OnePlace, ActiveReady
  <1>3. \A q \in Priorities : ~InQueue(t, ready.queues[q])
    BY DEF IInv, OnePlace, ReadyQueuesSound, Queue
  <1>4. \A e \in Events : eventTable[e] # t
    BY AwaiterFacts, NoTaskIsNoTid
  <1> QED BY <1>1, <1>2, <1>3, <1>4

(* The index that Create gives out belongs to nobody. *)
LEMMA NewFacts ==
    ASSUME IInv, InUserMode, NEW p, ~(CreateResult(p) < 0)
    PROVE  /\ CreateResult(p) = nextTid /\ p \in Priorities
           /\ nextTid \in Tids /\ ~Exists(nextTid) /\ status[nextTid] = "ready"
           /\ nextTid # active
           /\ \A q \in Priorities : ~InQueue(nextTid, ready.queues[q])
  <1>1. CreateResult(p) = nextTid /\ p \in Priorities /\ nextTid \in Tids
    BY KernelAssumption DEF CreateResult, IInv, TypeOK, Tids
  <1>2. ~Exists(nextTid) /\ status[nextTid] = "ready"
    BY <1>1 DEF IInv, Vacant, TypeOK
  <1>3. nextTid # active
    BY <1>2, ActiveFacts, NoPrioIsNoPriority DEF Exists
  <1>4. \A q \in Priorities : ~InQueue(nextTid, ready.queues[q])
    BY <1>1, <1>2, NoPrioIsNoPriority DEF IInv, OnePlace, ReadyQueuesSound, Queue, Exists
  <1> QED BY <1>1, <1>2, <1>3, <1>4

(* Nobody in r is overtaken in n, but by x. *)
Orderly(r, n, x) ==
    \A p \in Priorities : \A a, b \in Tids :
        /\ InQueue(a, r.queues[p]) /\ ~Before(r.queues[p], b, a)
        /\ Before(n.queues[p], b, a)
        => b = x

LEMMA QueueTaskOrderly ==
    ASSUME NEW r \in ReadyType, NEW t \in Tids, NEW p \in Priorities,
           ~InQueue(t, r.queues[p]), NEW x
    PROVE  Orderly(r, QueueTask(r, t, p), x)
  <1> SUFFICES ASSUME NEW q \in Priorities, NEW a \in Tids, NEW b \in Tids,
                      InQueue(a, r.queues[q]), ~Before(r.queues[q], b, a),
                      Before(QueueTask(r, t, p).queues[q], b, a)
               PROVE  FALSE
    BY DEF Orderly
  <1>1. r.queues[q] \in Seq(Tids)
    BY DEF ReadyType
  <1> QED BY <1>1, QueueTaskQueues, AppendKeepsOrder

LEMMA QueueTwoOrderly ==
    ASSUME NEW r \in ReadyType, NEW t \in Tids, NEW p \in Priorities,
           NEW u \in Tids, NEW o \in Priorities, t # u,
           ~InQueue(t, r.queues[p]), ~InQueue(u, r.queues[o]), NEW x
    PROVE  Orderly(r, QueueTask(QueueTask(r, t, p), u, o), x)
  <1>1. PICK m : m = QueueTask(r, t, p)
    OBVIOUS
  <1>2. /\ m \in ReadyType
        /\ \A q \in Priorities : \A v :
              InQueue(v, m.queues[q]) <=> InQueue(v, r.queues[q]) \/ (q = p /\ v = t)
    <2>1. Joined(r, m, t, p)
      BY <1>1, QueueTaskEffect
    <2> QED BY <2>1 DEF Joined
  <1>3. Orderly(r, m, NoTask)
    BY <1>1, QueueTaskOrderly
  <1>4. Orderly(m, QueueTask(m, u, o), NoTask)
    <2>1. ~InQueue(u, m.queues[o])
      BY <1>2
    <2> QED BY <1>2, <2>1, QueueTaskOrderly
  <1>5. \A q \in Priorities : \A v : InQueue(v, r.queues[q]) => InQueue(v, m.queues[q])
    BY <1>2
  <1>6. ASSUME NEW q \in Priorities, NEW a \in Tids, NEW b \in Tids,
               InQueue(a, r.queues[q]), ~Before(r.queues[q], b, a),
               Before(QueueTask(m, u, o).queues[q], b, a)
        PROVE  FALSE
    <2>1. InQueue(a, m.queues[q])
      BY <1>5, <1>6
    <2>2. b # NoTask
      BY NoTaskIsNoTid
    <2>3. ~Before(m.queues[q], b, a)
      BY <1>3, <1>6, <2>2 DEF Orderly
    <2> QED BY <1>4, <1>6, <2>1, <2>2, <2>3 DEF Orderly
  <1> QED BY <1>1, <1>6 DEF Orderly

LEMMA AddToFrontOrderly ==
    ASSUME NEW r \in ReadyType, NEW t \in Tids, NEW p \in Priorities,
           ~InQueue(t, r.queues[p])
    PROVE  Orderly(r, AddToFront(r, t, p), t)
  <1> SUFFICES ASSUME NEW q \in Priorities, NEW a \in Tids, NEW b \in Tids,
                      ~Before(r.queues[q], b, a),
                      Before(AddToFront(r, t, p).queues[q], b, a)
               PROVE  b = t
    BY DEF Orderly
  <1>1. r.queues[q] \in Seq(Tids)
    BY DEF ReadyType
  <1>2. CASE q = p
    <2>1. AddToFront(r, t, p).queues[q] = <<t>> \o r.queues[q]
      BY <1>2, AddToFrontQueues
    <2>2. Before(<<t>> \o r.queues[q], b, a)
      BY <2>1
    <2> QED BY <1>1, <1>2, <2>2, PrependKeepsOrder
  <1>3. CASE q # p
    BY <1>3, AddToFrontQueues
  <1> QED BY <1>2, <1>3

LEMMA DequeuedOrderly ==
    ASSUME NEW r \in ReadyType, r.bits # {}, Exact(r), NEW x
    PROVE  Orderly(r, Dequeued(r), x)
  <1> SUFFICES ASSUME NEW q \in Priorities, NEW a \in Tids, NEW b \in Tids,
                      ~Before(r.queues[q], b, a), Before(Dequeued(r).queues[q], b, a)
               PROVE  FALSE
    BY DEF Orderly
  <1>1. r.queues[q] \in Seq(Tids)
    BY DEF ReadyType
  <1>2. Highest(r) \in Priorities /\ r.queues[Highest(r)] # <<>>
    BY HighestIsLowestBit DEF Exact, ReadyType
  <1>3. Dequeued(r).queues[q] = IF q = Highest(r) THEN Tail(r.queues[q]) ELSE r.queues[q]
    BY <1>2 DEF Dequeued, ReadyType
  <1> QED BY <1>1, <1>2, <1>3, TailKeepsOrder

(* No step of the kernel lets a task get ahead of one that waits, but for  *)
(* the interrupted task.                                                   *)
LEMMA NextIsOrderly ==
    ASSUME IInv, Next
    PROVE  Orderly(ready, ready', active)
  <1>1. ASSUME NEW v, Return(v), InUserMode
        PROVE  Orderly(ready, ready', active)
    <2>1. ready' = QueueTask(ready, active, prio[active])
      BY <1>1 DEF Return
    <2> QED BY <1>1, <2>1, ActiveFacts, QueueTaskOrderly DEF Queue
  <1>2. CASE UNCHANGED ready
    BY <1>2 DEF Orderly
  <1>3. CASE Schedule
    <2>1. ready \in ReadyType /\ ready.bits # {} /\ Exact(ready)
      BY <1>3 DEF Schedule, IInv, TypeOK, ReadyType, BitmapExact, Exact, Queue
    <2> QED BY <1>3, <2>1, DequeuedOrderly DEF Schedule
  <1>4. ASSUME NEW tid \in Tids, NEW m \in Lengths, NEW r \in Lengths,
               SendToReceiver(tid, m, r)
        PROVE  Orderly(ready, ready', active)
    <2>1. /\ InUserMode /\ status[tid] # "ready"
          /\ ready' = QueueTask(ready, tid, prio[tid])
      BY <1>4 DEF SendToReceiver
    <2> QED BY <2>1, ActiveFacts, BlockedFacts, QueueTaskOrderly
  <1>5. ASSUME NEW tid \in Tids, NEW r \in Lengths, Reply(tid, r)
        PROVE  Orderly(ready, ready', active)
    <2>1. /\ InUserMode /\ status[tid] # "ready"
          /\ ready' = QueueTask(QueueTask(ready, tid, prio[tid]), active, prio[active])
      BY <1>5 DEF Reply, MayReply
    <2> QED BY <2>1, ActiveFacts, BlockedFacts, QueueTwoOrderly DEF Queue
  <1>6. ASSUME NEW e \in Events, Interrupt(e)
        PROVE  Orderly(ready, ready', active)
    <2>1. PICK w : w = eventTable[e]
      OBVIOUS
    <2>2. InUserMode
      BY <1>6 DEF Interrupt
    <2>3. CASE w = NoTask
      <3>1. ready' = AddToFront(ready, active, prio[active])
        BY <1>6, <2>1, <2>3 DEF Interrupt
      <3> QED BY <2>2, <3>1, ActiveFacts, AddToFrontOrderly DEF Queue
    <2>4. CASE w # NoTask
      <3>1. PICK mid : mid = QueueTask(ready, w, prio[w])
        OBVIOUS
      <3>2. ready' = AddToFront(mid, active, prio[active])
        BY <1>6, <2>1, <2>4, <3>1 DEF Interrupt
      <3>3. /\ w \in Tids /\ prio[w] \in Priorities /\ w # active
            /\ \A q \in Priorities : ~InQueue(w, ready.queues[q])
        BY <2>1, <2>4, AwaiterFacts DEF Queue
      <3>4. /\ active \in Tids /\ prio[active] \in Priorities /\ ready \in ReadyType
            /\ \A q \in Priorities : ~InQueue(active, ready.queues[q])
        BY <2>2, ActiveFacts DEF Queue
      <3>5. Joined(ready, mid, w, prio[w]) /\ Orderly(ready, mid, active)
        BY <3>1, <3>3, <3>4, QueueTaskEffect, QueueTaskOrderly
      <3>6. Orderly(mid, ready', active)
        BY <3>2, <3>3, <3>4, <3>5, AddToFrontOrderly DEF Joined
      <3> QED BY <3>5, <3>6 DEF Orderly, Joined
    <2> QED BY <2>3, <2>4
  <1>7. CASE SilentInterrupt
    <2>1. InUserMode /\ ready' = AddToFront(ready, active, prio[active])
      BY <1>7 DEF SilentInterrupt
    <2> QED BY <2>1, ActiveFacts, AddToFrontOrderly DEF Queue
  <1>8. ASSUME NEW p, NEW failure, Create(p, failure)
        PROVE  Orderly(ready, ready', active)
    <2>1. InUserMode
      BY <1>8 DEF Create
    <2>2. CASE CreateResult(p) < 0
      BY <1>1, <1>8, <2>1, <2>2 DEF Create
    <2>3. CASE ~(CreateResult(p) < 0)
      <3>1. ready' = QueueTask(QueueTask(ready, nextTid, p), active, prio[active])
        BY <1>8, <2>1, <2>3, NewFacts DEF Create
      <3> QED BY <2>1, <2>3, <3>1, NewFacts, ActiveFacts, QueueTwoOrderly DEF Queue
    <2> QED BY <2>2, <2>3
  <1> QED BY <1>1, <1>2, <1>3, <1>4, <1>5, <1>6, <1>7, <1>8
          DEF Next, NothingReady, SendImpossible, SendToQueue, ReceiveBlock, ReceiveQueued,
              ReplyRefused, AwaitEvent, AwaitNoEvent, CreateTask, SpawnTask, Exit, Query,
              MyTid, MyParentTid, Pass, Halt, Refuse

(* Within a priority tasks run in the order they became ready.             *)
THEOREM FirstComeFirstServed == Spec => NoOvertaking
  <1>1. IInv /\ [Next]_vars =>
          [\A p \in Priorities : \A a, b \in Tids :
             (/\ InQueue(a, Queue(p)) /\ ~Before(Queue(p), b, a)
              /\ Before(Queue(p)', b, a))
                => active = b]_vars
    BY NextIsOrderly DEF Orderly, Queue
  <1> QED BY <1>1, Inductive, PTL DEF Spec, NoOvertaking
-----------------------------------------------------------------------------
(***************************************************************************)
(* The kernel implements Rendezvous.                                       *)
(***************************************************************************)

(* A task that waits for a reply knows from whom. *)
Bound == \A t \in Tids : status[t] = "reply_block" => originalReceiver[t] \in Tids

RInv == IInv /\ Bound

(* Where the client c is served, as Rendezvous sees it. *)
ServedBy(c) == IF status[c] = "reply_block" THEN originalReceiver[c] ELSE NoTask

(* Only blocked tasks are busy for Rendezvous, and the active one is not. *)
LEMMA NotBusy ==
    ASSUME RInv, NEW c \in Tids, status[c] \in {"ready", "receive_block"}
    PROVE  ~Protocol!Busy(c)
  <1>1. \A s \in Tids : ~InQueue(c, sendQueues[s])
    BY DEF RInv, IInv, OnePlace, SendQueuesSound
  <1>2. ServedBy(c) = NoTask
    BY DEF ServedBy
  <1> QED BY <1>1, <1>2 DEF Protocol!Busy, Protocol!NoServer, InQueue, ServedBy, NoTask

(* A step that leaves the send queues alone and blocks or unblocks nobody  *)
(* on a reply is none of the protocol.                                     *)
LEMMA Stutters ==
    ASSUME RInv, UNCHANGED <<sendQueues, originalReceiver>>,
           \A t \in Tids : (status'[t] = "reply_block") <=> (status[t] = "reply_block")
    PROVE  Bound' /\ UNCHANGED Protocol!vars
  <1>1. \A t \in Tids : ServedBy(t)' = ServedBy(t)
    BY DEF ServedBy
  <1>2. [t \in Tids |-> ServedBy(t)]' = [t \in Tids |-> ServedBy(t)]
    BY <1>1
  <1> QED BY <1>2 DEF RInv, Bound, Protocol!vars, ServedBy

LEMMA SendToReceiverIsHandover ==
    ASSUME RInv, NEW tid \in Tids, NEW m \in Lengths, NEW r \in Lengths,
           SendToReceiver(tid, m, r)
    PROVE  Bound' /\ Protocol!Handover(active, tid)
  <1>1. /\ InUserMode /\ status[tid] = "receive_block"
        /\ status' = [status EXCEPT ![active] = "reply_block", ![tid] = "ready"]
        /\ originalReceiver' = [originalReceiver EXCEPT ![active] = tid]
        /\ sendQueues' = sendQueues
    BY DEF SendToReceiver, Bind
  <1>2. active \in Tids /\ status[active] = "ready" /\ active # tid
    BY <1>1, ActiveFacts DEF RInv
  <1>3. /\ \A t \in Tids : status'[t] = IF t = active THEN "reply_block"
                                      ELSE IF t = tid THEN "ready" ELSE status[t]
        /\ \A t \in Tids : originalReceiver'[t] = IF t = active THEN tid ELSE originalReceiver[t]
    BY <1>1, <1>2 DEF RInv, IInv, TypeOK
  <1>4. Bound'
    BY <1>3 DEF RInv, Bound
  <1>5. [t \in Tids |-> ServedBy(t)]' = [[t \in Tids |-> ServedBy(t)] EXCEPT ![active] = tid]
    <2>1. \A t \in Tids : ServedBy(t)' = IF t = active THEN tid ELSE ServedBy(t)
      BY <1>1, <1>2, <1>3 DEF ServedBy
    <2> QED BY <2>1
  <1>6. ~Protocol!Busy(active) /\ ~Protocol!Busy(tid)
    BY <1>1, <1>2, NotBusy
  <1>7. sendQueues[tid] = <<>>
    BY <1>1 DEF RInv, IInv, NoMissedRendezvous
  <1> QED BY <1>1, <1>2, <1>4, <1>5, <1>6, <1>7 DEF Protocol!Handover, ServedBy

LEMMA SendToQueueIsRequest ==
    ASSUME RInv, NEW tid \in Tids, NEW m \in Lengths, NEW r \in Lengths,
           SendToQueue(tid, m, r)
    PROVE  Bound' /\ Protocol!Request(active, tid)
  <1>1. /\ InUserMode
        /\ status' = [status EXCEPT ![active] = "send_block"]
        /\ originalReceiver' = originalReceiver
        /\ sendQueues' = [sendQueues EXCEPT ![tid] = Append(@, active)]
    BY DEF SendToQueue
  <1>2. active \in Tids /\ status[active] = "ready"
    BY <1>1, ActiveFacts DEF RInv
  <1>3. \A t \in Tids : status'[t] = IF t = active THEN "send_block" ELSE status[t]
    BY <1>1, <1>2 DEF RInv, IInv, TypeOK
  <1>4. Bound'
    BY <1>1, <1>3 DEF RInv, Bound
  <1>5. [t \in Tids |-> ServedBy(t)]' = [t \in Tids |-> ServedBy(t)]
    BY <1>1, <1>2, <1>3 DEF ServedBy
  <1>6. ~Protocol!Busy(active)
    BY <1>2, NotBusy
  <1> QED BY <1>1, <1>4, <1>5, <1>6 DEF Protocol!Request, ServedBy

LEMMA ReceiveQueuedIsTake ==
    ASSUME RInv, ReceiveQueued
    PROVE  Bound' /\ active \in Tids /\ Protocol!Take(active)
  <1> DEFINE s == Head(sendQueues[active])
  <1>1. /\ InUserMode /\ sendQueues[active] # <<>>
        /\ status' = [status EXCEPT ![s] = "reply_block", ![active] = "ready"]
        /\ originalReceiver' = [originalReceiver EXCEPT ![s] = active]
        /\ sendQueues' = [sendQueues EXCEPT ![active] = Tail(@)]
    BY DEF ReceiveQueued, NoSenderWaits, Bind
  <1>2. active \in Tids /\ status[active] = "ready"
    BY <1>1, ActiveFacts DEF RInv
  <1>3. s \in Tids /\ InQueue(s, sendQueues[active])
    <2>1. sendQueues[active] \in Seq(Tids)
      BY <1>2 DEF RInv, IInv, TypeOK
    <2> QED BY <1>1, <2>1, TailMembers
  <1>4. status[s] = "send_block"
    BY <1>2, <1>3 DEF RInv, IInv, OnePlace, SendQueuesSound
  <1> HIDE DEF s
  <1>5. /\ \A t \in Tids : status'[t] = IF t = active THEN "ready"
                                      ELSE IF t = s THEN "reply_block" ELSE status[t]
        /\ \A t \in Tids : originalReceiver'[t] = IF t = s THEN active ELSE originalReceiver[t]
    BY <1>1, <1>2, <1>3 DEF RInv, IInv, TypeOK
  <1>6. Bound'
    BY <1>2, <1>5 DEF RInv, Bound
  <1>7. [t \in Tids |-> ServedBy(t)]' = [[t \in Tids |-> ServedBy(t)] EXCEPT ![s] = active]
    BY <1>2, <1>3, <1>4, <1>5 DEF ServedBy
  <1>8. ~Protocol!Busy(active)
    BY <1>2, NotBusy
  <1> QED BY <1>1, <1>2, <1>6, <1>7, <1>8 DEF Protocol!Take, ServedBy, s

LEMMA ReplyIsAnswer ==
    ASSUME RInv, NEW tid \in Tids, NEW r \in Lengths, Reply(tid, r)
    PROVE  Bound' /\ active \in Tids /\ Protocol!Answer(active, tid)
  <1>1. /\ InUserMode /\ status[tid] = "reply_block" /\ originalReceiver[tid] = active
        /\ status' = [status EXCEPT ![active] = "ready", ![tid] = "ready"]
        /\ originalReceiver' = [originalReceiver EXCEPT ![tid] = NoSender]
        /\ sendQueues' = sendQueues
    BY DEF Reply, MayReply
  <1>2. active \in Tids /\ status[active] = "ready" /\ active # tid
    BY <1>1, ActiveFacts DEF RInv
  <1>3. /\ \A t \in Tids : status'[t] = IF t \in {active, tid} THEN "ready" ELSE status[t]
        /\ \A t \in Tids : t # tid => originalReceiver'[t] = originalReceiver[t]
    BY <1>1, <1>2 DEF RInv, IInv, TypeOK
  <1>4. Bound'
    BY <1>3 DEF RInv, Bound
  <1>5. [t \in Tids |-> ServedBy(t)]' = [[t \in Tids |-> ServedBy(t)] EXCEPT ![tid] = NoTask]
    <2>1. \A t \in Tids : ServedBy(t)' = IF t = tid THEN NoTask ELSE ServedBy(t)
      BY <1>1, <1>2, <1>3, ZenonT(40) DEF ServedBy
    <2> QED BY <2>1
  <1>6. ~Protocol!Busy(active)
    BY <1>2, NotBusy
  <1> QED BY <1>1, <1>2, <1>4, <1>5, <1>6 DEF Protocol!Answer, Protocol!NoServer, ServedBy, NoTask

(* Every step of the kernel is a step of the protocol, or none. *)
LEMMA NextImplementsProtocol ==
    ASSUME RInv, [Next]_vars
    PROVE  Bound' /\ [Protocol!Next]_(Protocol!vars)
  <1>1. ASSUME NEW tid \in Tids, NEW m \in Lengths, NEW r \in Lengths,
               SendToReceiver(tid, m, r) \/ SendToQueue(tid, m, r)
        PROVE  Bound' /\ Protocol!Next
    <2>1. InUserMode
      BY <1>1 DEF SendToReceiver, SendToQueue
    <2>2. active \in Tids
      BY <2>1, ActiveFacts DEF RInv
    <2> QED BY <1>1, <2>2, SendToReceiverIsHandover, SendToQueueIsRequest DEF Protocol!Next
  <1>2. CASE ReceiveQueued
    <2>1. Bound' /\ active \in Tids /\ Protocol!Take(active)
      BY <1>2, ReceiveQueuedIsTake
    <2> QED BY <2>1 DEF Protocol!Next, Protocol!Take
  <1>3. ASSUME NEW tid \in Tids, NEW r \in Lengths, Reply(tid, r)
        PROVE  Bound' /\ Protocol!Next
    BY <1>3, ReplyIsAnswer DEF Protocol!Next
  <1>4. CASE UNCHANGED <<sendQueues, originalReceiver, status>>
    BY <1>4, Stutters
  <1>5. ASSUME InUserMode, UNCHANGED <<sendQueues, originalReceiver>>,
               NEW v \in {"ready", "receive_block"}, status' = [status EXCEPT ![active] = v]
        PROVE  Bound' /\ UNCHANGED Protocol!vars
    <2>1. active \in Tids /\ status[active] = "ready"
      BY <1>5, ActiveFacts DEF RInv
    <2>2. \A t \in Tids : status'[t] = IF t = active THEN v ELSE status[t]
      BY <1>5, <2>1 DEF RInv, IInv, TypeOK
    <2> QED BY <1>5, <2>1, <2>2, Stutters
  <1>6. CASE \E m \in Lengths : ReceiveBlock(m)
    BY <1>5, <1>6 DEF ReceiveBlock
  <1>7. CASE Exit
    BY <1>5, <1>7 DEF Exit
  <1>8. CASE UNCHANGED vars
    BY <1>4, <1>8 DEF vars, tdVars
  <1>9. CASE Next
    BY <1>1, <1>2, <1>3, <1>4, <1>6, <1>7, <1>9
    DEF Next, Schedule, NothingReady, SendImpossible, ReplyRefused, AwaitEvent, Interrupt,
        AwaitNoEvent, SilentInterrupt, CreateTask, SpawnTask, Create, Query, MyTid,
        MyParentTid, Pass, Halt, Refuse, Return, tdVars
  <1> QED BY <1>8, <1>9

(* Whatever the scheduling, the interrupts, the exits and the number of    *)
(* tasks: requests are served first come first served, and each is         *)
(* answered once, by the task that received it.                            *)
THEOREM RendezvousImplemented == Spec => ImplementsRendezvous
  <1>1. Init => Bound /\ Protocol!Init
    BY DEF Init, Bound, Protocol!Init, Protocol!NoServer, NoTask
  <1>2. IInv /\ Bound /\ [Next]_vars => Bound' /\ [Protocol!Next]_(Protocol!vars)
    BY NextImplementsProtocol DEF RInv
  <1> QED BY <1>1, <1>2, Inductive, PTL DEF Spec, ImplementsRendezvous, Protocol!Spec
-----------------------------------------------------------------------------
(***************************************************************************)
(* Nobody is lost.                                                         *)
(***************************************************************************)

(* A task whose descriptor a step leaves alone is found where it was, or   *)
(* on its ready queue.                                                     *)
LEMMA StaysPlaced ==
    ASSUME NEW t \in Tids, Placed(t), t # active,
           prio'[t] = prio[t], status'[t] = status[t],
           originalReceiver'[t] = originalReceiver[t],
           InQueue(t, Queue(prio[t])) => InQueue(t, Queue(prio[t])'),
           \A e \in Events : eventTable[e] = t =>
               eventTable'[e] = t \/ InQueue(t, Queue(prio[t])'),
           \A r \in Tids : InQueue(t, sendQueues[r]) => InQueue(t, sendQueues'[r])
    PROVE  Placed(t)'
  BY DEF Placed, Queue

(* A task that is queued is found there. *)
LEMMA QueuedIsPlaced ==
    ASSUME NEW t \in Tids, status'[t] = "ready", InQueue(t, Queue(prio[t])'),
           prio'[t] = prio[t]
    PROVE  Placed(t)'
  BY DEF Placed, Queue

LEMMA ReturnLosesNobody ==
    ASSUME IInv, NobodyLost, InUserMode, NEW v, Return(v),
           UNCHANGED <<sendQueues, eventTable, tdVars>>
    PROVE  NobodyLost'
  <1>1. /\ active \in Tids /\ prio[active] \in Priorities /\ ready \in ReadyType
        /\ status[active] = "ready"
    BY ActiveFacts
  <1>2. Joined(ready, ready', active, prio[active])
    BY <1>1, QueueTaskEffect DEF Return
  <1> SUFFICES ASSUME NEW t \in Tids, Exists(t)' PROVE Placed(t)'
    BY DEF NobodyLost
  <1>3. prio[t] \in Priorities /\ Placed(t)
    BY DEF NobodyLost, Exists, tdVars, IInv, TypeOK
  <1>4. CASE t = active
    BY <1>1, <1>2, <1>4, QueuedIsPlaced DEF Joined, Queue, tdVars
  <1>5. CASE t # active
    BY <1>2, <1>3, <1>5, StaysPlaced DEF Joined, Queue, tdVars
  <1> QED BY <1>4, <1>5

LEMMA ScheduleLosesNobody ==
    ASSUME IInv, NobodyLost, Schedule
    PROVE  NobodyLost'
  <1>1. ready \in ReadyType /\ ready.bits # {} /\ Exact(ready)
    BY DEF Schedule, IInv, TypeOK, ReadyType, BitmapExact, Exact, Queue
  <1>2. Left(ready, ready', Scheduled(ready), Highest(ready))
    BY <1>1, DequeuedEffect DEF Schedule
  <1>3. /\ active = NoTask /\ active' = Scheduled(ready)
        /\ UNCHANGED <<sendQueues, eventTable, tdVars>>
    BY DEF Schedule
  <1> SUFFICES ASSUME NEW t \in Tids, Exists(t)' PROVE Placed(t)'
    BY DEF NobodyLost
  <1>4. prio[t] \in Priorities /\ Placed(t)
    BY <1>3 DEF NobodyLost, Exists, tdVars, IInv, TypeOK
  <1>5. CASE t = active'
    <2>1. status[t] = "ready"
      BY <1>2, <1>3, <1>5 DEF Left, IInv, OnePlace, ReadyQueuesSound, Queue
    <2> QED BY <1>3, <1>5, <2>1 DEF Placed, tdVars
  <1>6. CASE t # active'
    <2>1. t # active
      BY <1>3, NoTaskIsNoTid
    <2> QED BY <1>2, <1>3, <1>4, <1>6, <2>1, StaysPlaced DEF Left, Queue, tdVars
  <1> QED BY <1>5, <1>6

LEMMA SendToReceiverLosesNobody ==
    ASSUME IInv, NobodyLost, NEW tid \in Tids, NEW m \in Lengths, NEW r \in Lengths,
           SendToReceiver(tid, m, r)
    PROVE  NobodyLost'
  <1>1. /\ InUserMode /\ status[tid] = "receive_block"
        /\ status' = [status EXCEPT ![active] = "reply_block", ![tid] = "ready"]
        /\ originalReceiver' = [originalReceiver EXCEPT ![active] = tid]
        /\ ready' = QueueTask(ready, tid, prio[tid])
        /\ UNCHANGED <<sendQueues, eventTable, prio>>
    BY DEF SendToReceiver, Bind
  <1>2. active \in Tids /\ status[active] = "ready" /\ ready \in ReadyType
    BY <1>1, ActiveFacts
  <1>3. prio[tid] \in Priorities /\ tid # active
    BY <1>1, BlockedFacts
  <1>4. Joined(ready, ready', tid, prio[tid])
    BY <1>1, <1>2, <1>3, QueueTaskEffect
  <1>5. /\ \A t \in Tids : status'[t] = IF t = active THEN "reply_block"
                                      ELSE IF t = tid THEN "ready" ELSE status[t]
        /\ \A t \in Tids : originalReceiver'[t] = IF t = active THEN tid ELSE originalReceiver[t]
    BY <1>1, <1>2, <1>3 DEF IInv, TypeOK
  <1> SUFFICES ASSUME NEW t \in Tids, Exists(t)' PROVE Placed(t)'
    BY DEF NobodyLost
  <1>6. prio[t] \in Priorities /\ Placed(t)
    BY <1>1 DEF NobodyLost, Exists, IInv, TypeOK
  <1>7. CASE t = active
    BY <1>5, <1>7 DEF Placed
  <1>8. CASE t = tid
    BY <1>1, <1>3, <1>4, <1>5, <1>8, QueuedIsPlaced DEF Joined, Queue
  <1>9. CASE t # active /\ t # tid
    BY <1>1, <1>4, <1>5, <1>6, <1>9, StaysPlaced DEF Joined, Queue
  <1> QED BY <1>7, <1>8, <1>9

LEMMA SendToQueueLosesNobody ==
    ASSUME IInv, NobodyLost, NEW tid \in Tids, NEW m \in Lengths, NEW r \in Lengths,
           SendToQueue(tid, m, r)
    PROVE  NobodyLost'
  <1>1. /\ InUserMode
        /\ status' = [status EXCEPT ![active] = "send_block"]
        /\ sendQueues' = [sendQueues EXCEPT ![tid] = Append(@, active)]
        /\ UNCHANGED <<ready, eventTable, prio, originalReceiver>>
    BY DEF SendToQueue
  <1>2. active \in Tids
    BY <1>1, ActiveFacts
  <1>3. \A t \in Tids : status'[t] = IF t = active THEN "send_block" ELSE status[t]
    BY <1>1, <1>2 DEF IInv, TypeOK
  <1>4. /\ InQueue(active, sendQueues'[tid])
        /\ \A t \in Tids, o \in Tids : InQueue(t, sendQueues[o]) => InQueue(t, sendQueues'[o])
    <2>1. \A o \in Tids : sendQueues[o] \in Seq(Tids)
      BY DEF IInv, TypeOK
    <2>2. \A o \in Tids : sendQueues'[o] = IF o = tid THEN Append(sendQueues[tid], active)
                                                    ELSE sendQueues[o]
      BY <1>1 DEF IInv, TypeOK
    <2>3. \A u : InQueue(u, Append(sendQueues[tid], active))
                    <=> InQueue(u, sendQueues[tid]) \/ u = active
      BY <1>2, <2>1, AppendMembers
    <2> QED BY <2>2, <2>3
  <1> SUFFICES ASSUME NEW t \in Tids, Exists(t)' PROVE Placed(t)'
    BY DEF NobodyLost
  <1>5. Placed(t)
    BY <1>1 DEF NobodyLost, Exists
  <1>6. CASE t = active
    BY <1>3, <1>4, <1>6 DEF Placed
  <1>7. CASE t # active
    BY <1>1, <1>3, <1>4, <1>5, <1>7, StaysPlaced DEF Queue
  <1> QED BY <1>6, <1>7

LEMMA ReceiveBlockLosesNobody ==
    ASSUME IInv, NobodyLost, NEW m \in Lengths, ReceiveBlock(m)
    PROVE  NobodyLost'
  <1>1. /\ InUserMode
        /\ status' = [status EXCEPT ![active] = "receive_block"]
        /\ UNCHANGED <<ready, sendQueues, eventTable, prio, originalReceiver>>
    BY DEF ReceiveBlock
  <1>2. active \in Tids
    BY <1>1, ActiveFacts
  <1>3. \A t \in Tids : status'[t] = IF t = active THEN "receive_block" ELSE status[t]
    BY <1>1, <1>2 DEF IInv, TypeOK
  <1> SUFFICES ASSUME NEW t \in Tids, Exists(t)' PROVE Placed(t)'
    BY DEF NobodyLost
  <1>4. Placed(t)
    BY <1>1 DEF NobodyLost, Exists
  <1>5. CASE t = active
    BY <1>3, <1>5 DEF Placed
  <1>6. CASE t # active
    BY <1>1, <1>3, <1>4, <1>6, StaysPlaced DEF Queue
  <1> QED BY <1>5, <1>6

LEMMA ReceiveQueuedLosesNobody ==
    ASSUME IInv, NobodyLost, ReceiveQueued
    PROVE  NobodyLost'
  <1>1. PICK s : s = Head(sendQueues[active])
    OBVIOUS
  <1>2. /\ InUserMode /\ sendQueues[active] # <<>>
        /\ status' = [status EXCEPT ![s] = "reply_block", ![active] = "ready"]
        /\ originalReceiver' = [originalReceiver EXCEPT ![s] = active]
        /\ ready' = QueueTask(ready, active, prio[active])
        /\ sendQueues' = [sendQueues EXCEPT ![active] = Tail(@)]
        /\ UNCHANGED <<eventTable, prio>>
    BY <1>1 DEF ReceiveQueued, NoSenderWaits, Bind, Return
  <1>3. /\ active \in Tids /\ status[active] = "ready" /\ prio[active] \in Priorities
        /\ ready \in ReadyType
    BY <1>2, ActiveFacts
  <1>4. sendQueues[active] \in Seq(Tids)
    BY <1>3 DEF IInv, TypeOK
  <1>5. /\ s \in Tids
        /\ \A u : InQueue(u, sendQueues[active])
                    <=> u = s \/ InQueue(u, Tail(sendQueues[active]))
    BY <1>1, <1>2, <1>4, TailMembers
  <1>6. s # active
    BY <1>3, <1>5 DEF IInv, OnePlace, SendQueuesSound
  <1>7. /\ \A t \in Tids : status'[t] = IF t = active THEN "ready"
                                      ELSE IF t = s THEN "reply_block" ELSE status[t]
        /\ \A t \in Tids : originalReceiver'[t] = IF t = s THEN active ELSE originalReceiver[t]
        /\ \A o \in Tids : sendQueues'[o] = IF o = active THEN Tail(sendQueues[active])
                                                       ELSE sendQueues[o]
    BY <1>2, <1>3, <1>5, <1>6 DEF IInv, TypeOK
  <1>8. Joined(ready, ready', active, prio[active])
    BY <1>2, <1>3, QueueTaskEffect
  <1> SUFFICES ASSUME NEW t \in Tids, Exists(t)' PROVE Placed(t)'
    BY DEF NobodyLost
  <1>9. prio[t] \in Priorities /\ Placed(t)
    BY <1>2 DEF NobodyLost, Exists, IInv, TypeOK
  <1>10. CASE t = active
    BY <1>2, <1>3, <1>7, <1>8, <1>10, QueuedIsPlaced DEF Joined, Queue
  <1>11. CASE t = s
    BY <1>3, <1>6, <1>7, <1>11 DEF Placed
  <1>12. CASE t # active /\ t # s
    <2>1. \A o \in Tids : InQueue(t, sendQueues[o]) => InQueue(t, sendQueues'[o])
      BY <1>5, <1>7, <1>12
    <2> QED BY <1>2, <1>7, <1>8, <1>9, <1>12, <2>1, StaysPlaced DEF Joined, Queue
  <1> QED BY <1>10, <1>11, <1>12

LEMMA ReplyLosesNobody ==
    ASSUME IInv, NobodyLost, NEW tid \in Tids, NEW r \in Lengths, Reply(tid, r)
    PROVE  NobodyLost'
  <1>1. PICK mid : mid = QueueTask(ready, tid, prio[tid])
    OBVIOUS
  <1>2. /\ InUserMode /\ status[tid] = "reply_block"
        /\ status' = [status EXCEPT ![active] = "ready", ![tid] = "ready"]
        /\ originalReceiver' = [originalReceiver EXCEPT ![tid] = NoSender]
        /\ ready' = QueueTask(mid, active, prio[active])
        /\ UNCHANGED <<sendQueues, eventTable, prio>>
    BY <1>1 DEF Reply, MayReply
  <1>3. active \in Tids /\ prio[active] \in Priorities /\ ready \in ReadyType
    BY <1>2, ActiveFacts
  <1>4. prio[tid] \in Priorities /\ tid # active
    BY <1>2, BlockedFacts
  <1>5. Joined(ready, mid, tid, prio[tid])
    BY <1>1, <1>3, <1>4, QueueTaskEffect
  <1>6. Joined(mid, ready', active, prio[active])
    <2>1. mid \in ReadyType
      BY <1>5 DEF Joined
    <2> QED BY <1>2, <1>3, <2>1, QueueTaskEffect
  <1>7. \A q \in Priorities : \A u :
           InQueue(u, ready'.queues[q]) <=> (InQueue(u, ready.queues[q])
              \/ (q = prio[tid] /\ u = tid) \/ (q = prio[active] /\ u = active))
    BY <1>5, <1>6 DEF Joined
  <1>8. /\ \A t \in Tids : status'[t] = IF t \in {active, tid} THEN "ready" ELSE status[t]
        /\ \A t \in Tids : t # tid => originalReceiver'[t] = originalReceiver[t]
    BY <1>2, <1>3 DEF IInv, TypeOK
  <1> SUFFICES ASSUME NEW t \in Tids, Exists(t)' PROVE Placed(t)'
    BY DEF NobodyLost
  <1>9. prio[t] \in Priorities /\ Placed(t)
    BY <1>2 DEF NobodyLost, Exists, IInv, TypeOK
  <1>10. CASE t \in {active, tid}
    BY <1>2, <1>3, <1>4, <1>7, <1>8, <1>10, QueuedIsPlaced DEF Queue
  <1>11. CASE t \notin {active, tid}
    BY <1>2, <1>7, <1>8, <1>9, <1>11, StaysPlaced DEF Queue
  <1> QED BY <1>10, <1>11

(* This is where one notifier per event is needed: the slot was free. *)
LEMMA AwaitEventLosesNobody ==
    ASSUME OneWaiter, IInv, NobodyLost, NEW e \in Events, AwaitEvent(e)
    PROVE  NobodyLost'
  <1>1. /\ InUserMode /\ eventTable[e] = NoTask
        /\ eventTable' = [eventTable EXCEPT ![e] = active]
        /\ UNCHANGED <<ready, sendQueues, prio, status, originalReceiver>>
    BY DEF AwaitEvent, tdVars
  <1>2. active \in Tids /\ status[active] = "ready"
    BY <1>1, ActiveFacts
  <1>3. \A f \in Events : eventTable'[f] = IF f = e THEN active ELSE eventTable[f]
    BY <1>1 DEF IInv, TypeOK
  <1> SUFFICES ASSUME NEW t \in Tids, Exists(t)' PROVE Placed(t)'
    BY DEF NobodyLost
  <1>4. Placed(t) /\ t # NoTask
    BY <1>1, NoTaskIsNoTid DEF NobodyLost, Exists
  <1>5. CASE t = active
    BY <1>1, <1>2, <1>3, <1>5 DEF Placed
  <1>6. CASE t # active
    <2>1. \A f \in Events : eventTable[f] = t => eventTable'[f] = t
      BY <1>1, <1>3, <1>4
    <2> QED BY <1>1, <1>4, <1>6, <2>1, StaysPlaced DEF Queue
  <1> QED BY <1>5, <1>6

LEMMA InterruptLosesNobody ==
    ASSUME IInv, NobodyLost, NEW e \in Events, Interrupt(e)
    PROVE  NobodyLost'
  <1>1. PICK w : w = eventTable[e]
    OBVIOUS
  <1>2. PICK mid : mid = IF w = NoTask THEN ready ELSE QueueTask(ready, w, prio[w])
    OBVIOUS
  <1>3. /\ InUserMode
        /\ ready' = AddToFront(mid, active, prio[active])
        /\ eventTable' = [eventTable EXCEPT ![e] = NoTask]
        /\ UNCHANGED <<sendQueues, prio, status, originalReceiver>>
    BY <1>1, <1>2 DEF Interrupt, tdVars
  <1>4. /\ active \in Tids /\ prio[active] \in Priorities /\ ready \in ReadyType
        /\ status[active] = "ready"
    BY <1>3, ActiveFacts
  <1>5. w # NoTask => w \in Tids /\ prio[w] \in Priorities
    BY <1>1, AwaiterFacts
  <1>6. /\ mid \in ReadyType
        /\ \A q \in Priorities : \A u :
              InQueue(u, mid.queues[q]) <=> (InQueue(u, ready.queues[q])
                 \/ (w # NoTask /\ q = prio[w] /\ u = w))
    <2>1. CASE w = NoTask
      BY <1>2, <1>4, <2>1
    <2>2. CASE w # NoTask
      <3>1. Joined(ready, mid, w, prio[w])
        BY <1>2, <1>4, <1>5, <2>2, QueueTaskEffect
      <3> QED BY <2>2, <3>1 DEF Joined
    <2> QED BY <2>1, <2>2
  <1>7. Joined(mid, ready', active, prio[active])
    BY <1>3, <1>4, <1>6, AddToFrontEffect
  <1>8. \A q \in Priorities : \A u :
           InQueue(u, ready'.queues[q]) <=> (InQueue(u, ready.queues[q])
              \/ (w # NoTask /\ q = prio[w] /\ u = w) \/ (q = prio[active] /\ u = active))
    BY <1>6, <1>7 DEF Joined
  <1>9. \A f \in Events : f # e => eventTable'[f] = eventTable[f]
    BY <1>3 DEF IInv, TypeOK
  <1> SUFFICES ASSUME NEW t \in Tids, Exists(t)' PROVE Placed(t)'
    BY DEF NobodyLost
  <1>10. prio[t] \in Priorities /\ Placed(t) /\ t # NoTask
    BY <1>3, NoTaskIsNoTid DEF NobodyLost, Exists, IInv, TypeOK
  <1>11. CASE t = active
    BY <1>3, <1>4, <1>8, <1>11, QueuedIsPlaced DEF Queue
  <1>12. CASE t # active
    <2>1. \A f \in Events : eventTable[f] = t =>
              eventTable'[f] = t \/ InQueue(t, Queue(prio[t])')
      BY <1>1, <1>3, <1>8, <1>9, <1>10 DEF Queue
    <2> QED BY <1>3, <1>8, <1>10, <1>12, <2>1, StaysPlaced DEF Queue
  <1> QED BY <1>11, <1>12

LEMMA SilentInterruptLosesNobody ==
    ASSUME IInv, NobodyLost, SilentInterrupt
    PROVE  NobodyLost'
  <1>1. /\ InUserMode
        /\ ready' = AddToFront(ready, active, prio[active])
        /\ UNCHANGED <<sendQueues, eventTable, prio, status, originalReceiver>>
    BY DEF SilentInterrupt, tdVars
  <1>2. active \in Tids /\ prio[active] \in Priorities /\ ready \in ReadyType
        /\ status[active] = "ready"
    BY <1>1, ActiveFacts
  <1>3. Joined(ready, ready', active, prio[active])
    BY <1>1, <1>2, AddToFrontEffect
  <1> SUFFICES ASSUME NEW t \in Tids, Exists(t)' PROVE Placed(t)'
    BY DEF NobodyLost
  <1>4. prio[t] \in Priorities /\ Placed(t)
    BY <1>1 DEF NobodyLost, Exists, IInv, TypeOK
  <1>5. CASE t = active
    BY <1>1, <1>2, <1>3, <1>5, QueuedIsPlaced DEF Joined, Queue
  <1>6. CASE t # active
    BY <1>1, <1>3, <1>4, <1>6, StaysPlaced DEF Joined, Queue
  <1> QED BY <1>5, <1>6

(* A new descriptor and its creator are both queued. *)
LEMMA CreateLosesNobody ==
    ASSUME IInv, NobodyLost, NEW p, NEW failure, Create(p, failure)
    PROVE  NobodyLost'
  <1>1. InUserMode /\ UNCHANGED <<sendQueues, eventTable, status, originalReceiver>>
    BY DEF Create
  <1>2. CASE CreateResult(p) < 0
    BY <1>1, <1>2, ReturnLosesNobody DEF Create, tdVars
  <1>3. CASE ~(CreateResult(p) < 0)
    <2>1. PICK mid : mid = QueueTask(ready, nextTid, p)
      OBVIOUS
    <2>2. /\ prio' = [prio EXCEPT ![nextTid] = p]
          /\ ready' = QueueTask(mid, active, prio[active])
      BY <1>3, <2>1, NewFacts DEF Create
    <2>3. /\ active \in Tids /\ prio[active] \in Priorities /\ ready \in ReadyType
          /\ status[active] = "ready"
      BY <1>1, ActiveFacts
    <2>4. /\ nextTid \in Tids /\ p \in Priorities /\ nextTid # active
          /\ status[nextTid] = "ready"
      BY <1>1, <1>3, NewFacts
    <2>5. Joined(ready, mid, nextTid, p)
      BY <2>1, <2>3, <2>4, QueueTaskEffect
    <2>6. Joined(mid, ready', active, prio[active])
      <3>1. mid \in ReadyType
        BY <2>5 DEF Joined
      <3> QED BY <2>2, <2>3, <3>1, QueueTaskEffect
    <2>7. \A q \in Priorities : \A u :
             InQueue(u, ready'.queues[q]) <=> (InQueue(u, ready.queues[q])
                \/ (q = p /\ u = nextTid) \/ (q = prio[active] /\ u = active))
      BY <2>5, <2>6 DEF Joined
    <2>8. \A t \in Tids : prio'[t] = IF t = nextTid THEN p ELSE prio[t]
      BY <2>2 DEF IInv, TypeOK
    <2> SUFFICES ASSUME NEW t \in Tids, Exists(t)' PROVE Placed(t)'
      BY DEF NobodyLost
    <2>9. CASE t = nextTid
      BY <1>1, <2>4, <2>7, <2>8, <2>9 DEF Placed, Queue
    <2>10. CASE t = active
      BY <1>1, <2>3, <2>4, <2>7, <2>8, <2>10, QueuedIsPlaced DEF Queue
    <2>11. CASE t # nextTid /\ t # active
      <3>1. prio[t] \in Priorities /\ Placed(t) /\ prio'[t] = prio[t]
        BY <2>8, <2>11 DEF NobodyLost, Exists, IInv, TypeOK
      <3> QED BY <1>1, <2>7, <2>11, <3>1, StaysPlaced DEF Queue
    <2> QED BY <2>9, <2>10, <2>11
  <1> QED BY <1>2, <1>3

(* The task that exits is no longer one; the others stay where they were.  *)
LEMMA ExitLosesNobody ==
    ASSUME IInv, NobodyLost, Exit
    PROVE  NobodyLost'
  <1>1. /\ InUserMode
        /\ prio' = [prio EXCEPT ![active] = NoPrio]
        /\ status' = [status EXCEPT ![active] = "ready"]
        /\ UNCHANGED <<ready, sendQueues, eventTable, originalReceiver>>
    BY DEF Exit
  <1>2. active \in Tids
    BY <1>1, ActiveFacts
  <1> SUFFICES ASSUME NEW t \in Tids, Exists(t)' PROVE Placed(t)'
    BY DEF NobodyLost
  <1>3. t # active /\ prio'[t] = prio[t] /\ status'[t] = status[t]
    BY <1>1, <1>2 DEF Exists, IInv, TypeOK
  <1>4. Placed(t)
    BY <1>3 DEF NobodyLost, Exists
  <1> QED BY <1>1, <1>3, <1>4, StaysPlaced DEF Queue

LEMMA StillLosesNobody ==
    ASSUME NobodyLost, UNCHANGED <<ready, sendQueues, eventTable, tdVars, active>>
    PROVE  NobodyLost'
  BY DEF NobodyLost, Placed, Exists, Queue, tdVars

LEMMA RefuseLosesNobody ==
    ASSUME IInv, NobodyLost, InUserMode, NEW v, Refuse(v)
    PROVE  NobodyLost'
  <1>1. UNCHANGED <<sendQueues, eventTable, tdVars>>
    BY DEF Refuse
  <1>2. CASE Production
    BY <1>1, <1>2, ReturnLosesNobody DEF Refuse
  <1>3. CASE ~Production
    BY <1>1, <1>3, StillLosesNobody DEF Refuse
  <1> QED BY <1>2, <1>3

LEMMA NextLosesNobody ==
    ASSUME OneWaiter, IInv, NobodyLost, [Next]_vars
    PROVE  NobodyLost'
  <1>1. CASE Schedule
    BY <1>1, ScheduleLosesNobody
  <1>2. CASE NothingReady \/ Halt \/ UNCHANGED vars
    BY <1>2, StillLosesNobody DEF NothingReady, Halt, vars
  <1>3. ASSUME NEW tid \in 0 .. MaxTasks, SendImpossible(tid) \/ ReplyRefused(tid)
        PROVE  NobodyLost'
    BY <1>3, RefuseLosesNobody DEF SendImpossible, ReplyRefused
  <1>4. ASSUME NEW tid \in Tids, NEW m \in Lengths, NEW r \in Lengths,
               SendToReceiver(tid, m, r) \/ SendToQueue(tid, m, r)
        PROVE  NobodyLost'
    BY <1>4, SendToReceiverLosesNobody, SendToQueueLosesNobody
  <1>5. ASSUME NEW m \in Lengths, ReceiveBlock(m) PROVE NobodyLost'
    BY <1>5, ReceiveBlockLosesNobody
  <1>6. CASE ReceiveQueued
    BY <1>6, ReceiveQueuedLosesNobody
  <1>7. ASSUME NEW tid \in Tids, NEW r \in Lengths, Reply(tid, r) PROVE NobodyLost'
    BY <1>7, ReplyLosesNobody
  <1>8. ASSUME NEW e \in Events, AwaitEvent(e) \/ Interrupt(e) PROVE NobodyLost'
    BY <1>8, AwaitEventLosesNobody, InterruptLosesNobody
  <1>9. CASE AwaitNoEvent(-1)
    BY <1>9, ReturnLosesNobody DEF AwaitNoEvent
  <1>10. CASE SilentInterrupt
    BY <1>10, SilentInterruptLosesNobody
  <1>11. ASSUME NEW p, CreateTask(p) \/ SpawnTask(p) PROVE NobodyLost'
    BY <1>11, CreateLosesNobody DEF CreateTask, SpawnTask
  <1>12. CASE Exit
    BY <1>12, ExitLosesNobody
  <1>13. CASE Query
    BY <1>13, ReturnLosesNobody DEF Query, MyTid, MyParentTid, Pass
  <1> QED BY <1>1, <1>2, <1>3, <1>4, <1>5, <1>6, <1>7, <1>8, <1>9, <1>10, <1>11, <1>12, <1>13
          DEF Next

(* With one notifier per event, whatever exists can be woken again: it is  *)
(* on the processor, on a queue, in the event table, or blocked on a       *)
(* partner the kernel knows (kernel.c:41-127).                             *)
THEOREM NobodyIsLost == OneWaiter => (Spec => []NobodyLost)
  <1> SUFFICES ASSUME OneWaiter PROVE Spec => []NobodyLost
    OBVIOUS
  <1>1. Init => NobodyLost
    <2> SUFFICES ASSUME Init, NEW t \in Tids, Exists(t) PROVE Placed(t)
      BY DEF NobodyLost
    <2>1. t = 1 /\ prio[t] = 0 /\ status[t] = "ready"
      BY DEF Init, Exists
    <2>2. NoneReady \in ReadyType /\ 0 \in Priorities
      BY MaxPriorityAssumption DEF NoneReady, ReadyType, Priorities
    <2>3. Joined(NoneReady, ready, 1, 0)
      BY <2>1, <2>2, QueueTaskEffect DEF Init
    <2> QED BY <2>1, <2>2, <2>3 DEF Placed, Joined, Queue
  <1>2. IInv /\ NobodyLost /\ [Next]_vars => NobodyLost'
    BY NextLosesNobody
  <1> QED BY <1>1, <1>2, Inductive, PTL DEF Spec
-----------------------------------------------------------------------------
(***************************************************************************)
(* The ring buffer of kernel/utils.c: a ring of every size implements the  *)
(* bounded queue.  The proof replaces the remainders by the two cases they *)
(* stand for, before and after the wrap, and then compares the contents    *)
(* slot by slot.                                                           *)
(***************************************************************************)

(* Where slot h+i of the ring is, and how far it is from h to t. *)
Ahead(h, i) == IF h + i < Size THEN h + i ELSE h + i - Size
Gap(h, t)   == IF h <= t THEN t - h ELSE t - h + Size

LEMMA AheadIsRemainder ==
    ASSUME NEW h \in Slots, NEW i \in 0 .. Size
    PROVE  (h + i) % Size = Ahead(h, i) /\ Ahead(h, i) \in Slots
  <1>1. \A x \in 0 .. Size - 1 : x % Size = x /\ (x + Size) % Size = x
    BY CBufferAssumption, SMT
  <1>2. CASE h + i < Size
    BY <1>1, <1>2, CBufferAssumption DEF Ahead, Slots
  <1>3. CASE h + i >= Size
    <2>1. h + i - Size \in 0 .. Size - 1
      BY <1>3, CBufferAssumption DEF Slots
    <2>2. ((h + i - Size) + Size) % Size = h + i - Size
      BY <1>1, <2>1
    <2>3. (h + i - Size) + Size = h + i
      BY CBufferAssumption DEF Slots
    <2> QED BY <1>3, <2>1, <2>2, <2>3, CBufferAssumption DEF Ahead, Slots
  <1> QED BY <1>2, <1>3, CBufferAssumption DEF Slots

LEMMA GapIsRemainder ==
    ASSUME NEW h \in Slots, NEW t \in Slots
    PROVE  (t - h) % Size = Gap(h, t) /\ Gap(h, t) \in 0 .. Size - 1
  <1>1. \A x \in 0 .. Size - 1 : x % Size = x /\ (x - Size) % Size = x
    BY CBufferAssumption, SMT
  <1>2. CASE h <= t
    BY <1>1, <1>2, CBufferAssumption DEF Gap, Slots
  <1>3. CASE h > t
    <2>1. t - h + Size \in 0 .. Size - 1
      BY <1>3, CBufferAssumption DEF Slots
    <2>2. ((t - h + Size) - Size) % Size = t - h + Size
      BY <1>1, <2>1
    <2>3. (t - h + Size) - Size = t - h
      BY CBufferAssumption DEF Slots
    <2> QED BY <1>3, <2>1, <2>2, <2>3, CBufferAssumption DEF Gap, Slots
  <1> QED BY <1>2, <1>3, CBufferAssumption DEF Slots

LEMMA SuccIsAhead == \A i \in Slots : Succ(i) = Ahead(i, 1) /\ Succ(i) \in Slots
  BY AheadIsRemainder, CBufferAssumption DEF Succ, Slots

(* What is in the ring between head h and tail t of the array d. *)
Between(h, t, d) == [i \in 1 .. Gap(h, t) |-> d[Ahead(h, i)]]

LEMMA ContentsFacts ==
    ASSUME NEW h \in Slots, NEW t \in Slots, NEW d \in [Slots -> Values]
    PROVE  /\ [i \in 1 .. (t - h) % Size |-> d[(h + i) % Size]] = Between(h, t, d)
           /\ Between(h, t, d) \in Seq(Values)
           /\ Len(Between(h, t, d)) = Gap(h, t)
  <1>1. (t - h) % Size = Gap(h, t) /\ Gap(h, t) \in 0 .. Size - 1
    BY GapIsRemainder
  <1>2. \A i \in 1 .. Gap(h, t) : (h + i) % Size = Ahead(h, i) /\ Ahead(h, i) \in Slots
    BY <1>1, AheadIsRemainder, CBufferAssumption
  <1>3. \A i \in 1 .. Gap(h, t) : d[Ahead(h, i)] \in Values
    BY <1>2
  <1>4. [i \in 1 .. (t - h) % Size |-> d[(h + i) % Size]] = Between(h, t, d)
    BY <1>1, <1>2 DEF Between
  <1>5. Between(h, t, d) \in Seq(Values) /\ Len(Between(h, t, d)) = Gap(h, t)
    BY <1>1, <1>3 DEF Between
  <1> QED BY <1>4, <1>5

LEMMA EmptyRing ==
    ASSUME NEW h \in Slots, NEW d
    PROVE  Between(h, h, d) = << >>
  BY DEF Between, Gap, Slots

(* A push while there is room appends. *)
LEMMA RoomForOne ==
    ASSUME NEW h \in Slots, NEW t \in Slots, NEW d \in [Slots -> Values], NEW v \in Values,
           Succ(t) # h
    PROVE  /\ Len(Between(h, t, d)) < Size - 1
           /\ Between(h, Succ(t), [d EXCEPT ![Succ(t)] = v]) = Append(Between(h, t, d), v)
  <1>1. PICK s \in Slots : s = Succ(t) /\ s = Ahead(t, 1)
    BY SuccIsAhead
  <1>2. PICK e : e = [d EXCEPT ![s] = v]
    OBVIOUS
  <1>3. e \in [Slots -> Values] /\ e[s] = v /\ \A j \in Slots : j # s => e[j] = d[j]
    BY <1>2
  <1>4. Gap(h, s) = Gap(h, t) + 1 /\ Gap(h, t) \in Nat /\ Gap(h, s) < Size
    BY <1>1, CBufferAssumption DEF Gap, Ahead, Slots
  <1>5. Ahead(h, Gap(h, s)) = s
    BY <1>1, CBufferAssumption DEF Gap, Ahead, Slots
  <1>6. \A i \in 1 .. Gap(h, t) : Ahead(h, i) \in Slots /\ Ahead(h, i) # s
    BY <1>1, CBufferAssumption DEF Gap, Ahead, Slots
  <1>7. /\ Between(h, t, d) \in Seq(Values) /\ Len(Between(h, t, d)) = Gap(h, t)
        /\ Between(h, s, e) \in Seq(Values) /\ Len(Between(h, s, e)) = Gap(h, s)
    BY <1>3, ContentsFacts
  <1>8. \A i \in 1 .. Gap(h, t) : Between(h, s, e)[i] = Between(h, t, d)[i]
    BY <1>3, <1>4, <1>6 DEF Between
  <1>9. Between(h, s, e)[Gap(h, s)] = v
    BY <1>3, <1>4, <1>5 DEF Between
  <1>10. Between(h, s, e) = Append(Between(h, t, d), v)
    BY <1>4, <1>7, <1>8, <1>9
  <1>11. Len(Between(h, t, d)) < Size - 1
    BY <1>4, <1>7, CBufferAssumption
  <1> QED BY <1>1, <1>2, <1>10, <1>11

(* A push into a full ring leaves the new element alone. *)
LEMMA NoRoom ==
    ASSUME NEW h \in Slots, NEW t \in Slots, NEW d \in [Slots -> Values], NEW v \in Values,
           Succ(t) = h
    PROVE  /\ Len(Between(h, t, d)) = Size - 1
           /\ Between(h, Succ(h), [d EXCEPT ![Succ(h)] = v]) = <<v>>
  <1>1. PICK s \in Slots : s = Succ(h) /\ s = Ahead(h, 1)
    BY SuccIsAhead
  <1>2. h = Ahead(t, 1)
    BY SuccIsAhead
  <1>3. PICK e : e = [d EXCEPT ![s] = v]
    OBVIOUS
  <1>4. e[s] = v
    BY <1>3
  <1>5. Gap(h, t) = Size - 1 /\ Gap(h, s) = 1
    BY <1>1, <1>2, CBufferAssumption DEF Gap, Ahead, Slots
  <1>6. Between(h, s, e) = <<v>>
    BY <1>1, <1>4, <1>5 DEF Between
  <1> QED BY <1>1, <1>3, <1>5, <1>6, ContentsFacts

(* A pop takes the first element. *)
LEMMA OneTaken ==
    ASSUME NEW h \in Slots, NEW t \in Slots, NEW d \in [Slots -> Values], h # t
    PROVE  /\ Between(h, t, d) # << >>
           /\ Head(Between(h, t, d)) = d[Succ(h)]
           /\ Between(Succ(h), t, d) = Tail(Between(h, t, d))
  <1>1. PICK s \in Slots : s = Succ(h) /\ s = Ahead(h, 1)
    BY SuccIsAhead
  <1>2. Gap(s, t) = Gap(h, t) - 1 /\ Gap(h, t) \in Nat /\ Gap(h, t) >= 1
    BY <1>1, CBufferAssumption DEF Gap, Ahead, Slots
  <1>3. \A i \in 1 .. Gap(s, t) : Ahead(s, i) = Ahead(h, i + 1)
    BY <1>1, CBufferAssumption DEF Gap, Ahead, Slots
  <1>4. /\ Between(h, t, d) \in Seq(Values) /\ Len(Between(h, t, d)) = Gap(h, t)
        /\ Between(s, t, d) \in Seq(Values) /\ Len(Between(s, t, d)) = Gap(s, t)
    BY ContentsFacts
  <1>5. Between(h, t, d)[1] = d[s]
    BY <1>1, <1>2 DEF Between
  <1>6. \A i \in 1 .. Gap(s, t) : Between(s, t, d)[i] = Between(h, t, d)[i + 1]
    BY <1>2, <1>3 DEF Between
  <1>7. Between(s, t, d) = Tail(Between(h, t, d))
    BY <1>2, <1>4, <1>6
  <1> QED BY <1>1, <1>2, <1>4, <1>5, <1>7
-----------------------------------------------------------------------------
Placement == head \in Slots /\ tail \in Slots /\ data \in [Slots -> Values]

LEMMA ContentsAre == Placement => Contents = Between(head, tail, data)
  BY ContentsFacts DEF Placement, Contents

LEMMA InitPlaced == CBufferInit => Placement /\ Bounded!Init
  <1> SUFFICES ASSUME CBufferInit PROVE Placement /\ Bounded!Init
    OBVIOUS
  <1>1. Placement
    BY CBufferAssumption DEF CBufferInit, Placement, Slots
  <1>2. Contents = << >>
    BY <1>1, ContentsAre, EmptyRing DEF CBufferInit, Placement
  <1> QED BY <1>1, <1>2 DEF CBufferInit, Bounded!Init

LEMMA PushPushes ==
    ASSUME Placement, NEW v \in Values, Push(v)
    PROVE  Placement' /\ Bounded!Push(v)
  <1>1. Contents = Between(head, tail, data)
    BY ContentsAre
  <1>2. CASE Succ(tail) = head
    <2>1. /\ head' = head /\ tail' = Succ(head) /\ data' = [data EXCEPT ![Succ(head)] = v]
          /\ out' = -1
      BY <1>2 DEF Push, Overflow
    <2>2. Placement'
      BY <2>1, SuccIsAhead DEF Placement
    <2>3. Contents' = Between(head', tail', data')
      BY <2>2, ContentsFacts DEF Placement, Contents
    <2>4. Contents' = <<v>> /\ Len(Contents) = Size - 1
      BY <1>1, <1>2, <2>1, <2>3, NoRoom DEF Placement
    <2> QED BY <2>1, <2>2, <2>4, CBufferAssumption DEF Bounded!Push, Bounded!Pushed
  <1>3. CASE Succ(tail) # head
    <2>1. /\ head' = head /\ tail' = Succ(tail) /\ data' = [data EXCEPT ![Succ(tail)] = v]
          /\ out' = 0
      BY <1>3 DEF Push
    <2>2. Placement'
      BY <2>1, SuccIsAhead DEF Placement
    <2>3. Contents' = Between(head', tail', data')
      BY <2>2, ContentsFacts DEF Placement, Contents
    <2>4. Contents' = Append(Contents, v) /\ Len(Contents) < Size - 1
      BY <1>1, <1>3, <2>1, <2>3, RoomForOne DEF Placement
    <2>5. Len(Contents) \in Nat
      BY <1>1, ContentsFacts, GapIsRemainder DEF Placement
    <2> QED BY <2>1, <2>2, <2>4, <2>5, CBufferAssumption DEF Bounded!Push, Bounded!Pushed
  <1> QED BY <1>2, <1>3

LEMMA PopPops ==
    ASSUME Placement, Pop
    PROVE  Placement' /\ Bounded!Pop
  <1>1. Contents = Between(head, tail, data)
    BY ContentsAre
  <1>2. CASE head = tail
    <2>1. UNCHANGED <<head, tail, data>> /\ out' = -1
      BY <1>2 DEF Pop, IsEmpty, Underflow
    <2>2. Contents = << >>
      BY <1>1, <1>2, EmptyRing DEF Placement
    <2> QED BY <2>1, <2>2 DEF Bounded!Pop, Placement, Contents
  <1>3. CASE head # tail
    <2>1. /\ head' = Succ(head) /\ tail' = tail /\ data' = data
          /\ out' = data[Succ(head)]
      BY <1>3 DEF Pop, IsEmpty
    <2>2. Placement'
      BY <2>1, SuccIsAhead DEF Placement
    <2>3. Contents' = Between(head', tail', data')
      BY <2>2, ContentsFacts DEF Placement, Contents
    <2>4. Contents # << >> /\ out' = Head(Contents) /\ Contents' = Tail(Contents)
      BY <1>1, <1>3, <2>1, <2>3, OneTaken DEF Placement
    <2> QED BY <2>2, <2>4 DEF Bounded!Pop
  <1> QED BY <1>2, <1>3

LEMMA CleanCleans ==
    ASSUME Placement, Clean
    PROVE  Placement' /\ Bounded!Clean
  <1>1. head' = 0 /\ tail' = 0 /\ data' = data /\ out' = 0
    BY DEF Clean
  <1>2. Placement'
    BY <1>1, CBufferAssumption DEF Placement, Slots
  <1>3. Contents' = Between(head', tail', data')
    BY <1>2, ContentsFacts DEF Placement, Contents
  <1> QED BY <1>1, <1>2, <1>3, EmptyRing DEF Bounded!Clean, Placement

LEMMA NextQueues ==
    Placement /\ [CBufferNext]_cbufferVars => Placement' /\ [Bounded!Next]_<<Contents, out>>
  <1> SUFFICES ASSUME Placement, [CBufferNext]_cbufferVars
               PROVE  Placement' /\ [Bounded!Next]_<<Contents, out>>
    OBVIOUS
  <1>1. CASE Pop
    BY <1>1, PopPops DEF Bounded!Next
  <1>2. CASE Clean
    BY <1>2, CleanCleans DEF Bounded!Next
  <1>3. ASSUME NEW v \in Values, Push(v) PROVE Placement' /\ Bounded!Next
    BY <1>3, PushPushes DEF Bounded!Next
  <1>4. CASE UNCHANGED cbufferVars
    BY <1>4 DEF cbufferVars, Placement, Contents
  <1> QED BY <1>1, <1>2, <1>3, <1>4 DEF CBufferNext

(* For every size of the array and whatever the slots held before: what is *)
(* popped is what was pushed first, wherever head and tail are, and a push *)
(* into a full buffer leaves only the new element (utils.c:75-78).         *)
THEOREM RingIsQueue == CBufferSpec => ImplementsFifo
  <1> QED BY InitPlaced, NextQueues, PTL DEF CBufferSpec, ImplementsFifo, Bounded!Spec

(* The indices stay inside the array. *)
THEOREM IndicesInside == CBufferSpec => []CBufferTypeOK
  <1>1. CBufferInit => CBufferTypeOK
    BY CBufferAssumption DEF CBufferInit, CBufferTypeOK, Slots
  <1>2. CBufferTypeOK /\ [CBufferNext]_cbufferVars => CBufferTypeOK'
    <2> SUFFICES ASSUME CBufferTypeOK, [CBufferNext]_cbufferVars PROVE CBufferTypeOK'
      OBVIOUS
    <2>1. \A i \in Slots : Succ(i) \in Slots
      BY SuccIsAhead
    <2>2. CASE Pop
      BY <2>1, <2>2 DEF Pop, IsEmpty, Underflow, CBufferTypeOK
    <2>3. CASE Clean
      BY <2>3, CBufferAssumption DEF Clean, CBufferTypeOK, Slots
    <2>4. ASSUME NEW v \in Values, Push(v) PROVE CBufferTypeOK'
      BY <2>1, <2>4 DEF Push, Overflow, CBufferTypeOK
    <2> QED BY <2>2, <2>3, <2>4 DEF CBufferNext, CBufferTypeOK, cbufferVars
  <1> QED BY <1>1, <1>2, PTL DEF CBufferSpec
=============================================================================
