------------------------------- MODULE CBuffer -------------------------------
(***************************************************************************)
(* The ring buffer of kernel/utils.c.  Three copies of it carry all the    *)
(* data that waits between tasks: CBuffer (characters, and task ids in the *)
(* input servers), CommandQueue (train commands) and SensorQueue (sensor   *)
(* deliveries).  They differ in what a slot holds; what follows is for     *)
(* each of them, and the servers use one as module BoundedQueue has it.    *)
(*                                                                         *)
(* head is the slot last popped, tail the slot last pushed, and the buffer *)
(* is empty when they meet.                                                *)
(***************************************************************************)
EXTENDS BoundedQueue, Integers

CONSTANTS
    Size,       \* slots of the array
    Values      \* what a slot can hold

ASSUME CBufferAssumption == Size \in Nat /\ Size > 1

Slots     == 0 .. Size - 1
Underflow == -1
Overflow  == -1

VARIABLES
    head, tail, data,
    out         \* what the last call returned

cbufferVars == <<head, tail, data, out>>

(* The array is the caller's and holds anything. *)
CBufferInit ==
    /\ head = 0 /\ tail = 0
    /\ data \in [Slots -> Values]
    /\ out = 0

(* Seeded fault: the tail stops one short. *)
Succ_Early(i) == IF i = Size - 2 THEN 0 ELSE i + 1

Succ(i) == (i + 1) % Size

IsEmpty == head = tail

Push(v) ==
    LET t    == Succ(tail)
        full == t = head
        slot == IF full THEN Succ(t) ELSE t
    IN  /\ tail' = slot
        /\ data' = [data EXCEPT ![slot] = v]
        /\ out' = IF full THEN Overflow ELSE 0
        /\ UNCHANGED head

Pop ==
    /\ IF IsEmpty
         THEN out' = Underflow /\ UNCHANGED head
         ELSE head' = Succ(head) /\ out' = data[head']
    /\ UNCHANGED <<tail, data>>

(* CBufferClean. *)
Clean ==
    /\ head' = 0 /\ tail' = 0
    /\ out' = 0
    /\ UNCHANGED data

CBufferNext == Pop \/ Clean \/ \E v \in Values : Push(v)

CBufferSpec == CBufferInit /\ [][CBufferNext]_cbufferVars
-----------------------------------------------------------------------------
(* The indices stay inside the array. *)
CBufferTypeOK ==
    /\ head \in Slots /\ tail \in Slots
    /\ data \in [Slots -> Values]
    /\ out \in Values \cup {-1, 0}

(* What is in the buffer: the slots behind head, up to tail. *)
Contents ==
    [i \in 1 .. (tail - head) % Size |-> data[(head + i) % Size]]

Bounded == INSTANCE Fifo WITH queue <- Contents

(* The ring is a bounded first-in first-out queue: what is popped is what  *)
(* was pushed first, at every position of head and tail, and a push into a *)
(* full buffer drops all of it but the new element, as the comment in      *)
(* utils.c:75-78 puts up with.                                             *)
ImplementsFifo == Bounded!Spec
=============================================================================
