------------------------------ MODULE Scheduler ------------------------------
(***************************************************************************)
(* The ready queues of the kernel (include/kernel/scheduler.h): one FIFO   *)
(* per priority and the bitmap queueStatus, whose bit p says that queue p  *)
(* is not empty.  Both are one record here, so that every operation is a   *)
(* function from the scheduler's state to its next state; the kernel keeps *)
(* the record in a variable.  Priority 0 is the most urgent.               *)
(*                                                                         *)
(* A queue is the sequence of the tasks linked from its head; the links    *)
(* themselves are the subject of a module of their own.                    *)
(***************************************************************************)
EXTENDS Integers, Sequences

CONSTANT MaxPriority      \* TASK_MAX_PRIORITY, 32 in the program

ASSUME MaxPriorityAssumption == MaxPriority \in Nat \ {0}

Priorities == 0 .. MaxPriority - 1

(* initScheduler: every queue empty, no bit set. *)
NoneReady == [queues |-> [p \in Priorities |-> <<>>], bits |-> {}]

(* Seeded faults of queueTask: the tail overwritten instead of linked, and  *)
(* a newcomer linked ahead of the head.                                    *)
QueueTask_Overwrites(r, t, p) ==
    [queues |-> [r.queues EXCEPT ![p] = <<t>>], bits |-> r.bits \cup {p}]
QueueTask_Prepends(r, t, p) ==
    [queues |-> [r.queues EXCEPT ![p] = <<t>> \o @], bits |-> r.bits \cup {p}]

(* queueTask: append t to the queue of its priority p; the bit is set only *)
(* when the queue was empty.                                               *)
QueueTask(r, t, p) ==
    [queues |-> [r.queues EXCEPT ![p] = Append(@, t)],
     bits   |-> IF r.queues[p] = <<>> THEN r.bits \cup {p} ELSE r.bits]

(* addToFront: an interrupted task goes back ahead of its peers. *)
AddToFront(r, t, p) ==
    [queues |-> [r.queues EXCEPT ![p] = <<t>> \o @],
     bits   |-> IF r.queues[p] = <<>> THEN r.bits \cup {p} ELSE r.bits]

(* Seeded fault: the highest bit. *)
Highest_Last(r) == CHOOSE p \in r.bits : \A q \in r.bits : q <= p

(* The de Bruijn lookup of schedule(): the lowest bit set in queueStatus. *)
Highest(r) == CHOOSE p \in r.bits : \A q \in r.bits : p <= q

(* schedule(): the task it returns, and the queues it leaves.  The bit is  *)
(* cleared when head and tail were the same task.                          *)
Scheduled(r) == Head(r.queues[Highest(r)])

(* Seeded faults: the bit survives the last task; the head stays linked. *)
Dequeued_BitStays(r) ==
    [r EXCEPT !.queues[Highest(r)] = Tail(@)]
Dequeued_HeadStays(r) == r

Dequeued(r) ==
    LET p == Highest(r) IN
    [queues |-> [r.queues EXCEPT ![p] = Tail(@)],
     bits   |-> IF Len(r.queues[p]) = 1 THEN r.bits \ {p} ELSE r.bits]
=============================================================================
