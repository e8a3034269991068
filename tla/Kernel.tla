------------------------------- MODULE Kernel -------------------------------
(***************************************************************************)
(* The microkernel: the task table (kernel/task.c), Send/Receive/Reply     *)
(* (kernel/message_passing.c), AwaitEvent and the waking half of           *)
(* handleInterrupt (kernel/interrupts.c), the scheduler and the main loop  *)
(* (kernel/kernel.c).                                                      *)
(*                                                                         *)
(* One iteration of the loop in main() is two steps.  Schedule picks the   *)
(* task that runs in user mode; then one handler runs, chosen by what that *)
(* task does: a system call with any arguments, or nothing before the next *)
(* interrupt.  The kernel itself is never interrupted, so a handler is one *)
(* atomic step.  The programs are arbitrary: any task may make any call.   *)
(*                                                                         *)
(* A message is its length.  What the kernel hands back to a program (the  *)
(* r0 slot of its trap frame and the sender id a Receive stores) is kept   *)
(* until the task is scheduled and the program consumes it.                *)
(***************************************************************************)
EXTENDS Scheduler

CONSTANTS
    MaxTasks,     \* TASK_MAX_TASKS: valid task indices are 1 .. MaxTasks-1
    StackSlots,   \* how many stacks fit between TASK_STACK_HIGH and _LOW
    Lengths,      \* message and buffer lengths the programs use
    Events,       \* the indices of eventTable
    Production,   \* built with -DPRODUCTION: assert() is a no-op
    OneWaiter     \* the programs start one notifier per event

ASSUME KernelAssumption ==
    /\ MaxTasks \in Nat /\ MaxTasks > 1
    /\ StackSlots \in Nat \ {0}
    /\ Lengths \subseteq Nat
    /\ Events \subseteq Nat
    /\ Production \in BOOLEAN
    /\ OneWaiter \in BOOLEAN

Tids     == 1 .. MaxTasks - 1
NoTask   == 0       \* NULL, and the index of a descriptor whose id is 0
NoPrio   == -1      \* no priority: the descriptor's id is 0
NoSender == -1      \* originalReceiverId of a task no transaction binds
NoRet    == -9      \* nothing to hand back

Status == {"ready", "send_block", "receive_block", "reply_block"}

(* What the machine does: the loop runs; Halt() or an empty scheduler left *)
(* it; a failed assert spins in the kernel for ever.                       *)
Modes == {"up", "halted", "no_task", "hung"}

VARIABLES
    ready,             \* readyQueues and queueStatus
    sendQueues,        \* per receiver, the senders it has not received from
    eventTable,        \* per event, the task to wake
    nextTid,           \* global_next_unique_task_id
    prio,              \* the priority bits of td->id, NoPrio when id is 0
    parent,            \* td->parent_id
    status,            \* td->status
    originalReceiver,  \* td->originalReceiverId
    recvLen,           \* td->recv_len, a sender's reply length meanwhile
    sendLen,           \* td->send_len
    ret,               \* the r0 slot of the trap frame
    heard,             \* the sender id the kernel stored for a Receive
    active,            \* the task in user mode
    mode

tdVars  == <<prio, parent, status, originalReceiver, recvLen, sendLen>>
outVars == <<ret, heard>>
vars    == <<ready, sendQueues, eventTable, nextTid, tdVars, outVars, active, mode>>

Exists(t) == prio[t] # NoPrio

(* Seeded faults: Receive ignores the send queue; any task may answer a    *)
(* blocked sender.                                                         *)
NoSenderWaits_Unchecked(t) == TRUE
MayReply_Anyone(tid)       == status[tid] = "reply_block"

NoSenderWaits(t) == sendQueues[t] = <<>>
Bind(s, r)       == [originalReceiver EXCEPT ![s] = r]
MayReply(tid)    == status[tid] = "reply_block" /\ originalReceiver[tid] = active

Init ==
    \* initKernel: the bootstrap task is created and queued at priority 0
    /\ ready = QueueTask(NoneReady, 1, 0)
    /\ sendQueues = [t \in Tids |-> <<>>]
    /\ eventTable = [e \in Events |-> NoTask]
    /\ nextTid = 2
    /\ prio = [t \in Tids |-> IF t = 1 THEN 0 ELSE NoPrio]
    /\ parent = [t \in Tids |-> NoTask]
    /\ status = [t \in Tids |-> "ready"]
    /\ originalReceiver = [t \in Tids |-> NoSender]
    /\ recvLen = [t \in Tids |-> 0]
    /\ sendLen = [t \in Tids |-> 0]
    /\ ret = [t \in Tids |-> NoRet]
    /\ heard = [t \in Tids |-> NoTask]
    /\ active = NoTask
    /\ mode = "up"

-----------------------------------------------------------------------------
(* schedule() and kernelExit(): the program of the chosen task runs and    *)
(* picks up what its last call returned.                                   *)
Schedule ==
    /\ mode = "up" /\ active = NoTask
    /\ ready.bits # {}
    /\ LET t == Scheduled(ready) IN
         /\ active' = t
         /\ ret' = [ret EXCEPT ![t] = NoRet]
         /\ heard' = [heard EXCEPT ![t] = NoTask]
    /\ ready' = Dequeued(ready)
    /\ UNCHANGED <<sendQueues, eventTable, nextTid, tdVars, mode>>

(* schedule() returns NULL: main() leaves the loop. *)
NothingReady ==
    /\ mode = "up" /\ active = NoTask
    /\ ready.bits = {}
    /\ mode' = "no_task"
    /\ UNCHANGED <<ready, sendQueues, eventTable, nextTid, tdVars, outVars, active>>

InUserMode == mode = "up" /\ active # NoTask

(* The active task goes to the end of its queue with result v. *)
Return(v) ==
    /\ ret' = [ret EXCEPT ![active] = v]
    /\ ready' = QueueTask(ready, active, prio[active])
    /\ active' = NoTask

(* A call the handler refuses with an assert(0) in front of the return. *)
Refuse(v) ==
    /\ IF Production
         THEN Return(v) /\ UNCHANGED mode
         ELSE mode' = "hung" /\ UNCHANGED <<ret, ready, active>>
    /\ UNCHANGED <<sendQueues, eventTable, nextTid, tdVars, heard>>
-----------------------------------------------------------------------------
(* handleSend *)

SendImpossible(tid) ==
    /\ InUserMode
    /\ tid \notin Tids
    /\ Refuse(-1)

(* The receiver is already blocked in Receive: the message is copied over  *)
(* and the sender waits for the reply.                                     *)
SendToReceiver(tid, msglen, replylen) ==
    /\ InUserMode
    /\ tid \in Tids /\ status[tid] = "receive_block"
    /\ ret' = [ret EXCEPT ![tid] = msglen]
    /\ heard' = [heard EXCEPT ![tid] = active]
    /\ recvLen' = [recvLen EXCEPT ![active] = replylen, ![tid] = 0]
    /\ status' = [status EXCEPT ![active] = "reply_block", ![tid] = "ready"]
    /\ originalReceiver' = Bind(active, tid)
    /\ ready' = QueueTask(ready, tid, prio[tid])
    /\ active' = NoTask
    /\ UNCHANGED <<sendQueues, eventTable, nextTid, prio, parent, sendLen, mode>>

(* Otherwise the sender joins the receiver's send queue.  taskGetTDByIndex *)
(* answers for every valid index, whether or not that task exists.         *)
SendToQueue(tid, msglen, replylen) ==
    /\ InUserMode
    /\ tid \in Tids /\ status[tid] # "receive_block"
    /\ recvLen' = [recvLen EXCEPT ![active] = replylen]
    /\ sendLen' = [sendLen EXCEPT ![active] = msglen]
    /\ status' = [status EXCEPT ![active] = "send_block"]
    /\ sendQueues' = [sendQueues EXCEPT ![tid] = Append(@, active)]
    /\ active' = NoTask
    /\ UNCHANGED <<ready, eventTable, nextTid, prio, parent, originalReceiver, outVars, mode>>
-----------------------------------------------------------------------------
(* handleReceive *)

ReceiveBlock(msglen) ==
    /\ InUserMode
    /\ NoSenderWaits(active)
    /\ recvLen' = [recvLen EXCEPT ![active] = msglen]
    /\ status' = [status EXCEPT ![active] = "receive_block"]
    /\ active' = NoTask
    /\ UNCHANGED <<ready, sendQueues, eventTable, nextTid, prio, parent,
                   originalReceiver, sendLen, outVars, mode>>

ReceiveQueued ==
    /\ InUserMode
    /\ ~NoSenderWaits(active)
    /\ LET s == Head(sendQueues[active]) IN
         /\ heard' = [heard EXCEPT ![active] = s]
         /\ status' = [status EXCEPT ![s] = "reply_block", ![active] = "ready"]
         /\ sendLen' = [sendLen EXCEPT ![s] = 0]
         /\ originalReceiver' = Bind(s, active)
         /\ Return(sendLen[s])
    /\ sendQueues' = [sendQueues EXCEPT ![active] = Tail(@)]
    /\ UNCHANGED <<eventTable, nextTid, prio, parent, recvLen, mode>>
-----------------------------------------------------------------------------
(* handleReply *)

ReplyRefused(tid) ==
    /\ InUserMode
    /\ \/ tid \notin Tids /\ Refuse(-1)
       \/ tid \in Tids /\ status[tid] # "reply_block" /\ Refuse(-3)
       \/ /\ tid \in Tids /\ status[tid] = "reply_block"
          /\ ~MayReply(tid) /\ Refuse(-5)

(* The sender is queued before the replier; -4 tells the replier that the  *)
(* sender's buffer was too short for the reply.                            *)
Reply(tid, replylen) ==
    /\ InUserMode
    /\ tid \in Tids /\ MayReply(tid)
    /\ ret' = [ret EXCEPT ![active] = IF replylen > recvLen[tid] THEN -4 ELSE 0,
                          ![tid] = replylen]
    /\ recvLen' = [recvLen EXCEPT ![tid] = 0]
    /\ originalReceiver' = [originalReceiver EXCEPT ![tid] = NoSender]
    /\ status' = [status EXCEPT ![active] = "ready", ![tid] = "ready"]
    /\ ready' = QueueTask(QueueTask(ready, tid, prio[tid]), active, prio[active])
    /\ active' = NoTask
    /\ UNCHANGED <<sendQueues, eventTable, nextTid, prio, parent, sendLen, heard, mode>>
-----------------------------------------------------------------------------
(* SYS_AWAIT_EVENT and handleInterrupt *)

(* awaitInterrupt stores the task over whatever the slot held; the task's  *)
(* status stays ready and it is not requeued.                              *)
AwaitEvent(e) ==
    /\ InUserMode
    /\ e \in Events
    /\ OneWaiter => eventTable[e] = NoTask
    /\ eventTable' = [eventTable EXCEPT ![e] = active]
    /\ active' = NoTask
    /\ UNCHANGED <<ready, sendQueues, nextTid, tdVars, outVars, mode>>

AwaitNoEvent(e) ==
    /\ InUserMode
    /\ e \notin Events
    /\ Return(-1)
    /\ UNCHANGED <<sendQueues, eventTable, nextTid, tdVars, heard, mode>>

(* An interrupt that occurs as event e: its waiter, if there is one, is    *)
(* queued, then the interrupted task goes to the front of its own queue.   *)
Interrupt(e) ==
    /\ InUserMode
    /\ LET w     == eventTable[e]
           woken == IF w = NoTask THEN ready ELSE QueueTask(ready, w, prio[w])
       IN  /\ ready' = AddToFront(woken, active, prio[active])
           /\ ret' = IF w = NoTask THEN ret ELSE [ret EXCEPT ![w] = 0]
    /\ eventTable' = [eventTable EXCEPT ![e] = NoTask]
    /\ active' = NoTask
    /\ UNCHANGED <<sendQueues, nextTid, tdVars, heard, mode>>

(* An interrupt the handler only acknowledges: the first half of the UART1 *)
(* transmit handshake, or the software interrupt.                          *)
SilentInterrupt ==
    /\ InUserMode
    /\ ready' = AddToFront(ready, active, prio[active])
    /\ active' = NoTask
    /\ UNCHANGED <<sendQueues, eventTable, nextTid, tdVars, outVars, mode>>
-----------------------------------------------------------------------------
(* taskCreate, taskSpawn, taskExit and the calls that only requeue *)

(* taskCreate's result: a new index or the reason there is none. *)
CreateResult(p) ==
    IF p \notin Priorities THEN -1
    ELSE IF nextTid >= MaxTasks THEN -2
    ELSE IF nextTid > StackSlots THEN -3
    ELSE nextTid

(* Create and Spawn differ in what the caller is told on failure.  The new *)
(* task is queued before its creator; its descriptor keeps the status and  *)
(* originalReceiverId that initTaskSystem gave it.                         *)
Create(p, failure) ==
    /\ InUserMode
    /\ LET new == CreateResult(p) IN
         IF new < 0
           THEN /\ Return(failure)
                /\ UNCHANGED <<nextTid, prio, parent>>
           ELSE /\ nextTid' = nextTid + 1
                /\ prio' = [prio EXCEPT ![new] = p]
                /\ parent' = [parent EXCEPT ![new] = active]
                /\ ret' = [ret EXCEPT ![active] = new]
                /\ ready' = QueueTask(QueueTask(ready, new, p), active, prio[active])
                /\ active' = NoTask
    /\ UNCHANGED <<sendQueues, eventTable, status, originalReceiver, recvLen,
                   sendLen, heard, mode>>

CreateTask(p) == Create(p, CreateResult(p))
SpawnTask(p)  == Create(p, -1)

(* taskExit clears the descriptor.  It leaves originalReceiverId, and the  *)
(* tasks that wait for this one on its send queue or for its reply.        *)
Exit ==
    /\ InUserMode
    /\ prio' = [prio EXCEPT ![active] = NoPrio]
    /\ parent' = [parent EXCEPT ![active] = NoTask]
    /\ status' = [status EXCEPT ![active] = "ready"]
    /\ recvLen' = [recvLen EXCEPT ![active] = 0]
    /\ sendLen' = [sendLen EXCEPT ![active] = 0]
    /\ active' = NoTask
    /\ UNCHANGED <<ready, sendQueues, eventTable, nextTid, originalReceiver, outVars, mode>>

MyTid       == InUserMode /\ Return(active)
MyParentTid == InUserMode /\ Return(parent[active])

(* Pass requeues the caller and leaves r0 alone. *)
Pass == InUserMode /\ Return(NoRet)

Query ==
    /\ MyTid \/ MyParentTid \/ Pass
    /\ UNCHANGED <<sendQueues, eventTable, nextTid, tdVars, heard, mode>>

(* SYS_HALT: handleRequest returns -1 and main() leaves the loop. *)
Halt ==
    /\ InUserMode
    /\ mode' = "halted"
    /\ UNCHANGED <<ready, sendQueues, eventTable, nextTid, tdVars, outVars, active>>
-----------------------------------------------------------------------------
Next ==
    \/ Schedule
    \/ NothingReady
    \/ \E tid \in 0 .. MaxTasks : SendImpossible(tid)
    \/ \E tid \in Tids, m \in Lengths, r \in Lengths :
          SendToReceiver(tid, m, r) \/ SendToQueue(tid, m, r)
    \/ \E m \in Lengths : ReceiveBlock(m)
    \/ ReceiveQueued
    \/ \E tid \in 0 .. MaxTasks : ReplyRefused(tid)
    \/ \E tid \in Tids, r \in Lengths : Reply(tid, r)
    \/ \E e \in Events : AwaitEvent(e) \/ Interrupt(e)
    \/ AwaitNoEvent(-1)
    \/ SilentInterrupt
    \/ \E p \in -1 .. MaxPriority : CreateTask(p) \/ SpawnTask(p)
    \/ Exit
    \/ Query
    \/ Halt

Spec == Init /\ [][Next]_vars
-----------------------------------------------------------------------------
(***************************************************************************)
(* Properties.                                                             *)
(***************************************************************************)
Queue(p)         == ready.queues[p]
InQueue(t, q)    == \E i \in DOMAIN q : q[i] = t
Distinct(q)      == \A i, j \in DOMAIN q : q[i] = q[j] => i = j
Before(q, a, b)  == \E i, j \in DOMAIN q : i < j /\ q[i] = a /\ q[j] = b

(* Every variable holds what its declaration in the code can hold. *)
TypeOK ==
    /\ ready \in [queues : [Priorities -> Seq(Tids)], bits : SUBSET Priorities]
    /\ sendQueues \in [Tids -> Seq(Tids)]
    /\ eventTable \in [Events -> Tids \cup {NoTask}]
    /\ nextTid \in 2 .. MaxTasks
    /\ prio \in [Tids -> Priorities \cup {NoPrio}]
    /\ parent \in [Tids -> Tids \cup {NoTask}]
    /\ status \in [Tids -> Status]
    /\ originalReceiver \in [Tids -> Tids \cup {NoSender}]
    /\ recvLen \in [Tids -> Lengths \cup {0}]
    /\ sendLen \in [Tids -> Lengths \cup {0}]
    /\ ret \in [Tids -> Int]
    /\ heard \in [Tids -> Tids \cup {NoTask}]
    /\ active \in Tids \cup {NoTask}
    /\ mode \in Modes

(* The descriptor on the processor exists and is ready. *)
ActiveReady == active # NoTask => Exists(active) /\ status[active] = "ready"

(* A ready queue holds ready tasks of its own priority, each once, never   *)
(* the one on the processor.                                               *)
ReadyQueuesSound ==
    \A p \in Priorities :
       /\ Distinct(Queue(p))
       /\ \A t \in Tids : InQueue(t, Queue(p)) =>
             prio[t] = p /\ status[t] = "ready" /\ t # active

(* A send queue holds send-blocked tasks; a task is on one of them, once. *)
SendQueuesSound ==
    \A r \in Tids :
       /\ Distinct(sendQueues[r])
       /\ \A t \in Tids : InQueue(t, sendQueues[r]) =>
             /\ status[t] = "send_block"
             /\ \A r2 \in Tids : InQueue(t, sendQueues[r2]) => r2 = r

(* A task in the event table waits for one event and is nowhere else. *)
AwaitersSound ==
    \A e \in Events : LET w == eventTable[e] IN w # NoTask =>
       /\ Exists(w) /\ status[w] = "ready" /\ w # active
       /\ ~InQueue(w, Queue(prio[w]))
       /\ \A f \in Events : eventTable[f] = w => f = e

(* A task is in one place only: on the processor, once on the ready queue  *)
(* of its priority, once on one send queue, or in one slot of the event    *)
(* table.  Ready and send queues share the link td->next, so a task on two *)
(* of them would cut one in half (scheduler.h:69-108,                      *)
(* message_passing.c:88-106).                                              *)
OnePlace == ActiveReady /\ ReadyQueuesSound /\ SendQueuesSound /\ AwaitersSound

(* Where the kernel finds t again. *)
Placed(t) ==
    /\ status[t] = "ready" =>
          \/ t = active \/ InQueue(t, Queue(prio[t]))
          \/ \E e \in Events : eventTable[e] = t
    /\ status[t] = "send_block" => \E r \in Tids : InQueue(t, sendQueues[r])
    /\ status[t] = "reply_block" => originalReceiver[t] \in Tids

(* No task is mislaid: whatever exists can be woken, because it is on the  *)
(* processor, on a queue, in the event table, or blocked on a partner the  *)
(* kernel knows.  Every return path of a handler has to see to that        *)
(* (kernel.c:41-127).                                                      *)
NobodyLost == \A t \in Tids : Exists(t) => Placed(t)

(* queueStatus says exactly which queues hold a task: a stale bit makes    *)
(* schedule() dereference an empty queue, a missing one strands its tasks. *)
BitmapExact == \A p \in Priorities : p \in ready.bits <=> Queue(p) # <<>>

(* A task blocked in Receive has an empty send queue: no sender waits for  *)
(* a receiver that waits for a sender, in whatever order they got there    *)
(* (message_passing.c:59-110 against 122-128).                             *)
NoMissedRendezvous ==
    \A t \in Tids : status[t] = "receive_block" => sendQueues[t] = <<>>

(* While a task runs no task of a more urgent priority is ready: every     *)
(* handler that wakes one goes back through schedule().                    *)
HighestPriorityRuns ==
    active # NoTask => \A p \in Priorities : p < prio[active] => Queue(p) = <<>>

(* Within a priority tasks run in the order they became ready: while a     *)
(* task waits nobody gets ahead of it, newcomers included.  Only the       *)
(* interrupted task may, on its way back to the front (kernel.c:43-48).    *)
NoOvertaking ==
    [][\A p \in Priorities : \A a, b \in Tids :
          (/\ InQueue(a, Queue(p)) /\ ~Before(Queue(p), b, a)
           /\ Before(Queue(p)', b, a))
             => active = b]_vars

(* A client's request is in the inbox its sender queue is, or with the     *)
(* server its descriptor names while it is reply-blocked.                  *)
Protocol == INSTANCE Rendezvous WITH
    Tasks    <- Tids,
    inbox    <- sendQueues,
    servedBy <- [t \in Tids |->
        IF status[t] = "reply_block" THEN originalReceiver[t] ELSE NoTask]

(* The kernel implements Rendezvous: requests are served first come first  *)
(* served and each is answered once, by the task that received it          *)
(* (message_passing.c), whatever the scheduling, the interrupts and the    *)
(* exits of tasks in between.                                              *)
ImplementsRendezvous == Protocol!Spec
=============================================================================
