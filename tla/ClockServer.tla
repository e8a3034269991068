----------------------------- MODULE ClockServer -----------------------------
(***************************************************************************)
(* The clock server, its notifier and their clients (user/clockserver.c),  *)
(* over timer 3 (kernel/timer.c, handleInterrupt).                         *)
(*                                                                         *)
(* The kernel appears through what it guarantees (module Kernel): a call   *)
(* is atomic, requests are received in the order they were sent, and a     *)
(* task runs only while no more urgent one can.  The notifier (priority 1) *)
(* preempts the server (4), and the server preempts every client (14 and   *)
(* up, priority.h), so a server step is what runs between two calls.       *)
(*                                                                         *)
(* The delayed tasks are a ring threaded through one node per task; q->tail*)
(* is the last and its successor the first to be released.                 *)
(***************************************************************************)
EXTENDS Integers, Sequences, FiniteSetsExt

CONSTANTS
    Clients,    \* tids of the tasks that call Time, Delay and DelayUntil
    Ticks,      \* the arguments they pass
    Period,     \* steps of the notifier and the server that fit in 10 ms
    MaxTick     \* bound: the timer stops, and no deadline is set beyond

NoClient == 0

ASSUME ClockAssumption ==
    /\ Clients \subseteq Nat \ {0} /\ IsFiniteSet(Clients)
    /\ Ticks \subseteq Nat
    /\ Period \in Nat
    /\ MaxTick \in Nat

VARIABLES
    now,        \* underflows of timer 3 so far
    spent,      \* steps of the notifier and the server since the last of them
    notifier,   \* what the notifier is about to do or waits for
    inbox,      \* the server's send queue
    pc,         \* where the server is
    req,        \* the request it handles; the buffer is dead in between
    tick,
    tail,       \* q.tail
    next,       \* q.tasks[c].next
    finalTick,  \* q.tasks[c].finalTick
    curr,       \* the task removeExpiredTasks has come to
    client,     \* what a client waits for
    wakeAt      \* the time a delayed client asked for

qVars      == <<tail, next, finalTick, curr>>
clientVars == <<client, wakeAt>>
vars == <<now, spent, notifier, inbox, pc, req, tick, qVars, clientVars>>

Notification == [type |-> "notification", tid |-> NoClient, data |-> 0]
Requests == {Notification} \cup
            [type : {"time", "delay", "delay_until"}, tid : Clients, data : Nat]

Init ==
    /\ now = 0 /\ spent = 0
    /\ notifier = "arm"          \* created by the server, not yet waiting
    /\ inbox = <<>>
    /\ pc = "receive" /\ req = Notification
    /\ tick = 0
    /\ tail = NoClient
    /\ next = [c \in Clients |-> NoClient]
    /\ finalTick = [c \in Clients |-> 0]
    /\ curr = NoClient
    /\ client = [c \in Clients |-> "running"]
    /\ wakeAt = [c \in Clients |-> 0]
-----------------------------------------------------------------------------
NotifierReady == notifier \in {"arm", "woken"}

ServerReady == pc # "receive" \/ inbox # <<>>

(* Seeded fault: the server is no more urgent than its clients. *)
ClientsRun_Equal == ~NotifierReady

ClientsRun == ~NotifierReady /\ ~ServerReady

Spend == spent' = IF spent < Period THEN spent + 1 ELSE spent

(* handleInterrupt clears the timer and wakes the notifier, if it waits.   *)
(* The timer fires when its 10 ms are over; while nobody has anything to   *)
(* do that is at any time.                                                 *)
Underflow ==
    /\ now < MaxTick
    /\ spent = Period \/ (~NotifierReady /\ ~ServerReady)
    /\ now' = now + 1
    /\ spent' = 0
    /\ notifier' = IF notifier = "await" THEN "woken" ELSE notifier
    /\ UNCHANGED <<inbox, pc, req, tick, qVars, clientVars>>

(* clockNotifier: AwaitEvent, then Send and wait for the reply. *)
NotifierAwaits ==
    /\ notifier = "arm"
    /\ notifier' = "await"
    /\ Spend
    /\ UNCHANGED <<now, inbox, pc, req, tick, qVars, clientVars>>

NotifierSends ==
    /\ notifier = "woken"
    /\ notifier' = "sent"
    /\ inbox' = Append(inbox, Notification)
    /\ Spend
    /\ UNCHANGED <<now, pc, req, tick, qVars, clientVars>>

(* Time, Delay and DelayUntil send a request and wait for the reply. *)
Ask(c, type, d) ==
    /\ ClientsRun
    /\ client[c] = "running"
    /\ client' = [client EXCEPT ![c] = type]
    /\ inbox' = Append(inbox, [type |-> type, tid |-> c, data |-> d])
    /\ UNCHANGED <<now, spent, notifier, pc, req, tick, qVars>>

AskTime(c) == Ask(c, "time", 0) /\ UNCHANGED wakeAt

AskDelay(c, type, d) ==
    /\ Ask(c, type, d)
    /\ LET due == IF type = "delay" THEN tick + d ELSE d IN
         /\ now < MaxTick /\ due <= MaxTick
         /\ wakeAt' = [wakeAt EXCEPT ![c] = due]
-----------------------------------------------------------------------------
(* The delayed queue. *)

(* The task released after c.  Until removeExpiredTasks is done the tail   *)
(* still points to the first task it released: the next one is curr.       *)
Succ(c) == IF pc = "release" /\ c = tail THEN curr ELSE next[c]

(* The nodes one comes to from the tail, and the queue they make up: from  *)
(* the first to be released to the tail itself.                            *)
Node ==
    LET walk[n \in 0 .. Cardinality(Clients)] == IF n = 0 THEN tail ELSE Succ(walk[n - 1])
    IN  walk

Ring ==
    IF tail = NoClient THEN <<>>
    ELSE [i \in 1 .. Min({n \in 1 .. Cardinality(Clients) : Node[n] = tail}) |-> Node[i]]

(* insertDelayedTask walks from the tail: the node to link behind is the   *)
(* first whose successor expires no earlier, or is the tail.               *)
LinkAfter(final) ==
    LET i == Min({k \in 1 .. Len(Ring) : finalTick[Ring[k]] >= final \/ k = Len(Ring)})
    IN  Node[i - 1]

(* Seeded fault: q->tail is not set. *)
InsertDelayedTask_TailStays(c, final) ==
    /\ finalTick' = [finalTick EXCEPT ![c] = final]
    /\ IF tail = NoClient
         THEN tail' = tail /\ next' = [next EXCEPT ![c] = c]
         ELSE LET p == LinkAfter(final) IN
              /\ next' = [next EXCEPT ![c] = next[p], ![p] = c]
              /\ tail' = tail
    /\ UNCHANGED curr

InsertDelayedTask(c, final) ==
    /\ finalTick' = [finalTick EXCEPT ![c] = final]
    /\ IF tail = NoClient
         THEN tail' = c /\ next' = [next EXCEPT ![c] = c]
         ELSE LET p == LinkAfter(final) IN
              /\ next' = [next EXCEPT ![c] = next[p], ![p] = c]
              /\ tail' = IF finalTick[next[p]] >= final THEN tail ELSE c
    /\ UNCHANGED curr
-----------------------------------------------------------------------------
(* clockServerTask *)

Receive ==
    /\ ~NotifierReady
    /\ pc = "receive" /\ inbox # <<>>
    /\ req' = Head(inbox)
    /\ inbox' = Tail(inbox)
    /\ pc' = "handle"
    /\ Spend
    /\ UNCHANGED <<now, notifier, tick, qVars, clientVars>>

(* Seeded fault: the notifier gets no reply. *)
AnswerNotifier_Never == UNCHANGED notifier

(* The notifier is answered first, so that it waits for the next underflow *)
(* while the server releases the tasks of this one.                        *)
AnswerNotifier == notifier' = "arm"

HandleNotification ==
    /\ ~NotifierReady
    /\ pc = "handle" /\ req.type = "notification"
    /\ AnswerNotifier
    /\ pc' = "count" /\ req' = Notification
    /\ Spend
    /\ UNCHANGED <<now, inbox, tick, qVars, clientVars>>

(* The tick is counted and removeExpiredTasks entered. *)
CountTick ==
    /\ ~NotifierReady
    /\ pc = "count"
    /\ tick' = tick + 1
    /\ IF tail = NoClient THEN pc' = "receive" /\ UNCHANGED curr
                          ELSE pc' = "release" /\ curr' = next[tail]
    /\ Spend
    /\ UNCHANGED <<now, notifier, inbox, req, tail, next, finalTick, clientVars>>

(* Seeded fault: a task is released one tick before its time. *)
Expired_Early(c) == finalTick[c] <= tick + 1

Expired(c) == finalTick[c] <= tick

(* One turn of its loop: a Reply, which the notifier may preempt. *)
ReleaseTask ==
    /\ ~NotifierReady
    /\ pc = "release" /\ Expired(curr)
    /\ client' = [client EXCEPT ![curr] = "running"]
    /\ wakeAt' = [wakeAt EXCEPT ![curr] = 0]
    /\ IF curr = tail
         THEN tail' = NoClient /\ curr' = NoClient /\ pc' = "receive"
         ELSE curr' = next[curr] /\ UNCHANGED <<tail, pc>>
    /\ Spend
    /\ UNCHANGED <<now, notifier, inbox, req, tick, next, finalTick>>

(* The first task that has not expired becomes the head. *)
EndRelease ==
    /\ ~NotifierReady
    /\ pc = "release" /\ ~Expired(curr)
    /\ next' = [next EXCEPT ![tail] = curr]
    /\ curr' = NoClient /\ pc' = "receive"
    /\ Spend
    /\ UNCHANGED <<now, notifier, inbox, req, tick, tail, finalTick, clientVars>>

HandleTime ==
    /\ ~NotifierReady
    /\ pc = "handle" /\ req.type = "time"
    /\ client' = [client EXCEPT ![req.tid] = "running"]
    /\ pc' = "receive" /\ req' = Notification
    /\ Spend
    /\ UNCHANGED <<now, notifier, inbox, tick, qVars, wakeAt>>

Deadline(r) == IF r.type = "delay" THEN r.data + tick ELSE r.data

HandleDelay ==
    /\ ~NotifierReady
    /\ pc = "handle" /\ req.type \in {"delay", "delay_until"}
    /\ InsertDelayedTask(req.tid, Deadline(req))
    /\ pc' = "receive" /\ req' = Notification
    /\ Spend
    /\ UNCHANGED <<now, notifier, inbox, tick, clientVars>>
-----------------------------------------------------------------------------
ClockTasks ==
    \/ NotifierAwaits \/ NotifierSends
    \/ Receive \/ HandleNotification \/ CountTick \/ ReleaseTask \/ EndRelease
    \/ HandleTime \/ HandleDelay

Next ==
    \/ Underflow
    \/ ClockTasks
    \/ \E c \in Clients :
          \/ AskTime(c)
          \/ \E d \in Ticks : AskDelay(c, "delay", d) \/ AskDelay(c, "delay_until", d)

Spec == Init /\ [][Next]_vars

(* The timer is periodic, and nothing is more urgent than the clock tasks. *)
Fairness == WF_vars(Underflow) /\ WF_vars(ClockTasks)

FairSpec == Spec /\ Fairness
-----------------------------------------------------------------------------
(***************************************************************************)
(* Properties.                                                             *)
(***************************************************************************)

(* Every variable holds what its declaration can hold. *)
TypeOK ==
    /\ now \in 0 .. MaxTick /\ spent \in 0 .. Period
    /\ notifier \in {"arm", "await", "woken", "sent"}
    /\ inbox \in Seq(Requests)
    /\ pc \in {"receive", "handle", "count", "release"} /\ req \in Requests
    /\ tick \in 0 .. MaxTick
    /\ tail \in Clients \cup {NoClient}
    /\ next \in [Clients -> Clients \cup {NoClient}]
    /\ finalTick \in [Clients -> Nat]
    /\ curr \in Clients \cup {NoClient}
    /\ client \in [Clients -> {"running", "time", "delay", "delay_until"}]
    /\ wakeAt \in [Clients -> Nat]

(* The clients whose request the server has not taken off its hands yet. *)
Underway ==
    {inbox[i].tid : i \in DOMAIN inbox} \cup (IF pc = "handle" THEN {req.tid} ELSE {})

Delayed == {c \in Clients : client[c] \in {"delay", "delay_until"}} \ Underway

Reach == IF tail = NoClient THEN {} ELSE {Node[n] : n \in 0 .. Cardinality(Clients)}

(* The ring holds the delayed tasks, all of them and nobody else, and      *)
(* closes: no insertion loses a node or links in a released one, and no    *)
(* release leaves tail on a task that is gone (clockserver.c:90-148).      *)
RingHoldsDelayed ==
    /\ Reach = Delayed
    /\ \A c, d \in Delayed : Succ(c) = Succ(d) => c = d

(* No tick is lost: every underflow is counted, or the notifier is on its  *)
(* way with it, or the server is about to count it, however busy the       *)
(* clients keep the server.  This is what priority.h:25-28 asks of the     *)
(* priorities; it needs the notifier to wait again before the next         *)
(* underflow, which may come while the server still releases, one Reply    *)
(* after the other, the tasks of the last one (clockserver.c:139).         *)
NoTickLost ==
    now = tick + (IF notifier \in {"woken", "sent"} THEN 1 ELSE 0)
               + (IF pc = "count" THEN 1 ELSE 0)

(* Nobody is released before the time it asked for, which for Delay is     *)
(* counted from the moment of the call (clockserver.c:47-73, 127-148).     *)
NotEarly ==
    [][\A c \in Clients :
          (client[c] \in {"delay", "delay_until"} /\ client'[c] = "running")
             => tick' >= wakeAt[c]]_vars

(* Every delay ends, in whatever order the ring holds the delayed tasks    *)
(* (clockserver.c:127-148).                                                *)
DelayEnds ==
    \A c \in Clients : client[c] \in {"delay", "delay_until"} ~> client[c] = "running"

(* A delay ends at its tick: once removeExpiredTasks has run, nobody whose *)
(* time has come is left asleep.  docs/k3.lyx:705-709: DelayUntil "delays  *)
(* a task till a certain time".                                            *)
OnTime ==
    [][(pc = "release" /\ pc' = "receive") => \A c \in Delayed' : finalTick[c] > tick']_vars
=============================================================================
