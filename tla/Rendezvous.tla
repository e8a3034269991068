----------------------------- MODULE Rendezvous -----------------------------
(***************************************************************************)
(* What Send, Receive and Reply promise, with no scheduler, no blocking    *)
(* states and no task table (the descriptions in include/user/syscall.h).  *)
(*                                                                         *)
(* A task that has sent waits in one inbox until its request is taken, and *)
(* then for that server's answer.  Requests are taken in the order they    *)
(* were sent; each is answered once, by the server that took it; until     *)
(* then the client does nothing, not even serve others.                    *)
(***************************************************************************)
EXTENDS Integers, Sequences

CONSTANT Tasks      \* task ids, none of them 0

NoServer == 0

VARIABLES
    inbox,      \* per task, the clients whose requests it has not taken
    servedBy    \* per task, the server that took its request

vars == <<inbox, servedBy>>

Busy(c) ==
    \/ servedBy[c] # NoServer
    \/ \E s \in Tasks : \E i \in DOMAIN inbox[s] : inbox[s][i] = c

Init ==
    /\ inbox = [t \in Tasks |-> <<>>]
    /\ servedBy = [t \in Tasks |-> NoServer]

(* The server is not listening: the request queues up. *)
Request(c, s) ==
    /\ ~Busy(c)
    /\ inbox' = [inbox EXCEPT ![s] = Append(@, c)]
    /\ UNCHANGED servedBy

(* The server listens already: the request is taken at once. *)
Handover(c, s) ==
    /\ ~Busy(c) /\ ~Busy(s) /\ c # s
    /\ inbox[s] = <<>>
    /\ servedBy' = [servedBy EXCEPT ![c] = s]
    /\ UNCHANGED inbox

Take(s) ==
    /\ ~Busy(s)
    /\ inbox[s] # <<>>
    /\ servedBy' = [servedBy EXCEPT ![Head(inbox[s])] = s]
    /\ inbox' = [inbox EXCEPT ![s] = Tail(@)]

Answer(s, c) ==
    /\ ~Busy(s)
    /\ servedBy[c] = s
    /\ servedBy' = [servedBy EXCEPT ![c] = NoServer]
    /\ UNCHANGED inbox

Next ==
    \E s \in Tasks :
       \/ Take(s)
       \/ \E c \in Tasks : Request(c, s) \/ Handover(c, s) \/ Answer(s, c)

Spec == Init /\ [][Next]_vars
=============================================================================
