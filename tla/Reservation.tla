----------------------------- MODULE Reservation -----------------------------
(***************************************************************************)
(* Engineers that drive their trains over reserved track: what             *)
(* updateLocation asks of the track server (getReserveNodes,               *)
(* getReleaseNodes, user/engineer.c), over the track and its turnouts      *)
(* (getNextNode, user/pathfinding.c), composed with module TrackServer.    *)
(*                                                                         *)
(* An engineer asks every few ticks.  It gives back the node its train has *)
(* passed and those behind, whoever owns them, wants the nodes within      *)
(* stopping distance ahead, and tells its command worker to stop the train *)
(* when it does not get them.  A worker that turns a train round carries   *)
(* out the stop when it is done.                                           *)
(*                                                                         *)
(* Distances are counted in nodes.  Of the trains it is assumed that they  *)
(* stand within the stopping distance of where they were let go on last,   *)
(* and do not run off the track; of the engineers that they ask at least   *)
(* once from node to node and while a train turns round; of a worker       *)
(* without other work that it stops the train before the next node.        *)
(***************************************************************************)
EXTENDS TrackServer

CONSTANTS
    Edges,          \* node->edge[]: none at an exit, one destination, or
                    \* straight and curved
    StopDistance,   \* stoppingDistance of a train that drives, in nodes
    MaxRelease,     \* MAX_RELEASE_SIZE, 16 in the program
    MaxReserve,     \* MAX_RESERVE_SIZE, 16 in the program
    Settings,       \* the turnouts that may be curved, as sets of branches
    Starts          \* where the trains may stand when it begins

(* The nodes within stopping distance fit into a message: getReserveNodes  *)
(* asserts it.  No edge leads back to where it begins, and each can be     *)
(* driven the other way.                                                   *)
ASSUME ReservationAssumption ==
    /\ Edges \in [Nodes -> Seq(Nodes)]
    /\ \A n \in Nodes : Len(Edges[n]) \in {0, 1, 2}
    /\ StopDistance \in Nat \ {0} /\ MaxRelease \in Nat \ {0} /\ MaxReserve \in Nat
    /\ StopDistance + 1 < MaxReserve
    /\ \A n \in Nodes : \A e \in DOMAIN Edges[n] :
          /\ Edges[n][e] # n
          /\ \E b \in DOMAIN Edges[Reverse[Edges[n][e]]] :
                Edges[Reverse[Edges[n][e]]][b] = Reverse[n]
    /\ \A c \in Settings : c \subseteq {n \in Nodes : Len(Edges[n]) = 2}
    /\ Starts \subseteq [Engineers -> {n \in Nodes : Len(Edges[n]) > 0}]

VARIABLES
    curved,     \* the branches whose turnout is curved
    prevNode,   \* the last node an engineer's train has passed
    speed,      \* 0 or 1
    range,      \* how many nodes the train passes before it stands
    sure,       \* the engineer has asked since its train passed a node, turned
                \* or was set going, and nobody has given back its nodes since
    heard,      \* the engineers that have asked at all
    message,    \* the request one has sent to the track server
    stop,       \* commandQueue: an order to stop waits for the command worker
    worker,     \* what the command worker is about

    (* For the properties: the engineers of whose nodes another has given  *)
    (* one back, or that have given back track on their own way.           *)
    harmed

trains == <<prevNode, speed, range, sure, heard, message, stop, worker>>
allVars == <<vars, curved, trains, harmed>>

IsBranch(n) == Len(Edges[n]) = 2

IsExit(n) == Edges[n] = <<>>

NoMessage == [sent |-> FALSE, releases |-> <<>>, reserves |-> <<>>]

RInit ==
    /\ Init
    /\ curved \in Settings
    /\ prevNode \in Starts
    /\ speed = [t \in Engineers |-> 0]
    /\ range = [t \in Engineers |-> 0]
    /\ sure = [t \in Engineers |-> FALSE]
    /\ heard = {}
    /\ message = [t \in Engineers |-> NoMessage]
    /\ stop = [t \in Engineers |-> FALSE]
    /\ worker = [t \in Engineers |-> "idle"]
    /\ harmed = {}
-----------------------------------------------------------------------------
Nowhere == 0

ASSUME NowhereAssumption == Nowhere \notin Nodes

(* getNextNode, when the turnouts in c are curved. *)
NextNodes(c) ==
    [n \in Nodes \cup {Nowhere} |->
        IF n = Nowhere \/ IsExit(n) THEN Nowhere
        ELSE Edges[n][IF IsBranch(n) /\ n \in c THEN 2 ELSE 1]]

NextNode(n) == NextNodes(curved)[n]

(* k nodes, from the first one on. *)
Walk(next, from, k) ==
    LET node[j \in 1 .. k] == IF j = 1 THEN from ELSE next[node[j - 1]]
    IN  [j \in 1 .. k |-> node[j]]

(* How much of w comes before the track, or what is known of it, ends. *)
Known(w) ==
    CHOOSE k \in 0 .. Len(w) :
        /\ k = Len(w) \/ w[k + 1] = Nowhere
        /\ \A j \in 1 .. k : w[j] # Nowhere

(* The first k nodes of the walk, as far as it goes. *)
Stretch(next, from, k) ==
    LET walk == Walk(next, from, k) IN SubSeq(walk, 1, Known(walk))

(* Seeded fault: one node too few. *)
ReserveNodes_Short(from, dist) == Stretch(NextNodes(curved), from, dist)

(* getReserveNodes: from and what lies within dist of it, and the node     *)
(* that ends it, or the exit.                                              *)
ReserveNodes(from, dist) == Stretch(NextNodes(curved), from, dist + 1)

(* getPrevOwnedNode: the node before n.  At a merge it is the one whose    *)
(* reverse belongs to t; elsewhere the owner is not looked at.  There is   *)
(* none before an enter, and the walk does not go back from an exit.       *)
PrevOwnedNode(n, t) ==
    LET back == Reverse[n]
    IN  IF IsExit(n) \/ IsExit(back) THEN Nowhere
        ELSE IF ~IsBranch(back) THEN Reverse[Edges[back][1]]
        ELSE IF owner[Edges[back][1]] = t THEN Reverse[Edges[back][1]]
        ELSE IF owner[Edges[back][2]] = t THEN Reverse[Edges[back][2]]
        ELSE Nowhere

PrevOwnedNodes(t) ==
    [n \in Nodes \cup {Nowhere} |-> IF n = Nowhere THEN Nowhere ELSE PrevOwnedNode(n, t)]

(* getReleaseNodes: from and the nodes before it, if t owns from. *)
ReleaseNodes(from, t) ==
    IF owner[from] # t THEN <<>> ELSE Stretch(PrevOwnedNodes(t), from, MaxRelease)

(* Where the train of t may come before it stands, and where it would come *)
(* if it turned round.                                                     *)
WayOf(t) ==
    {Reverse[prevNode[t]]} \cup
    {Walk(NextNodes(curved), prevNode[t], StopDistance + 2)[i] : i \in 2 .. StopDistance + 2}
-----------------------------------------------------------------------------
(* updateLocation: the message is put together from the owners as they are *)
(* now, and read by the track server later.                                *)
Ask(t) ==
    /\ ~message[t].sent
    /\ message' = [message EXCEPT ![t] =
                     [sent     |-> TRUE,
                      releases |-> ReleaseNodes(prevNode[t], t),
                      reserves |-> ReserveNodes(NextNode(prevNode[t]), speed[t] * StopDistance)]]
    /\ UNCHANGED <<vars, curved, prevNode, speed, range, sure, heard, stop, worker, harmed>>

(* Whom it harms that t gives these nodes back. *)
Harm(t, releases) ==
    {u \in Engineers : \E i \in DOMAIN releases :
        IF u = t THEN releases[i] \in WayOf(t) ELSE owner[releases[i]] = u}

(* Seeded fault: a refusal is not heeded. *)
StopIf_Never(refused, t) == UNCHANGED stop

(* issueSpeedCommand(0): given to the worker, or put in its queue. *)
StopIf(refused, t) == stop' = [stop EXCEPT ![t] = @ \/ refused]

(* The track server carries out t's message and t's engineer goes on.  A   *)
(* train with its way reserved may drive on: it passes the next node, and  *)
(* if it is stopped there it stands within the stopping distance.          *)
Serve(t) ==
    /\ message[t].sent
    /\ Request(t, message[t].releases, message[t].reserves)
    /\ StopIf(reply' # "Success", t)
    /\ range' = [range EXCEPT ![t] =
                   IF reply' = "Success" /\ speed[t] = 1 THEN StopDistance ELSE @]
    /\ sure' = [u \in Engineers |->
                  u = t \/ (sure[u] /\ \A n \in Nodes : owner[n] = u => owner'[n] = u)]
    /\ heard' = heard \cup {t}
    /\ message' = [message EXCEPT ![t] = NoMessage]
    /\ harmed' = harmed \cup Harm(t, message[t].releases)
    /\ UNCHANGED <<curved, prevNode, speed, worker>>

(* The train does not stand: it brakes, or it drives and its engineer has  *)
(* asked and not told it to stop.                                          *)
Moves(t) == range[t] > 0 \/ (speed[t] = 1 /\ sure[t] /\ ~stop[t])

(* The train passes a node: a sensor tells, or the engineer reckons so. *)
Pass(t) ==
    /\ Moves(t) /\ \A u \in Engineers : sure[u]
    /\ stop[t] => worker[t] # "idle"
    /\ ~message[t].sent /\ ~IsExit(NextNode(prevNode[t]))
    /\ prevNode' = [prevNode EXCEPT ![t] = NextNode(@)]
    /\ range' = [range EXCEPT ![t] = IF @ > 0 THEN @ - 1 ELSE 0]
    /\ sure' = [sure EXCEPT ![t] = FALSE]
    /\ UNCHANGED <<vars, curved, speed, heard, message, stop, worker, harmed>>

(* A stopped train comes to rest. *)
Rest(t) ==
    /\ speed[t] = 0 /\ range[t] > 0
    /\ range' = [range EXCEPT ![t] = 0]
    /\ UNCHANGED <<vars, curved, prevNode, speed, sure, heard, message, stop, worker, harmed>>

(* The worker is done with what it was about, and the engineer is told the *)
(* new speed (commandWorkerSpeedSet).                                      *)
SpeedSet(t, v) ==
    /\ ~message[t].sent
    /\ speed' = [speed EXCEPT ![t] = v]
    /\ sure' = [sure EXCEPT ![t] = @ /\ v = 0]
    /\ UNCHANGED <<vars, curved, prevNode, range, heard, message, harmed>>

(* It carries out an order to stop. *)
Carry(t) ==
    /\ stop[t] /\ worker[t] = "idle"
    /\ stop' = [stop EXCEPT ![t] = FALSE]
    /\ SpeedSet(t, 0) /\ UNCHANGED worker

(* It carries out an order of the user, to drive or to stop. *)
SetSpeed(t) ==
    /\ worker[t] = "idle"
    /\ heard = Engineers
    /\ SpeedSet(t, 1 - speed[t]) /\ UNCHANGED <<stop, worker>>

(* It begins to turn the train round: that stops it. *)
BeginTurn(t) ==
    /\ worker[t] = "idle"
    /\ worker' = [worker EXCEPT ![t] = "turns"]
    /\ SpeedSet(t, 0) /\ UNCHANGED stop

(* commandWorkerReverseSet, for a train at rest, when all have asked. *)
TurnRound(t) ==
    /\ worker[t] = "turns" /\ range[t] = 0 /\ ~message[t].sent
    /\ \A u \in Engineers : sure[u]
    /\ prevNode' = [prevNode EXCEPT ![t] = Reverse[NextNode(@)]]
    /\ sure' = [sure EXCEPT ![t] = FALSE]
    /\ worker' = [worker EXCEPT ![t] = "resumes"]
    /\ UNCHANGED <<vars, curved, speed, range, heard, message, stop, harmed>>

(* It sets the speed the train had when the user gave the order. *)
Resume(t) ==
    /\ worker[t] = "resumes"
    /\ worker' = [worker EXCEPT ![t] = "idle"]
    /\ \E v \in {0, 1} : SpeedSet(t, v)
    /\ UNCHANGED stop

RNext ==
    \E t \in Engineers :
        \/ Ask(t) \/ Serve(t) \/ Pass(t) \/ Rest(t)
        \/ Carry(t) \/ SetSpeed(t) \/ BeginTurn(t) \/ TurnRound(t) \/ Resume(t)

RSpec == RInit /\ [][RNext]_allVars
-----------------------------------------------------------------------------
(* Every variable holds what its declaration can hold. *)
RTypeOK ==
    /\ TypeOK
    /\ curved \subseteq {n \in Nodes : IsBranch(n)}
    /\ prevNode \in [Engineers -> Nodes]
    /\ speed \in [Engineers -> {0, 1}]
    /\ range \in [Engineers -> 0 .. StopDistance]
    /\ sure \in [Engineers -> BOOLEAN]
    /\ heard \subseteq Engineers
    /\ stop \in [Engineers -> BOOLEAN]
    /\ worker \in [Engineers -> {"idle", "turns", "resumes"}]
    /\ harmed \subseteq Engineers
    /\ \A t \in Engineers : /\ Len(message[t].releases) <= MaxRelease
                            /\ Len(message[t].reserves) < MaxReserve

(* Where the train of t is, whichever way it goes. *)
Between(t) == {prevNode[t], Reverse[NextNode(prevNode[t])]}

(* No two trains are ever on the same stretch of track, between a node and *)
(* the next, whichever way they go (docs/tc2.lyx, Collision Avoidance).    *)
NoCollision == \A t, u \in Engineers : t # u => Between(t) # Between(u)

(* The node a moving train comes to next belongs to it: "Train stay on its *)
(* own track", trackserver.h:6.                                            *)
OnOwnTrack == \A t \in Engineers : Moves(t) => owner[NextNode(prevNode[t])] = t

(* The two do not hold of the program, as engineers give back too much.    *)
(* But nothing else is wrong with reserving within stopping distance and   *)
(* stopping when refused: two trains meet only after a node of one of them *)
(* has been given back by another engineer, or track on its way by its own,*)
(* and likewise a train leaves its own track.                              *)
UnharmedApart ==
    \A t, u \in Engineers \ harmed : t # u => Between(t) # Between(u)

UnharmedOnOwnTrack ==
    \A t \in Engineers \ harmed : Moves(t) => owner[NextNode(prevNode[t])] = t
-----------------------------------------------------------------------------
(* What the theorems about every track need of it.                         *)

(* Who goes from n to the next node and turns round is led back to n. *)
Lined(n) == NextNode(Reverse[NextNode(n)]) = Reverse[n]

(* The turnouts fit the ways of the trains, which stand apart. *)
StartsRight ==
    /\ \A n \in Nodes :
          ~IsExit(n) /\ ~IsExit(NextNode(n)) /\ Lined(n) => Lined(NextNode(n))
    /\ \A t \in Engineers : Lined(prevNode[t])
    /\ \A t, u \in Engineers : t # u =>
          NextNode(prevNode[t]) \notin
             {NextNode(prevNode[u]), Reverse[NextNode(prevNode[u])], Reverse[prevNode[u]]}
=============================================================================
