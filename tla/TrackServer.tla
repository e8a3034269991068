----------------------------- MODULE TrackServer -----------------------------
(***************************************************************************)
(* The track server (user/trackserver.c): who owns which track node.       *)
(*                                                                         *)
(* An engineer sends one message with the nodes it gives back and, in the  *)
(* order it will drive over them, the nodes it wants.  The server carries  *)
(* out the releases, then the reservations up to the first that fails, and *)
(* replies.  It is the only task that writes an owner, so a message is one *)
(* step; messages of different engineers come in any order.  What they say *)
(* is the engineers' affair: module Reservation composes the two.          *)
(*                                                                         *)
(* A node has a twin, reverse, for the same place driven the other way.    *)
(***************************************************************************)
EXTENDS Integers, Sequences

CONSTANTS
    Nodes,      \* g_track
    Reverse,    \* node->reverse
    Engineers   \* tids

NoOne == -1

ASSUME TrackAssumption ==
    /\ Reverse \in [Nodes -> Nodes]
    /\ \A n \in Nodes : Reverse[n] # n /\ Reverse[Reverse[n]] = n
    /\ Engineers \subseteq Nat

VARIABLES
    owner,      \* node->owner
    request,    \* tid and message: whom the server has served last, and what
                \* was given back and asked for
    reply       \* and what it has replied

vars == <<owner, request, reply>>

Replies == {"none", "Success", "ReserveFailSameDir", "ReserveFailOppositeDir"}

Owned(t) == {n \in Nodes : owner[n] = t}

Init ==
    /\ owner = [n \in Nodes |-> NoOne]
    /\ request = [tid |-> NoOne, releases |-> <<>>, reserves |-> <<>>]
    /\ reply = "none"

(* Seeded faults: the other direction is not looked at; neither is the     *)
(* owner of the node.                                                      *)
IsReservable_OneWay(o, n, t) == o[n] \in {NoOne, t}
IsReservable_Steals(o, n, t) == o[Reverse[n]] = NoOne

IsReservable(o, n, t) == o[n] \in {NoOne, t} /\ o[Reverse[n]] = NoOne

(* A node that belongs to somebody else is reported, and released.         *)
Released(o, nodes) ==
    [n \in Nodes |-> IF \E i \in DOMAIN nodes : nodes[i] = n THEN NoOne ELSE o[n]]

(* The owners when t has been given the first k nodes. *)
Granted(o, nodes, t, k) ==
    [n \in Nodes |-> IF \E i \in 1 .. k : nodes[i] = n THEN t ELSE o[n]]

(* The next node after the first k is not to be had. *)
Stops(o, nodes, t, k) ==
    k < Len(nodes) /\ ~IsReservable(Granted(o, nodes, t, k), nodes[k + 1], t)

(* How far the loop over the nodes gets: it leaves at the first that is    *)
(* not to be had, and keeps those before.                                  *)
Taken(o, nodes, t) ==
    CHOOSE k \in 0 .. Len(nodes) :
        /\ k = Len(nodes) \/ Stops(o, nodes, t, k)
        /\ \A j \in 0 .. k - 1 : ~Stops(o, nodes, t, j)

(* Seeded fault: both failures are told as one. *)
Answer_SameDir(o, n, t) == "ReserveFailSameDir"

(* Why node n could not be reserved. *)
Answer(o, n, t) ==
    IF o[n] \notin {NoOne, t} THEN "ReserveFailSameDir" ELSE "ReserveFailOppositeDir"

Request(t, releases, reserves) ==
    /\ request' = [tid |-> t, releases |-> releases, reserves |-> reserves]
    /\ LET free  == Released(owner, releases)
           k     == Taken(free, reserves, t)
       IN  /\ owner' = Granted(free, reserves, t, k)
           /\ reply' = IF k = Len(reserves) THEN "Success"
                       ELSE Answer(owner', reserves[k + 1], t)

Next ==
    \E t \in Engineers, releases, reserves \in Seq(Nodes) :
        Request(t, releases, reserves)

Spec == Init /\ [][Next]_vars
-----------------------------------------------------------------------------
(* Every variable holds what its declaration can hold. *)
TypeOK ==
    /\ owner \in [Nodes -> Engineers \cup {NoOne}]
    /\ reply \in Replies
    /\ request.tid \in Engineers \cup {NoOne}
    /\ request.releases \in Seq(Nodes) /\ request.reserves \in Seq(Nodes)

(* No place of the track is reserved in both directions, be it by one      *)
(* train or by two that would meet head on (trackserver.c:13-24).          *)
NoHeadOn == \A n \in Nodes : owner[n] = NoOne \/ owner[Reverse[n]] = NoOne

(* Nodes asked for, and given back, by the request served last. *)
Reserved(n) == \E i \in DOMAIN request.reserves : request.reserves[i] = n
GivenBack(n) == \E i \in DOMAIN request.releases : request.releases[i] = n

(* A reserved node stays with its train until somebody gives it back: no   *)
(* reservation takes it, and nobody gets it who has not asked for it.  That*)
(* is rule 2 of trackserver.h, "One at a time".                            *)
NoneTaken ==
    [][\A n \in Nodes : owner'[n] # owner[n] =>
          /\ owner[n] # NoOne => GivenBack(n)'
          /\ owner'[n] # NoOne => owner'[n] = request'.tid /\ Reserved(n)']_vars

(* An engineer that is told Success owns all it asked for, and one that is *)
(* refused for the same direction or the other finds that direction taken. *)
AnswerIsTrue ==
    LET t == request.tid
    IN  t # NoOne =>
          CASE reply = "Success" ->
                 \A i \in DOMAIN request.reserves : owner[request.reserves[i]] = t
            [] reply = "ReserveFailSameDir" ->
                 \E n \in Nodes : Reserved(n) /\ owner[n] \notin {t, NoOne}
            [] reply = "ReserveFailOppositeDir" ->
                 \E n \in Nodes : /\ Reserved(n) /\ owner[n] \in {t, NoOne}
                                  /\ owner[Reverse[n]] # NoOne
=============================================================================
