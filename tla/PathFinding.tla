---------------------------- MODULE PathFinding ----------------------------
(***************************************************************************)
(* How a `go' becomes a path and turnouts: planRoute with its priority     *)
(* queue (user/pathfinding.c, include/heap.h), makeEbook, and the part of  *)
(* the engineer that sets the turnouts of its first enstruction.           *)
(*                                                                         *)
(* Each turn of planRoute's loop takes the cheapest path so far from the   *)
(* heap and pushes the paths that go one node further.  It keeps no set of *)
(* the nodes it has seen, so a search on a loop for a node that cannot be  *)
(* reached goes on until it writes behind the array of its PathNodes, and  *)
(* one on a line ends in Pop of an empty heap.                             *)
(*                                                                         *)
(* The search makes no system call, so no other engineer's reservation is  *)
(* served in the middle of it; they are served before and after, when the  *)
(* engineer prints.                                                        *)
(***************************************************************************)
EXTENDS Integers, Sequences, FiniteSets, FiniteSetsExt

CONSTANTS
    TrackNodes,     \* indices into g_track, from 1
    Edges,          \* node->edge[]: [dest, dist]; one, two (straight, curved), or none
    ReverseNode,    \* node->reverse
    Owners,         \* tids of engineers, and what else train_num may be
    Reservations,   \* who may own what, as functions of the nodes
    Starts, Ends,   \* from where and to where trains are sent
    EXPLORE_SIZE,   \* places in g_nodes
    HEAP_SIZE       \* places in the heap

NoOne == -1

ASSUME PathAssumption ==
    /\ TrackNodes \subseteq Nat \ {0} /\ IsFiniteSet(TrackNodes)
    /\ \A n \in TrackNodes : /\ Edges[n] \in Seq([dest : TrackNodes, dist : Nat])
                        /\ Len(Edges[n]) <= 2
    /\ ReverseNode \in [TrackNodes -> TrackNodes]
    /\ Owners \subseteq Nat
    /\ Reservations \subseteq [TrackNodes -> Owners \cup {NoOne}]
    /\ Starts \cup Ends \subseteq TrackNodes
    /\ EXPLORE_SIZE \in Nat /\ HEAP_SIZE \in Nat

VARIABLES
    owner,      \* node->owner, as the track server sets it
    src, dst,   \* planRoute's arguments
    train_num,  \* pb->train_num
    g_nodes,    \* the PathNodes made so far: from is an index, 0 for none
    heap,       \* the indices of those in the queue, a binary heap by cost
    phase,      \* "idle", "search", "found"; "lost", "full": Pop's or Push's assertion
                \* has failed; "overrun": a PathNode was written behind g_nodes;
                \* "wild": the engineer follows an ebook that was never written
    ebook,      \* the nodes and turnops of its enstruction; none when not yet made
    target,     \* targetNode
    curved,     \* the branches whose turnouts are curved
    ownedAt     \* ghost: owner when planRoute was called

routeVars == <<owner, src, dst, train_num, g_nodes, heap, phase, ebook, target, curved, ownedAt>>

Nowhere  == 0
Unowned  == [n \in TrackNodes |-> NoOne]

IsBranch(n) == Len(Edges[n]) = 2
IsExit(n)   == Edges[n] = <<>>
-----------------------------------------------------------------------------
(* heap.h; a heap is a sequence of indices into the PathNodes ns. *)

PARENT(i) == i \div 2
RIGHT(i)  == 2 * i
LEFT(i)   == 2 * i + 1

Heaps(ns, n) == [1 .. n -> 1 .. Len(ns)]

Cheaper(ns, h, i, j) == ns[h[i]].cost < ns[h[j]].cost

Swapped(h, i, j) == [h EXCEPT ![i] = h[j], ![j] = h[i]]

(* The element at j of a heap g goes up until its parent is not dearer. *)
SiftUp(ns, h, i) ==
    LET up[j \in 1 .. Len(h)] == [g \in Heaps(ns, Len(h)) |->
            IF j # 1 /\ Cheaper(ns, g, j, PARENT(j))
              THEN up[PARENT(j)][Swapped(g, j, PARENT(j))]
              ELSE g]
    IN  up[i][h]

(* The right child first; then the left one, against what is at j by now. *)
SiftDown(ns, h, i) ==
    LET down[j \in 1 .. Len(h)] == [g \in Heaps(ns, Len(h)) |->
            LET child(e, c) == IF c <= Len(h) /\ Cheaper(ns, e, c, j)
                                 THEN down[c][Swapped(e, j, c)]
                                 ELSE e
            IN  child(child(g, RIGHT(j)), LEFT(j))]
    IN  down[i][h]

Push(ns, h, x) == SiftUp(ns, Append(h, x), Len(h) + 1)

(* The heap when its first element has been popped: the last takes its     *)
(* place and sinks.                                                        *)
Popped(ns, h) ==
    IF Len(h) = 1 THEN <<>>
    ELSE SiftDown(ns, <<h[Len(h)]>> \o SubSeq(h, 2, Len(h) - 1), 1)
-----------------------------------------------------------------------------
(* planRoute *)

(* The nodes no path is followed beyond: the owner is the tid of an        *)
(* engineer, and it is compared with pb->train_num.                        *)
Barred(own, num) == {n \in TrackNodes : own[n] # NoOne /\ own[n] # num}

(* Seeded faults: the costs of the two directions of a branch are swapped; *)
(* only the straight one is followed.                                      *)
PathNodes_Swapped(i) ==
    LET p == g_nodes[i]
    IN  [k \in 1 .. Len(Edges[p.tn]) |->
            [from |-> i, tn |-> Edges[p.tn][k].dest,
             cost |-> p.cost + Edges[p.tn][Len(Edges[p.tn]) + 1 - k].dist]]
PathNodes_Straight(i) ==
    LET p == g_nodes[i]
    IN  <<[from |-> i, tn |-> Edges[p.tn][1].dest, cost |-> p.cost + Edges[p.tn][1].dist]>>

(* The PathNodes one node on from the i-th. *)
PathNodes(i) ==
    LET p == g_nodes[i]
    IN  [k \in 1 .. Len(Edges[p.tn]) |->
            [from |-> i, tn |-> Edges[p.tn][k].dest, cost |-> p.cost + Edges[p.tn][k].dist]]

(* The heap with the last n PathNodes of ns pushed, one after the other. *)
PushedLast(ns, h, n) ==
    LET one == Push(ns, h, Len(ns) - n + 1)
    IN  IF n = 1 THEN one ELSE Push(ns, one, Len(ns))

RouteInit ==
    /\ owner \in Reservations
    /\ src = Nowhere /\ dst = Nowhere /\ train_num = NoOne
    /\ g_nodes = <<>> /\ heap = <<>>
    /\ phase = "idle"
    /\ ebook = <<>> /\ target = Nowhere
    /\ curved = {}
    /\ ownedAt = Unowned

(* go: planRoute is called.  Nothing sets pb->train_num. *)
PlanRoute(s, d, num) ==
    /\ phase = "idle"
    /\ src' = s /\ dst' = d /\ train_num' = num
    /\ IF ReverseNode[s] = d
         THEN phase' = "found" /\ UNCHANGED <<g_nodes, heap>>    \* a path of length 0
         ELSE /\ phase' = "search"
              /\ g_nodes' = <<[from |-> 0, tn |-> s, cost |-> 0]>>
              /\ heap' = <<1>>
    /\ ownedAt' = owner
    /\ UNCHANGED <<owner, ebook, target, curved>>

(* The next PathNodes of a path to tn are made and pushed one at a time;   *)
(* either g_nodes or the heap, of which rest is left, may be full first.   *)
Expand(popd, rest) ==
    LET more       == Len(Edges[g_nodes[popd].tn])
        nodesLeft  == EXPLORE_SIZE - Len(g_nodes)
        placesLeft == HEAP_SIZE - Len(rest)
    IN  \/ /\ more <= nodesLeft /\ more <= placesLeft
           /\ \E ns \in {g_nodes \o PathNodes(popd)} :
                 g_nodes' = ns /\ heap' = PushedLast(ns, rest, more)
           /\ UNCHANGED phase
        \/ /\ nodesLeft < more /\ nodesLeft <= placesLeft
           /\ phase' = "overrun"
           /\ UNCHANGED <<g_nodes, heap>>
        \/ /\ placesLeft < more /\ placesLeft < nodesLeft
           /\ phase' = "full"
           /\ UNCHANGED <<g_nodes, heap>>

(* One turn of the loop. *)
Search ==
    /\ phase = "search"
    /\ UNCHANGED <<owner, src, dst, train_num, ebook, target, curved, ownedAt>>
    /\ IF heap = <<>> THEN phase' = "lost" /\ UNCHANGED <<g_nodes, heap>>
       ELSE LET popd == Head(heap)
                tn   == g_nodes[popd].tn
                rest == Popped(g_nodes, heap)
            IN  IF tn = dst
                  THEN phase' = "found" /\ heap' = <<popd>> /\ UNCHANGED g_nodes
                ELSE IF IsExit(tn) \/ tn \in Barred(owner, train_num)
                  THEN heap' = rest /\ UNCHANGED <<phase, g_nodes>>
                ELSE Expand(popd, rest)

(* Other engineers' requests are served. *)
Reserve(own) ==
    /\ phase \in {"idle", "found"}
    /\ own # owner
    /\ owner' = own
    /\ UNCHANGED <<src, dst, train_num, g_nodes, heap, phase, ebook, target, curved, ownedAt>>

(* The track nodes from the start to the i-th PathNode. *)
PathTo(i) ==
    LET path[j \in 1 .. Len(g_nodes)] ==
          IF g_nodes[j].from = 0 THEN <<g_nodes[j].tn>>
          ELSE Append(path[g_nodes[j].from], g_nodes[j].tn)
    IN  path[i]

(* The PathBuffer when the search is over. *)
Path == IF heap = <<>> THEN <<>> ELSE PathTo(Head(heap))
-----------------------------------------------------------------------------
(* makeEbook and the turnouts. *)

(* Seeded fault: the direction of the branch is not looked at. *)
Lookahead_Straight(n, next) == IF IsBranch(n) THEN 2 * n ELSE 0

(* lookahead: what to do with the turnout of n, or 0. *)
Lookahead(n, next) ==
    IF IsBranch(n) /\ next = Edges[n][1].dest THEN 2 * n
    ELSE IF IsBranch(n) /\ next = Edges[n][2].dest THEN 2 * n + 1
    ELSE 0

TurnopTracknode(op) == op \div 2
TurnopCurve(op)     == op % 2 = 1

(* The one enstruction of a path. *)
Enstruction(path) ==
    [i \in 1 .. Len(path) |->
        [node   |-> path[i],
         turnop |-> IF i = Len(path) THEN 0 ELSE Lookahead(path[i], path[i + 1])]]

(* setTurnout, on the set of curved branches. *)
SetTurnout(c, op) ==
    IF TurnopCurve(op) THEN c \cup {TurnopTracknode(op)} ELSE c \ {TurnopTracknode(op)}

(* setTargetFromEnstruction: the turnouts in the order of the path. *)
SetTargetFromEnstruction(ens) ==
    LET set[i \in 0 .. Len(ens)] ==
          IF i = 0 THEN curved
          ELSE IF ens[i].turnop = 0 THEN set[i - 1]
          ELSE SetTurnout(set[i - 1], ens[i].turnop)
    IN  /\ curved' = set[Len(ens)]
        /\ target' = ens[Len(ens)].node

(* The rest of go.  From a path of fewer than two nodes no ebook is made,  *)
(* and the engineer takes the first enstruction of the last one again; of  *)
(* one that was never written, it may do nothing.                          *)
Book ==
    /\ phase = "found"
    /\ ebook' = IF Len(Path) < 2 THEN ebook ELSE Enstruction(Path)
    /\ IF ebook' = <<>>
         THEN phase' \in {"idle", "wild"} /\ UNCHANGED <<target, curved>>
         ELSE phase' = "idle" /\ SetTargetFromEnstruction(ebook')
    /\ src' = Nowhere /\ dst' = Nowhere /\ train_num' = NoOne
    /\ g_nodes' = <<>> /\ heap' = <<>>
    /\ ownedAt' = Unowned
    /\ UNCHANGED owner

RouteNext ==
    \/ \E s \in Starts, d \in Ends, num \in Owners : PlanRoute(s, d, num)
    \/ Search
    \/ \E own \in Reservations : Reserve(own)
    \/ Book

RouteSpec == RouteInit /\ [][RouteNext]_routeVars /\ WF_routeVars(Search)
-----------------------------------------------------------------------------
(* Where one may be one edge further than w, a node with what it cost to   *)
(* get there.                                                              *)
Onward(w) == {<<Edges[w[1]][k].dest, w[2] + Edges[w[1]][k].dist>> : k \in DOMAIN Edges[w[1]]}

(* The ends of all ways of at most n edges from s that do not leave a node *)
(* of avoid, each with what it costs.                                      *)
Ways(s, avoid, n) ==
    LET further(w) == {w} \cup (IF w[1] \in avoid THEN {} ELSE Onward(w))
        ways[k \in 0 .. n] == IF k = 0 THEN {<<s, 0>>} ELSE UNION {further(w) : w \in ways[k - 1]}
    IN  ways[n]

(* What it costs to follow a path, by one edge or the other where two lead *)
(* to the same node; nothing if it does not follow edges.                  *)
Costs(path) ==
    LET costs[i \in 1 .. Len(path)] ==
          IF i = 1 THEN {0}
          ELSE {c[2] : c \in {w \in UNION {Onward(<<path[i - 1], b>>) : b \in costs[i - 1]} : w[1] = path[i]}}
    IN  costs[Len(path)]

(* The nodes anybody owned when planRoute was called. *)
taken == {n \in TrackNodes : ownedAt[n] # NoOne}

(* No way of at most n edges over track nobody owns gets to dst for less   *)
(* than cost.                                                              *)
NoneCheaper(n, cost) == \A w \in Ways(src, taken, n) : w[1] = dst => cost <= w[2]

Unreachable(n) == \A w \in Ways(src, taken, n) : w[1] # dst

(* What planRoute returns is a path from src to dst, and no path over      *)
(* track nobody owns is shorter, whatever the uninitialised train_num is;  *)
(* where it finds the heap empty there is no path over such track          *)
(* (pathfinding.c:94-227 over heap.h).  Nothing is said of whose track the *)
(* path leads over: where train_num is another engineer's tid, over his.   *)
ShortestPath ==
    /\ phase = "found" /\ heap # <<>> =>
          /\ Path[1] = src /\ Path[Len(Path)] = dst
          /\ g_nodes[Head(heap)].cost \in Costs(Path)
          /\ NoneCheaper(Cardinality(TrackNodes), g_nodes[Head(heap)].cost)
    /\ phase = "lost" => Unreachable(Cardinality(TrackNodes))

(* getNextNode, with the turnouts of a set c curved. *)
NextEdge(n, c) == Edges[n][IF IsBranch(n) /\ n \in c THEN 2 ELSE 1]

(* distanceBetween: half as many steps as there are nodes, then it gives   *)
(* up.                                                                     *)
DistanceBetween(from, to, c) ==
    LET walk[i \in 0 .. Cardinality(TrackNodes) \div 2] ==
          IF i = 0 THEN [node |-> from, dist |-> 0, done |-> FALSE]
          ELSE LET w == walk[i - 1]
               IN  IF w.done \/ IsExit(w.node) THEN w
                   ELSE [node |-> NextEdge(w.node, c).dest,
                         dist |-> w.dist + NextEdge(w.node, c).dist,
                         done |-> NextEdge(w.node, c).dest = to]
        last == walk[Cardinality(TrackNodes) \div 2]
    IN  IF last.done THEN 1000 * last.dist ELSE -1

(* When a path has been booked, the turnouts lead the train along it: from *)
(* where it was planned, to its target, just as far as the path is long.   *)
(* The turnouts were set by anybody before, and makeEbook, lookahead, the  *)
(* turnops and distanceBetween have to agree (engineer.c:286-314, 568).    *)
TurnoutsLead ==
    [][phase = "found" /\ phase' = "idle" /\ Len(Path) >= 2 =>
          /\ target' = dst
          /\ DistanceBetween(src, target', curved') = 1000 * g_nodes[Head(heap)].cost]_routeVars

(* A search for a node that can be reached over track nobody owns, not the *)
(* train itself either, ends and finds a path before g_nodes or the heap   *)
(* is full.                                                                *)
RouteFound ==
    (phase = "search" /\ Len(g_nodes) = 1 /\ ~Unreachable(Cardinality(TrackNodes))) ~> phase = "found"
=============================================================================
