------------------------------ MODULE Engineer ------------------------------
(***************************************************************************)
(* One engineer and its train (user/engineer.c): the server with its       *)
(* command queue, the command worker that talks to the train, the location *)
(* worker that asks where the train is, and the parser's calls.            *)
(*                                                                         *)
(* The workers (priority 14) run before the engineer (16), the engineer    *)
(* before the parser (24): the engineer takes its next message when both   *)
(* workers wait, and the parser calls when nobody else has work to do.     *)
(*                                                                         *)
(* Time, velocity and distance are left to chance: whether the train has   *)
(* come to the next landmark, within stopping distance of its target or to *)
(* a velocity of zero, and whether the track server grants the track       *)
(* ahead.  The claims of the sensor courier are in module SensorServer.    *)
(***************************************************************************)
EXTENDS BoundedQueue, Integers, FiniteSets

CONSTANTS
    Nodes,      \* g_track
    NextNode,   \* getNextNode, as the turnouts are set
    Reverse,    \* node->reverse
    Sensors,    \* the nodes of type NODE_SENSOR
    Speeds,     \* what the user sets
    Targets,    \* where the user wants to stop
    Size        \* slots of the command queue, 32 in the program

ASSUME EngineerAssumption ==
    /\ NextNode \in [Nodes -> Nodes] /\ Reverse \in [Nodes -> Nodes]
    /\ \A n \in Nodes : Reverse[n] # n /\ Reverse[Reverse[n]] = n
    /\ \A n \in Nodes : NextNode[Reverse[NextNode[n]]] = Reverse[n]
    /\ Sensors \subseteq Nodes /\ Targets \subseteq Nodes
    /\ Speeds \subseteq Nat /\ 0 \in Speeds
    /\ Size \in Nat \ {0, 1}

None == 0

ASSUME NoneAssumption == None \notin Nodes

(* The nodes passed in k steps from n. *)
Walk(n) == [k \in 0 .. Cardinality(Nodes) |->
    LET step[j \in 0 .. k] == IF j = 0 THEN n ELSE NextNode[step[j - 1]]
    IN  step[k]]

(* How many steps it is to the next sensor. *)
ToSensor(n) ==
    CHOOSE k \in 1 .. Cardinality(Nodes) :
        Walk(n)[k] \in Sensors /\ \A j \in 1 .. k - 1 : Walk(n)[j] \notin Sensors

(* The track the train runs on: a sensor is one in both directions, and    *)
(* leads to another.                                                       *)
ASSUME SensorsAssumption ==
    /\ IsFiniteSet(Nodes)
    /\ \A s \in Sensors : Reverse[s] \in Sensors
    /\ \A s \in Sensors : \E k \in 1 .. Cardinality(Nodes) : Walk(s)[k] \in Sensors

NextSensor == [n \in Nodes |-> Walk(n)[ToSensor(n)]]

(* The nodes from n up to the next sensor. *)
Segment(n) == {Walk(n)[j] : j \in 0 .. ToSensor(n) - 1}

Command(type, s) == [type |-> type, speed |-> s]
Commands == [type : {"setSpeed", "reverse"}, speed : Speeds]

(* What is in the worker's buffer between two commands is not used. *)
Done == Command("setSpeed", 0)

Message(type, value) == [type |-> type, value |-> value]

VARIABLES
    trainSpeed, trainForward,   \* what the train was told last
    moving,                     \* it has not come to rest
    at,                         \* the last sensor it passed, in its direction
    report,                     \* that sensor, until the engineer is sent it
    worker,                     \* the command worker: pc, and command in hand
    location,                   \* the location worker: "asked" or "delay"
    inbox,                      \* the engineer's send queue
    state, isForward, speed,    \* the engineer's variables
    prevNode, prevSensor, nextSensor,
    triggeredSensor, targetNode,
    commandWorkerTid,           \* TRUE: the worker waits for a command
    commandQueue,
    order,      \* ghost: the speed the last order leads to
    failed      \* a uassert has stopped the program

trainVars == <<trainSpeed, trainForward, moving, at, report>>
deskVars  == <<worker, commandWorkerTid, commandQueue, order>>
placeVars == <<prevNode, prevSensor, nextSensor>>
motion    == <<state, isForward, speed>>
vars == <<trainVars, deskVars, placeVars, motion, location, inbox,
          triggeredSensor, targetNode, failed>>

Init ==
    /\ trainSpeed = 0 /\ trainForward = TRUE /\ moving = FALSE
    /\ at \in Sensors /\ report = None
    /\ worker = [pc |-> "ask", command |-> Done]
    /\ location = "delay"
    /\ inbox = <<>>
    /\ state = "Ready" /\ isForward = TRUE /\ speed = 0
    /\ prevNode = None /\ prevSensor = None /\ nextSensor = None
    /\ triggeredSensor = FALSE /\ targetNode = None
    /\ commandWorkerTid = FALSE /\ commandQueue = <<>>
    /\ order = 0
    /\ failed = FALSE
-----------------------------------------------------------------------------
(* The train.  Sensors are so far apart that a hit has been handled before *)
(* the next one.                                                           *)

InFlight == report # None \/ \E i \in DOMAIN inbox : inbox[i].type = "updateSensor"

Hit ==
    /\ moving /\ ~InFlight
    /\ at' = NextSensor[at] /\ report' = at'
    /\ UNCHANGED <<trainSpeed, trainForward, moving, deskVars, placeVars, motion, location,
                   inbox, triggeredSensor, targetNode, failed>>

ComesToRest ==
    /\ moving /\ trainSpeed = 0
    /\ moving' = FALSE
    /\ UNCHANGED <<trainSpeed, trainForward, at, report, deskVars, placeVars, motion,
                   location, inbox, triggeredSensor, targetNode, failed>>

(* The engineer's courier sends the hit the sensor server gave it. *)
Deliver ==
    /\ report # None
    /\ inbox' = Append(inbox, Message("updateSensor", report))
    /\ report' = None
    /\ UNCHANGED <<trainSpeed, trainForward, moving, at, deskVars, placeVars, motion,
                   location, triggeredSensor, targetNode, failed>>
-----------------------------------------------------------------------------
(* commandWorker *)

WorkerReady == worker.pc \in {"ask", "got"}

WorkerSends(pc, message) ==
    /\ inbox' = Append(inbox, message)
    /\ worker' = [pc      |-> pc,
                  command |-> IF pc = "told" THEN Done ELSE worker.command]
    /\ UNCHANGED <<report, placeVars, motion, location, triggeredSensor, targetNode,
                   commandWorkerTid, commandQueue, order, failed>>

WorkerAsks ==
    /\ worker.pc = "ask"
    /\ WorkerSends("asked", Message("commandWorkerRequest", 0))
    /\ UNCHANGED <<trainSpeed, trainForward, moving, at>>

(* trainSetSpeed *)
TrainSetSpeed(s) ==
    /\ trainSpeed' = s /\ moving' = (moving \/ s > 0)
    /\ UNCHANGED <<trainForward, at>>

WorkerSetsSpeed ==
    /\ worker.pc = "got" /\ worker.command.type = "setSpeed"
    /\ TrainSetSpeed(worker.command.speed)
    /\ WorkerSends("told", Message("commandWorkerSpeedSet", worker.command.speed))

(* Seeded fault: the engineer is not told that the train was stopped. *)
WorkerStops_Silent ==
    /\ worker.pc = "got" /\ worker.command.type = "reverse"
    /\ TrainSetSpeed(0)
    /\ worker' = [worker EXCEPT !.pc = "halting"]
    /\ UNCHANGED <<inbox, report, placeVars, motion, location, triggeredSensor, targetNode,
                   commandWorkerTid, commandQueue, order, failed>>

WorkerStops ==
    /\ worker.pc = "got" /\ worker.command.type = "reverse"
    /\ TrainSetSpeed(0)
    /\ WorkerSends("toldStop", Message("commandWorkerSpeedSet", 0))

(* Delay(300) is over.  The code counts on the train standing by then, and *)
(* on its last hit having been reported.                                   *)
WorkerReverses ==
    /\ worker.pc = "halting" /\ ~moving /\ ~InFlight
    /\ trainForward' = ~trainForward
    /\ at' = Reverse[NextSensor[at]]
    /\ WorkerSends("toldReverse", Message("commandWorkerReverseSet", 0))
    /\ UNCHANGED <<trainSpeed, moving>>

(* Seeded fault: the worker asks for its next command instead. *)
WorkerResumes_Forgets ==
    /\ worker.pc = "pausing"
    /\ worker' = [pc |-> "ask", command |-> Done]
    /\ UNCHANGED <<trainVars, placeVars, motion, location, inbox, triggeredSensor, targetNode,
                   commandWorkerTid, commandQueue, order, failed>>

(* Delay(15) is over: command.type = COMMAND_SET_SPEED, goto. *)
WorkerResumes ==
    /\ worker.pc = "pausing"
    /\ worker' = [pc |-> "got", command |-> Command("setSpeed", worker.command.speed)]
    /\ UNCHANGED <<trainVars, placeVars, motion, location, inbox, triggeredSensor, targetNode,
                   commandWorkerTid, commandQueue, order, failed>>
-----------------------------------------------------------------------------
(* locationWorker: Delay(UI_REFRESH_INTERVAL) is over, it asks again. *)
LocationAsks ==
    /\ location = "delay"
    /\ location' = "asked"
    /\ inbox' = Append(inbox, Message("updateLocation", 0))
    /\ UNCHANGED <<trainVars, deskVars, placeVars, motion, triggeredSensor, targetNode, failed>>
-----------------------------------------------------------------------------
(* The parser: engineerSetSpeed, engineerSetReverse, engineerXMarksTheSpot *)
(* and engineerGo.  The engineer needs to know where the train is to turn  *)
(* it round or to plan, so the user waits for the first sensor.            *)

UserCalls ==
    /\ inbox = <<>> /\ ~WorkerReady
    /\ \/ \E s \in Speeds : inbox' = <<Message("setSpeed", s)>>
       \/ \E t \in Targets : inbox' = <<Message("xMark", t)>>
       \/ prevNode # None /\ inbox' = <<Message("setReverse", 0)>>
       \/ prevNode # None /\ \E t \in Targets : inbox' = <<Message("go", t)>>
    /\ UNCHANGED <<trainVars, deskVars, placeVars, motion, location, triggeredSensor,
                   targetNode, failed>>
-----------------------------------------------------------------------------
(* engineerServer *)

Handles(type) ==
    /\ ~WorkerReady
    /\ inbox # <<>> /\ Head(inbox).type = type
    /\ inbox' = Tail(inbox)

(* What the handlers of commands work on. *)
Desk == [tid |-> commandWorkerTid, queue |-> commandQueue, worker |-> worker, order |-> order]

DeskBecomes(d) ==
    /\ commandWorkerTid' = d.tid /\ commandQueue' = d.queue
    /\ worker' = d.worker /\ order' = d.order

Full(d) == ~d.tid /\ Len(d.queue) = Size - 1

(* Seeded fault: the command is put in front of those waiting. *)
Issue_Overtakes(d, c) ==
    [tid    |-> FALSE,
     queue  |-> IF d.tid THEN d.queue ELSE IF Full(d) THEN <<c>> ELSE <<c>> \o d.queue,
     worker |-> IF d.tid THEN [pc |-> "got", command |-> c] ELSE d.worker,
     order  |-> c.speed]

(* The command goes to the worker if that waits, else into the queue; a    *)
(* full queue drops what it holds.  A reversal ends with its speed set.    *)
Issue(d, c) ==
    [tid    |-> FALSE,
     queue  |-> IF d.tid THEN d.queue ELSE Pushed(d.queue, Size, c),
     worker |-> IF d.tid THEN [pc |-> "got", command |-> c] ELSE d.worker,
     order  |-> c.speed]

IssueIf(condition, d, c) == IF condition THEN Issue(d, c) ELSE d

StopCommand == Command("setSpeed", 0)

(* setSpeed and setReverse do not accept a full queue. *)
Ordered(c) ==
    /\ DeskBecomes(Issue(Desk, c))
    /\ failed' = Full(Desk)

SetSpeed ==
    /\ Handles("setSpeed")
    /\ Ordered(Command("setSpeed", Head(inbox).value))
    /\ UNCHANGED <<trainVars, placeVars, motion, location, triggeredSensor, targetNode>>

SetReverse ==
    /\ Handles("setReverse")
    /\ Ordered(Command("reverse", speed))
    /\ UNCHANGED <<trainVars, placeVars, motion, location, triggeredSensor, targetNode>>

XMark ==
    /\ Handles("xMark")
    /\ targetNode' = Head(inbox).value
    /\ UNCHANGED <<trainVars, deskVars, placeVars, motion, location, triggeredSensor, failed>>

(* planRoute fails, and there is nothing in the book; or the book holds    *)
(* one enstruction, to the destination, for paths have no reversals; or    *)
(* makeEbook refuses a path of fewer than two nodes and leaves the book,   *)
(* and so the destination, of an earlier go.                               *)
Go ==
    /\ Handles("go")
    /\ targetNode' \in {targetNode, Head(inbox).value}
                    \cup (IF prevNode \in {Head(inbox).value, Reverse[Head(inbox).value]}
                         THEN Targets ELSE {})
    /\ UNCHANGED <<trainVars, deskVars, placeVars, motion, location, triggeredSensor, failed>>

CommandWorkerRequest ==
    /\ Handles("commandWorkerRequest")
    /\ IF commandQueue = <<>>
         THEN commandWorkerTid' = TRUE /\ UNCHANGED <<worker, commandQueue>>
         ELSE /\ worker' = [pc |-> "got", command |-> Head(commandQueue)]
              /\ commandQueue' = Tail(commandQueue)
              /\ UNCHANGED commandWorkerTid
    /\ UNCHANGED <<trainVars, placeVars, motion, location, triggeredSensor, targetNode,
                   order, failed>>

(* Reply(tid, 0, 0): what the worker does after each of its reports. *)
WorkerGoesOn ==
    worker' = [worker EXCEPT !.pc = CASE @ = "told"        -> "ask"
                                      [] @ = "toldStop"    -> "halting"
                                      [] @ = "toldReverse" -> "pausing"]

(* Seeded fault: the train that is set going while it slows down. *)
StateAfter_Sticks(s, v) ==
    CASE s = "Stopped" /\ v > 0                   -> "Accelerating"
      [] s \in {"Running", "Accelerating"} /\ v = 0 -> "Decelerating"
      [] OTHER                                    -> s

(* The state when the speed has been set to v. *)
StateAfter(s, v) ==
    CASE s \in {"Stopped", "Decelerating"} /\ v > 0 -> "Accelerating"
      [] s \in {"Running", "Accelerating"} /\ v = 0 -> "Decelerating"
      [] OTHER                                    -> s

CommandWorkerSpeedSet ==
    /\ Handles("commandWorkerSpeedSet")
    /\ WorkerGoesOn
    /\ speed' = Head(inbox).value
    /\ state' = StateAfter(state, speed')
    /\ UNCHANGED <<trainVars, placeVars, isForward, location, triggeredSensor, targetNode,
                   commandWorkerTid, commandQueue, order, failed>>

(* Seeded fault: the sensors are turned round but not swapped. *)
Turned_NotSwapped == prevSensor' = Reverse[prevSensor] /\ nextSensor' = Reverse[nextSensor]

Turned == prevSensor' = Reverse[nextSensor] /\ nextSensor' = Reverse[prevSensor]

CommandWorkerReverseSet ==
    /\ Handles("commandWorkerReverseSet")
    /\ WorkerGoesOn
    /\ isForward' = ~isForward
    /\ state' = "Reversing"
    /\ prevNode' = Reverse[NextNode[prevNode]]
    /\ Turned
    /\ UNCHANGED <<trainVars, speed, location, triggeredSensor, targetNode,
                   commandWorkerTid, commandQueue, order, failed>>

UpdateSensor ==
    /\ Handles("updateSensor")
    /\ prevNode' = Head(inbox).value
    /\ prevSensor' = prevNode' /\ nextSensor' = NextSensor[prevNode']
    /\ triggeredSensor' = TRUE
    /\ CASE state = "Ready" ->
              /\ state' = IF speed > 0 THEN "Accelerating" ELSE "Stopped"
              /\ location' = "delay"        \* kick start the UI refresh
         [] state = "Accelerating" -> state' = "Running" /\ UNCHANGED location
         [] OTHER -> UNCHANGED <<state, location>>
    /\ UNCHANGED <<trainVars, deskVars, isForward, speed, targetNode, failed>>
-----------------------------------------------------------------------------
(* updateLocation *)

(* The train has not reached its first sensor: no reply. *)
LocationUnknown ==
    /\ Handles("updateLocation") /\ state = "Ready"
    /\ UNCHANGED <<trainVars, deskVars, placeVars, motion, location, triggeredSensor,
                   targetNode, failed>>

LocationIsSensor ==
    /\ Handles("updateLocation") /\ state # "Ready" /\ triggeredSensor
    /\ triggeredSensor' = FALSE
    /\ location' = "delay"
    /\ UNCHANGED <<trainVars, deskVars, placeVars, motion, targetNode, failed>>

(* Seeded fault: no reply on this branch. *)
ReversingReply_None == UNCHANGED location

ReversingReply == location' = "delay"

(* slowed: the velocity is down to 0; near: the target is within stopping  *)
(* distance; reached: the distance to the next node is covered; denied:    *)
(* the track server refuses some of the track ahead, or all of it.  The    *)
(* next enstruction would follow the stop, but a book never holds two.     *)
LocationEstimated(slowed, near, reached, denied) ==
    LET now  == IF slowed THEN "Stopped" ELSE state
        desk == IssueIf(near, Desk, StopCommand)
    IN
    /\ Handles("updateLocation") /\ state # "Ready" /\ ~triggeredSensor
    /\ slowed => state = "Decelerating"
    /\ near => targetNode # None /\ speed > 0
    /\ reached => NextNode[prevNode] \notin Sensors
    /\ targetNode' = IF near THEN None ELSE targetNode
    /\ IF now = "Reversing" /\ ~reached
         THEN /\ ~denied
              /\ state' = IF speed = 0 THEN "Stopped" ELSE "Accelerating"
              /\ DeskBecomes(desk)
              /\ ReversingReply
         ELSE /\ state' = now
              /\ DeskBecomes(IssueIf(denied, desk, StopCommand))
              /\ location' = "delay"
    /\ prevNode' = IF reached THEN NextNode[prevNode] ELSE prevNode
    /\ UNCHANGED <<trainVars, prevSensor, nextSensor, isForward, speed, triggeredSensor,
                   failed>>

Estimate == \E slowed, near, reached, denied \in BOOLEAN :
                LocationEstimated(slowed, near, reached, denied)
-----------------------------------------------------------------------------
Worker == WorkerAsks \/ WorkerSetsSpeed \/ WorkerStops \/ WorkerReverses \/ WorkerResumes

Server ==
    \/ SetSpeed \/ SetReverse \/ XMark \/ Go
    \/ CommandWorkerRequest \/ CommandWorkerSpeedSet \/ CommandWorkerReverseSet
    \/ UpdateSensor \/ LocationUnknown \/ LocationIsSensor \/ Estimate

Halted == failed /\ UNCHANGED vars

Next ==
    \/ ~failed /\ (Hit \/ ComesToRest \/ Deliver \/ Worker \/ LocationAsks \/ UserCalls \/ Server)
    \/ Halted

(* Tasks that can run do, delays end and a train that was stopped comes to *)
(* rest.  Nothing makes the user call or the train reach a sensor.         *)
Fairness ==
    /\ WF_vars(~failed /\ ComesToRest) /\ WF_vars(~failed /\ Deliver)
    /\ WF_vars(~failed /\ Worker) /\ WF_vars(~failed /\ LocationAsks)
    /\ WF_vars(~failed /\ Server)

Spec == Init /\ [][Next]_vars /\ Fairness
-----------------------------------------------------------------------------
States == {"Ready", "Stopped", "Running", "Reversing", "Decelerating", "Accelerating"}

(* Every variable holds what its declaration can hold. *)
TypeOK ==
    /\ trainSpeed \in Speeds /\ trainForward \in BOOLEAN /\ moving \in BOOLEAN
    /\ at \in Sensors /\ report \in Sensors \cup {None}
    /\ worker.pc \in {"ask", "asked", "got", "told", "toldStop", "halting", "toldReverse", "pausing"}
    /\ worker.command \in Commands
    /\ location \in {"asked", "delay"}
    /\ state \in States /\ isForward \in BOOLEAN /\ speed \in Speeds
    /\ {prevSensor, nextSensor} \subseteq Sensors \cup {None}
    /\ prevNode \in Nodes \cup {None}
    /\ triggeredSensor \in BOOLEAN
    /\ targetNode \in Targets \cup {None}
    /\ commandWorkerTid \in BOOLEAN
    /\ commandQueue \in Seq(Commands) /\ Len(commandQueue) < Size
    /\ failed \in BOOLEAN

Reported(types) == ~\E i \in DOMAIN inbox : inbox[i].type \in types

(* What the engineer takes for the train's speed and direction is what the *)
(* worker told the train, but for a report that waits to be handled; its   *)
(* state goes with the speed it has (a train that runs or speeds up has    *)
(* one, a train that stands or slows down has none).                       *)
ViewsAgree ==
    /\ Reported({"commandWorkerSpeedSet"}) => speed = trainSpeed
    /\ Reported({"commandWorkerReverseSet"}) => isForward = trainForward

(* The state of the train goes with the speed it was set to, whatever      *)
(* orders, reversals and hits came in between.                             *)
StateFits ==
    /\ state \in {"Running", "Accelerating"} => speed > 0
    /\ state \in {"Stopped", "Decelerating"} => speed = 0

(* When nothing is on its way to it, the engineer has the train between    *)
(* the two sensors it really is between, in the direction it really has,   *)
(* and its estimate does not leave that stretch.                           *)
PositionFollows ==
    prevSensor # None /\ ~InFlight /\ Reported({"commandWorkerReverseSet"}) =>
        /\ prevSensor = at /\ nextSensor = NextSensor[at]
        /\ prevNode \in Segment(prevSensor)

(* When the worker waits for a command, the train has the speed of the     *)
(* last order, be it the user's, a stop at the target or a stop for a      *)
(* refused reservation: also when orders came in during a reversal, and    *)
(* when the queue overflowed, which drops older orders but not the last.   *)
LastOrderWins ==
    commandWorkerTid => commandQueue = <<>> /\ trainSpeed = order

(* Every order is carried out, or followed by another: the worker, the     *)
(* queue and the engineer never wait for each other.                       *)
OrdersDone ==
    \A s \in Speeds : order = s ~> trainSpeed = s \/ order # s \/ failed

(* From the first sensor on, the location worker is always answered.       *)
LocationFlows ==
    state # "Ready" /\ location = "asked" ~> location = "delay" \/ failed
=============================================================================
