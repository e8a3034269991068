---------------------------- MODULE SensorServer ----------------------------
(***************************************************************************)
(* How the hit of a sensor finds the engineer of the train: sensorWorker,  *)
(* sensorServer and engineerCourier (user/sensor.c), sensorCourier and the *)
(* part of engineerServer that makes claims (user/engineer.c).             *)
(*                                                                         *)
(* The sensors do not say which train they saw.  Each engineer claims the  *)
(* sensor his train should hit next and the one after it; the server gives *)
(* a hit to a claimant and a courier brings it to the engineer, who makes  *)
(* the next claim through another courier.  A train goes on meanwhile.     *)
(*                                                                         *)
(* A step is what a task does between two system calls that other tasks    *)
(* can see.  Couriers (priority 14) run before servers (16); the worker    *)
(* waits for bytes most of the time and is not ordered.                    *)
(***************************************************************************)
EXTENDS Integers, FiniteSets, Sequences, SequencesExt

CONSTANTS
    Trains,         \* each has an engineer and a sensor courier of its own
    Sensors,        \* indices of the sensor nodes, each seen in one direction
    ReverseOf,      \* the same place in the other direction
    NextSensor,     \* getNextSensor, as the turnouts are set
    Secondary,      \* the sensor that is hit if that one is not
    Starts,         \* the sensors before which trains are put down
    FollowFresh,    \* a train may follow one that has not hit a sensor yet
    Stands,         \* a train that turns round stands, its last hit reported
    MaxTime         \* bound: the number of readings with a hit, and of reversals

NoSensor == -1
NoTime   == -1

ASSUME SensorServerAssumption ==
    /\ Sensors \subseteq 0 .. 79     \* five groups of sixteen
    /\ ReverseOf \in [Sensors -> Sensors] /\ NextSensor \in [Sensors -> Sensors]
    /\ Secondary \in [Sensors -> Sensors \cup {NoSensor}]
    /\ \A s \in Sensors : /\ ReverseOf[ReverseOf[s]] = s
                          /\ NextSensor[ReverseOf[NextSensor[s]]] = ReverseOf[s]
    /\ Starts \subseteq Sensors /\ FollowFresh \in BOOLEAN /\ Stands \in BOOLEAN /\ MaxTime \in Nat

NoClaim == [primary |-> NoSensor, secondary |-> NoSensor]

VARIABLES
    on,         \* track: the trains that passed a sensor last, in order
    unsure,     \* track: those whose last sensor no engineer was told of
    triggered,  \* track: the sensors hit since they were last read
    states,     \* worker: sensorStates, the sensors set when last read
    now,        \* the clock, counting hits read and reversals
    fresh,      \* worker: what it has read and not reported yet
    timestamp,  \* worker: when it read it
    worker,     \* worker: what it does
    inbox,      \* server: its send queue
    report,     \* server: the rest of the byte it works on
    attrs,      \* server: the attributions, in the order of the first claims
    engineerCourierTid,     \* server: the courier is blocked here
    sensorQueue,            \* server: deliveries that wait for the courier
    courier,    \* the engineer courier, with its delivery
    mail,       \* engineers: their send queues
    prevSensor, creationTime, outstandingClaim, sensorCourierTid, \* engineers
    claimer,    \* the sensor couriers, each with its request to the server
    hits,       \* ghost: what each train has hit and its engineer not heard
    left        \* ghost: engineers that have turned round and left their old claim

trackVars    == <<on, unsure, triggered>>
workerVars   == <<states, now, fresh, timestamp, worker>>
serverVars   == <<report, attrs, engineerCourierTid, sensorQueue>>
engineerVars == <<prevSensor, creationTime, outstandingClaim, sensorCourierTid>>
vars == <<trackVars, workerVars, inbox, serverVars, courier, mail, engineerVars,
          claimer, hits, left>>

Request(type, t, claim) == [type |-> type, tid |-> t, claim |-> claim]

NoReport   == [bits |-> {}, time |-> NoTime]
NoDelivery == [to |-> NoSensor, sensor |-> NoSensor, time |-> NoTime]

Init ==
    /\ on = [s \in Sensors |-> <<>>] /\ unsure = {} /\ triggered = {}
    /\ states = {} /\ now = 0 /\ fresh = {} /\ timestamp = NoTime /\ worker = "reads"
    /\ inbox = <<>> /\ report = NoReport /\ attrs = <<>>
    /\ engineerCourierTid = FALSE /\ sensorQueue = <<>>
    /\ courier = [pc |-> "ask", delivery |-> NoDelivery]
    /\ mail = [t \in Trains |-> <<>>]
    /\ prevSensor = [t \in Trains |-> NoSensor]
    /\ creationTime = [t \in Trains |-> NoTime]
    /\ outstandingClaim = [t \in Trains |-> NoClaim]
    /\ sensorCourierTid = [t \in Trains |-> FALSE]
    /\ claimer = [t \in Trains |-> [pc |-> "none", request |-> Request("initialClaim", t, NoClaim)]]
    /\ hits = [t \in Trains |-> <<>>] /\ left = {}
-----------------------------------------------------------------------------
(* The trains.  A train in on[s] is between s and NextSensor[s]; there it  *)
(* may have others before and behind it, none that comes towards it.       *)

Opposite(s) == ReverseOf[NextSensor[s]]
Before(s)   == Opposite(ReverseOf[s])
Placed(t)   == \E s \in Sensors : Contains(on[s], t)

NextClaims(s) == [primary |-> NextSensor[s], secondary |-> Secondary[s]]

Registered(t)  == \E i \in DOMAIN attrs : attrs[i].engineerTid = t
Attribution(t) == attrs[CHOOSE i \in DOMAIN attrs : attrs[i].engineerTid = t]
Claims(t)      == [primary |-> Attribution(t).primary, secondary |-> Attribution(t).secondary]

(* Nothing of what train t did is on its way any more. *)
Settled(t) ==
    /\ hits[t] = <<>> /\ mail[t] = <<>> /\ sensorCourierTid[t]
    /\ prevSensor[t] # NoSensor => Claims(t) = NextClaims(prevSensor[t])

AllSettled == \A t \in Trains : Placed(t) => Settled(t)

(* Who claims sensor s first is before it; he would have hit it otherwise. *)
NoOldClaim(s) ==
    \A i \in DOMAIN attrs :
        attrs[i].primary = s => Contains(on[Before(s)], attrs[i].engineerTid)

(* The claims of train t that have not come to the server. *)
UnderWay(t) ==
    {c \in {outstandingClaim[t]} : c # NoClaim}
        \cup {r.claim : r \in {x \in {claimer[t].request} : claimer[t].pc \in {"claim", "sent"}}}

(* No other train is, or is thought to be, close behind t. *)
Alone(t, s) ==
    /\ on[Before(s)] = <<t>> /\ on[Before(Before(s))] = <<>> /\ on[Opposite(Before(Before(s)))] = <<>>
    /\ \A i \in DOMAIN attrs :
          s \in {attrs[i].primary, attrs[i].secondary} => attrs[i].engineerTid = t

(* When a train reaches a sensor the server expects it there: a train that *)
(* hit the sensor before has claimed others since, and the claims of this  *)
(* one are behind it by one sensor at most, if it is alone or has missed   *)
(* a sensor; those under way are for s or later.                           *)
Expected(t, s) ==
    /\ NoOldClaim(s)
    /\ \A c \in UnderWay(t) : s \in {c.primary, c.secondary}
    /\ \/ s = Attribution(t).primary
       \/ s = Attribution(t).secondary /\ (t \in unsure \/ Alone(t, s))

(* The command worker of t has turned the train round and waits to be      *)
(* heard; then it waits 15 ticks before it sets the speed again.           *)
Turning(t) == \E i \in DOMAIN mail[t] : mail[t][i].type = "commandWorkerReverseSet"

(* t is the first of its track and may go on to s. *)
MayPass(t, s) ==
    /\ ~Turning(t)
    /\ on[Before(s)] # <<>> /\ Head(on[Before(s)]) = t
    /\ on[Opposite(s)] = <<>>
    /\ \A u \in Trains \ {t} :
          /\ Contains(on[s], u) => u \notin unsure \/ prevSensor[u] = NoSensor
          /\ Contains(on[s] \o on[NextSensor[s]], u) => FollowFresh \/ prevSensor[u] # NoSensor

Pass(t, s) == on' = [on EXCEPT ![Before(s)] = Tail(@), ![s] = Append(@, t)]

Hit(t, s) ==
    /\ now < MaxTime
    /\ Registered(t) /\ MayPass(t, s) /\ Expected(t, s)
    /\ s \notin triggered \cup states
    /\ Before(s) \notin triggered \/ t \in unsure   \* a reading takes less time
    /\ Pass(t, s)
    /\ triggered' = triggered \cup {s}
    /\ unsure' = unsure \ {t}
    /\ hits' = [hits EXCEPT ![t] = Append(@, s)]
    /\ UNCHANGED <<workerVars, inbox, serverVars, courier, mail, engineerVars, claimer, left>>

(* A sensor may fail to notice a train that drives alone and was noticed   *)
(* last, if no more than that is to be sorted out.                         *)
Miss(t, s) ==
    /\ MayPass(t, s) /\ t \notin unsure
    /\ AllSettled
    /\ Len(on[Before(s)]) = 1 /\ on[s] = <<>>
    /\ Pass(t, s)
    /\ unsure' = unsure \cup {t}
    /\ UNCHANGED <<triggered, workerVars, inbox, serverVars, courier, mail, engineerVars, claimer, hits, left>>

(* The command worker has sent the reverse command and tells the engineer. *)
ReverseTrain(t, s) ==
    /\ now < MaxTime /\ now' = now + 1
    /\ on[s] = <<t>> /\ t \notin unsure /\ ~Turning(t)
    /\ prevSensor[t] # NoSensor /\ (Stands => hits[t] = <<>>)
    /\ on' = [on EXCEPT ![s] = <<>>, ![Opposite(s)] = <<t>>]
    /\ mail' = [mail EXCEPT ![t] = Append(@, [type |-> "commandWorkerReverseSet"])]
    /\ UNCHANGED <<unsure, triggered, states, fresh, timestamp, worker, inbox, serverVars, courier,
                   engineerVars, claimer, hits, left>>

(* A train is put down before sensor s and its engineer told so. *)
Initialize(t, s) ==
    /\ ~Placed(t) /\ s \in Starts
    /\ on[Opposite(Before(s))] = <<>>
    /\ FollowFresh \/ on[Before(s)] = <<>>
    /\ NoOldClaim(s)
    /\ \A i \in DOMAIN attrs : attrs[i].secondary = s => ~Contains(on[s], attrs[i].engineerTid)
    /\ on' = [on EXCEPT ![Before(s)] = Append(@, t)]
    /\ unsure' = unsure \cup {t}
    /\ creationTime' = [creationTime EXCEPT ![t] = now]
    /\ claimer' = [claimer EXCEPT ![t] = [pc |-> "claim",
          request |-> Request("initialClaim", t, [primary |-> s, secondary |-> NoSensor])]]
    /\ UNCHANGED <<triggered, workerVars, inbox, serverVars, courier, mail, prevSensor,
                   outstandingClaim, sensorCourierTid, hits, left>>
-----------------------------------------------------------------------------
(* sensorWorker *)

Byte(s) == s \div 8

(* A sensor that has been set may stay so while the train is over it. *)
Fresh(c) == c \ states

Read(held) ==
    /\ worker = "reads"
    /\ LET c == triggered \cup held IN
         /\ states' = c /\ triggered' = {}
         /\ fresh' = Fresh(c)
    /\ now' = IF fresh' = {} THEN now ELSE now + 1
    /\ timestamp' = IF fresh' = {} THEN NoTime ELSE now'
    /\ worker' = IF fresh' = {} THEN "reads" ELSE "sends"
    /\ UNCHANGED <<on, unsure, inbox, serverVars, courier, mail, engineerVars, claimer, hits, left>>

(* What the worker has to report of the first byte. *)
FirstByte == {s \in fresh : \A x \in fresh : Byte(s) <= Byte(x)}

WorkerSends ==
    /\ worker = "sends"
    /\ inbox' = Append(inbox, [type |-> "newSensor", report |-> [bits |-> FirstByte, time |-> timestamp]])
    /\ fresh' = fresh \ FirstByte
    /\ worker' = "waits"
    /\ UNCHANGED <<trackVars, states, now, timestamp, serverVars, courier, mail, engineerVars, claimer, hits, left>>
-----------------------------------------------------------------------------
(* engineerCourier *)

CourierAsks ==
    /\ courier.pc = "ask"
    /\ inbox' = Append(inbox, [type |-> "requestSensor"])
    /\ courier' = [pc |-> "waits", delivery |-> NoDelivery]
    /\ UNCHANGED <<trackVars, workerVars, serverVars, mail, engineerVars, claimer, hits, left>>

CourierDelivers ==
    /\ courier.pc = "deliver"
    /\ LET d == courier.delivery IN
         mail' = [mail EXCEPT ![d.to] =
            Append(@, [type |-> "updateSensor", sensor |-> d.sensor, time |-> d.time])]
    /\ courier' = [pc |-> "delivered", delivery |-> NoDelivery]
    /\ UNCHANGED <<trackVars, workerVars, inbox, serverVars, engineerVars, claimer, hits, left>>

(* sensorCourier *)

ClaimerClaims(t) ==
    /\ claimer[t].pc = "claim"
    /\ inbox' = Append(inbox, claimer[t].request)
    /\ claimer' = [claimer EXCEPT ![t].pc = "sent"]
    /\ UNCHANGED <<trackVars, workerVars, serverVars, courier, mail, engineerVars, hits, left>>

ClaimerAsks(t) ==
    /\ claimer[t].pc = "ask"
    /\ mail' = [mail EXCEPT ![t] = Append(@, [type |-> "sensorCourierRequest"])]
    /\ claimer' = [claimer EXCEPT ![t].pc = "asked"]
    /\ UNCHANGED <<trackVars, workerVars, inbox, serverVars, courier, engineerVars, hits, left>>

Couriers == CourierAsks \/ CourierDelivers \/ \E t \in Trains : ClaimerClaims(t) \/ ClaimerAsks(t)

ServersRun ==
    /\ courier.pc \notin {"ask", "deliver"}
    /\ \A t \in Trains : claimer[t].pc \notin {"claim", "ask"}
-----------------------------------------------------------------------------
(* sensorServer *)

Receive(type) ==
    /\ ServersRun
    /\ report = NoReport
    /\ inbox # <<>> /\ Head(inbox).type = type
    /\ inbox' = Tail(inbox)

RequestSensor ==
    /\ Receive("requestSensor")
    /\ IF sensorQueue = <<>>
         THEN engineerCourierTid' = TRUE /\ UNCHANGED <<sensorQueue, courier>>
         ELSE /\ courier' = [pc |-> "deliver", delivery |-> Head(sensorQueue)]
              /\ sensorQueue' = Tail(sensorQueue)
              /\ UNCHANGED engineerCourierTid
    /\ UNCHANGED <<trackVars, workerVars, report, attrs, mail, engineerVars, claimer, hits, left>>

NewSensor ==
    /\ Receive("newSensor")
    /\ report' = Head(inbox).report
    /\ UNCHANGED <<trackVars, workerVars, attrs, engineerCourierTid, sensorQueue, courier, mail,
                   engineerVars, claimer, hits, left>>

(* Seeded fault: the first claimant gets it. *)
Earliest_First(indices) ==
    LET first[n \in 0 .. Len(attrs)] ==
          IF n = 0 THEN 0 ELSE IF first[n - 1] = 0 /\ n \in indices THEN n ELSE first[n - 1]
    IN  first[Len(attrs)]

(* The loop over the attributions: the first with the smallest prevTime    *)
(* among indices, or 0 if there are none; but an attribution without a     *)
(* time leaves the minimum as if there were none yet.                      *)
Earliest(indices) ==
    LET min[n \in 0 .. Len(attrs)] ==
          IF n = 0 THEN 0
          ELSE LET m == min[n - 1] IN
               IF /\ n \in indices
                  /\ \/ m = 0 \/ attrs[m].prevTime = NoTime
                     \/ attrs[n].prevTime < attrs[m].prevTime
                 THEN n ELSE m
    IN  min[Len(attrs)]

ByPrimary(s)   == {i \in DOMAIN attrs : attrs[i].primary = s}
BySecondary(s) == {i \in DOMAIN attrs : attrs[i].primary # s /\ attrs[i].secondary = s}

(* Seeded fault: any claim will do. *)
Claimant_Any(s)  == Earliest(ByPrimary(s) \cup BySecondary(s))

Claimant(s) == IF ByPrimary(s) # {} THEN Earliest(ByPrimary(s)) ELSE Earliest(BySecondary(s))

(* Seeded fault: the server goes on thinking that the courier is there. *)
CourierGone_Forgotten == UNCHANGED engineerCourierTid

CourierGone == engineerCourierTid' = FALSE

Deliver(d) ==
    IF engineerCourierTid
      THEN /\ courier' = IF courier.pc = "waits" THEN [pc |-> "deliver", delivery |-> d] ELSE courier
           /\ CourierGone
           /\ UNCHANGED sensorQueue
      ELSE sensorQueue' = Append(sensorQueue, d) /\ UNCHANGED <<courier, engineerCourierTid>>

(* One bit of the byte: the highest number first. *)
Attribute ==
    /\ ServersRun
    /\ report.bits # {}
    /\ LET s == CHOOSE x \in report.bits : \A y \in report.bits : x >= y
           i == Claimant(s)
       IN  /\ report' = [report EXCEPT !.bits = @ \ {s}]
           /\ IF i # 0
                THEN /\ attrs' = [attrs EXCEPT ![i].prevTime = report.time]
                     /\ Deliver([to |-> attrs[i].engineerTid, sensor |-> s, time |-> report.time])
                ELSE UNCHANGED <<attrs, engineerCourierTid, sensorQueue, courier>>
    /\ UNCHANGED <<trackVars, workerVars, inbox, mail, engineerVars, claimer, hits, left>>

ReplyToWorker ==
    /\ ServersRun
    /\ report # NoReport /\ report.bits = {}
    /\ report' = NoReport
    /\ IF fresh = {} THEN worker' = "reads" /\ timestamp' = NoTime
       ELSE worker' = "sends" /\ UNCHANGED timestamp
    /\ UNCHANGED <<trackVars, states, now, fresh, inbox, attrs, engineerCourierTid, sensorQueue,
                   courier, mail, engineerVars, claimer, hits, left>>

(* Both unblock the sensor courier; what they do then only the server sees. *)
Unblock(t) == claimer' = [claimer EXCEPT ![t].pc = "ask"]

SetAttribution(a, c) == [a EXCEPT !.primary = c.primary, !.secondary = c.secondary]

ClaimSensor ==
    /\ Receive("claimSensor")
    /\ LET m == Head(inbox) IN
         /\ Unblock(m.tid)
         /\ attrs' = [i \in DOMAIN attrs |->
               IF attrs[i].engineerTid = m.tid THEN SetAttribution(attrs[i], m.claim) ELSE attrs[i]]
    /\ UNCHANGED <<trackVars, workerVars, report, engineerCourierTid, sensorQueue, courier, mail,
                   engineerVars, hits, left>>

InitialClaim ==
    /\ Receive("initialClaim")
    /\ LET m == Head(inbox) IN
         /\ Unblock(m.tid)
         /\ attrs' = Append(attrs, [engineerTid |-> m.tid, prevTime |-> NoTime,
                                    primary |-> m.claim.primary, secondary |-> NoSensor])
    /\ UNCHANGED <<trackVars, workerVars, report, engineerCourierTid, sensorQueue, courier, mail,
                   engineerVars, hits, left>>
-----------------------------------------------------------------------------
(* engineerServer, as far as it makes claims *)

Mail(t, type) ==
    /\ ServersRun
    /\ mail[t] # <<>> /\ Head(mail[t]).type = type
    /\ mail' = [mail EXCEPT ![t] = Tail(@)]

(* The sensor courier gets a claim to bring to the server. *)
NextRequest(t, c) == Request("claimSensor", t, c)

ReplyToClaimer(t, c) ==
    claimer' = [claimer EXCEPT ![t] = [pc |-> "claim", request |-> NextRequest(t, c)]]

Claim(t, c) ==
    /\ ReplyToClaimer(t, c)
    /\ sensorCourierTid' = [sensorCourierTid EXCEPT ![t] = FALSE]
    /\ left' = left \ {t}
    /\ UNCHANGED outstandingClaim

Remember(t, c) ==
    /\ outstandingClaim' = [outstandingClaim EXCEPT ![t] = c]
    /\ left' = left \ {t}
    /\ UNCHANGED <<claimer, sensorCourierTid>>

Keep == UNCHANGED <<claimer, sensorCourierTid, outstandingClaim, left>>

(* Seeded fault: with the courier away the claim is not made at all. *)
ClaimNext_Forgets(t, s) == IF sensorCourierTid[t] THEN Claim(t, NextClaims(s)) ELSE Keep

ClaimNext(t, s) ==
    IF sensorCourierTid[t] THEN Claim(t, NextClaims(s)) ELSE Remember(t, NextClaims(s))

Heard(t, s) == IF hits[t] # <<>> /\ Head(hits[t]) = s THEN Tail(hits[t]) ELSE hits[t]

UpdateSensor(t) ==
    /\ Mail(t, "updateSensor")
    /\ courier' = [courier EXCEPT !.pc = "ask"]
    /\ LET m == Head(mail[t]) IN
         IF m.time > creationTime[t]
           THEN /\ prevSensor' = [prevSensor EXCEPT ![t] = m.sensor]
                /\ creationTime' = [creationTime EXCEPT ![t] = m.time]
                /\ ClaimNext(t, m.sensor)
                /\ hits' = [hits EXCEPT ![t] = Heard(t, m.sensor)]
           ELSE Keep /\ UNCHANGED <<prevSensor, creationTime, hits>>
    /\ UNCHANGED <<trackVars, workerVars, inbox, serverVars>>

(* Seeded fault: the outstanding claim stays and is made again. *)
Taken_Not(c) == c

Taken(c) == NoClaim

SensorCourierRequest(t) ==
    /\ Mail(t, "sensorCourierRequest")
    /\ IF outstandingClaim[t] # NoClaim
         THEN /\ ReplyToClaimer(t, outstandingClaim[t])
              /\ outstandingClaim' = [outstandingClaim EXCEPT ![t] = Taken(@)]
              /\ UNCHANGED sensorCourierTid
         ELSE /\ sensorCourierTid' = [sensorCourierTid EXCEPT ![t] = TRUE]
              /\ UNCHANGED <<claimer, outstandingClaim>>
    /\ UNCHANGED <<trackVars, workerVars, inbox, serverVars, courier, prevSensor, creationTime, hits, left>>

(* With the courier away and nothing put by for it, the claim it has       *)
(* brought or brings to the server stays as it is.                         *)
Leave(t) ==
    /\ left' = left \cup {t}
    /\ UNCHANGED <<claimer, sensorCourierTid, outstandingClaim>>

(* The new prevSensor is the reverse of the old nextSensor. *)
CommandWorkerReverseSet(t) ==
    /\ Mail(t, "commandWorkerReverseSet")
    /\ LET s == Opposite(prevSensor[t]) IN
         /\ prevSensor' = [prevSensor EXCEPT ![t] = s]
         /\ IF outstandingClaim[t] # NoClaim THEN Remember(t, NextClaims(s))
            ELSE IF sensorCourierTid[t] THEN Claim(t, NextClaims(s)) ELSE Leave(t)
    /\ UNCHANGED <<trackVars, workerVars, inbox, serverVars, courier, creationTime, hits>>
-----------------------------------------------------------------------------
Railway ==
    \E t \in Trains, s \in Sensors :
        Hit(t, s) \/ Miss(t, s) \/ ReverseTrain(t, s) \/ Initialize(t, s)

Worker == WorkerSends \/ \E held \in SUBSET {s \in states : on[s] # <<>>} : Read(held)

Server == RequestSensor \/ NewSensor \/ Attribute \/ ReplyToWorker \/ ClaimSensor \/ InitialClaim

Engineer(t) == UpdateSensor(t) \/ SensorCourierRequest(t) \/ CommandWorkerReverseSet(t)

Next == Railway \/ Worker \/ Couriers \/ Server \/ \E t \in Trains : Engineer(t)

Spec == Init /\ [][Next]_vars

(* The worker goes on reading and the scheduler runs what is ready; the    *)
(* trains may stop.                                                        *)
Fairness ==
    /\ WF_vars(Worker) /\ WF_vars(Couriers) /\ WF_vars(Server)
    /\ \A t \in Trains : WF_vars(Engineer(t))

FairSpec == Spec /\ Fairness
-----------------------------------------------------------------------------
(***************************************************************************)
(* Properties.                                                             *)
(***************************************************************************)
Times == Nat \cup {NoTime}

Reports      == [bits : SUBSET Sensors, time : Times]
ClaimRecords == [primary : Sensors \cup {NoSensor}, secondary : Sensors \cup {NoSensor}]
ClaimTypes   == {"initialClaim", "claimSensor"}
Requests     == [type : ClaimTypes, tid : Trains, claim : ClaimRecords]

SensorMessages ==
    [type : {"requestSensor"}] \cup [type : {"newSensor"}, report : Reports] \cup Requests

EngineerMessages ==
    [type : {"updateSensor"}, sensor : Sensors, time : Times]
        \cup [type : {"sensorCourierRequest", "commandWorkerReverseSet"}]

Attributions ==
    [engineerTid : Trains, prevTime : Times,
     primary : Sensors \cup {NoSensor}, secondary : Sensors \cup {NoSensor}]

Deliveries == [to : Trains, sensor : Sensors, time : Times]

(* Every variable holds what its declaration can hold.  *)
TypeOK ==
    /\ on \in [Sensors -> Seq(Trains)] /\ unsure \subseteq Trains
    /\ triggered \subseteq Sensors /\ states \subseteq Sensors
    /\ now \in Nat /\ worker \in {"reads", "sends", "waits"}
    /\ fresh \subseteq Sensors /\ timestamp \in Times
    /\ inbox \in Seq(SensorMessages)
    /\ report \in Reports
    /\ attrs \in Seq(Attributions)
    /\ engineerCourierTid \in BOOLEAN
    /\ sensorQueue \in Seq(Deliveries)
    /\ courier \in [pc : {"ask", "waits", "deliver", "delivered"}, delivery : Deliveries \cup {NoDelivery}]
    /\ courier.pc = "deliver" => courier.delivery \in Deliveries
    /\ mail \in [Trains -> Seq(EngineerMessages)]
    /\ prevSensor \in [Trains -> Sensors \cup {NoSensor}]
    /\ creationTime \in [Trains -> Times]
    /\ outstandingClaim \in [Trains -> ClaimRecords]
    /\ sensorCourierTid \in [Trains -> BOOLEAN]
    /\ claimer \in [Trains -> [pc : {"none", "claim", "sent", "ask", "asked"}, request : Requests]]
    /\ hits \in [Trains -> Seq(Sensors)] /\ left \subseteq Trains

Updates(t) ==
    LET of(d)     == d.to = t
        sensor(d) == d.sensor
        read      == SelectSeq(mail[t], LAMBDA m : m.type = "updateSensor")
        carried   == IF courier.pc = "deliver" THEN <<courier.delivery>> ELSE <<>>
        all(q)    == [i \in DOMAIN q |-> q[i].sensor]
    IN  all(read) \o all(SelectSeq(carried \o sensorQueue, of))

(* What is on its way to an engineer is what his train has hit, in that    *)
(* order, once and nobody else's: though reports, claims and deliveries of *)
(* all trains pass through one server and one courier (sensor.c:360-536).  *)
UpdatesAreHits == \A t \in Trains : IsPrefix(Updates(t), hits[t])

(* A sensor courier that waits for a claim has left the server with the    *)
(* claims that follow from the engineer's last sensor, however hits and    *)
(* reversals come between its errands; unless the train turned round while *)
(* it was away with the last claim made, and no claim has been made since  *)
(* (engineer.c:815-858, 957-973).                                          *)
ClaimsFollow ==
    \A t \in Trains \ left :
        sensorCourierTid[t] /\ prevSensor[t] # NoSensor => Claims(t) = NextClaims(prevSensor[t])

(* An update that finds the courier away finds no other claim waiting for  *)
(* it, which would be overwritten (engineer.c:830).                        *)
OneOutstandingClaim ==
    [][\A t \in Trains : outstandingClaim[t] # NoClaim /\ outstandingClaim'[t] # NoClaim
          => outstandingClaim'[t] = outstandingClaim[t] \/ prevSensor'[t] = Opposite(prevSensor[t])]_vars

(* Of several engineers that wait for the same sensor the one whose last   *)
(* hit is longest ago gets the hit (sensor.c:425).                         *)
EarliestIsServed ==
    [][\A i, j \in DOMAIN attrs :
          /\ attrs'[i].prevTime # attrs[i].prevTime
          /\ attrs[i].primary = attrs[j].primary
          /\ attrs[i].primary \in report.bits \ report'.bits
          => attrs[i].prevTime <= attrs[j].prevTime]_vars

(* Every hit reaches the engineer of the train that caused it. *)
EveryHitArrives ==
    \A t \in Trains, n \in 1 .. 2 : Len(hits[t]) >= n ~> Len(hits[t]) < n
=============================================================================
