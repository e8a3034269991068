# Verification of the cs452team train kernel

TLA+ models of the microkernel and of the servers that drive a model railway on
it, checked with TLC and, where it says so below, proved with TLAPS. Every
definition is translated from the C source; `PROJECT.json` maps it to its lines.

## The system

The program is a real-time kernel for a TS-7200 board (one ARM core, no memory
protection, no dynamic memory) and some twenty tasks on top of it. Tasks share
nothing but messages: `Send` blocks until the receiver has replied, `Receive`
until somebody sends, `Reply` never. A *server* is a loop around `Receive`. A
*notifier* turns an interrupt into a message: it waits in `AwaitEvent` and then
sends. A *courier* carries a message between two servers, so that neither blocks
on the other; a *worker* does the same for work that takes time.

| part | state it keeps | operations | hard because |
|---|---|---|---|
| scheduler (`scheduler.h`) | 32 ready queues, bitmap `queueStatus` | `schedule`, `queueTask`, `addToFront` | the link `td->next` is shared with the send queues; the bitmap is a cache |
| tasks (`task.c`, `kernel.c`) | the task table, next index, next stack | `Create`, `Spawn`, `Exit`, `MyTid`, `Pass`, `Halt` | each return path requeues the caller or must not; indices are never recycled |
| message passing (`message_passing.c`) | status, send queues, `originalReceiverId`, lengths | `Send`, `Receive`, `Reply` | both sides may come first; refusals; partners that exit |
| interrupts (`interrupts.c`) | `eventTable`, `ctsOn`, `xmitRdy` | `AwaitEvent`, `handleInterrupt` | any instruction may be interrupted; two interrupts in either order make one event |
| clock server (`clockserver.c`) | `tick`, a ring of delayed tasks | `Time`, `Delay`, `DelayUntil` | the timer does not wait; deadlines in any order |
| character I/O (`io.c`) | ring buffers, `sendAddr`, waiting callers, courier | `Getc`, `Putc`, `PutStr` | notifier, clients and courier in any order; pointers into memory of unblocked callers |
| ring buffers (`utils.c`) | head, tail, array | push, pop, clean | wrap-around, overflow |
| track server (`trackserver.c`) | `owner` of each track node | reserve and release | several trains, two directions of one place, partial success |
| sensor server (`sensor.c`, `attribution.c`) | claims of each engineer, deliveries waiting, courier | new report, claim, request for a delivery | reports, claims and couriers in any order |
| engineer (`engineer.c`) | position, speed, state, outstanding claim, command queue | sensor update, location update, commands, worker reports | five tasks talk to it; it reads owners it does not write |
| name server (`nameserver.c`) | table of names | `RegisterAs`, `WhoIs` | the table's limit, error codes |
| route planning (`pathfinding.c`, `heap.h`) | none between calls | `planRoute`, `makeEbook` | an algorithm over the track graph with reversals |
| parser, displays, boot, hardware access | text, registers | | |

## What would make each part correct

* kernel: a task is in one place; nothing that exists is lost; no sender and
  receiver wait for each other; a message is received once, in order, and
  answered once, by its receiver; the most urgent ready task runs; equals take
  turns.
* clock: every timer tick is counted; nobody wakes early; everybody wakes, and
  at the tick it asked for.
* I/O: bytes arrive once, in order, when the device can take them, and none
  gets stuck.
* track: no place is reserved in both directions; nobody loses a node he did
  not give back; a refused request changes nothing.
* sensors and engineers: each report reaches the train that caused it, in
  order; the claims at the server catch up with the train; a train is on track
  it owns.

## Modules

| module | models | kind |
|---|---|---|
| `Scheduler` | ready queues as a record, one operator per operation | operators |
| `Kernel` | tasks, messages, events, main loop, over `Scheduler`; the mapping to `Rendezvous` | state machine |
| `Rendezvous` | what Send/Receive/Reply promise | abstract specification |
| `KernelProofs` | the invariant of `Kernel`, priorities, order, the refinement of `Rendezvous`, nobody lost; the refinement of `Fifo` | proofs |
| `ClockServer` | clock server, notifier, timer and clients | state machine |
| `ClockServerProofs` | theorems about `ClockServer` | proofs |
| `BoundedQueue` | a ring buffer seen as a sequence | operators |
| `BoundedQueueProofs` | what `Pushed` and `PushedAll` do, for the proofs about servers | proofs |
| `CBuffer`, `Fifo` | the ring buffer itself, and the queue it implements | state machine, abstract |
| `TrainOut`, `MCTrainOut` | train output server, notifier, UART1, controller | state machine |
| `TrainOutProofs` | theorems about `TrainOut` | proofs |
| `TrackServer` | reservations, for any requests | state machine |
| `TrackProofs` | theorems about `TrackServer` and `Reservation` | proofs |
| `SensorServer`, `MCSensorServer` | sensor worker, sensor server, both couriers, claim half of the engineer, trains | state machine |
| `SensorProofs` | theorems about `SensorServer` | proofs |
| `Engineer`, `MCEngineer` | the engineer without claims and reservations: commands, reversals, train state, both workers, the train | state machine |
| `EngineerProofs` | theorems about `Engineer` and `PathFinding` | proofs |
| `Reservation`, `MCReservation` | engineers' reservations over `TrackServer` and a track with turnouts | composition |
| `PathFinding`, `MCPathFinding` | route planning with its heap, the ebook and the turnouts set from it | state machine |
| `Monitor`, `MCMonitor` | both terminal servers, their notifiers, the echo courier, UART2, callers | state machine |
| `MonitorProofs` | theorems about `Monitor` | proofs |

`TypeOK` in each module says what its variables hold. It is proved, since every
other proof needs it; no run spends time on it.

Definitions named `X_Y` ("seeded fault") next to a definition `X` are a plausible
bug of the code; `PROJECT.json` pairs each property with one that breaks it.

### Kernel

One turn of the loop in `main` is two steps: `Schedule`, then one handler for
what the scheduled task does. The kernel runs with interrupts off, so a handler
is atomic. The programs are arbitrary: any task may make any call with any
argument, which covers the real programs and every other. `ret` and `heard` hold
what the kernel stored for a task until it runs again. Messages are their
lengths. `mode` tells a running machine from one that left the loop or, built
without `-DPRODUCTION`, hangs in an assertion.

`StackSlots` is 32 in the program (Findings), fewer than the 127 indices of the
table, so a creation that fails has run out of stacks; in the `kernel` run too.

Left out: the names and CPU times of tasks, and what messages say. `OneWaiter`
says that the programs start one notifier per event, as `syscall.h` asks; with a
second one `awaitInterrupt` overwrites the first and `NobodyLost` fails.

### ClockServer, TrainOut

The kernel appears here through what module `Kernel` checks: atomic calls,
first-come order, priorities. A step of a server is what runs between two calls;
guards such as `ClientsRun` say that a task runs only when no more urgent one
can (`priority.h`: notifiers 1, clock server 4, I/O servers 8, everybody else 14
and below). An interrupt may come between any two steps.

`ClockServer` counts the steps of the notifier and the server since the last
timer underflow (`spent`) and lets the timer fire once `Period` steps have been
made, or at any time when both are idle. A step ends with a system call or, where
`removeExpiredTasks` starts and ends, lies between two. `removeExpiredTasks` makes
one `Reply` per expired task, so each is a step of its own (`ReleaseTask`): the
notifier preempts the server between any two, and the server is away from its
queue the longer the more delays end together. Period is 8 in the runs; how large
it has to be is under Proofs.

The delayed tasks are linked through `next`, as in the code, with the links of
released tasks left as they are. `Node[n]` is the node that n links lead to from
the tail, and `Ring` the sequence the walk goes through before it is at the tail
again; `insertDelayedTask` stops at one of these nodes (`LinkAfter`).
`removeExpiredTasks` keeps the first task it released as the successor of the
tail until it is done; meanwhile the ring goes on at `curr` (`Succ`).

`TrainOut` includes UART1 (holding register, shift register, transmit interrupt,
CTS with its change bit) and the controller that drops CTS for each byte. These
are external: they are modelled from what `handleInterrupt` waits for. One
assumption is about time: a byte takes 4 ms on the line, so it arrives only when
no interrupt is pending and the notifier has done what it was about to do.
Without it `ctsOn` and `xmitRdy`, which start at -1 (true for the modem branch,
not 1 for the transmit branch), can use up the first CTS before the notifier
waits, and output stops for ever.

### CBuffer

The three rings of `utils.c` are the same code; `CBuffer` models the indices
modulo the size and refines `Fifo`, whose push into a full queue drops what was
there. `BoundedQueue` is the view the servers use.

### TrackServer

One message is one step, since only the server writes owners. The loop over the
nodes is `Taken` (how far it gets) and `Granted` (what it leaves behind).
`Released` frees every node of a request, whoever owns it, as the code does after
its warning. The module has no run of its own: by `EngineersUseServer` whatever
holds of it holds of `Reservation`, whose run checks it.

### SensorServer

A sensor says that a train passed, not which. Each engineer claims the sensor his
train should hit next (`primary`) and the one after it in case that one fails or
a turnout was thrown (`secondary`); the server gives a hit to a claimant. Four
kinds of task take part. `sensorWorker` reads all sensors and sends one message
per byte that has a new bit (`Read`, `WorkerSends`). `sensorServer` attributes
bit by bit (`Attribute`) and takes claims. `engineerCourier` brings deliveries
to the engineers; those it cannot take at once wait in `sensorQueue`. Each
engineer has a `sensorCourier` that brings his claims to the server; one claim
may wait for it in `outstandingClaim`. A step is what a task does between two
calls others can see; couriers (priority 14) run before servers (16).

The track is external: for each sensor the queue of trains that passed it last
(`on`), with `NextSensor` and `Secondary` as the turnouts are set. Trains hit the
next sensor, miss it, turn round, and are put down before a sensor. The clock
counts readings with a new hit, and reversals, as these are what the code tells
times apart for. `fresh` is what the worker has still to report of what it read
at `timestamp`, byte by byte. `hits` is a history variable: what each train hit
and its engineer has not heard of.

The code works only if the trains are slower than the messages, so a train moves
under assumptions, each a conjunct of its action:

* `Expected`: a train comes to a sensor after the claims of the trains that hit
  it before have moved on. Its own claims lag by at most one sensor, and only if
  no other train is near or it has just missed one. With two trains close to
  each other and the servers a sensor behind, hits go to the wrong engineer.
* a reading takes less time than a train from a sensor to the next; a train
  that stands on a sensor keeps it set, and it is read again as such.
* a sensor fails (`Miss`) one train at a time, when nothing is under way.
* `Stands`: a train that turns round stands, and the update for its last hit has
  been read by its engineer. `setReverse` stops the train 3 s before it is turned.
  The sensor courier may be anywhere, with a claim put by for it or not, and other
  trains' hits, claims and deliveries may be under way.
* the train does not come to a sensor before its engineer has heard that it was
  turned (`Turning`): the worker waits for the answer, and 150 ms more, before it
  sets the speed.
* `FollowFresh = FALSE`: no train follows one that has not hit any sensor.

A reversal that finds the courier away and nothing put by for it leaves the old
claim where it is (`Leave`); `left` remembers the engineers this has happened to
since their last claim. `ClaimsFollow` excepts them and nobody else, and `Expected`
keeps their trains from the next sensor: in the program that hit is spurious or
another train's. What goes wrong without the last assumption and without `Stands`
is under Findings.

### Engineer

`engineerServer` takes one message at a time: a handler is a step, for what it
calls in between (`Time`, replies, `printf`) lets others send to it but change
nothing it reads. The claims of the sensor courier are in `SensorServer`, the
track nodes in `Reservation`.

The command worker carries `setSpeed` and `reverse` to the train, one after the
other; a reversal takes it 315 ticks and two reports. Commands wait in
`commandQueue` (`Pushed` of `BoundedQueue`: an overflow drops the old ones, which
only the user's orders treat as fatal). `order` is a ghost, the speed that the
last command given leads to; it is what `LastOrderWins` compares the train with.

The velocity estimates are left to chance: in each `updateLocation` the train may
have reached the next landmark, be within stopping distance of its target or have
slowed to zero, and the track server may refuse, in any combination the code's
conditions allow. This is more than a real train does, so the safety properties
do not rest on the arithmetic. The train itself passes sensors while it moves,
and comes to rest some time after it was told to stop. Assumed: a hit is handled
before the next one, a reversal finds the train at rest with its last hit
reported (3 s in the code), and the user turns a train round or sends it somewhere
only when a sensor has told where it is; `uassert(prevNode != 0)` says the same of
the first. A `go` sets the target at once here; what it plans is in
`PathFinding`.

### Reservation

What `Engineer` leaves to chance is computed here: `getReserveNodes` and
`getReleaseNodes` over the owners as they are when the engineer puts its message
together (`Ask`); the track server serves it later (`Serve`), after what others
sent before. Tasks of equal priority do not preempt each other, so reading the
owners is one step, and so is serving a request. `Serve` is `Request` of
`TrackServer`. Walks forward end at an exit and walks back at an exit or an enter
(`Known`), or where no leg of a merge is the engineer's. A refusal orders a stop
(`stop`); the command worker carries it out when it is free, and not before it has
finished a reversal it is at (`worker`). That an order can be lost from a full
command queue is in `Engineer`.

Releases are not restricted in any way: `getPrevOwnedNode` looks at no owner
behind a sensor or a branch, and nothing keeps the walk from coming round to the
track ahead. Both go wrong, and are the two runs that show violations. What
the rest of the code has to be judged by is said with `harmed`, a ghost: the
engineers of whom another has given back a node, or who have given back track on
their own way (`WayOf`). `UnharmedApart` and `UnharmedOnOwnTrack` are collision
avoidance and "Train stay on its own track" (`trackserver.h:6`) for all others,
stops that wait behind a reversal, refusals in the middle of a request and
messages served late included.

Distances are numbers of nodes. Assumed, each as a guard:

* a train stands within `StopDistance` nodes of where its engineer was last told
  that its way is reserved (`range`), and does not run off the track;
* an engineer asks at least once between two nodes its train passes, and after a
  node was taken from it, before any train passes the next (`sure`; the code asks
  every 5 ticks); all have asked once before the user sets a train going;
* a stop order reaches the train before its next node if the worker is idle (a
  message and a byte); with the worker at a reversal the train stands or is
  about to;
* the orders of the user are given to the worker directly or wait in its queue;
  the model lets the worker take them and a stop in either order, more than the
  code does;
* the turnouts are set once, in any of `Settings`.

`MaxReserve` is not reached: any 14 edges in a row on tracks A and B are at least
2205 mm long, the longest stopping distance is 1450 mm, so the assertion in
`getReserveNodes` holds, and `ReservationAssumption` says so.

### PathFinding

`planRoute` takes the cheapest path from a binary heap, appends one node in each
direction, and ends when the destination comes out. One turn of its loop is a
step (`Search`), with the heap operations as functions that call themselves. The search
makes no system call and other engineers have the same priority, so owners change
only before and after it (`Reserve`). `g_nodes` and `heap` are the program's
arrays, of `EXPLORE_SIZE` and `HEAP_SIZE` places. The assertion that the first is
large enough is commented out (`pathfinding.c:95`), so a search may write behind it
(`overrun`); that of `heap.h:44` is not (`full`). `Expand` has which comes first.
`Book` is the rest of `go`: `makeEbook` and `setTargetFromEnstruction`
with the turnouts, in the order of the path. `distanceBetween` then has to find
the target along them, which is how the engineer knows when to stop.

`train_num` is not initialised in the code, and any owner here: the tid of the
engineer that plans, of another, or of none. So what the path avoids is not what
the code means to avoid (Findings). The properties rest on nothing but the track
nobody owned when the search began (`taken`, from the ghost `ownedAt`): if the
destination can be reached over it, a path is found before an array is full, and
none over it is shorter. Whose track the path leads over they do not say. A path
of fewer than two nodes leaves the ebook of the last `go` as it was; if none was
ever written the engineer reads an uninitialised length (`wild`). A search that
runs out of paths meets the assertion in `Pop` (`lost`), and not the `-1` that
`pathfinding.h:57` speaks of.

### Monitor

Each server's handler is cut where it makes a call (`Reply`), because a server
that makes one goes behind the other in their queue, and the notifiers and the
courier preempt both. Keys are numbered, so that order, loss and doubling
can be told. The courier takes a copy of a key only if it is back when the key
comes; `EchoesInOrder` says that the echoes shown are an increasing part of the
keys taken, and that they do not split the strings written by others. For a string
to be found on the screen `MonitorAssumption` has it contain no key, and its first
byte once. UART2 has a holding register each way and no fifo (`uart.c:26-31`). A
key that is typed before the last one is read is lost in the UART; the model does
not count it as typed.

## Runs

| run | instance | shows |
|---|---|---|
| `kernel` | 4 task indices, 3 stacks, 2 priorities, 2 lengths, 1 event | one place, nobody lost, bitmap, rendezvous, priorities, no overtaking, refinement of `Rendezvous` |
| `clock` | 3 clients, 3 ticks, 8 steps between underflows, fairness | ring intact, no tick lost, nobody early, everybody wakes |
| `clock_on_time` | the same | violation: some wake late (`clockserver.c:115`) |
| `train_out` | 2 clients, strings of 0 to 2 bytes, buffer of 4, 5 bytes, fairness | order, one byte at a time, idle state, delivery |
| `cbuffer` | ring of 4, 3 values, unbounded | refinement of `Fifo`; no deadlock |
| `sensor` | loop of 3 places (6 sensors in 2 bytes), 2 trains, 4 units of time, fairness | each hit reaches its train's engineer, once and in order; claims follow the train; no outstanding claim is lost; the earliest claimant is served |
| `engineer` | loop of 2 sensors and a merge, 2 speeds, 1 target, queue of 3 slots, unbounded, fairness | speed, direction, state and position follow the train; the last order wins; orders end; questions are answered; no deadlock |
| `reservation` | loop of 3 nodes with a branch, a merge, an enter and an exit (10 nodes), both settings of its turnouts, 2 trains, stopping distance 1, releases of up to 4 nodes, unbounded | no head-on; no reservation takes a node; truthful answers; trains that have lost no node by a wrong release are on their own track, and no two of them on one stretch; no deadlock |
| `reservation_foreign` | the same with a loop of 4, releases of up to 2 nodes | violation: two trains on one stretch (`trackserver.c:60`) |
| `reservation_loop` | inner loop of track A (15 nodes each way) with its turnouts, 1 train, stopping distance 3, `MAX_RELEASE_SIZE` 16 | violation: a moving train comes onto track that is not its own (`engineer.c:415`) |
| `path` | loop with three ways and an exit (22 nodes), 3 starts, 3 ends, 4 states of ownership, 2 values of `train_num`, arrays of 40 and 7 places, fairness of the search | the path is one, and none over track nobody owns is shorter; turnouts lead there; a search with such a way ends |
| `monitor` | 2 readers, 1 writer of a string of 2, buffers of 3, 3 keys, 2 reads, 1 string, fairness | keys in order; echoes, as far as they come, in order and never inside a string; everybody is served |

Bounds. With four indices and three stacks a creation fails for a bad priority or
for want of a stack, as it does in the program (the table is never full, neither
there nor here); two senders queue at one receiver, a third task replies out of
turn and a sender's partner exits. Three clients are the fewest whose ring has a
middle, which is where insertion can go wrong; all three may expire at one tick.
Four slots give the ring room to wrap with a non-empty, non-full content at every
offset; the train buffer of four overflows. Two trains (`MAX_NUM_ENGINEER`) and
four units of time let both trains be put down in one segment, one run ahead of
its claims, one miss a sensor, and a reversal find the courier at home or away,
with a claim put by or not (without the exception for `left`, `ClaimsFollow` fails
at once); two sensors share a byte, so that one report holds two hits. The command
queue of three slots holds two commands, so that it fills while the worker
reverses the train and overflows with a third. The merge between the two sensors
makes the estimated position differ from the last sensor. On the loop of the
`reservation` run trains follow and meet each other, run towards an exit, come to
a merge whose turnout leads elsewhere when they turn round, and a release of four
nodes comes round to the way ahead and to the other's track, so that the cases
which harm a train happen. The three ways have different lengths, the first branch
taken is not the shortest, and the cheapest is a way of three edges against two.
Forty path nodes and a heap of seven places are enough for every search that has a
way, as `RouteFound` checks, and both are overrun by searches that have none. Two
keys fill a buffer of three slots and the third overflows it; then the order
properties say nothing more. Deadlock is not checked where the system may stop:
the kernel halts or runs out of tasks, the clock stops at `MaxTick`, the writers
at `MaxBytes`, the trains at `MaxTime`, the search in its assertions and behind
its array, the keyboard at `MaxKeys`.

Fairness. The clock run assumes that the timer keeps firing and that the clock
tasks, the most urgent in the system, are scheduled. The output run assumes
that the line and the controller keep working, a pending interrupt is taken,
and the notifier and server, more urgent than all users, are scheduled. Clients
need no fairness: no property promises that they call. The sensor run assumes
that the worker goes on reading and that each kind of task runs when it is ready;
the trains have none. The engineer run assumes that the engineer, its workers and
the courier run when they can, that delays end and that a stopped train comes to
rest; nothing makes a train reach a sensor or the user give an order. In the path
run the search goes on, for nothing blocks it. The monitor run assumes a working
line, interrupts taken, the scheduler's priorities and the two servers' turns
(they are equals in one queue); neither keys nor calls.

## Proofs

These modules prove theorems about state machines, for every value of their
constants. For each machine there is one inductive invariant `IInv` (checked by
TLC before it was proved; `TrackProofs` has one for the server and three more, one
built on the other, for `Reservation`), a lemma or a step per action that the
action keeps it, and theorems that follow from it. `BoundedQueueProofs` holds the
lemmas about the servers' buffers. `PROJECT.json` lists the theorems.

**Kernel** (`KernelProofs`), for any number of tasks,
priorities, stacks and events. `IInv` is the conjunction of `TypeOK`, `OnePlace`,
`BitmapExact` and `NoMissedRendezvous` with `Vacant`: an index not given out yet
has no task, and one without a task is not blocked, so that `Create` puts its task
in one place. None of them is inductive alone: the bitmap must be exact for
`Schedule` to find a task, a task must be in one place for `queueTask` to keep
queues free of duplicates, and the type of the queues must be known throughout.
From it follow

* `HighestPriorityRuns`, inductive relative to `IInv`: a handler that makes a task
  ready leaves the processor to `Schedule`;
* `NoOvertaking`: each handler changes each ready queue in one of four ways
  (`Orderly`), and only `addToFront` of the interrupted task overtakes;
* `ImplementsRendezvous`: every handler is a step of the protocol or none. The
  invariant is `IInv` with `Bound`, that a task waiting for a reply knows from whom;
* `NobodyLost`, if `OneWaiter`: `StaysPlaced` shows that a task keeps its place if
  neither its queue nor its status is touched, and each action is shown to touch
  no other task's. Without `OneWaiter` TLC finds it violated.

**Clock server** (`ClockServerProofs`), for any finite set of clients and any
deadlines. `IInv` is `TypeOK` with `Desk` (at most one request is under way, in
front of a notification, because clients run only when there is nothing to do),
`RingSound` (some sequence without duplicates lists the delayed tasks in the order
of the links, `RingIs`), `Due` (a task is in the ring until the time it asked for)
and `CountedOnce` (no more ticks than underflows, which keeps `tick` in range).
`Inserted`, `ReleaseBegins`, `Released` and `ReleaseEnds` say what the list operations
do to that sequence, in the middle of a release too; that the walk finds it again is
`RingIsRing`. From this follow `RingHoldsDelayed` and `NotEarly`. `NoTickLost`
(`EveryTickCounted`) is proved for `Period >= 5 + Cardinality(Clients)`, from a
count of the steps still to be made before the notifier waits again (`InTime`,
`CallsLeft`). When the timer fires the server may have the tick before it still to
count and every client to release, one `Reply` each (`Busy`, `ServerGetsOn`), or one
request of a client in hand; then come the notifier's `Send`, the server's `Receive`
and `Reply`, and the notifier's `AwaitEvent`. It is not the least number: with three
clients TLC finds 7 enough, one less than the theorem asks, and 6 too few, since
three delays that end together keep the server too long. That so many calls fit in
10 ms is an assumption about the machine, which the code makes and nothing in it
checks: the more tasks may sleep, the less it is met.

**Train output** (`TrainOutProofs`), for any number of clients, any strings and
buffer sizes. `IInv` is `TypeOK` with `Line` (where the byte on its way is, for
each thing the notifier may wait for; it shows that the transmit interrupt comes
before the CTS that answers the byte), `Server` (the inbox holds requests whose
strings are still in place, and at most one notification, none if the server
already owes a byte) and `InOrder`. `InOrder` needs `Server`, since a client that
changes its string while it is copied must be excluded, and `Line`, since a byte
written over another would be lost. `PushedAllEffect` (`BoundedQueueProofs`) is
what the copying loop does to the buffer. From this follow `InOrder`,
`OwesOnlyWhenEmpty` and `OneByteAtATime`.

**Monitor** (`MonitorProofs`), for any number of callers, writers and keys, any
size of the buffers and any string that `MonitorAssumption` allows. `IInv` is
`TypeOK` with: each interrupt is on exactly while its notifier waits, a byte is
only on its way to a UART that is free, and `sendAddr` is set only while the
notifier has reported and nothing is buffered (`Line`); whoever sent to a server
waits, so that a mailbox holds at most one message of each kind, and what a
reader asked for is handled before anybody asks again (`Mail`); keys are numbered
in the order typed, so that a key's number is its place in `taken` (`Numbered`);
the key the courier carries is younger than all it has echoed, and every key
that was echoed was taken (`Echoes`); and the two orders themselves with what is
between two steps of a server counted in (`Order`). `KeysInOrder` needs `Mail`,
since a second notification in the box would be answered twice, and
`EchoesInOrder` needs `Line`, since a byte given to a UART that still has one
would replace it. That a string is whole on the screen is proved from where it
stands in `accepted`: it is pushed in one step, and only whole.

**Ring buffers** (`KernelProofs`), for every size above one: the ring refines
`Fifo` (`ImplementsFifo`). Its invariant is that head and tail are slots. The
remainders are replaced by the two cases they stand for (`Ahead`, `Gap`); the
contents are then compared slot by slot. This is what lets `BoundedQueue` stand
for the rings elsewhere.

**Engineer** (`EngineerProofs`), for every track, set of speeds and size of the
command queue. `IInv` is `TypeOK` with: a report in the inbox is true and its
sender waits (`Reports`, `OneReport`); the last order is the last one in the
queue, or what the worker is at, or what the train does (`DeskSound`); the
engineer's previous sensor, next sensor and node are of one stretch (`Sighted`);
the train is there, but for a hit or a turn under way (`Tracked`); speed and
direction agree up to a report (`Views`); and `StateFits`. `StateFits`,
`ViewsAgree`, `PositionFollows` and `LastOrderWins` follow. The lemmas about the
track show that a stretch seen from its other end is the same stretch
(`Turnabout`), which is what a reversal relies on. `SensorsAssumption` says of the
track that it is finite, that both directions of a sensor are sensors, and that
a walk from a sensor comes to one. A train that runs towards an exit is outside
the model: there `getNextSensor` returns 0, which the engineer asserts it is not
(`engineer.c:519`).

**Route planning** (`EngineerProofs`), for every track, every owner of it and any
costs of edges: `ShortestPath`, and `Answered`, which compares with ways of any
length and not only with those of as many edges as there are nodes. It rests on
two things. The binary heap: `SiftUp` and `SiftDown` end, move the elements
without losing one, and leave every parent as cheap as its children
(`SiftUpEffect`, `SiftDownEffect`). `SiftDown` goes down to the right and then
again to the left, so what is shown of it is about the whole tree below an element
(`Sub`), with the one place where the order may be broken (`MaySink`). And the
search, as the invariant `SearchInv`: the `PathNode`s are a tree of free ways from
the start (`Grown`), and whatever is no longer in the heap is not the destination
and is barred or followed by all its edges (`Explored`). Then every free way has
been gone or begins with an element of the heap (`Covered`), none of which is
cheaper than the one that comes out; with an empty heap there is no way. That the
buffer is that way, from its start on, and costs what the heap says, is
`PathLeads` and `CostOfPath`. All this is about the nodes the search did avoid, those
somebody owned who is not `train_num` (`barred`); `ShortestPath` then speaks of
ways that nobody owned any of, of which there are fewer (`FewerWays`). The arrays may
be of any size.

`TurnoutsLeadThere` is `TurnoutsLead` under three hypotheses about the track, none
of which the code checks. `BranchesPart`: the two edges of a branch lead to
different nodes; else `lookahead`, which compares the next node, would set it
straight for both. `NoFreeLoop`: no loop is of length 0; else the path might go
round it, come to a branch twice, and leave the turnout as the last pass needs
it. `PathsFit`: no path is longer than half as many edges as there are nodes, where
`distanceBetween` gives up. On tracks A and B of `test/track_data.c` the first two
hold (edges of length 0 exist there, but in no loop), and with all track free no
shortest path is longer than 53 of `TRACK_MAX / 2 = 72` edges. The argument: a way
of length 0 or more round a loop can be left out, so a shortest path comes to no
node twice (`NoNodeTwice`), no turnout is set twice, all are as the path needs
them whatever they were (`TurnoutsSet`), and the walk along them ends at the
target after as far as the path costs (`DistanceOfPath`).

**Sensor server** (`SensorProofs`), for every track and any number of trains:
`ClaimsFollow`, that an engineer with nothing under way claims what follows the
last sensor of his train. A claim can be lost in many places: put by for the
courier and replaced, carried while the engineer makes another, in the server's
queue behind an older one, or made before a reversal. `ClaimInv` follows it
along this way: the claim made last (`Latest`) is the one put by, else the one
the courier carries or waits with, else what the server holds, and it always
belongs to `prevSensor` (`Follows`). For this the courier must be in one place
(`Carried`, `Waiting`), the server must have one attribution for each engineer who
has begun (`Known`, `OneAttribution`), and only a train that has been seen turns
round (`Turned`). A reversal may come at any time, `Stands` or not: it changes the
claim put by, or takes the courier that waits, or leaves the claim as it was, and
then `Follows` says nothing until the next. There is no other exception and no
hypothesis. `EarliestFound` says what the
server's search for a claimant returns: one if there is one, and, once all of
them have been hit, the one whose hit is the longest ago.

**Track server** (`TrackProofs`): `TypeOK`, `NoHeadOn`, `AnswerIsTrue` and
`NoneTaken` for any track, any set of engineers and any requests, releases of
other trains' nodes included. `LoopEnds` shows that the loop over
the nodes stops somewhere, so that the `CHOOSE` in `Taken` means something; the
rest is about what `Granted` writes up to that point.

**Reservation** (`TrackProofs`), for any track, number of trains, stopping
distance and size of a release: every behaviour is one of the track server
(`EngineersUseServer`); a train that has not been harmed comes to nodes of its own
only (`OwnTrackAhead`); and no two such trains are on one stretch
(`TrainsKeepApart`). Nothing is assumed of what is released, of the turnouts or of
where the trains start, except that the last has the hypothesis `StartsRight`: the
trains start on different stretches, none about to run into the back of another,
and the turnouts fit the ways, so that a train which turns round goes back where it
came from. What the theorems leave open is exactly the two findings: a node given
back by another engineer, or on the way by its own.

The invariant has three layers. `Shape`: types, and what each message asks for,
which is known from where its train is. `Covered`: a train that is not harmed owns
as many nodes ahead as it may still pass, and the one that ends its way; a message
is put together from owners that may have changed when it is served, so what it
gives back is judged when it is (`UnharmedKeep`). `Apart`: until all have been heard
of the trains stand where they started (`Early`), and afterwards each that is
not harmed owns the node it goes to or the one it would go to if it turned round
(`Guarded`). Two trains on one stretch would own one node both, or the two
directions of one place, which `NoHeadOn` excludes; `LinedUp` keeps the two ends of a
stretch what they are through a turn.

Loops of the code are recursive functions in `ClockServer` (`Node`), `BoundedQueue`
(`PushedAll`), `SensorServer` (`Earliest`), `Engineer` and `Reservation` (`Walk`), and
`PathFinding` (`SiftUp`, `SiftDown`, `PathTo`, `Ways`, `Costs`,
`SetTargetFromEnstruction`, `DistanceBetween`). The provers do not unfold these by
themselves, and the library's induction theorems cannot be used; the modules prove
that the function exists by looking at the least number for which it would not
(`LeastExists`, from the well-foundedness of the naturals), and its steps from that.

Only model-checked:

* liveness under fairness, which is out of the prover's reach (`DelayEnds`,
  `Delivered`, `EveryHitArrives`, `OrdersDone`, `LocationFlows`, `RouteFound`,
  `TerminalServes`);
* `UpdatesAreHits`, `OneOutstandingClaim` and `EarliestIsServed` of `SensorServer`:
  they hold because of when the trains move (`Expected`, `Alone`, `NoOldClaim`),
  so their invariant is about where every hit and every claim in the system is
  at once, and which train is in front of which;
* `UnharmedApart` for turnouts that do not fit the ways, as `StartsRight` asks.

## Findings

Three runs show violations:

* A delay may end late (`clock_on_time`): deadlines 2, 3, 4, inserted in that
  order, are held as 3, 2, 4, so the first is released one tick late.
* Collision avoidance fails where an engineer gives back a node of another train
  (`reservation_foreign`). `getPrevOwnedNode` walks back from a sensor or through
  a branch without looking at the owner, so it reaches the track a following
  train has reserved; the track server warns, and frees it all the same,
  where its comment says "warn and do nothing" (`trackserver.c:50`); then
  the next request of the other train takes it while the first still brakes onto it.
* A train leaves its own track on a short loop (`reservation_loop`). The nodes
  reserved ahead are not given back when the train turns round (`engineer.c:949`).
  The inner loop of track A has 15 nodes and a release up to 16; the walk back ends
  early only at a merge of which neither leg is the engineer's
  (`engineer.c:389-404`), and a train that has turned round still owns legs from
  before. So it comes round to the nodes ahead. If the user has just stopped the
  train, the same request reserves only the next node, and the train brakes past
  it onto track that is nobody's. `trackserver.h:6` says "Train stay on its own
  track".

Other divergences are part of the models, seen while writing or checking them:

* A Send to a valid index without a task blocks for ever and does not return -2
  (`message_passing.c:40`, `syscall.h:91`).
* A refused reservation keeps part of what it asked for (`trackserver.c:82`), so
  requests are not all-or-nothing (`trackserver.h:9`).
* The first hit of a train may go to the engineer of a train that follows it,
  since -1 stands both for "no claimant yet" and for "no hit yet"
  (`sensor.c:443`). The trains of the `sensor` run do not follow such a train.
* A reversal while the sensor courier is away, with nothing put by for it, leaves
  the claims of the old direction at the server, where the comment says "update the
  claimed sensor to the new ones" (`engineer.c:957-973`), and the next hit is
  spurious or another train's. It happens in the `sensor` run; `left` marks it.
* A train that is turned round before its last hit has been attributed
  (`Stands = FALSE`) loses that hit: the claim made at the reversal replaces the one
  it belonged to. TLC finds `UpdatesAreHits` and `EveryHitArrives` violated; the
  3 s of standstill before a reversal are what keeps them.
* A reversal ordered during another one captures speed 0 and leaves the train
  standing (`engineer.c:898`).
* A train that turns round on the leg of a merge whose turnout leads to the other
  leg is taken to be there (`engineer.c:947`), and reserves track it is not on.
* A `go` to where the train is follows the last ebook, or one never written
  (`engineer.c:1061`).
* A path may lead over track of another engineer, and not over the train's own.
  `pathfinding.c:135-138` leaves out nodes "not owned by current train" by comparing
  the owner, a tid, with `pb->train_num`, which by `pathfinding.h:50` is the train's
  number and which nothing sets. `Barred` models the comparison.
* `planRoute` never returns -1: `pathfinding.c:98-105` is not reached, as `Pop`
  asserts first. Where there is no way it ends in that assertion or, as it goes round
  loops for ever, writes behind `g_nodes`. On track A, with no track owned, 3768 of the
  20736 pairs of nodes end in the assertion and 3066 behind the array; on
  track B 2334 and 2062 of 19600. A search that has a way needs up to 2267
  (track A) and 4362 (B) of the 8192 places, and 630 of the heap's 4096. As no more
  than half of the `PathNode`s are ever in the heap, the assertion of `heap.h:44`
  cannot fail before the array is full.
* The region for stacks holds 32 of them and not 128: its bounds (`task.h:23-26`) are
  bytes, and `global_current_stack_address`, an `unsigned int *`, counts words
  (`task.c:117-135`). So the 33rd creation fails with -3 and none ever with -2;
  `docs/k1.lyx:644`, `k4.lyx:837`, `tc1.lyx:886` and `tc2.lyx:878` say that 128 tasks can
  be created.
* Outside the models: after two stops in a row the deceleration divides by
  `stoppingDistance[0]`, which is 0 (`engineer.c:536`); the name server's guard
  lets a 33rd name in (`nameserver.c:46`); `memcpy` copies the last bytes of a
  length that is not a multiple of four to the wrong place (`utils.c:29`).

## Not modelled

Displays, the parser's recogniser and start-up: text and straight-line code.
Register set-up, caches and the context switch: no state of the program. The
track tables: generated. Tick wrap-around after 497 days. The window between
reading and clearing the modem status (`interrupts.c:184-187`). The estimates of
velocity and distance and their learning (`engineer.c:530-568`, `764-781`):
arithmetic on measured tables. `trainInServer` (`monitorInServer` without the
courier). The name server: seven names registered once, at start. Reverse moves
in paths (commented out in the source) and `expandPath` (not called). What builds
with `-DPRODUCTION` do after an assertion that would have failed.

## Plan

1. Proofs: `OneOutstandingClaim`, `UpdatesAreHits` and `EarliestIsServed` of
   `SensorServer`.
2. `trainInServer` with the sensor worker that reads it, and the composition of
   `SensorServer` and `Engineer`, whose interface is one message each way.
3. Turnouts thrown by a second `go` on the way of a first: `PathFinding` with two
   trains over `Reservation`.
