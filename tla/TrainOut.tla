------------------------------ MODULE TrainOut ------------------------------
(***************************************************************************)
(* The way of a byte to the trains: Putc, PutStr and PutRawString on COM1, *)
(* trainOutServer and trainOutNotifier (user/io.c), the transmit and modem *)
(* halves of handleInterrupt (kernel/interrupts.c), UART1 and the train    *)
(* controller at the other end of the line.                                *)
(*                                                                         *)
(* The controller takes one byte at a time: it drops CTS when a byte has   *)
(* come in and raises it when it can take the next.  The UART asks for a   *)
(* byte as soon as its holding register is empty, long before that, so the *)
(* interrupt handler waits for both events, in either order, before it     *)
(* wakes the notifier.                                                     *)
(*                                                                         *)
(* Interrupts are taken before the next instruction of a task.  The        *)
(* notifier (priority 1) preempts the server (8), the server its clients.  *)
(* PutStr passes a pointer: the string stays in the caller's memory.       *)
(***************************************************************************)
EXTENDS BoundedQueue, Integers

CONSTANTS
    Clients,    \* tids of the tasks that write
    Strings,    \* what they write
    Size,       \* TRAIN_BUFFER_SIZE, 512 in the program
    MaxBytes    \* bound: the clients stop when so much has been accepted

ASSUME TrainOutAssumption ==
    /\ Clients \subseteq Nat \ {0}
    /\ Strings \subseteq Seq(Nat \ {0})
    /\ Size \in Nat \ {0, 1}
    /\ MaxBytes \in Nat

None == 0       \* an empty register
Go   == 96      \* 0x60, the byte the notifier starts the controller with

(* A request; bytes is what the caller asked to write. *)
NoRequest    == [tid |-> None, type |-> "none", bytes |-> <<>>]
Notification == [tid |-> None, type |-> "notification", bytes |-> <<>>]
Requests     == {NoRequest, Notification} \cup
                [tid : Clients, type : {"putchar", "putstr"}, bytes : Strings]

VARIABLES
    thr, shift,     \* UART1: the holding and the shift register
    tien,           \* UART1: the transmit interrupt is enabled
    cts, dcts,      \* the line CTS, and that it changed since last read
    wire,           \* what the controller has received
    ctsOn, xmitRdy, \* static in handleInterrupt
    notifier,       \* what the notifier is about to do or waits for
    inbox,          \* the server's send queue
    pc,             \* where the server is
    req,            \* the request it handles; the buffer is dead in between
    sendAddr,       \* it owes the UART a byte and the notifier a reply
    charBuffer,
    client,         \* what a client does
    mem,            \* the string in a client's memory
    accepted,       \* ghost: the bytes of the calls served, in that order
    lost            \* ghost: charBuffer has overflowed

uartVars   == <<thr, shift, tien, cts, dcts, wire>>
kernelVars == <<ctsOn, xmitRdy>>
serverVars == <<inbox, pc, req, sendAddr, charBuffer>>
clientVars == <<client, mem>>
ghostVars  == <<accepted, lost>>
vars == <<uartVars, kernelVars, notifier, serverVars, clientVars, ghostVars>>

Init ==
    /\ thr = None /\ shift = None /\ tien = FALSE
    /\ cts = TRUE /\ dcts \in BOOLEAN       \* a change may be left from before
    /\ wire = <<>>
    /\ ctsOn = -1 /\ xmitRdy = -1
    /\ notifier = "start"
    /\ inbox = <<>> /\ pc = "receive" /\ req = NoRequest
    /\ sendAddr = FALSE /\ charBuffer = <<>>
    /\ client = [c \in Clients |-> "running"]
    /\ mem = [c \in Clients |-> <<>>]
    /\ accepted = <<>> /\ lost = FALSE
-----------------------------------------------------------------------------
(* UART1 and the controller. *)

ModemPending  == dcts
XmitPending   == tien /\ thr = None
NoInterrupt   == ~ModemPending /\ ~XmitPending
NotifierReady == notifier \in {"start", "arm", "woken"}

Transmit ==
    /\ thr # None /\ shift = None
    /\ shift' = thr /\ thr' = None
    /\ UNCHANGED <<tien, cts, dcts, wire, kernelVars, notifier, serverVars, clientVars, ghostVars>>

Arrive ==
    /\ shift # None
    /\ NoInterrupt /\ ~NotifierReady
    /\ wire' = Append(wire, shift)
    /\ shift' = None
    /\ cts' = FALSE /\ dcts' = TRUE
    /\ UNCHANGED <<thr, tien, kernelVars, notifier, serverVars, clientVars, ghostVars>>

ClearToSend ==
    /\ ~cts
    /\ cts' = TRUE /\ dcts' = TRUE
    /\ UNCHANGED <<thr, shift, tien, wire, kernelVars, notifier, serverVars, clientVars, ghostVars>>
-----------------------------------------------------------------------------
(* handleInterrupt, UART1 *)

(* In C any value but 0 is true, the -1 both start with included. *)
True(x) == x # 0

Wake == notifier' = IF notifier = "await" THEN "woken" ELSE notifier

ModemInterrupt ==
    /\ ModemPending
    /\ dcts' = FALSE
    /\ IF cts /\ True(xmitRdy)
         THEN ctsOn' = 0 /\ xmitRdy' = 0 /\ Wake
         ELSE ctsOn' = (IF cts THEN 1 ELSE 0) /\ UNCHANGED <<xmitRdy, notifier>>
    /\ UNCHANGED <<thr, shift, tien, cts, wire, serverVars, clientVars, ghostVars>>

(* Seeded faults: the transmitter alone decides; its readiness is dropped. *)
CtsSeen_Always  == TRUE
NotYet_Forgets  == UNCHANGED xmitRdy

CtsSeen == ctsOn = 1
NotYet  == xmitRdy' = 1

XmitInterrupt ==
    /\ ~ModemPending /\ XmitPending
    /\ tien' = FALSE
    /\ IF CtsSeen
         THEN ctsOn' = 0 /\ xmitRdy' = 0 /\ Wake
         ELSE NotYet /\ UNCHANGED <<ctsOn, notifier>>
    /\ UNCHANGED <<thr, shift, cts, dcts, wire, serverVars, clientVars, ghostVars>>

-----------------------------------------------------------------------------
(* trainOutNotifier *)

NotifierStarts ==
    /\ NoInterrupt /\ notifier = "start"
    /\ thr' = Go
    /\ notifier' = "arm"
    /\ UNCHANGED <<shift, tien, cts, dcts, wire, kernelVars, serverVars, clientVars, ghostVars>>

(* AwaitEvent turns the transmit interrupt on. *)
NotifierAwaits ==
    /\ NoInterrupt /\ notifier = "arm"
    /\ tien' = TRUE
    /\ notifier' = "await"
    /\ UNCHANGED <<thr, shift, cts, dcts, wire, kernelVars, serverVars, clientVars, ghostVars>>

NotifierSends ==
    /\ NoInterrupt /\ notifier = "woken"
    /\ inbox' = Append(inbox, Notification)
    /\ notifier' = "sent"
    /\ UNCHANGED <<uartVars, kernelVars, pc, req, sendAddr, charBuffer, clientVars, ghostVars>>
-----------------------------------------------------------------------------
(* trainOutServer *)

ServerRuns == NoInterrupt /\ ~NotifierReady

(* The byte to the UART; the notifier is answered and will ask for more. *)
Write(ch) ==
    /\ thr' = ch
    /\ notifier' = "arm"
    /\ UNCHANGED <<shift, tien, cts, dcts, wire>>

HandleNotification ==
    /\ ServerRuns
    /\ pc = "receive" /\ inbox # <<>> /\ Head(inbox) = Notification
    /\ inbox' = Tail(inbox)
    /\ IF charBuffer = <<>>
         THEN sendAddr' = TRUE /\ UNCHANGED <<charBuffer, uartVars, notifier>>
         ELSE /\ Write(Head(charBuffer))
              /\ charBuffer' = Tail(charBuffer)
              /\ UNCHANGED sendAddr
    /\ UNCHANGED <<kernelVars, pc, req, clientVars, ghostVars>>

(* The caller is unblocked before its request is carried out. *)
ReplyToClient ==
    /\ ServerRuns
    /\ pc = "receive" /\ inbox # <<>> /\ Head(inbox) # Notification
    /\ req' = Head(inbox) /\ inbox' = Tail(inbox)
    /\ pc' = "handle"
    /\ client' = [client EXCEPT ![req'.tid] = "running"]
    /\ UNCHANGED <<uartVars, kernelVars, notifier, sendAddr, charBuffer, mem, ghostVars>>

(* Seeded fault: the server still thinks that the UART waits. *)
SendAddrReset_Forgotten == TRUE

SendAddrReset == FALSE

Done ==
    /\ pc' = "receive" /\ req' = NoRequest
    /\ accepted' = accepted \o req.bytes
    /\ lost' = (lost \/ Len(charBuffer) + Len(req.bytes) >= Size)
    /\ UNCHANGED <<kernelVars, inbox, clientVars>>

(* PUTCHAR: the byte came with the request. *)
PutChar ==
    /\ ServerRuns
    /\ pc = "handle" /\ req.type = "putchar"
    /\ LET ch == Head(req.bytes) IN
         IF sendAddr
           THEN Write(ch) /\ sendAddr' = SendAddrReset /\ UNCHANGED charBuffer
           ELSE /\ charBuffer' = Pushed(charBuffer, Size, ch)
                /\ UNCHANGED <<sendAddr, uartVars, notifier>>
    /\ Done

(* PUTSTR and PUTRAWSTR: the bytes are read from the caller's memory. *)
PutStr ==
    /\ ServerRuns
    /\ pc = "handle" /\ req.type = "putstr"
    /\ LET b == PushedAll(charBuffer, Size, mem[req.tid]) IN
         IF b # <<>> /\ sendAddr
           THEN Write(Head(b)) /\ charBuffer' = Tail(b) /\ sendAddr' = SendAddrReset
           ELSE charBuffer' = b /\ UNCHANGED <<sendAddr, uartVars, notifier>>
    /\ Done
-----------------------------------------------------------------------------
(* Seeded fault: the clients are as urgent as the server. *)
ClientsRun_Equal == ServerRuns

ClientsRun == ServerRuns /\ pc = "receive" /\ inbox = <<>>

Put(c, s, call) ==
    /\ ClientsRun
    /\ client[c] = "running"
    /\ Len(accepted) + Len(s) <= MaxBytes
    /\ mem' = [mem EXCEPT ![c] = s]
    /\ client' = [client EXCEPT ![c] = "waits"]
    /\ inbox' = Append(inbox, [tid |-> c, type |-> call, bytes |-> s])
    /\ UNCHANGED <<uartVars, kernelVars, notifier, pc, req, sendAddr, charBuffer, ghostVars>>

Putc(c, s) == Len(s) = 1 /\ Put(c, s, "putchar")

(* A task that runs again may write over the string it passed. *)
Reuse(c) ==
    /\ ClientsRun
    /\ client[c] = "running" /\ mem[c] # <<>>
    /\ mem' = [mem EXCEPT ![c] = <<>>]
    /\ UNCHANGED <<uartVars, kernelVars, notifier, serverVars, client, ghostVars>>
-----------------------------------------------------------------------------
Hardware == Transmit \/ Arrive \/ ClearToSend

Interrupt == ModemInterrupt \/ XmitInterrupt

Tasks ==
    \/ NotifierStarts \/ NotifierAwaits \/ NotifierSends
    \/ HandleNotification \/ ReplyToClient \/ PutChar \/ PutStr

Next ==
    \/ Hardware \/ Interrupt \/ Tasks
    \/ \E c \in Clients :
          Reuse(c) \/ \E s \in Strings : Putc(c, s) \/ Put(c, s, "putstr")

Spec == Init /\ [][Next]_vars

(* The line and the controller keep working, a pending interrupt is taken  *)
(* and the scheduler runs the most urgent task.                            *)
Fairness ==
    /\ WF_vars(Transmit) /\ WF_vars(Arrive) /\ WF_vars(ClearToSend)
    /\ WF_vars(Interrupt) /\ WF_vars(Tasks)

FairSpec == Spec /\ Fairness
-----------------------------------------------------------------------------
(***************************************************************************)
(* Properties.                                                             *)
(***************************************************************************)
Bytes == {Go} \cup UNION {{s[i] : i \in DOMAIN s} : s \in Strings}

(* Every variable holds what its declaration can hold; the buffer keeps    *)
(* one slot free.                                                          *)
TypeOK ==
    /\ thr \in Bytes \cup {None} /\ shift \in Bytes \cup {None}
    /\ tien \in BOOLEAN /\ cts \in BOOLEAN /\ dcts \in BOOLEAN
    /\ wire \in Seq(Bytes)
    /\ ctsOn \in {-1, 0, 1} /\ xmitRdy \in {-1, 0, 1}
    /\ notifier \in {"start", "arm", "await", "woken", "sent"}
    /\ inbox \in Seq(Requests)
    /\ pc \in {"receive", "handle"} /\ req \in Requests
    /\ sendAddr \in BOOLEAN
    /\ charBuffer \in Seq(Bytes) /\ Len(charBuffer) < Size
    /\ client \in [Clients -> {"running", "waits"}]
    /\ mem \in [Clients -> Seq(Bytes)]
    /\ accepted \in Seq(Bytes) /\ lost \in BOOLEAN

(* A byte is written only when both registers of the UART are free and the *)
(* controller has raised CTS for it: it never overruns the UART or the     *)
(* controller, whichever of the two interrupts comes first                 *)
(* (interrupts.c:151-249).                                                 *)
OneByteAtATime ==
    [][(notifier # "arm" /\ notifier' = "arm") =>
          thr = None /\ shift = None /\ cts]_vars

Register(r) == IF r = None THEN <<>> ELSE <<r>>

(* What the controller gets is what the callers wrote, in the order the    *)
(* server received their calls, no byte twice and none missing, unless the *)
(* buffer has overflowed: although a caller goes on, and may write over    *)
(* its string, before the server has copied it (io.c:436-530).             *)
InOrder ==
    lost \/ LET line == wire \o Register(shift) \o Register(thr) IN
            <<Go>> \o accepted = (IF notifier = "start" THEN <<Go>> ELSE line) \o charBuffer

(* The server owes the UART a byte only while it has none: otherwise a     *)
(* later call would be sent ahead of it (io.c:425-478).                    *)
OwesOnlyWhenEmpty ==
    sendAddr => charBuffer = <<>> /\ notifier = "sent" /\ thr = None

(* Every byte reaches the controller: the two interrupts, the notifier's   *)
(* AwaitEvent and the server's idle state never wait for each other.       *)
Delivered ==
    \A n \in 1 .. MaxBytes : Len(accepted) >= n ~> lost \/ Len(wire) > n
=============================================================================
