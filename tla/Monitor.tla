------------------------------ MODULE Monitor ------------------------------
(***************************************************************************)
(* The terminal: monitorInServer with its notifier and the echoCourier,    *)
(* monitorOutServer with its notifier (user/io.c), UART2 and the halves of *)
(* handleInterrupt that serve it (kernel/interrupts.c).                    *)
(*                                                                         *)
(* A key typed goes to the notifier, from there to the server, which gives *)
(* it to the task that has waited longest in Getc or keeps it for the next *)
(* one.  The courier, when it is back from the output server in time,      *)
(* takes a copy there to be shown among what the tasks write.              *)
(*                                                                         *)
(* The notifiers and the courier (priority 1) preempt the servers (8),     *)
(* those their callers.  The two servers take turns in any order.  UART2   *)
(* has no fifo: one register each way.  trainInServer is monitorInServer   *)
(* without the courier.                                                    *)
(***************************************************************************)
EXTENDS BoundedQueue, Integers, FiniteSets

CONSTANTS
    Callers,    \* tids of the tasks that call Getc
    Writers,    \* tids of the tasks that call PutStr
    Text,       \* the string they write
    Size,       \* MONITOR_BUFFER_SIZE, 2048 in the program
    MaxKeys,    \* bound: keys typed
    MaxCalls,   \* bound: calls of Getc
    MaxTexts    \* bound: strings written

(* Keys are told apart by their place in the input, 1, 2, ...; what is     *)
(* written is not a key, and the string can be told by how it begins.      *)
Keys == 1 .. MaxKeys

ASSUME MonitorAssumption ==
    /\ Callers \subseteq Nat \ {0} /\ Writers \subseteq Nat \ {0}
    /\ Callers \cap Writers = {}
    /\ Text \in Seq(Int \ (Keys \cup {0})) \ {<<>>}
    /\ \A i \in 2 .. Len(Text) : Text[i] # Text[1]
    /\ Size \in Nat \ {0, 1}
    /\ {MaxKeys, MaxCalls, MaxTexts} \subseteq Nat

None == 0       \* an empty register, no tid

(* Messages to the servers. *)
Notification(c) == [type |-> "notification", tid |-> None, data |-> c]
GetChar(t)      == [type |-> "getchar", tid |-> t, data |-> None]
Echo            == [type |-> "echo", tid |-> None, data |-> None]
PutChar(c)      == [type |-> "putchar", tid |-> None, data |-> c]
PutString(t)    == [type |-> "putstr", tid |-> t, data |-> None]

VARIABLES
    rhr, rien,      \* UART2: the key received, the receive interrupt is enabled
    thr, tien,      \* UART2: the holding register, the transmit interrupt is enabled
    screen,         \* what has been sent to the terminal
    inNotifier,     \* "arm", "await", "woken" or "sent"
    inChar,         \* what AwaitEvent returned to it
    inBox, inPc,    \* monitorInServer: its send queue, where it is
    inReq,          \* the notification it handles
    courierTid,     \* the courier waits for a key
    taskBuffer, charBuffer,
    courier,        \* "ask", "asked", "put" or "sent"
    sendReq,        \* the key it carries
    outNotifier,    \* "arm", "await", "woken" or "sent"
    outBox, outPc,  \* monitorOutServer
    outReq,
    sendAddr,       \* it owes the UART a byte and the notifier a reply
    outBuffer,
    client,         \* what callers and writers do: "running" or "waits"
    typed,          \* ghost: keys typed
    calls,          \* ghost: the callers of Getc, in that order
    taken,          \* ghost: the keys the interrupt handler has taken
    given,          \* ghost: to whom which key was given, as <<tid, key>>
    accepted,       \* ghost: what has been taken over for output
    lost            \* ghost: a buffer has overflowed

uartVars  == <<rhr, rien, thr, tien, screen>>
inVars    == <<inNotifier, inChar, inBox, inPc, inReq, courierTid, taskBuffer, charBuffer>>
courVars  == <<courier, sendReq>>
outVars   == <<outNotifier, outBox, outPc, outReq, sendAddr, outBuffer>>
ghostVars == <<typed, calls, taken, given, accepted, lost>>
vars == <<uartVars, inVars, courVars, outVars, client, ghostVars>>

Init ==
    /\ rhr = None /\ rien = FALSE /\ thr = None /\ tien = FALSE /\ screen = <<>>
    /\ inNotifier = "arm" /\ inChar = None
    /\ inBox = <<>> /\ inPc = "receive" /\ inReq = None
    /\ courierTid = FALSE /\ taskBuffer = <<>> /\ charBuffer = <<>>
    /\ courier = "ask" /\ sendReq = None
    /\ outNotifier = "arm"
    /\ outBox = <<>> /\ outPc = "receive" /\ outReq = None
    /\ sendAddr = FALSE /\ outBuffer = <<>>
    /\ client = [t \in Callers \cup Writers |-> "running"]
    /\ typed = 0 /\ calls = <<>> /\ taken = <<>> /\ given = <<>>
    /\ accepted = <<>> /\ lost = FALSE
-----------------------------------------------------------------------------
(* UART2 and handleInterrupt. *)

RecvPending == rien /\ rhr # None
XmitPending == tien /\ thr = None
NoInterrupt == ~RecvPending /\ ~XmitPending

(* A key comes in when there is room for it; another would be lost in the  *)
(* UART, and nobody could tell.                                            *)
Type ==
    /\ typed < MaxKeys /\ rhr = None
    /\ typed' = typed + 1 /\ rhr' = typed'
    /\ UNCHANGED <<rien, thr, tien, screen, inVars, courVars, outVars, client,
                   calls, taken, given, accepted, lost>>

Transmit ==
    /\ thr # None
    /\ screen' = Append(screen, thr) /\ thr' = None
    /\ UNCHANGED <<rhr, rien, tien, inVars, courVars, outVars, client, ghostVars>>

(* The interrupt stays off until the notifier calls AwaitEvent again. *)
RecvInterrupt ==
    /\ RecvPending
    /\ rhr' = None /\ taken' = Append(taken, rhr)
    /\ IF inNotifier = "await"
         THEN inNotifier' = "woken" /\ inChar' = rhr /\ rien' = FALSE
         ELSE UNCHANGED <<inNotifier, inChar, rien>>
    /\ UNCHANGED <<thr, tien, screen, inBox, inPc, inReq, courierTid, taskBuffer, charBuffer,
                   courVars, outVars, client, typed, calls, given, accepted, lost>>

XmitInterrupt ==
    /\ ~RecvPending /\ XmitPending
    /\ tien' = FALSE
    /\ outNotifier' = IF outNotifier = "await" THEN "woken" ELSE outNotifier
    /\ UNCHANGED <<rhr, rien, thr, screen, inVars, courVars, outBox, outPc, outReq, sendAddr,
                   outBuffer, client, ghostVars>>
-----------------------------------------------------------------------------
(* monitorInNotifier, monitorOutNotifier and echoCourier *)

(* Seeded fault: the interrupt is not turned on again. *)
Enabled_Not(ien) == ien

(* AwaitEvent turns the interrupt on. *)
Enabled(ien) == TRUE

UrgentReady ==
    \/ {inNotifier, outNotifier} \cap {"arm", "woken"} # {}
    \/ courier \in {"ask", "put"}

InNotifier ==
    /\ NoInterrupt
    /\ \/ inNotifier = "arm" /\ inNotifier' = "await" /\ rien' = Enabled(rien) /\ UNCHANGED inBox
       \/ /\ inNotifier = "woken" /\ inNotifier' = "sent"
          /\ inBox' = Append(inBox, Notification(inChar))
          /\ UNCHANGED rien
    /\ UNCHANGED <<rhr, thr, tien, screen, inChar, inPc, inReq, courierTid, taskBuffer,
                   charBuffer, courVars, outVars, client, ghostVars>>

OutNotifier ==
    /\ NoInterrupt
    /\ \/ outNotifier = "arm" /\ outNotifier' = "await" /\ tien' = Enabled(tien) /\ UNCHANGED outBox
       \/ /\ outNotifier = "woken" /\ outNotifier' = "sent"
          /\ outBox' = Append(outBox, Notification(None))
          /\ UNCHANGED tien
    /\ UNCHANGED <<rhr, rien, thr, screen, inVars, courVars, outPc, outReq, sendAddr, outBuffer,
                   client, ghostVars>>

Courier ==
    /\ NoInterrupt
    /\ \/ /\ courier = "ask" /\ courier' = "asked"
          /\ inBox' = Append(inBox, Echo) /\ UNCHANGED outBox
       \/ /\ courier = "put" /\ courier' = "sent"
          /\ outBox' = Append(outBox, PutChar(sendReq)) /\ UNCHANGED inBox
    /\ UNCHANGED <<uartVars, inNotifier, inChar, inPc, inReq, courierTid, taskBuffer, charBuffer,
                   sendReq, outNotifier, outPc, outReq, sendAddr, outBuffer, client, ghostVars>>
-----------------------------------------------------------------------------
(* monitorInServer *)

ServersRun == NoInterrupt /\ ~UrgentReady

InReceives(type) ==
    /\ ServersRun
    /\ inPc = "receive" /\ inBox # <<>> /\ Head(inBox).type = type
    /\ inBox' = Tail(inBox)

(* The notifier goes on, and may be back before the key has been handled. *)
NotificationReply ==
    /\ InReceives("notification")
    /\ inReq' = Head(inBox).data
    /\ inNotifier' = "arm"
    /\ inPc' = "echo"
    /\ UNCHANGED <<uartVars, inChar, courierTid, taskBuffer, charBuffer, courVars, outVars,
                   client, ghostVars>>

EchoReply ==
    /\ ServersRun /\ inPc = "echo"
    /\ inPc' = "give"
    /\ IF courierTid
         THEN courier' = "put" /\ sendReq' = inReq /\ courierTid' = FALSE
         ELSE UNCHANGED <<courVars, courierTid>>
    /\ UNCHANGED <<uartVars, inNotifier, inChar, inBox, inReq, taskBuffer, charBuffer, outVars,
                   client, ghostVars>>

(* A key for the task that has waited longest, or for the buffer. *)
Give ==
    /\ ServersRun /\ inPc = "give"
    /\ inPc' = "receive" /\ inReq' = None
    /\ IF taskBuffer = <<>>
         THEN /\ charBuffer' = Pushed(charBuffer, Size, inReq)
              /\ lost' = (lost \/ Len(charBuffer) + 1 >= Size)
              /\ UNCHANGED <<taskBuffer, client, given>>
         ELSE /\ taskBuffer' = Tail(taskBuffer)
              /\ client' = [client EXCEPT ![Head(taskBuffer)] = "running"]
              /\ given' = Append(given, <<Head(taskBuffer), inReq>>)
              /\ UNCHANGED <<charBuffer, lost>>
    /\ UNCHANGED <<uartVars, inNotifier, inChar, inBox, courierTid, courVars, outVars, typed,
                   calls, taken, accepted>>

(* Seeded fault: the last caller is served first. *)
Queued_First(t) == <<t>> \o taskBuffer

Queued(t) == Append(taskBuffer, t)

GetCharServed ==
    /\ InReceives("getchar")
    /\ LET t == Head(inBox).tid IN
         IF charBuffer = <<>>
           THEN taskBuffer' = Queued(t) /\ UNCHANGED <<charBuffer, client, given>>
           ELSE /\ charBuffer' = Tail(charBuffer)
                /\ client' = [client EXCEPT ![t] = "running"]
                /\ given' = Append(given, <<t, Head(charBuffer)>>)
                /\ UNCHANGED taskBuffer
    /\ UNCHANGED <<uartVars, inNotifier, inChar, inPc, inReq, courierTid, courVars, outVars,
                   typed, calls, taken, accepted, lost>>

EchoAsked ==
    /\ InReceives("echo")
    /\ courierTid' = TRUE
    /\ UNCHANGED <<uartVars, inNotifier, inChar, inPc, inReq, taskBuffer, charBuffer, courVars,
                   outVars, client, ghostVars>>
-----------------------------------------------------------------------------
(* monitorOutServer *)

OutReceives(type) ==
    /\ ServersRun
    /\ outPc = "receive" /\ outBox # <<>> /\ Head(outBox).type = type
    /\ outBox' = Tail(outBox)

(* The byte to the UART; the notifier is answered and will ask for more. *)
Write(ch) ==
    /\ thr' = ch
    /\ outNotifier' = "arm"
    /\ UNCHANGED <<rhr, rien, tien, screen>>

OutNotified ==
    /\ OutReceives("notification")
    /\ IF outBuffer = <<>>
         THEN sendAddr' = TRUE /\ UNCHANGED <<outBuffer, uartVars, outNotifier>>
         ELSE Write(Head(outBuffer)) /\ outBuffer' = Tail(outBuffer) /\ UNCHANGED sendAddr
    /\ UNCHANGED <<inVars, courVars, outPc, outReq, client, ghostVars>>

Accepts(bytes) ==
    /\ accepted' = accepted \o bytes
    /\ lost' = (lost \/ Len(outBuffer) + Len(bytes) >= Size)
    /\ UNCHANGED <<typed, calls, taken, given>>

(* Seeded fault: the server still thinks that the UART waits. *)
SendAddrReset_Forgotten == TRUE

SendAddrReset == FALSE

(* PUTCHAR: the caller is answered when all is done. *)
PutCharServed ==
    /\ OutReceives("putchar")
    /\ LET ch == Head(outBox).data
       IN  /\ IF sendAddr
                THEN Write(ch) /\ sendAddr' = SendAddrReset /\ UNCHANGED outBuffer
                ELSE /\ outBuffer' = Pushed(outBuffer, Size, ch)
                     /\ UNCHANGED <<sendAddr, uartVars, outNotifier>>
           /\ Accepts(<<ch>>)
    /\ courier' = "ask"
    /\ UNCHANGED <<inVars, sendReq, outPc, outReq, client>>

(* PUTSTR: the caller is answered first; it cannot run before the server   *)
(* has read its string.                                                    *)
PutStrReply ==
    /\ OutReceives("putstr")
    /\ outReq' = Head(outBox).tid
    /\ client' = [client EXCEPT ![outReq'] = "running"]
    /\ outPc' = "push"
    /\ UNCHANGED <<uartVars, inVars, courVars, outNotifier, sendAddr, outBuffer, ghostVars>>

PutStr ==
    /\ ServersRun /\ outPc = "push"
    /\ outPc' = "receive" /\ outReq' = None
    /\ LET b == PushedAll(outBuffer, Size, Text)
       IN  IF b # <<>> /\ sendAddr
             THEN Write(Head(b)) /\ outBuffer' = Tail(b) /\ sendAddr' = SendAddrReset
             ELSE outBuffer' = b /\ UNCHANGED <<sendAddr, uartVars, outNotifier>>
    /\ Accepts(Text)
    /\ UNCHANGED <<inVars, courVars, outBox, client>>
-----------------------------------------------------------------------------
(* The tasks that read and write run when nobody more urgent does. *)
ClientsRun ==
    /\ ServersRun
    /\ inPc = "receive" /\ inBox = <<>> /\ outPc = "receive" /\ outBox = <<>>

Getc(t) ==
    /\ ClientsRun /\ Len(calls) < MaxCalls
    /\ t \in Callers /\ client[t] = "running"
    /\ client' = [client EXCEPT ![t] = "waits"]
    /\ calls' = Append(calls, t)
    /\ inBox' = Append(inBox, GetChar(t))
    /\ UNCHANGED <<uartVars, inNotifier, inChar, inPc, inReq, courierTid, taskBuffer, charBuffer,
                   courVars, outVars, typed, taken, given, accepted, lost>>

Puts(t) ==
    /\ ClientsRun
    /\ Cardinality({i \in DOMAIN accepted : accepted[i] = Head(Text)}) < MaxTexts
    /\ t \in Writers /\ client[t] = "running"
    /\ client' = [client EXCEPT ![t] = "waits"]
    /\ outBox' = Append(outBox, PutString(t))
    /\ UNCHANGED <<uartVars, inVars, courVars, outNotifier, outPc, outReq, sendAddr, outBuffer,
                   ghostVars>>
-----------------------------------------------------------------------------
Interrupt == RecvInterrupt \/ XmitInterrupt

Urgent == InNotifier \/ OutNotifier \/ Courier

InServer  == NotificationReply \/ EchoReply \/ Give \/ GetCharServed \/ EchoAsked
OutServer == OutNotified \/ PutCharServed \/ PutStrReply \/ PutStr

Next ==
    \/ Type \/ Transmit \/ Interrupt \/ Urgent
    \/ InServer \/ OutServer
    \/ \E t \in Callers : Getc(t)
    \/ \E t \in Writers : Puts(t)

Spec == Init /\ [][Next]_vars

(* The line works, interrupts are taken, the scheduler runs the most       *)
(* urgent task, and the two servers in turn.                               *)
Fairness ==
    /\ WF_vars(Transmit) /\ WF_vars(Interrupt) /\ WF_vars(Urgent)
    /\ WF_vars(InServer) /\ WF_vars(OutServer)

FairSpec == Spec /\ Fairness
-----------------------------------------------------------------------------
(***************************************************************************)
(* Properties.                                                             *)
(***************************************************************************)
Bytes == Keys \cup {Text[i] : i \in DOMAIN Text}

Messages(types, tids) ==
    [type : types, tid : tids \cup {None}, data : Keys \cup {None}]

(* Every variable holds what its declaration can hold; a buffer keeps one  *)
(* slot free.                                                              *)
TypeOK ==
    /\ rhr \in Keys \cup {None} /\ thr \in Bytes \cup {None} /\ screen \in Seq(Bytes)
    /\ {rien, tien, courierTid, sendAddr, lost} \subseteq BOOLEAN
    /\ {inNotifier, outNotifier} \subseteq {"arm", "await", "woken", "sent"}
    /\ inBox \in Seq(Messages({"notification", "getchar", "echo"}, Callers))
    /\ inPc \in {"receive", "echo", "give"}
    /\ {inReq, inChar, sendReq} \subseteq Keys \cup {None}
    /\ taskBuffer \in Seq(Callers) /\ charBuffer \in Seq(Keys)
    /\ courier \in {"ask", "asked", "put", "sent"}
    /\ outBox \in Seq(Messages({"notification", "putchar", "putstr"}, Writers))
    /\ outPc \in {"receive", "push"} /\ outReq \in Writers \cup {None}
    /\ outBuffer \in Seq(Bytes)
    /\ client \in [Callers \cup Writers -> {"running", "waits"}]
    /\ typed \in 0 .. MaxKeys /\ taken \in Seq(Keys)
    /\ calls \in Seq(Callers) /\ given \in Seq(Callers \X Keys)
    /\ accepted \in Seq(Bytes)
    /\ Len(charBuffer) < Size /\ Len(outBuffer) < Size

Keyboard == [i \in DOMAIN given |-> given[i][2]]
Served   == [i \in DOMAIN given |-> given[i][1]]

(* A register or a variable as a sequence, of what it holds.               *)
Held(r) == IF r = None THEN <<>> ELSE <<r>>

(* The keys on their way to the server. *)
OnTheirWay ==
    Held(inReq)
    \o (IF \/ inNotifier = "woken"
           \/ inNotifier = "sent" /\ \E i \in DOMAIN inBox : inBox[i].type = "notification"
          THEN <<inChar>> ELSE <<>>)

(* Every key the interrupt handler takes is given to one caller of Getc,   *)
(* once and in the order typed, to the callers in the order they called;   *)
(* none waits for a key while there is one in the buffer.  So it is unless *)
(* the buffer has overflowed, although the notifier is let go before its   *)
(* key has been handled (io.c:144-198, interrupts.c:270-287).              *)
KeysInOrder ==
    lost \/ /\ Keyboard \o charBuffer \o OnTheirWay = taken
            /\ Served = SubSeq(calls, 1, Len(given))
            /\ taskBuffer # <<>> => charBuffer = <<>>

Shown == screen \o Held(thr) \o outBuffer

(* What is shown is what was taken over for output, in that order; the     *)
(* echoes in it are keys in the order they were taken, none of them twice; *)
(* and no echo comes in between the bytes of a string (io.c:102-117,       *)
(* 235-320).                                                               *)
EchoesInOrder ==
    lost \/ /\ Shown = accepted
            /\ \A i, j \in DOMAIN Shown :
                  {Shown[i], Shown[j]} \subseteq Keys /\ i < j => Shown[i] < Shown[j]
            /\ \A i \in DOMAIN Shown :
                  Shown[i] \in Keys => \E k \in DOMAIN taken : taken[k] = Shown[i]
            /\ \A i \in DOMAIN Shown :
                  Shown[i] = Head(Text) => SubSeq(Shown, i, i + Len(Text) - 1) = Text

(* A caller gets its key when enough have come in; what has been taken     *)
(* over for output gets to the terminal; and the courier comes back for    *)
(* the next key: the two servers, the notifiers and the courier, which     *)
(* sends to both, never wait for each other.                               *)
TerminalServes ==
    /\ \A n \in 1 .. MaxCalls :
          (Len(calls) >= n /\ Len(taken) >= n) ~> (lost \/ Len(given) >= n)
    /\ \A n \in 1 .. MaxKeys + Len(Text) * MaxTexts :
          Len(accepted) >= n ~> (lost \/ Len(screen) >= n)
    /\ []<>courierTid
=============================================================================
