---------------------------- MODULE TrainOutProofs ----------------------------
(***************************************************************************)
(* Every byte written reaches the trains once and in order, one at a time, *)
(* for every number of clients, every buffer size and every strings.       *)
(*                                                                         *)
(* First the handshake between the UART, the controller and the notifier,  *)
(* then the server and its inbox, then the bytes.                          *)
(***************************************************************************)
EXTENDS TrainOut, BoundedQueueProofs

-----------------------------------------------------------------------------
(***************************************************************************)
(* The inductive invariant.                                                *)
(***************************************************************************)

(* A byte on its way to the controller is in one of the two registers. *)
OneByte == (thr = None) # (shift = None)

IsRequest(m) ==
    /\ m.tid \in Clients /\ m.type \in {"putchar", "putstr"} /\ m.bytes \in Strings
    /\ m.type = "putchar" => Len(m.bytes) = 1
    /\ m.type = "putstr" => mem[m.tid] = m.bytes

(* Where the byte is, by what the notifier waits for.  Between its byte    *)
(* and the CTS that answers it the transmit interrupt comes first, so the  *)
(* handler never finds that CTS has been there already.                    *)
Line ==
    /\ ctsOn # 1
    /\ notifier = "start" =>
          /\ ~tien /\ thr = None /\ shift = None /\ cts /\ wire = <<>>
          /\ dcts => xmitRdy = -1
    /\ notifier = "arm" => ~tien /\ OneByte /\ cts /\ ~dcts
    /\ notifier = "await" =>
          \/ tien /\ OneByte /\ cts /\ ~dcts
          \/ /\ ~tien /\ xmitRdy = 1 /\ thr = None
             /\ shift # None => cts /\ ~dcts
             /\ shift = None => ~cts \/ dcts
    /\ notifier \in {"woken", "sent"} => ~tien /\ thr = None /\ shift = None /\ cts /\ ~dcts

(* The server owes a byte, or a notification is under way, or neither; and *)
(* a string is still where its caller put it.                              *)
Inbox ==
    \A i \in DOMAIN inbox :
       IsRequest(inbox[i]) \/ (inbox[i] = Notification /\ notifier = "sent" /\ ~sendAddr)

OneNotification ==
    \A i, j \in DOMAIN inbox : inbox[i] = Notification /\ inbox[j] = Notification => i = j

Server ==
    /\ Inbox /\ OneNotification
    /\ pc = "handle" => IsRequest(req)
    /\ sendAddr => charBuffer = <<>> /\ notifier = "sent"

IInv == TypeOK /\ Line /\ Server /\ InOrder
-----------------------------------------------------------------------------
LEMMA StringsAreBytes ==
    /\ Go \in Bytes /\ None \notin Bytes /\ \A s \in Strings : s \in Seq(Bytes)
  <1>1. Go \in Bytes
    BY DEF Bytes
  <1>2. None \notin Bytes
    <2>1. ASSUME NEW s \in Strings, NEW i \in DOMAIN s
          PROVE  s[i] # 0
      <3>1. s \in Seq(Nat \ {0})
        BY TrainOutAssumption
      <3>2. i \in 1 .. Len(s)
        BY <3>1
      <3>3. s[i] \in Nat \ {0}
        BY <3>1, <3>2, ElementOfSeq
      <3> QED BY <3>3
    <2> QED BY <2>1 DEF Bytes, None, Go
  <1>3. ASSUME NEW s \in Strings
        PROVE  s \in Seq(Bytes)
    <2>1. s \in Seq(Nat \ {0})
      BY TrainOutAssumption
    <2>2. Len(s) \in Nat /\ DOMAIN s = 1 .. Len(s) /\ s = [i \in 1 .. Len(s) |-> s[i]]
      BY <2>1, LenProperties
    <2>3. \A i \in 1 .. Len(s) : s[i] \in Bytes
      BY <2>2 DEF Bytes
    <2>4. PICK n \in Nat : n = Len(s)
      BY <2>2
    <2>5. s \in [1 .. n -> Bytes]
      BY <2>2, <2>3, <2>4
    <2> QED BY <2>5, SeqDef
  <1> QED BY <1>1, <1>2, <1>3

LEMMA SizeFacts == Size \in Nat /\ Size > 1 /\ 0 < Size
  BY TrainOutAssumption

LEMMA InitIInv == Init => IInv
  <1> SUFFICES ASSUME Init PROVE IInv
    OBVIOUS
  <1>1. TypeOK
    <2>1. <<>> \in Seq(Bytes) /\ <<>> \in Seq(Requests) /\ Len(<<>>) = 0
      BY EmptySeq
    <2>2. req \in Requests
      BY DEF Init, Requests
    <2>3. mem \in [Clients -> Seq(Bytes)] /\ client \in [Clients -> {"running", "waits"}]
      BY <2>1 DEF Init
    <2>4. Len(charBuffer) < Size
      BY <2>1, SizeFacts DEF Init
    <2> QED BY <2>1, <2>2, <2>3, <2>4 DEF Init, TypeOK
  <1>2. Line
    BY DEF Init, Line, None
  <1>3. Server
    BY DEF Init, Server, Inbox, OneNotification
  <1>4. InOrder
    <2>1. <<Go>> \o accepted = <<Go>> \o charBuffer /\ notifier = "start"
      BY DEF Init
    <2> QED BY <2>1 DEF InOrder
  <1> QED BY <1>1, <1>2, <1>3, <1>4 DEF IInv
-----------------------------------------------------------------------------
(* The line: UART1, the controller and the notifier. *)

(* What a step that leaves the line alone leaves alone. *)
lineVars == <<uartVars, kernelVars, notifier>>

LEMMA LineKept ==
    ASSUME Line, UNCHANGED lineVars
    PROVE  Line'
  BY DEF Line, OneByte, lineVars, uartVars, kernelVars

LEMMA HardwareKeepsLine ==
    ASSUME TypeOK, Line, Hardware
    PROVE  Line'
  <1>1. CASE Transmit
    BY <1>1 DEF TypeOK, Line, OneByte, Transmit, kernelVars
  <1>2. CASE Arrive
    BY <1>2 DEF TypeOK, Line, OneByte, Arrive, kernelVars, NoInterrupt, ModemPending,
                XmitPending, NotifierReady
  <1>3. CASE ClearToSend
    BY <1>3 DEF TypeOK, Line, OneByte, ClearToSend, kernelVars
  <1> QED BY <1>1, <1>2, <1>3 DEF Hardware

LEMMA InterruptKeepsLine ==
    ASSUME TypeOK, Line, Interrupt
    PROVE  Line'
  <1>1. CASE ModemInterrupt
    BY <1>1 DEF TypeOK, Line, OneByte, ModemInterrupt, ModemPending, Wake, True
  <1>2. CASE XmitInterrupt
    BY <1>2 DEF TypeOK, Line, OneByte, XmitInterrupt, XmitPending, ModemPending, Wake,
                CtsSeen, NotYet
  <1> QED BY <1>1, <1>2 DEF Interrupt

(* A byte is written when the notifier starts or has reported: the line is *)
(* clear then.                                                             *)
LEMMA WriteKeepsLine ==
    ASSUME TypeOK, Line, NEW ch \in Bytes, thr' = ch, notifier' = "arm",
           notifier \in {"start", "sent"}, NoInterrupt,
           UNCHANGED <<shift, tien, cts, dcts, wire, kernelVars>>
    PROVE  Line'
  <1>1. ch # None
    BY StringsAreBytes
  <1> QED BY <1>1 DEF Line, OneByte, kernelVars, NoInterrupt, ModemPending

LEMMA NotifierKeepsLine ==
    ASSUME TypeOK, Line, NotifierStarts \/ NotifierAwaits \/ NotifierSends
    PROVE  Line'
  <1>1. CASE NotifierStarts
    BY <1>1, WriteKeepsLine, StringsAreBytes DEF NotifierStarts
  <1>2. CASE NotifierAwaits
    BY <1>2 DEF Line, OneByte, NotifierAwaits, kernelVars
  <1>3. CASE NotifierSends
    BY <1>3 DEF Line, OneByte, NotifierSends, uartVars, kernelVars
  <1> QED BY <1>1, <1>2, <1>3

-----------------------------------------------------------------------------
(* The server and its inbox. *)

LEMMA RequestFacts ==
    ASSUME NEW m, IsRequest(m)
    PROVE  m # Notification /\ m.bytes \in Seq(Bytes) /\ m.tid \in Clients
  BY StringsAreBytes DEF IsRequest, Notification

LEMMA Received ==
    ASSUME TypeOK, Server, inbox # <<>>
    PROVE  /\ Head(inbox) \in Requests /\ Tail(inbox) \in Seq(Requests)
           /\ \A i \in DOMAIN Tail(inbox) :
                 IsRequest(Tail(inbox)[i])
                 \/ (Tail(inbox)[i] = Notification /\ notifier = "sent" /\ ~sendAddr)
           /\ \A i, j \in DOMAIN Tail(inbox) :
                 Tail(inbox)[i] = Notification /\ Tail(inbox)[j] = Notification => i = j
           /\ Head(inbox) # Notification => IsRequest(Head(inbox))
           /\ Head(inbox) = Notification =>
                 /\ notifier = "sent" /\ ~sendAddr
                 /\ \A i \in DOMAIN Tail(inbox) : IsRequest(Tail(inbox)[i])
  <1>1. PICK t : t = Tail(inbox)
    OBVIOUS
  <1>2. /\ inbox \in Seq(Requests)
        /\ Head(inbox) \in Requests /\ t \in Seq(Requests)
        /\ 1 \in DOMAIN inbox /\ inbox[1] = Head(inbox)
        /\ \A i \in DOMAIN t : i + 1 \in DOMAIN inbox /\ t[i] = inbox[i + 1]
    <2>1. inbox \in Seq(Requests)
      BY DEF TypeOK
    <2> QED BY <1>1, <2>1, HeadTail
  <1>3. DOMAIN t = 1 .. Len(t) /\ Len(t) \in Nat
    BY <1>2
  <1>4. \A i \in DOMAIN t : i \in Nat /\ i + 1 # 1
    BY <1>3
  <1>5. \A m : IsRequest(m) => m # Notification
    BY RequestFacts
  <1>6. Inbox /\ OneNotification
    BY DEF Server
  <1>7. \A i \in DOMAIN t : IsRequest(t[i]) \/ (t[i] = Notification /\ notifier = "sent" /\ ~sendAddr)
    BY <1>2, <1>6 DEF Inbox
  <1>8. ASSUME NEW i \in DOMAIN t, NEW j \in DOMAIN t, t[i] = Notification, t[j] = Notification
        PROVE  i = j
    <2>1. i + 1 = j + 1
      BY <1>2, <1>6, <1>8 DEF OneNotification
    <2> QED BY <2>1, <1>4
  <1>9. IsRequest(inbox[1]) \/ (inbox[1] = Notification /\ notifier = "sent" /\ ~sendAddr)
    BY <1>2, <1>6 DEF Inbox
  <1>10. ASSUME Head(inbox) = Notification
         PROVE  \A i \in DOMAIN t : IsRequest(t[i])
    <2> SUFFICES ASSUME NEW i \in DOMAIN t, t[i] = Notification
                 PROVE  FALSE
      BY <1>7
    <2>1. i + 1 = 1
      BY <1>2, <1>6, <1>10 DEF OneNotification
    <2> QED BY <2>1, <1>4
  <1> QED BY <1>1, <1>2, <1>5, <1>7, <1>8, <1>9, <1>10

LEMMA ServerKept ==
    ASSUME Server, UNCHANGED <<serverVars, mem>>, notifier = "sent" => notifier' = "sent"
    PROVE  Server'
  BY DEF Server, Inbox, OneNotification, IsRequest, serverVars

LEMMA NotifierSendsKeepsServer ==
    ASSUME TypeOK, Server, NotifierSends
    PROVE  Server' /\ inbox' \in Seq(Requests)
  <1>1. inbox \in Seq(Requests) /\ Len(inbox) \in Nat /\ Notification \in Requests
    BY DEF TypeOK, Requests
  <1>2. /\ inbox' \in Seq(Requests)
        /\ DOMAIN inbox = 1 .. Len(inbox) /\ DOMAIN inbox' = 1 .. Len(inbox) + 1
        /\ \A i \in 1 .. Len(inbox) : inbox'[i] = inbox[i]
        /\ inbox'[Len(inbox) + 1] = Notification
    BY <1>1 DEF NotifierSends
  <1>3. /\ notifier = "woken" /\ notifier' = "sent" /\ ~sendAddr
        /\ UNCHANGED <<pc, req, sendAddr, charBuffer, mem>>
    BY DEF NotifierSends, Server, clientVars
  <1>4. \A i \in DOMAIN inbox : IsRequest(inbox[i]) /\ inbox[i] # Notification
    BY <1>3, RequestFacts DEF Server, Inbox
  <1>5. \A m : IsRequest(m)' <=> IsRequest(m)
    BY <1>3 DEF IsRequest
  <1>6. \A i \in DOMAIN inbox' :
           (i \in DOMAIN inbox /\ IsRequest(inbox'[i]) /\ inbox'[i] # Notification)
           \/ (i = Len(inbox) + 1 /\ inbox'[i] = Notification)
    BY <1>1, <1>2, <1>4
  <1>7. Inbox'
    BY <1>3, <1>5, <1>6 DEF Inbox, IsRequest
  <1>8. OneNotification'
    BY <1>6 DEF OneNotification
  <1>9. pc' = "handle" => IsRequest(req)'
    BY <1>3, <1>5 DEF Server, IsRequest
  <1> QED BY <1>2, <1>3, <1>7, <1>8, <1>9 DEF Server

LEMMA HandleNotificationKeepsServer ==
    ASSUME TypeOK, Server, HandleNotification
    PROVE  Server' /\ inbox' \in Seq(Requests) /\ notifier = "sent" /\ ~sendAddr
  <1>1. /\ inbox # <<>> /\ Head(inbox) = Notification /\ inbox' = Tail(inbox)
        /\ UNCHANGED <<pc, req, mem>>
        /\ sendAddr' => charBuffer' = <<>> /\ notifier' = notifier
    BY Received DEF HandleNotification, clientVars
  <1>2. /\ notifier = "sent" /\ ~sendAddr /\ inbox' \in Seq(Requests)
        /\ \A i \in DOMAIN inbox' : IsRequest(inbox'[i])
    BY <1>1, Received
  <1>3. \A i \in DOMAIN inbox' : inbox'[i] # Notification
    BY <1>2, RequestFacts
  <1> QED BY <1>1, <1>2, <1>3 DEF Server, Inbox, OneNotification, IsRequest

LEMMA ReplyToClientKeepsServer ==
    ASSUME TypeOK, Server, ReplyToClient
    PROVE  Server' /\ inbox' \in Seq(Requests) /\ req' \in Requests /\ req'.tid \in Clients
  <1>1. /\ inbox # <<>> /\ Head(inbox) # Notification /\ req' = Head(inbox)
        /\ inbox' = Tail(inbox) /\ UNCHANGED <<notifier, sendAddr, charBuffer, mem>>
    BY DEF ReplyToClient
  <1>2. IsRequest(req')
    BY <1>1, Received
  <1>3. inbox' \in Seq(Requests) /\ req' \in Requests /\ Inbox' /\ OneNotification'
    BY <1>1, Received DEF Inbox, OneNotification, IsRequest
  <1> QED BY <1>1, <1>2, <1>3, RequestFacts DEF Server, IsRequest

(* The server has carried a request out. *)
LEMMA DoneKeepsServer ==
    ASSUME TypeOK, Server, Done, UNCHANGED mem,
           \/ sendAddr' = FALSE /\ (sendAddr \/ notifier' = notifier)
           \/ UNCHANGED <<sendAddr, charBuffer, notifier>>
    PROVE  Server' /\ req' \in Requests
  <1>1. pc' = "receive" /\ inbox' = inbox /\ req' = NoRequest
    BY DEF Done
  <1>2. Inbox' /\ OneNotification'
    BY <1>1 DEF Server, Inbox, OneNotification, IsRequest
  <1> QED BY <1>1, <1>2 DEF Server, Requests

LEMMA PutKeepsServer ==
    ASSUME TypeOK, Server, NEW c \in Clients, NEW s \in Strings,
           NEW call \in {"putchar", "putstr"}, call = "putchar" => Len(s) = 1,
           Put(c, s, call)
    PROVE  Server' /\ inbox' \in Seq(Requests)
  <1>1. PICK m : m = [tid |-> c, type |-> call, bytes |-> s]
    OBVIOUS
  <1>2. /\ inbox' = <<m>> /\ mem' = [mem EXCEPT ![c] = s] /\ pc = "receive"
        /\ UNCHANGED <<pc, notifier, sendAddr, charBuffer>>
    BY <1>1 DEF Put, ClientsRun
  <1>3. mem'[c] = s
    BY <1>2 DEF TypeOK
  <1>4. IsRequest(m)'
    BY <1>1, <1>3 DEF IsRequest
  <1>5. m \in Requests
    BY <1>1 DEF Requests
  <1>6. DOMAIN inbox' = {1} /\ inbox'[1] = m /\ inbox' \in Seq(Requests)
    BY <1>2, <1>5
  <1>7. Inbox' /\ OneNotification'
    BY <1>4, <1>6 DEF Inbox, OneNotification, IsRequest
  <1> QED BY <1>2, <1>6, <1>7 DEF Server

LEMMA ReuseKeepsServer ==
    ASSUME TypeOK, Server, NEW c \in Clients, Reuse(c)
    PROVE  Server'
  <1>1. /\ inbox = <<>> /\ pc = "receive" /\ DOMAIN inbox' = {}
        /\ UNCHANGED <<serverVars, notifier>>
    BY DEF Reuse, ClientsRun, serverVars
  <1> QED BY <1>1 DEF Server, Inbox, OneNotification, serverVars
-----------------------------------------------------------------------------
(* The bytes. *)

(* What has gone out on the line; the byte the notifier starts with counts *)
(* as sent.                                                                *)
Sent == IF notifier = "start" THEN <<Go>> ELSE wire \o Register(shift) \o Register(thr)

LEMMA RegisterIsSeq ==
    ASSUME TypeOK
    PROVE  /\ Register(shift) \in Seq(Bytes) /\ Register(thr) \in Seq(Bytes)
           /\ wire \o Register(shift) \in Seq(Bytes) /\ Sent \in Seq(Bytes)
           /\ \A b \in Bytes : Register(b) = <<b>>
           /\ Register(None) = <<>>
  <1>1. /\ Register(shift) \in Seq(Bytes) /\ Register(thr) \in Seq(Bytes)
        /\ Register(None) = <<>> /\ \A b \in Bytes : Register(b) = <<b>>
    BY StringsAreBytes DEF TypeOK, Register
  <1>2. wire \in Seq(Bytes) /\ <<Go>> \in Seq(Bytes)
    BY StringsAreBytes DEF TypeOK
  <1>3. wire \o Register(shift) \in Seq(Bytes)
    BY <1>1, <1>2, ConcatProperties
  <1>4. wire \o Register(shift) \o Register(thr) \in Seq(Bytes)
    BY <1>1, <1>3, ConcatProperties
  <1> QED BY <1>1, <1>2, <1>3, <1>4 DEF Sent

(* When both registers are free, all that is sent has arrived. *)
LEMMA ClearLine ==
    ASSUME TypeOK, thr = None, shift = None, notifier # "start"
    PROVE  Sent = wire
  <1>1. wire \in Seq(Bytes)
    BY DEF TypeOK
  <1> QED BY <1>1, RegisterIsSeq, ConcatEmptySeq DEF Sent

(* A byte written on a clear line is the next one sent. *)
LEMMA WriteSends ==
    ASSUME TypeOK, Line, NEW ch \in Bytes, notifier = "sent",
           thr' = ch, notifier' = "arm", UNCHANGED <<shift, wire>>
    PROVE  Sent' = Sent \o <<ch>>
  <1>1. shift = None /\ thr = None
    BY DEF Line
  <1>2. Sent = wire /\ wire \in Seq(Bytes)
    BY <1>1, ClearLine DEF TypeOK
  <1>3. Sent' = wire \o Register(None) \o Register(ch)
    BY <1>1 DEF Sent, Register
  <1>4. wire \o <<>> = wire
    BY <1>2, ConcatEmptySeq
  <1> QED BY <1>2, <1>3, <1>4, RegisterIsSeq

LEMMA InOrderIs == InOrder <=> (lost \/ <<Go>> \o accepted = Sent \o charBuffer)
  BY DEF InOrder, Sent

LEMMA LineKeepsOrder ==
    ASSUME TypeOK, Line, InOrder, Hardware \/ Interrupt \/ NotifierStarts \/ NotifierAwaits \/ NotifierSends
    PROVE  InOrder'
  <1>1. UNCHANGED <<charBuffer, accepted, lost>>
    BY DEF Hardware, Transmit, Arrive, ClearToSend, Interrupt, ModemInterrupt, XmitInterrupt,
           NotifierStarts, NotifierAwaits, NotifierSends, serverVars, ghostVars
  <1>2. wire \in Seq(Bytes) /\ (shift # None => shift \in Bytes) /\ (thr # None => thr \in Bytes)
    BY DEF TypeOK
  <1>3. Sent' = Sent
    <2>1. CASE Transmit
      <3>1. notifier # "start" /\ notifier' = notifier /\ wire' = wire
        BY <2>1 DEF Line, Transmit
      <3>2. Sent = wire \o <<>> \o <<thr>> /\ Sent' = wire \o <<thr>> \o <<>>
        BY <2>1, <3>1 DEF Transmit, Sent, Register
      <3>3. wire \o <<>> = wire /\ wire \o <<thr>> \in Seq(Bytes)
        <4>1. <<thr>> \in Seq(Bytes)
          BY <1>2, <2>1 DEF Transmit
        <4> QED BY <1>2, <4>1, ConcatEmptySeq, ConcatProperties
      <3>4. wire \o <<thr>> \o <<>> = wire \o <<thr>>
        BY <3>3, ConcatEmptySeq
      <3> QED BY <3>2, <3>3, <3>4
    <2>2. CASE Arrive
      <3>1. notifier = "await" /\ notifier' = notifier /\ thr = None /\ thr' = None
        BY <2>2 DEF TypeOK, Line, OneByte, Arrive, NoInterrupt, XmitPending, ModemPending, NotifierReady
      <3>2. Sent = wire \o <<shift>> \o <<>> /\ Sent' = wire' \o <<>> \o <<>>
        BY <2>2, <3>1 DEF Arrive, Sent, Register
      <3>3. wire' = wire \o <<shift>> /\ wire' \in Seq(Bytes)
        BY <1>2, <2>2, AppendIsConcat, AppendProperties DEF Arrive
      <3>4. wire' \o <<>> = wire'
        BY <3>3, ConcatEmptySeq
      <3> QED BY <3>2, <3>3, <3>4
    <2>3. CASE ClearToSend
      BY <2>3 DEF ClearToSend, Sent
    <2>4. CASE Interrupt
      BY <2>4 DEF Interrupt, ModemInterrupt, XmitInterrupt, Wake, Sent
    <2>5. CASE NotifierStarts
      <3>1. wire = <<>> /\ shift = None
        BY <2>5 DEF NotifierStarts, Line
      <3>2. Sent = <<Go>> /\ Sent' = <<>> \o <<>> \o <<Go>>
        BY <2>5, <3>1 DEF NotifierStarts, Sent, Register, None, Go
      <3> QED BY <3>2
    <2>6. CASE NotifierAwaits \/ NotifierSends
      BY <2>6 DEF NotifierAwaits, NotifierSends, Sent, uartVars
    <2> QED BY <2>1, <2>2, <2>3, <2>4, <2>5, <2>6 DEF Hardware
  <1> QED BY <1>1, <1>3, InOrderIs DEF InOrder, Sent

(* Names for concatenation and for what is concatenated: the provers then  *)
(* take an equation for what it is, and not element by element.            *)
Cat(x, y) == x \o y
Texts     == Seq(Bytes)

LEMMA Regroup == \A x, y, z \in Texts : Cat(Cat(x, y), z) = Cat(x, Cat(y, z))
  <1> SUFFICES ASSUME NEW x \in Seq(Bytes), NEW y \in Seq(Bytes), NEW z \in Seq(Bytes)
               PROVE  (x \o y) \o z = x \o (y \o z)
    BY DEF Cat, Texts
  <1> QED BY ConcatAssociative

LEMMA OrderIs ==
    InOrder <=> (lost \/ Cat(<<Go>>, accepted) = Cat(Sent, charBuffer))
  BY InOrderIs DEF Cat

(* Whatever the server does, the bytes it has are sent in front of the     *)
(* bytes of the call it serves.                                            *)
LEMMA ServerKeepsOrder ==
    ASSUME TypeOK, Line, Server, InOrder,
           NEW s \in Seq(Bytes), NEW b \in Seq(Bytes),
           accepted' = accepted \o s, lost' \/ (b = charBuffer \o s /\ lost' = lost),
           \/ UNCHANGED <<uartVars, notifier>> /\ charBuffer' = b
           \/ /\ notifier = "sent" /\ b # <<>>
              /\ thr' = Head(b) /\ notifier' = "arm" /\ UNCHANGED <<shift, wire>>
              /\ charBuffer' = Tail(b)
    PROVE  InOrder'
  <1>1. SUFFICES ASSUME ~lost' PROVE Cat(<<Go>>, accepted') = Cat(Sent', charBuffer')
    BY OrderIs DEF InOrder, Sent, Cat
  <1>2. Cat(<<Go>>, accepted) = Cat(Sent, charBuffer) /\ b = Cat(charBuffer, s)
        /\ accepted' = Cat(accepted, s)
    BY <1>1, OrderIs DEF Cat
  <1>3. /\ <<Go>> \in Texts /\ accepted \in Texts /\ charBuffer \in Texts
        /\ Sent \in Texts /\ s \in Texts /\ b \in Texts
    BY StringsAreBytes, RegisterIsSeq DEF TypeOK, Texts
  <1>4. Cat(<<Go>>, accepted') = Cat(Sent, b)
    BY <1>2, <1>3, Regroup
  <1>5. CASE UNCHANGED <<uartVars, notifier>> /\ charBuffer' = b
    <2>1. Sent' = Sent
      BY <1>5 DEF Sent, uartVars
    <2> QED BY <1>4, <1>5, <2>1
  <1>6. CASE /\ notifier = "sent" /\ b # <<>>
             /\ thr' = Head(b) /\ notifier' = "arm" /\ UNCHANGED <<shift, wire>>
             /\ charBuffer' = Tail(b)
    <2>1. PICK h : h = <<Head(b)>>
      OBVIOUS
    <2>2. /\ Head(b) \in Bytes /\ Tail(b) \in Texts /\ h \in Texts
          /\ Cat(h, Tail(b)) = b
      BY <1>6, <2>1, HeadTail DEF Cat, Texts
    <2>3. Sent' = Cat(Sent, h)
      BY <1>6, <2>1, <2>2, WriteSends DEF Cat
    <2>4. Cat(Sent, b) = Cat(Cat(Sent, h), Tail(b))
      BY <1>3, <2>2, Regroup
    <2> QED BY <1>4, <1>6, <2>3, <2>4
  <1> QED BY <1>5, <1>6

(* A request carried out: what is then in the buffer or on the line. *)
LEMMA Served ==
    ASSUME TypeOK, Line, Server, PutChar \/ PutStr
    PROVE  /\ req.bytes \in Seq(Bytes) /\ accepted' = accepted \o req.bytes
           /\ Done /\ NoInterrupt /\ UNCHANGED mem
           /\ \E b \in Seq(Bytes) :
                 /\ Len(b) < Size
                 /\ lost' \/ (b = charBuffer \o req.bytes /\ lost' = lost)
                 /\ \/ /\ UNCHANGED <<uartVars, notifier, sendAddr>> /\ charBuffer' = b
                       /\ sendAddr => charBuffer' = charBuffer
                    \/ /\ notifier = "sent" /\ b # <<>> /\ Write(Head(b))
                       /\ charBuffer' = Tail(b) /\ sendAddr /\ sendAddr' = FALSE
  <1>1. IsRequest(req) /\ Done /\ NoInterrupt
    BY DEF PutChar, PutStr, Server, ServerRuns
  <1>2. /\ req.bytes \in Seq(Bytes) /\ accepted' = accepted \o req.bytes /\ UNCHANGED mem
        /\ charBuffer \in Seq(Bytes) /\ Len(charBuffer) \in Nat /\ Len(charBuffer) < Size
        /\ Len(req.bytes) \in Nat
        /\ lost' = (lost \/ Len(charBuffer) + Len(req.bytes) >= Size)
        /\ lost \in BOOLEAN
    BY <1>1, RequestFacts DEF Done, TypeOK, clientVars
  <1>3. ~lost' => lost' = lost /\ Len(charBuffer) + Len(req.bytes) < Size
    <2>1. ~lost' => ~lost /\ ~(Len(charBuffer) + Len(req.bytes) >= Size)
      BY <1>2, Zenon
    <2>2. ~lost' /\ ~lost => lost' = lost
      <3>1. lost' \in BOOLEAN
        BY <1>2, Zenon
      <3> QED BY <1>2, <3>1, Zenon
    <2>3. ~(Len(charBuffer) + Len(req.bytes) >= Size) => Len(charBuffer) + Len(req.bytes) < Size
      BY <1>2, SizeFacts
    <2> QED BY <2>1, <2>2, <2>3, Zenon
  <1>4. CASE PutChar
    <2>1. PICK ch : ch = Head(req.bytes)
      OBVIOUS
    <2>2. Len(req.bytes) = 1
      BY <1>1, <1>4 DEF PutChar, IsRequest
    <2>3. ch \in Bytes /\ req.bytes = <<ch>>
      <3>1. req.bytes # <<>>
        BY <2>2
      <3>2. ch \in Bytes /\ Len(Tail(req.bytes)) = 0 /\ Tail(req.bytes) \in Seq(Bytes)
            /\ <<ch>> \o Tail(req.bytes) = req.bytes /\ <<ch>> \in Seq(Bytes)
        BY <1>2, <2>1, <2>2, <3>1, HeadTail
      <3>3. Tail(req.bytes) = <<>>
        BY <3>2, EmptySeq
      <3> QED BY <3>2, <3>3, ConcatEmptySeq
    <2>4. CASE sendAddr
      <3>1. Write(ch) /\ sendAddr' = FALSE /\ charBuffer' = charBuffer
        BY <1>4, <2>1, <2>4 DEF PutChar, SendAddrReset
      <3>2. charBuffer = <<>> /\ notifier = "sent"
        BY <2>4 DEF Server
      <3>3. PICK b : b = <<ch>>
        OBVIOUS
      <3>4. /\ b \in Seq(Bytes) /\ Len(b) = 1 /\ b # <<>> /\ Head(b) = ch /\ b = req.bytes
        BY <1>2, <2>2, <2>3, <3>3
      <3>5. Tail(b) = <<>>
        <4>1. Tail(b) \in Seq(Bytes) /\ Len(Tail(b)) = 0
          BY <3>4, HeadTailProperties
        <4> QED BY <4>1, EmptySeq
      <3>6. b = charBuffer \o req.bytes /\ Len(b) < Size
        <4>1. <<>> \o b = b
          BY <3>4, ConcatEmptySeq
        <4> QED BY <3>2, <3>4, <4>1, SizeFacts
      <3>7. lost' \/ lost' = lost
        BY <1>3, Zenon
      <3> QED BY <1>1, <1>2, <2>4, <3>1, <3>2, <3>4, <3>5, <3>6, <3>7
    <2>5. CASE ~sendAddr
      <3>1. PICK b : b = Pushed(charBuffer, Size, ch)
        OBVIOUS
      <3>2. charBuffer' = b /\ UNCHANGED <<uartVars, notifier, sendAddr>>
        BY <1>4, <2>1, <2>5, <3>1 DEF PutChar
      <3>3. /\ b \in Seq(Bytes) /\ Len(b) < Size
            /\ Len(charBuffer) + 1 < Size => b = charBuffer \o <<ch>>
        BY <1>2, <2>3, <3>1, SizeFacts, PushedEffect
      <3>4. lost' \/ (b = charBuffer \o req.bytes /\ lost' = lost)
        <4>1. Len(charBuffer) + Len(req.bytes) < Size => b = charBuffer \o req.bytes
          BY <2>2, <2>3, <3>3
        <4> QED BY <1>3, <4>1, Zenon
      <3> QED BY <1>1, <1>2, <2>5, <3>2, <3>3, <3>4
    <2> QED BY <2>4, <2>5
  <1>5. CASE PutStr
    <2>1. PICK b : b = PushedAll(charBuffer, Size, req.bytes)
      OBVIOUS
    <2>2. mem[req.tid] = req.bytes
      BY <1>1, <1>5 DEF PutStr, IsRequest
    <2>3. /\ b \in Seq(Bytes) /\ Len(b) < Size
          /\ Len(charBuffer) + Len(req.bytes) < Size => b = charBuffer \o req.bytes
      BY <1>2, <2>1, SizeFacts, PushedAllEffect
    <2>4. lost' \/ (b = charBuffer \o req.bytes /\ lost' = lost)
      BY <1>3, <2>3
    <2>5. IF b # <<>> /\ sendAddr
            THEN Write(Head(b)) /\ charBuffer' = Tail(b) /\ sendAddr' = FALSE
            ELSE charBuffer' = b /\ UNCHANGED <<sendAddr, uartVars, notifier>>
      BY <1>5, <2>1, <2>2 DEF PutStr, SendAddrReset
    <2>6. sendAddr => charBuffer = <<>> /\ notifier = "sent"
      BY DEF Server
    <2> QED BY <1>1, <1>2, <2>3, <2>4, <2>5, <2>6
  <1> QED BY <1>4, <1>5
-----------------------------------------------------------------------------
(* Every step. *)

LEMMA LineKeepsType ==
    ASSUME TypeOK, Hardware \/ Interrupt \/ NotifierStarts \/ NotifierAwaits
    PROVE  TypeOK'
  <1>1. UNCHANGED <<serverVars, clientVars, ghostVars>>
    BY DEF Hardware, Transmit, Arrive, ClearToSend, Interrupt, ModemInterrupt, XmitInterrupt,
           NotifierStarts, NotifierAwaits
  <1>2. /\ thr' \in Bytes \cup {None} /\ shift' \in Bytes \cup {None}
        /\ tien' \in BOOLEAN /\ cts' \in BOOLEAN /\ dcts' \in BOOLEAN
        /\ wire' \in Seq(Bytes)
    <2>1. CASE Arrive
      <3>1. shift \in Bytes /\ wire \in Seq(Bytes)
        BY <2>1 DEF TypeOK, Arrive
      <3>2. Append(wire, shift) \in Seq(Bytes)
        BY <3>1, AppendProperties
      <3> QED BY <2>1, <3>2 DEF TypeOK, Arrive
    <2>2. CASE ~Arrive
      BY <2>2, StringsAreBytes
         DEF TypeOK, Hardware, Transmit, ClearToSend, Interrupt, ModemInterrupt, XmitInterrupt,
             NotifierStarts, NotifierAwaits
    <2> QED BY <2>1, <2>2
  <1>3. ctsOn' \in {-1, 0, 1} /\ xmitRdy' \in {-1, 0, 1}
    BY DEF TypeOK, Hardware, Transmit, Arrive, ClearToSend, Interrupt, ModemInterrupt, XmitInterrupt,
           NotifierStarts, NotifierAwaits, kernelVars, NotYet
  <1>4. notifier' \in {"start", "arm", "await", "woken", "sent"}
    BY DEF TypeOK, Hardware, Transmit, Arrive, ClearToSend, Interrupt, ModemInterrupt, XmitInterrupt,
           NotifierStarts, NotifierAwaits, Wake
  <1> QED BY <1>1, <1>2, <1>3, <1>4 DEF TypeOK, serverVars, clientVars, ghostVars

LEMMA Shorter ==
    \A b \in Seq(Bytes) : b # <<>> /\ Len(b) < Size => Len(Tail(b)) < Size
  <1> SUFFICES ASSUME NEW b \in Seq(Bytes), b # <<>>, Len(b) < Size
               PROVE  Len(Tail(b)) < Size
    OBVIOUS
  <1>1. PICK n : n = Len(Tail(b))
    OBVIOUS
  <1>2. n = Len(b) - 1 /\ Len(b) \in Nat
    BY <1>1, HeadTail
  <1> QED BY <1>1, <1>2, SizeFacts

LEMMA ServeKeeps ==
    ASSUME IInv, PutChar \/ PutStr
    PROVE  IInv'
  <1>1. TypeOK /\ Line /\ Server /\ InOrder
    BY DEF IInv
  <1>2. /\ req.bytes \in Seq(Bytes) /\ accepted' = accepted \o req.bytes
        /\ Done /\ NoInterrupt /\ UNCHANGED mem
    BY <1>1, Served
  <1>3. PICK b \in Seq(Bytes) :
           /\ Len(b) < Size
           /\ lost' \/ (b = charBuffer \o req.bytes /\ lost' = lost)
           /\ \/ /\ UNCHANGED <<uartVars, notifier, sendAddr>> /\ charBuffer' = b
                 /\ sendAddr => charBuffer' = charBuffer
              \/ /\ notifier = "sent" /\ b # <<>> /\ Write(Head(b))
                 /\ charBuffer' = Tail(b) /\ sendAddr /\ sendAddr' = FALSE
    BY <1>1, Served
  <1>4. InOrder'
    BY <1>1, <1>2, <1>3, ServerKeepsOrder DEF Write
  <1>5. Server' /\ req' \in Requests
    <2>1. sendAddr \in BOOLEAN
      BY <1>1 DEF TypeOK
    <2>2. \/ sendAddr' = FALSE /\ (sendAddr \/ notifier' = notifier)
          \/ UNCHANGED <<sendAddr, charBuffer, notifier>>
      BY <1>3, <2>1, Zenon
    <2> QED BY <1>1, <1>2, <2>2, DoneKeepsServer
  <1>6. b # <<>> => Head(b) \in Bytes /\ Tail(b) \in Seq(Bytes) /\ Len(b) \in Nat /\ Len(Tail(b)) = Len(b) - 1
    BY HeadTail
  <1>7. Line'
    <2>1. CASE UNCHANGED <<uartVars, notifier>>
      BY <1>1, <1>2, <2>1, LineKept DEF lineVars, Done
    <2>2. CASE notifier = "sent" /\ b # <<>> /\ Write(Head(b))
      BY <1>1, <1>2, <1>6, <2>2, WriteKeepsLine DEF Write, Done
    <2> QED BY <1>3, <2>1, <2>2
  <1>8. charBuffer' \in Seq(Bytes) /\ Len(charBuffer') < Size
    BY <1>3, <1>6, Shorter
  <1>9. accepted' \in Seq(Bytes)
    BY <1>1, <1>2, ConcatProperties DEF TypeOK
  <1>10. /\ thr' \in Bytes \cup {None} /\ shift' \in Bytes \cup {None}
         /\ tien' \in BOOLEAN /\ cts' \in BOOLEAN /\ dcts' \in BOOLEAN
         /\ wire' \in Seq(Bytes) /\ sendAddr' \in BOOLEAN
         /\ notifier' \in {"start", "arm", "await", "woken", "sent"}
    BY <1>1, <1>3, <1>6 DEF TypeOK, Write, uartVars
  <1>11. /\ ctsOn' \in {-1, 0, 1} /\ xmitRdy' \in {-1, 0, 1} /\ inbox' \in Seq(Requests)
         /\ pc' \in {"receive", "handle"} /\ client' \in [Clients -> {"running", "waits"}]
         /\ mem' \in [Clients -> Seq(Bytes)]
    BY <1>1, <1>2 DEF TypeOK, Done, kernelVars, clientVars
  <1>12. lost' \in BOOLEAN
    BY <1>1, <1>2 DEF TypeOK, Done
  <1>13. TypeOK'
    BY <1>5, <1>8, <1>9, <1>10, <1>11, <1>12 DEF TypeOK
  <1> QED BY <1>4, <1>5, <1>7, <1>13 DEF IInv

LEMMA NotificationKeeps ==
    ASSUME IInv, HandleNotification
    PROVE  IInv'
  <1>1. TypeOK /\ Line /\ Server /\ InOrder /\ NoInterrupt
    BY DEF IInv, HandleNotification, ServerRuns
  <1>2. Server' /\ inbox' \in Seq(Requests) /\ notifier = "sent" /\ ~sendAddr
    BY <1>1, HandleNotificationKeepsServer
  <1>3. charBuffer \in Seq(Bytes) /\ accepted \in Seq(Bytes) /\ <<>> \in Seq(Bytes)
    BY <1>1, EmptySeq DEF TypeOK
  <1>4. charBuffer # <<>> =>
           /\ Head(charBuffer) \in Bytes /\ Tail(charBuffer) \in Seq(Bytes)
           /\ Len(charBuffer) \in Nat /\ Len(Tail(charBuffer)) = Len(charBuffer) - 1
    BY <1>3, HeadTail
  <1>5. UNCHANGED <<kernelVars, pc, req, clientVars, ghostVars>>
    BY DEF HandleNotification
  <1>6. \/ charBuffer = <<>> /\ sendAddr' = TRUE /\ UNCHANGED <<charBuffer, uartVars, notifier>>
        \/ /\ charBuffer # <<>> /\ Write(Head(charBuffer))
           /\ charBuffer' = Tail(charBuffer) /\ UNCHANGED sendAddr
    BY DEF HandleNotification
  <1>7. InOrder'
    <2>1. accepted \o <<>> = accepted /\ charBuffer \o <<>> = charBuffer
      BY <1>3, ConcatEmptySeq
    <2>2. accepted' = accepted \o <<>> /\ charBuffer = charBuffer \o <<>> /\ lost' = lost
      BY <1>5, <2>1 DEF ghostVars
    <2> QED BY <1>1, <1>2, <1>3, <1>6, <2>2, ServerKeepsOrder DEF Write
  <1>8. Line'
    <2>1. CASE UNCHANGED <<uartVars, notifier>>
      BY <1>1, <1>5, <2>1, LineKept DEF lineVars
    <2>2. CASE charBuffer # <<>> /\ Write(Head(charBuffer))
      BY <1>1, <1>2, <1>4, <1>5, <2>2, WriteKeepsLine DEF Write
    <2> QED BY <1>6, <2>1, <2>2
  <1>9. TypeOK'
    <2>1. charBuffer' \in Seq(Bytes) /\ Len(charBuffer') < Size
      <3>1. Len(charBuffer) < Size
        BY <1>1 DEF TypeOK
      <3> QED BY <1>3, <1>4, <1>6, <3>1, Shorter
    <2>2. /\ thr' \in Bytes \cup {None} /\ shift' \in Bytes \cup {None}
          /\ tien' \in BOOLEAN /\ cts' \in BOOLEAN /\ dcts' \in BOOLEAN
          /\ wire' \in Seq(Bytes) /\ sendAddr' \in BOOLEAN
          /\ notifier' \in {"start", "arm", "await", "woken", "sent"}
      BY <1>1, <1>4, <1>6 DEF TypeOK, Write, uartVars
    <2> QED BY <1>1, <1>2, <1>5, <2>1, <2>2 DEF TypeOK, kernelVars, clientVars, ghostVars
  <1> QED BY <1>2, <1>7, <1>8, <1>9 DEF IInv

LEMMA ClientsKeep ==
    ASSUME IInv, NEW c \in Clients,
           Reuse(c) \/ \E s \in Strings : Putc(c, s) \/ Put(c, s, "putstr")
    PROVE  IInv'
  <1>1. TypeOK /\ Line /\ Server /\ InOrder /\ <<>> \in Seq(Bytes)
    BY EmptySeq DEF IInv
  <1>2. UNCHANGED <<uartVars, kernelVars, notifier, pc, req, sendAddr, charBuffer, ghostVars>>
    BY DEF Reuse, Putc, Put, serverVars
  <1>3. Line' /\ InOrder'
    BY <1>1, <1>2, LineKept DEF lineVars, InOrder, uartVars, ghostVars
  <1>4. CASE Reuse(c)
    <2>1. Server'
      BY <1>1, <1>4, ReuseKeepsServer
    <2>2. inbox' = inbox /\ client' = client /\ mem' \in [Clients -> Seq(Bytes)]
      BY <1>1, <1>4 DEF TypeOK, Reuse, serverVars
    <2>3. TypeOK'
      BY <1>1, <1>2, <2>2 DEF TypeOK, uartVars, kernelVars, ghostVars
    <2> QED BY <1>3, <2>1, <2>3 DEF IInv
  <1>5. ASSUME NEW s \in Strings, NEW call \in {"putchar", "putstr"},
               call = "putchar" => Len(s) = 1, Put(c, s, call)
        PROVE  IInv'
    <2>1. Server' /\ inbox' \in Seq(Requests)
      BY <1>1, <1>5, PutKeepsServer
    <2>2. client' \in [Clients -> {"running", "waits"}] /\ mem' \in [Clients -> Seq(Bytes)]
      BY <1>1, <1>5, StringsAreBytes DEF TypeOK, Put
    <2>3. TypeOK'
      BY <1>1, <1>2, <2>1, <2>2 DEF TypeOK, uartVars, kernelVars, ghostVars
    <2> QED BY <1>3, <2>1, <2>3 DEF IInv
  <1> QED BY <1>4, <1>5 DEF Putc

LEMMA NextIInv ==
    ASSUME IInv, [Next]_vars
    PROVE  IInv'
  <1>1. TypeOK /\ Line /\ Server /\ InOrder
    BY DEF IInv
  <1>2. CASE Hardware \/ Interrupt \/ NotifierStarts \/ NotifierAwaits
    <2>1. UNCHANGED <<serverVars, mem>>
      BY <1>2 DEF Hardware, Transmit, Arrive, ClearToSend, Interrupt, ModemInterrupt,
                  XmitInterrupt, NotifierStarts, NotifierAwaits, clientVars
    <2>2. notifier = "sent" => notifier' = "sent"
      BY <1>2 DEF Hardware, Transmit, Arrive, ClearToSend, Interrupt, ModemInterrupt,
                  XmitInterrupt, NotifierStarts, NotifierAwaits, Wake
    <2>3. Server'
      BY <1>1, <2>1, <2>2, ServerKept
    <2>4. Line'
      BY <1>1, <1>2, HardwareKeepsLine, InterruptKeepsLine, NotifierKeepsLine
    <2> QED BY <1>1, <1>2, <2>3, <2>4, LineKeepsType, LineKeepsOrder DEF IInv
  <1>3. CASE NotifierSends
    <2>1. Server' /\ inbox' \in Seq(Requests)
      BY <1>1, <1>3, NotifierSendsKeepsServer
    <2>2. TypeOK'
      BY <1>1, <1>3, <2>1
         DEF TypeOK, NotifierSends, uartVars, kernelVars, clientVars, ghostVars
    <2> QED BY <1>1, <1>3, <2>1, <2>2, NotifierKeepsLine, LineKeepsOrder DEF IInv
  <1>4. CASE HandleNotification
    BY <1>4, NotificationKeeps
  <1>5. CASE ReplyToClient
    <2>1. Server' /\ inbox' \in Seq(Requests) /\ req' \in Requests /\ req'.tid \in Clients
      BY <1>1, <1>5, ReplyToClientKeepsServer
    <2>2. UNCHANGED <<uartVars, kernelVars, notifier, sendAddr, charBuffer, mem, ghostVars>> /\ pc' = "handle"
      BY <1>5 DEF ReplyToClient
    <2>3. client' \in [Clients -> {"running", "waits"}]
      BY <1>1, <1>5 DEF TypeOK, ReplyToClient
    <2>4. TypeOK'
      BY <1>1, <2>1, <2>2, <2>3 DEF TypeOK, uartVars, kernelVars, ghostVars
    <2>5. Line' /\ InOrder'
      BY <1>1, <2>2, LineKept DEF lineVars, InOrder, uartVars, ghostVars
    <2> QED BY <2>1, <2>4, <2>5 DEF IInv
  <1>6. CASE PutChar \/ PutStr
    BY <1>6, ServeKeeps
  <1>7. CASE \E c \in Clients :
               Reuse(c) \/ \E s \in Strings : Putc(c, s) \/ Put(c, s, "putstr")
    BY <1>7, ClientsKeep
  <1>8. CASE UNCHANGED vars
    <2>1. UNCHANGED <<serverVars, mem, notifier, uartVars, kernelVars, ghostVars, client>>
      BY <1>8 DEF vars, clientVars
    <2>2. Server' /\ Line'
      BY <1>1, <2>1, ServerKept, LineKept DEF lineVars
    <2>3. TypeOK' /\ InOrder'
      BY <1>1, <2>1, SMTT(40) DEF TypeOK, InOrder, uartVars, kernelVars, ghostVars, serverVars
    <2> QED BY <2>2, <2>3 DEF IInv
  <1> QED BY <1>2, <1>3, <1>4, <1>5, <1>6, <1>7, <1>8 DEF Next, Tasks
-----------------------------------------------------------------------------
LEMMA Inductive == Spec => []IInv
  BY InitIInv, NextIInv, PTL DEF Spec

(* Every variable holds what its declaration can hold, and the buffer      *)
(* keeps a slot free, whatever the clients write (io.c:414-540).           *)
THEOREM TypeCorrect == Spec => []TypeOK
  BY Inductive, PTL DEF IInv

(* What the controller gets is what the callers wrote, in the order in     *)
(* which trainOutServer received their calls, unless the buffer has        *)
(* overflowed (io.c:436-530).                                              *)
THEOREM BytesInOrder == Spec => []InOrder
  BY Inductive, PTL DEF IInv

(* sendAddr is set only while there is nothing to send (io.c:425-478).     *)
THEOREM OwesOnlyThen == Spec => []OwesOnlyWhenEmpty
  <1>1. IInv => OwesOnlyWhenEmpty
    BY DEF IInv, Server, Line, OwesOnlyWhenEmpty
  <1> QED BY <1>1, Inductive, PTL

(* Neither the UART nor the controller is overrun: a byte is written only  *)
(* on a clear line with CTS raised (interrupts.c:151-249).                 *)
THEOREM OneAtATime == Spec => OneByteAtATime
  <1>1. ASSUME IInv, [Next]_vars, notifier # "arm", notifier' = "arm"
        PROVE  thr = None /\ shift = None /\ cts
    <2>1. TypeOK /\ Line /\ Server
      BY <1>1 DEF IInv
    <2>2. notifier \in {"start", "sent"}
      <3>1. CASE NotifierStarts
        BY <3>1 DEF NotifierStarts
      <3>2. CASE HandleNotification
        BY <2>1, <3>2, HandleNotificationKeepsServer
      <3>3. CASE PutChar \/ PutStr
        <4>1. PICK b \in Seq(Bytes) :
                 \/ UNCHANGED notifier
                 \/ notifier = "sent"
          BY <2>1, <3>3, Served
        <4> QED BY <1>1, <4>1
      <3>4. CASE Hardware \/ Interrupt \/ NotifierAwaits \/ NotifierSends \/ ReplyToClient
        BY <1>1, <3>4 DEF Hardware, Transmit, Arrive, ClearToSend, Interrupt, ModemInterrupt,
                         XmitInterrupt, Wake, NotifierAwaits, NotifierSends, ReplyToClient
      <3>5. CASE \E c \in Clients :
                   Reuse(c) \/ \E s \in Strings : Putc(c, s) \/ Put(c, s, "putstr")
        BY <1>1, <3>5 DEF Reuse, Putc, Put
      <3>6. CASE UNCHANGED vars
        BY <1>1, <3>6 DEF vars
      <3> QED BY <1>1, <3>1, <3>2, <3>3, <3>4, <3>5, <3>6 DEF Next, Tasks
    <2> QED BY <2>1, <2>2 DEF Line
  <1> QED BY <1>1, Inductive, PTL DEF Spec, OneByteAtATime
=============================================================================
