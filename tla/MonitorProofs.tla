---------------------------- MODULE MonitorProofs ----------------------------
(***************************************************************************)
(* Every key reaches one caller, every byte written is shown once, and the *)
(* echoes come in the order typed, for any callers, writers, string, size  *)
(* of the buffers and number of keys.                                      *)
(***************************************************************************)
EXTENDS Monitor, BoundedQueueProofs

-----------------------------------------------------------------------------
(***************************************************************************)
(* The inductive invariant.                                                *)
(***************************************************************************)

(* What waits in a server's send queue, by type. *)
Items(box)     == {box[i] : i \in DOMAIN box}
Has(box, type) == \E m \in Items(box) : m.type = type
One(box, type) == \A i, j \in DOMAIN box : box[i].type = type /\ box[j].type = type => i = j

(* A task calls Getc only when nothing else is to be done: its request is  *)
(* the first, and it is the caller that asks.                              *)
AsksFirst(box) == \A i \in DOMAIN box : box[i].type = "getchar" => i = 1
Asker(box)     == IF box # <<>> /\ box[1].type = "getchar" THEN <<box[1].tid>> ELSE <<>>

(* An interrupt is on while its notifier waits for it; the output notifier *)
(* is on its way to the server only when the UART is free, and the server  *)
(* owes a byte only when it has been there.                                *)
Line ==
    /\ rien <=> inNotifier = "await"
    /\ tien <=> outNotifier = "await"
    /\ outNotifier \in {"woken", "sent"} => thr = None
    /\ sendAddr => outNotifier = "sent" /\ outBuffer = <<>>
    /\ inReq = None <=> inPc = "receive"

(* Who has sent a message waits for the answer, so that there is only one  *)
(* of its kind.                                                            *)
InMail(m) ==
    /\ m.type = "notification" => inNotifier = "sent" /\ m.data = inChar
    /\ m.type = "getchar" => m.tid \in Callers
    /\ m.type = "echo" => courier = "asked" /\ ~courierTid

OutMail(m) ==
    /\ m.type = "notification" => outNotifier = "sent" /\ ~sendAddr
    /\ m.type = "putchar" => courier = "sent" /\ m.data = sendReq
    /\ m.type = "putstr" => m.tid \in Writers

Mail ==
    /\ \A m \in Items(inBox) : InMail(m)
    /\ One(inBox, "notification") /\ One(inBox, "echo") /\ AsksFirst(inBox)
    /\ inNotifier = "sent" => Has(inBox, "notification")
    /\ \A m \in Items(outBox) : OutMail(m)
    /\ One(outBox, "notification") /\ One(outBox, "putchar")
    /\ courierTid => courier = "asked"

(* How many keys the server has received, and how many of them the courier *)
(* can have taken.                                                         *)
Seen   == IF inNotifier \in {"woken", "sent"} THEN Len(taken) - 1 ELSE Len(taken)
Echoed == IF inPc = "echo" THEN Seen - 1 ELSE Seen

(* Keys are numbered, so where one is says which one it is. *)
Numbered ==
    /\ \A i \in DOMAIN taken : taken[i] = i
    /\ typed = IF rhr = None THEN Len(taken) ELSE Len(taken) + 1
    /\ rhr # None => rhr = typed
    /\ inNotifier \in {"woken", "sent"} => inChar = Len(taken) /\ inChar # None
    /\ inReq # None => inReq = Seen
    /\ courier \in {"put", "sent"} => sendReq \in 1 .. Echoed

Ascending(s) == \A i, j \in DOMAIN s : s[i] \in Keys /\ s[j] \in Keys /\ i < j => s[i] < s[j]
Below(s, k)  == \A i \in DOMAIN s : s[i] \in Keys => s[i] <= k
Whole(s)     == \A i \in DOMAIN s : s[i] = Text[1] =>
                   \A j \in 1 .. Len(Text) : i + j - 1 \in DOMAIN s /\ s[i + j - 1] = Text[j]

(* The key the courier carries is above all that have been echoed. *)
Echoes ==
    /\ Ascending(accepted) /\ Whole(accepted)
    /\ Below(accepted, Echoed)
    /\ courier \in {"put", "sent"} => Below(accepted, sendReq - 1)

(* The key the notifier has and the server has not. *)
Coming == IF inNotifier \in {"woken", "sent"} THEN <<inChar>> ELSE <<>>

Order ==
    /\ lost \/ Keyboard \o charBuffer \o Held(inReq) \o Coming = taken
    /\ taskBuffer # <<>> => charBuffer = <<>>
    /\ Served \o taskBuffer \o Asker(inBox) = calls
    /\ lost \/ Shown = accepted

IInv == TypeOK /\ Line /\ Mail /\ Numbered /\ Echoes /\ Order
-----------------------------------------------------------------------------
(* What a message put into a queue, or taken from it, changes. *)
LEMMA BoxAppend ==
    ASSUME NEW S, NEW box \in Seq(S), NEW m \in S
    PROVE  /\ Append(box, m) \in Seq(S)
           /\ Items(Append(box, m)) = Items(box) \cup {m}
           /\ \A type : Has(Append(box, m), type) <=> Has(box, type) \/ m.type = type
           /\ \A type : One(box, type) /\ (m.type = type => ~Has(box, type))
                           => One(Append(box, m), type)
           /\ AsksFirst(box) /\ m.type # "getchar" =>
                 AsksFirst(Append(box, m)) /\ Asker(Append(box, m)) = Asker(box)
  <1>1. PICK n \in Nat : n = Len(box)
    OBVIOUS
  <1>2. PICK b : b = Append(box, m)
    OBVIOUS
  <1>3. /\ b \in Seq(S) /\ DOMAIN box = 1 .. n /\ DOMAIN b = 1 .. n + 1
        /\ \A i \in 1 .. n : b[i] = box[i]
        /\ b[n + 1] = m
    BY <1>1, <1>2, AppendProperties
  <1>4. \A i \in 1 .. n + 1 : i \in 1 .. n \/ i = n + 1
    OBVIOUS
  <1>5. \A i \in 1 .. n : i \in 1 .. n + 1 /\ i # n + 1
    OBVIOUS
  <1>6. n + 1 \in 1 .. n + 1
    OBVIOUS
  <1>7. Items(b) = Items(box) \cup {m}
    BY <1>3, <1>4, <1>5, <1>6 DEF Items
  <1>8. \A type : Has(b, type) <=> Has(box, type) \/ m.type = type
    BY <1>7 DEF Has
  <1>9. ASSUME NEW type, One(box, type), m.type = type => ~Has(box, type)
        PROVE  One(b, type)
    <2>1. \A i \in 1 .. n : box[i] \in Items(box)
      BY <1>3 DEF Items
    <2>2. m.type = type => \A i \in 1 .. n : box[i].type # type
      BY <1>9, <2>1 DEF Has
    <2>3. ASSUME NEW i \in 1 .. n + 1, NEW j \in 1 .. n + 1, b[i].type = type, b[j].type = type
          PROVE  i = j
      <3>1. CASE m.type = type
        <4>1. i \notin 1 .. n /\ j \notin 1 .. n
          BY <1>3, <2>2, <2>3, <3>1
        <4> QED BY <1>4, <4>1
      <3>2. CASE m.type # type
        <4>1. i # n + 1 /\ j # n + 1
          BY <1>3, <2>3, <3>2
        <4>2. i \in 1 .. n /\ j \in 1 .. n
          BY <1>4, <4>1
        <4> QED BY <1>3, <1>9, <2>3, <4>2 DEF One
      <3> QED BY <3>1, <3>2
    <2> QED BY <1>3, <2>3 DEF One
  <1>10. ASSUME AsksFirst(box), m.type # "getchar"
         PROVE  AsksFirst(b) /\ Asker(b) = Asker(box)
    <2>1. AsksFirst(b)
      BY <1>3, <1>4, <1>10 DEF AsksFirst
    <2>2. CASE n = 0
      <3>1. b = <<>> => Len(b) = 0
        OBVIOUS
      <3>2. Len(b) = 1 /\ b[1] = m
        BY <1>1, <1>2, <1>3, <2>2
      <3>3. box = <<>>
        BY <1>1, <2>2, EmptySeq
      <3> QED BY <1>10, <2>1, <3>1, <3>2, <3>3 DEF Asker
    <2>3. CASE n # 0
      <3>1. box # <<>> /\ b # <<>> /\ b[1] = box[1]
        BY <1>1, <1>3, <2>3
      <3> QED BY <2>1, <3>1 DEF Asker
    <2> QED BY <2>2, <2>3
  <1> QED BY <1>2, <1>3, <1>7, <1>8, <1>9, <1>10

LEMMA BoxTail ==
    ASSUME NEW S, NEW box \in Seq(S), box # <<>>
    PROVE  /\ Tail(box) \in Seq(S) /\ Head(box) \in S
           /\ Items(box) = Items(Tail(box)) \cup {Head(box)}
           /\ \A type : Has(box, type) <=> Has(Tail(box), type) \/ Head(box).type = type
           /\ \A type : One(box, type) =>
                 One(Tail(box), type) /\ (Head(box).type = type => ~Has(Tail(box), type))
           /\ AsksFirst(box) => AsksFirst(Tail(box)) /\ Asker(Tail(box)) = <<>>
           /\ Asker(box) = IF Head(box).type = "getchar" THEN <<Head(box).tid>> ELSE <<>>
  <1>1. PICK n \in Nat : n = Len(box)
    OBVIOUS
  <1>2. PICK b : b = Tail(box)
    OBVIOUS
  <1>3. PICK m : m = Head(box)
    OBVIOUS
  <1>4. /\ b \in Seq(S) /\ m \in S /\ box[1] = m /\ n > 0
        /\ DOMAIN box = 1 .. n /\ DOMAIN b = 1 .. n - 1
        /\ \A i \in DOMAIN b : b[i] = box[i + 1]
    <2>1. Len(b) = n - 1 /\ n > 0
      BY <1>1, <1>2, HeadTail
    <2>2. DOMAIN box = 1 .. n /\ DOMAIN b = 1 .. n - 1 /\ b \in Seq(S)
      BY <1>1, <1>2, <2>1, HeadTail
    <2> QED BY <1>2, <1>3, <2>1, <2>2, HeadTail
  <1>5. \A i \in 1 .. n - 1 : i + 1 \in 1 .. n /\ i + 1 # 1 /\ b[i] = box[i + 1]
    BY <1>4
  <1>6. \A i \in 1 .. n : i # 1 => i - 1 \in 1 .. n - 1 /\ box[i] = b[i - 1]
    <2> SUFFICES ASSUME NEW i \in 1 .. n, i # 1
                 PROVE  i - 1 \in 1 .. n - 1 /\ box[i] = b[i - 1]
      OBVIOUS
    <2>1. i - 1 \in 1 .. n - 1 /\ (i - 1) + 1 = i
      OBVIOUS
    <2> QED BY <1>5, <2>1
  <1>7. 1 \in 1 .. n
    BY <1>4
  <1>8. Items(box) = Items(b) \cup {m}
    <2>1. Items(b) \subseteq Items(box) /\ m \in Items(box)
      BY <1>4, <1>5, <1>7 DEF Items
    <2>2. ASSUME NEW i \in 1 .. n
          PROVE  box[i] \in Items(b) \cup {m}
      <3>1. CASE i = 1
        BY <1>4, <3>1
      <3>2. CASE i # 1
        <4>1. PICK j \in 1 .. n - 1 : box[i] = b[j]
          BY <1>6, <3>2
        <4> QED BY <1>4, <4>1 DEF Items
      <3> QED BY <3>1, <3>2
    <2>3. Items(box) \subseteq Items(b) \cup {m}
      BY <1>4, <2>2 DEF Items
    <2> QED BY <2>1, <2>3
  <1>9. \A type : Has(box, type) <=> Has(b, type) \/ m.type = type
    BY <1>8 DEF Has
  <1>10. ASSUME NEW type, One(box, type)
         PROVE  One(b, type) /\ (m.type = type => ~Has(b, type))
    <2>1. ASSUME NEW i \in 1 .. n - 1, NEW j \in 1 .. n - 1, b[i].type = type, b[j].type = type
          PROVE  i = j
      <3>1. i + 1 = j + 1
        BY <1>4, <1>5, <1>10, <2>1, Zenon DEF One
      <3> QED BY <3>1
    <2>2. ASSUME m.type = type, NEW i \in 1 .. n - 1, b[i].type = type
          PROVE  FALSE
      BY <1>4, <1>5, <1>7, <1>10, <2>2, Zenon DEF One
    <2> QED BY <1>4, <2>1, <2>2 DEF One, Has, Items
  <1>11. ASSUME AsksFirst(box)
         PROVE  AsksFirst(b) /\ Asker(b) = <<>>
    <2>1. \A i \in 1 .. n - 1 : b[i].type # "getchar"
      BY <1>4, <1>5, <1>11 DEF AsksFirst
    <2>2. b # <<>> => 1 \in 1 .. n - 1
      <3>1. n - 1 = 0 => b = <<>>
        BY <1>4
      <3> QED BY <1>4, <3>1
    <2> QED BY <1>4, <2>1, <2>2 DEF AsksFirst, Asker
  <1>12. Asker(box) = IF m.type = "getchar" THEN <<m.tid>> ELSE <<>>
    BY <1>4 DEF Asker
  <1> QED BY <1>2, <1>3, <1>4, <1>8, <1>9, <1>10, <1>11, <1>12

LEMMA EmptyBox ==
    /\ Items(<<>>) = {} /\ AsksFirst(<<>>) /\ Asker(<<>>) = <<>>
    /\ \A type : ~Has(<<>>, type) /\ One(<<>>, type)
  BY DEF Items, AsksFirst, Asker, Has, One

(* A call of Getc. *)
LEMMA Asked ==
    ASSUME NEW t
    PROVE  Append(<<>>, GetChar(t)) = <<GetChar(t)>> /\ AsksFirst(<<GetChar(t)>>)
           /\ Asker(<<GetChar(t)>>) = <<t>>
  <1>1. PICK m : m = GetChar(t)
    OBVIOUS
  <1>2. m.type = "getchar" /\ m.tid = t
    BY <1>1 DEF GetChar
  <1>3. Append(<<>>, m) = <<m>> /\ DOMAIN <<m>> = {1} /\ <<m>> # <<>> /\ <<m>>[1] = m
    OBVIOUS
  <1> QED BY <1>1, <1>2, <1>3 DEF AsksFirst, Asker
-----------------------------------------------------------------------------
(* Types. *)

LEMMA Constants ==
    /\ Size \in Nat /\ Size > 1 /\ 0 < Size /\ MaxKeys \in Nat
    /\ Keys \subseteq Nat \ {0} /\ Keys \subseteq Bytes /\ None = 0 /\ None \notin Bytes
    /\ Text \in Seq(Bytes) /\ Text # <<>>
    /\ DOMAIN Text = 1 .. Len(Text) /\ Len(Text) \in Nat /\ Len(Text) > 0
    /\ \A i \in 1 .. Len(Text) : Text[i] \in Int /\ Text[i] \notin Keys /\ Text[i] # 0
    /\ \A i \in 1 .. Len(Text) : Text[i] = Text[1] => i = 1
  <1>1. MaxKeys \in Nat /\ Size \in Nat \ {0, 1}
    BY MonitorAssumption
  <1>2. Size \in Nat /\ Size > 1 /\ 0 < Size /\ Keys \subseteq Nat \ {0}
    BY <1>1 DEF Keys
  <1>3. PICK T : T = Int \ (Keys \cup {0})
    OBVIOUS
  <1>4. Text \in Seq(T) /\ Text # <<>>
    BY <1>3, MonitorAssumption
  <1>5. PICK n \in Nat : n = Len(Text)
    BY <1>4
  <1>6. n > 0 /\ DOMAIN Text = 1 .. n /\ \A i \in 1 .. n : Text[i] \in T
    BY <1>4, <1>5, EmptySeq
  <1>7. \A i \in 1 .. n : Text[i] \in Int /\ Text[i] \notin Keys /\ Text[i] # 0
    BY <1>3, <1>6
  <1>8. Text \in Seq(Bytes)
    <2>1. \A i \in 1 .. n : Text[i] \in Bytes
      BY <1>6 DEF Bytes
    <2>2. Text = [i \in 1 .. n |-> Text[i]]
      BY <1>4, <1>5
    <2>3. Text \in [1 .. n -> Bytes]
      BY <2>1, <2>2
    <2> QED BY <2>3, SeqDef
  <1>9. Keys \subseteq Bytes /\ None = 0 /\ None \notin Bytes
    BY <1>2, <1>6, <1>7 DEF Bytes, None
  <1>10. \A i \in 1 .. n : Text[i] = Text[1] => i = 1
    <2>1. \A i \in 1 .. n : i = 1 \/ i \in 2 .. n
      OBVIOUS
    <2>2. \A i \in 2 .. n : Text[i] # Text[1]
      BY <1>5, MonitorAssumption
    <2> QED BY <2>1, <2>2
  <1> QED BY <1>1, <1>2, <1>4, <1>5, <1>6, <1>7, <1>8, <1>9, <1>10

InMsgs  == Messages({"notification", "getchar", "echo"}, Callers)
OutMsgs == Messages({"notification", "putchar", "putstr"}, Writers)

LEMMA MessagesAre ==
    /\ \A c \in Keys \cup {None} :
          /\ Notification(c) \in InMsgs /\ Notification(c) \in OutMsgs
          /\ Notification(c).type = "notification" /\ Notification(c).data = c
    /\ \A c \in Keys \cup {None} :
          PutChar(c) \in OutMsgs /\ PutChar(c).type = "putchar" /\ PutChar(c).data = c
    /\ Echo \in InMsgs /\ Echo.type = "echo"
    /\ \A t \in Callers : GetChar(t) \in InMsgs /\ GetChar(t).type = "getchar" /\ GetChar(t).tid = t
    /\ \A t \in Writers :
          PutString(t) \in OutMsgs /\ PutString(t).type = "putstr" /\ PutString(t).tid = t
    /\ \A m \in InMsgs : m.data \in Keys \cup {None} /\ m.type \in {"notification", "getchar", "echo"}
    /\ \A m \in OutMsgs : m.data \in Keys \cup {None} /\ m.type \in {"notification", "putchar", "putstr"}
  BY DEF InMsgs, OutMsgs, Messages, Notification, PutChar, Echo, GetChar, PutString

(* The part of TypeOK a step can disturb, by who keeps it. *)
UartType ==
    /\ rhr \in Keys \cup {None} /\ thr \in Bytes \cup {None} /\ screen \in Seq(Bytes)
    /\ rien \in BOOLEAN /\ tien \in BOOLEAN

InType ==
    /\ inNotifier \in {"arm", "await", "woken", "sent"} /\ inChar \in Keys \cup {None}
    /\ inBox \in Seq(InMsgs) /\ inPc \in {"receive", "echo", "give"}
    /\ inReq \in Keys \cup {None} /\ courierTid \in BOOLEAN
    /\ taskBuffer \in Seq(Callers) /\ charBuffer \in Seq(Keys) /\ Len(charBuffer) < Size
    /\ courier \in {"ask", "asked", "put", "sent"} /\ sendReq \in Keys \cup {None}

OutType ==
    /\ outNotifier \in {"arm", "await", "woken", "sent"}
    /\ outBox \in Seq(OutMsgs) /\ outPc \in {"receive", "push"}
    /\ outReq \in Writers \cup {None} /\ sendAddr \in BOOLEAN
    /\ outBuffer \in Seq(Bytes) /\ Len(outBuffer) < Size

OtherType ==
    /\ client \in [Callers \cup Writers -> {"running", "waits"}]
    /\ typed \in 0 .. MaxKeys /\ taken \in Seq(Keys)
    /\ calls \in Seq(Callers) /\ given \in Seq(Callers \X Keys)
    /\ accepted \in Seq(Bytes) /\ lost \in BOOLEAN

LEMMA TypeParts ==
    /\ TypeOK <=> UartType /\ InType /\ OutType /\ OtherType
    /\ UartType' /\ InType' /\ OutType' /\ OtherType' => TypeOK'
  BY DEF TypeOK, UartType, InType, OutType, OtherType, InMsgs, OutMsgs

LEMMA InitIInv == Init => IInv
  <1> SUFFICES ASSUME Init PROVE IInv
    OBVIOUS
  <1>1. UartType /\ InType /\ OutType /\ OtherType
    <2>1. \A S : <<>> \in Seq(S)
      BY EmptySeq
    <2>2. Len(<<>>) = 0 /\ 0 \in 0 .. MaxKeys /\ Len(<<>>) < Size
      BY Constants
    <2>3. client \in [Callers \cup Writers -> {"running", "waits"}]
      BY DEF Init
    <2>4. UartType /\ InType
      BY <2>1, <2>2 DEF Init, UartType, InType
    <2>5. OutType /\ OtherType
      BY <2>1, <2>2, <2>3 DEF Init, OutType, OtherType
    <2> QED BY <2>4, <2>5
  <1>2. Line /\ Mail
    BY EmptyBox DEF Init, Line, Mail
  <1>3. Numbered /\ Echoes
    BY DEF Init, Numbered, Echoes, Ascending, Whole, Below
  <1>4. Order
    <2>1. Keyboard = <<>> /\ Served = <<>> /\ Held(inReq) = <<>> /\ Held(thr) = <<>> /\ Coming = <<>>
          /\ Asker(inBox) = <<>>
      BY EmptyBox DEF Init, Keyboard, Served, Held, Coming
    <2>2. <<>> \o <<>> = <<>>
      OBVIOUS
    <2> QED BY <2>1, <2>2 DEF Init, Order, Shown
  <1> QED BY <1>1, <1>2, <1>3, <1>4, TypeParts DEF IInv
-----------------------------------------------------------------------------
(* Each step keeps the types. *)

LEMMA InterruptsKeepType ==
    ASSUME TypeOK, Type \/ Transmit \/ RecvInterrupt \/ XmitInterrupt
    PROVE  TypeOK'
  <1>1. UartType /\ InType /\ OutType /\ OtherType
    BY TypeParts
  <1>2. CASE Type
    <2>1. typed' \in 0 .. MaxKeys /\ typed' \in Keys
      BY <1>1, <1>2, Constants DEF Type, OtherType, Keys
    <2>2. UartType' /\ InType' /\ OutType' /\ OtherType'
      BY <1>1, <1>2, <2>1
         DEF Type, UartType, InType, OutType, OtherType, inVars, courVars, outVars
    <2> QED BY <2>2, TypeParts
  <1>3. CASE Transmit
    <2>1. thr \in Bytes /\ screen \in Seq(Bytes)
      BY <1>1, <1>3 DEF Transmit, UartType
    <2>2. screen' \in Seq(Bytes)
      BY <1>3, <2>1, AppendProperties DEF Transmit
    <2>3. UartType' /\ InType' /\ OutType' /\ OtherType'
      BY <1>1, <1>3, <2>2
         DEF Transmit, UartType, InType, OutType, OtherType, inVars, courVars, outVars, ghostVars
    <2> QED BY <2>3, TypeParts
  <1>4. CASE RecvInterrupt
    <2>1. rhr \in Keys /\ taken \in Seq(Keys)
      BY <1>1, <1>4 DEF RecvInterrupt, RecvPending, UartType, OtherType
    <2>2. taken' \in Seq(Keys)
      BY <1>4, <2>1, AppendProperties DEF RecvInterrupt
    <2>3. rhr' = None /\ UNCHANGED <<thr, screen, tien, inBox, inPc, inReq, courierTid, taskBuffer,
                                     charBuffer, courVars, outVars, client, typed, calls, given,
                                     accepted, lost>>
      BY <1>4 DEF RecvInterrupt
    <2>4. /\ inNotifier' \in {"arm", "await", "woken", "sent"} /\ inChar' \in Keys \cup {None}
          /\ rien' \in BOOLEAN
      BY <1>1, <1>4, <2>1 DEF RecvInterrupt, InType, UartType
    <2>5. UartType' /\ InType'
      BY <1>1, <2>3, <2>4 DEF UartType, InType, courVars
    <2>6. OutType' /\ OtherType'
      BY <1>1, <2>2, <2>3 DEF OutType, OtherType, outVars
    <2> QED BY <2>5, <2>6, TypeParts
  <1>5. CASE XmitInterrupt
    <2>1. /\ tien' = FALSE /\ outNotifier' \in {"arm", "await", "woken", "sent"}
          /\ UNCHANGED <<rhr, rien, thr, screen, inVars, courVars, outBox, outPc, outReq, sendAddr,
                         outBuffer, client, ghostVars>>
      BY <1>1, <1>5 DEF XmitInterrupt, OutType
    <2> tien' \in BOOLEAN /\ UNCHANGED <<rhr, rien, thr, screen>>
      BY <2>1
    <2>2. UartType'
      BY <1>1, ZenonT(40) DEF UartType
    <2>3. InType'
      BY <1>1, <2>1, ZenonT(40) DEF InType, inVars, courVars
    <2>4. OutType' /\ OtherType'
      BY <1>1, <2>1 DEF OutType, OtherType, ghostVars
    <2> QED BY <2>2, <2>3, <2>4, TypeParts
  <1> QED BY <1>2, <1>3, <1>4, <1>5

LEMMA UrgentKeepsType ==
    ASSUME TypeOK, Urgent
    PROVE  TypeOK'
  <1>1. UartType /\ InType /\ OutType /\ OtherType
    BY TypeParts
  <1>2. inBox' \in Seq(InMsgs) /\ outBox' \in Seq(OutMsgs)
    <2>1. /\ Notification(inChar) \in InMsgs /\ Notification(None) \in OutMsgs
          /\ Echo \in InMsgs /\ PutChar(sendReq) \in OutMsgs
          /\ inBox \in Seq(InMsgs) /\ outBox \in Seq(OutMsgs)
      BY <1>1, MessagesAre DEF InType, OutType
    <2>2. \A m \in InMsgs : Append(inBox, m) \in Seq(InMsgs)
      BY <2>1, AppendProperties
    <2>3. \A m \in OutMsgs : Append(outBox, m) \in Seq(OutMsgs)
      BY <2>1, AppendProperties
    <2> QED BY <2>1, <2>2, <2>3 DEF Urgent, InNotifier, OutNotifier, Courier, inVars, outVars
  <1>3. UNCHANGED <<rhr, thr, screen, inChar, inPc, inReq, courierTid, taskBuffer, charBuffer,
                    sendReq, outPc, outReq, sendAddr, outBuffer, client, ghostVars>>
    BY DEF Urgent, InNotifier, OutNotifier, Courier, uartVars, courVars, inVars, outVars
  <1>4. rien' \in BOOLEAN /\ tien' \in BOOLEAN
    BY <1>1 DEF Urgent, InNotifier, OutNotifier, Courier, uartVars, UartType, Enabled
  <1>5. /\ inNotifier' \in {"arm", "await", "woken", "sent"}
        /\ outNotifier' \in {"arm", "await", "woken", "sent"}
        /\ courier' \in {"ask", "asked", "put", "sent"}
    BY <1>1 DEF Urgent, InNotifier, OutNotifier, Courier, inVars, outVars, courVars, InType, OutType
  <1>6. UartType' /\ InType' /\ OutType' /\ OtherType'
    BY <1>1, <1>2, <1>3, <1>4, <1>5 DEF UartType, InType, OutType, OtherType, ghostVars
  <1> QED BY <1>6, TypeParts

(* A message taken from a server's queue. *)
LEMMA InReceived ==
    ASSUME TypeOK, NEW type, InReceives(type)
    PROVE  /\ inBox \in Seq(InMsgs) /\ inBox # <<>> /\ inBox' = Tail(inBox)
           /\ Head(inBox) \in InMsgs /\ Head(inBox).type = type /\ Tail(inBox) \in Seq(InMsgs)
  <1>1. inBox \in Seq(InMsgs) /\ inBox # <<>>
    BY TypeParts DEF InType, InReceives
  <1> QED BY <1>1, HeadTail DEF InReceives

LEMMA OutReceived ==
    ASSUME TypeOK, NEW type, OutReceives(type)
    PROVE  /\ outBox \in Seq(OutMsgs) /\ outBox # <<>> /\ outBox' = Tail(outBox)
           /\ Head(outBox) \in OutMsgs /\ Head(outBox).type = type /\ Tail(outBox) \in Seq(OutMsgs)
  <1>1. outBox \in Seq(OutMsgs) /\ outBox # <<>>
    BY TypeParts DEF OutType, OutReceives
  <1> QED BY <1>1, HeadTail DEF OutReceives

(* A buffer of which the first element is taken. *)
LEMMA Shorter ==
    ASSUME NEW S, NEW b \in Seq(S), b # <<>>, Len(b) < Size
    PROVE  Tail(b) \in Seq(S) /\ Len(Tail(b)) < Size
  <1>1. PICK t \in Seq(S) : t = Tail(b)
    BY HeadTail
  <1>2. PICK n : n = Len(t)
    OBVIOUS
  <1>3. n = Len(b) - 1 /\ Len(b) \in Nat
    BY <1>1, <1>2, HeadTail
  <1>4. n < Size
    BY <1>3, Constants
  <1> QED BY <1>1, <1>2, <1>4

LEMMA KeyInHand ==
    ASSUME TypeOK, Line, inPc # "receive"
    PROVE  inReq \in Keys
  <1>1. inReq \in Keys \cup {None}
    BY TypeParts DEF InType
  <1> QED BY <1>1 DEF Line

(* What the message a server has received says. *)
LEMMA InMessage ==
    ASSUME TypeOK, Mail, inBox # <<>>
    PROVE  InMail(Head(inBox))
  <1>1. inBox \in Seq(InMsgs)
    BY TypeParts DEF InType
  <1>2. Head(inBox) \in Items(inBox)
    BY <1>1, BoxTail
  <1> QED BY <1>2 DEF Mail

LEMMA OutMessage ==
    ASSUME TypeOK, Mail, outBox # <<>>
    PROVE  OutMail(Head(outBox))
  <1>1. outBox \in Seq(OutMsgs)
    BY TypeParts DEF OutType
  <1>2. Head(outBox) \in Items(outBox)
    BY <1>1, BoxTail
  <1> QED BY <1>2 DEF Mail

LEMMA InServerKeepsType ==
    ASSUME TypeOK, Line, Mail, InServer
    PROVE  TypeOK'
  <1>1. UartType /\ InType /\ OutType /\ OtherType
    BY TypeParts
  <1>2. CASE NotificationReply
    <2>1. inBox' \in Seq(InMsgs) /\ inReq' \in Keys \cup {None}
      BY <1>2, InReceived, MessagesAre DEF NotificationReply
    <2>2. /\ inNotifier' = "arm" /\ inPc' = "echo"
          /\ UNCHANGED <<uartVars, inChar, courierTid, taskBuffer, charBuffer, courVars, outVars,
                         client, ghostVars>>
      BY <1>2 DEF NotificationReply
    <2>3. UartType' /\ InType'
      BY <1>1, <2>1, <2>2 DEF UartType, InType, uartVars, courVars
    <2>4. OutType' /\ OtherType'
      BY <1>1, <2>2 DEF OutType, OtherType, outVars, ghostVars
    <2> QED BY <2>3, <2>4, TypeParts
  <1>3. CASE EchoReply
    <2>1. /\ inPc' = "give" /\ courier' \in {"ask", "asked", "put", "sent"}
          /\ sendReq' \in Keys \cup {None} /\ courierTid' \in BOOLEAN
      BY <1>1, <1>3 DEF EchoReply, InType, courVars
    <2>2. UNCHANGED <<uartVars, inNotifier, inChar, inBox, inReq, taskBuffer, charBuffer, outVars,
                      client, ghostVars>>
      BY <1>3 DEF EchoReply
    <2>3. UartType' /\ InType'
      BY <1>1, <2>1, <2>2 DEF UartType, InType, uartVars
    <2>4. OutType' /\ OtherType'
      BY <1>1, <2>2 DEF OutType, OtherType, outVars, ghostVars
    <2> QED BY <2>3, <2>4, TypeParts
  <1>4. CASE Give
    <2>1. inReq \in Keys
      BY <1>4, KeyInHand DEF Give
    <2>2. /\ charBuffer' \in Seq(Keys) /\ Len(charBuffer') < Size
          /\ taskBuffer' \in Seq(Callers) /\ given' \in Seq(Callers \X Keys)
          /\ client' \in [Callers \cup Writers -> {"running", "waits"}] /\ lost' \in BOOLEAN
      <3>1. charBuffer \in Seq(Keys) /\ Len(charBuffer) < Size /\ taskBuffer \in Seq(Callers)
            /\ given \in Seq(Callers \X Keys) /\ lost \in BOOLEAN
            /\ client \in [Callers \cup Writers -> {"running", "waits"}]
        BY <1>1 DEF InType, OtherType
      <3>2. CASE taskBuffer = <<>>
        <4>1. Pushed(charBuffer, Size, inReq) \in Seq(Keys) /\ Len(Pushed(charBuffer, Size, inReq)) < Size
          BY <2>1, <3>1, Constants, PushedEffect
        <4>2. /\ charBuffer' = Pushed(charBuffer, Size, inReq) /\ lost' \in BOOLEAN
              /\ UNCHANGED <<taskBuffer, client, given>>
          BY <1>4, <3>2 DEF Give
        <4> QED BY <3>1, <4>1, <4>2
      <3>3. CASE taskBuffer # <<>>
        <4>1. PICK t \in Callers : t = Head(taskBuffer)
          BY <3>1, <3>3, HeadTail
        <4>2. Tail(taskBuffer) \in Seq(Callers)
          BY <3>1, <3>3, HeadTail
        <4>3. Append(given, <<t, inReq>>) \in Seq(Callers \X Keys)
          BY <2>1, <3>1, AppendProperties
        <4>4. /\ taskBuffer' = Tail(taskBuffer) /\ given' = Append(given, <<t, inReq>>)
              /\ client' = [client EXCEPT ![t] = "running"] /\ UNCHANGED <<charBuffer, lost>>
          BY <1>4, <3>3, <4>1 DEF Give
        <4>5. client' \in [Callers \cup Writers -> {"running", "waits"}]
          BY <3>1, <4>4
        <4> QED BY <3>1, <4>2, <4>3, <4>4, <4>5
      <3> QED BY <3>2, <3>3
    <2>3. /\ inPc' = "receive" /\ inReq' = None
          /\ UNCHANGED <<uartVars, inNotifier, inChar, inBox, courierTid, courVars, outVars, typed,
                         calls, taken, accepted>>
      BY <1>4 DEF Give
    <2>4. UartType' /\ InType'
      BY <1>1, <2>2, <2>3 DEF UartType, InType, uartVars, courVars
    <2>5. OutType' /\ OtherType'
      BY <1>1, <2>2, <2>3 DEF OutType, OtherType, outVars
    <2> QED BY <2>4, <2>5, TypeParts
  <1>5. CASE GetCharServed
    <2>1. inBox' \in Seq(InMsgs) /\ inBox # <<>> /\ Head(inBox).type = "getchar"
      BY <1>5, InReceived DEF GetCharServed
    <2>2. PICK t \in Callers : t = Head(inBox).tid
      BY <2>1, InMessage DEF InMail
    <2>3. /\ UNCHANGED <<uartVars, inNotifier, inChar, inPc, inReq, courierTid, courVars, outVars,
                         typed, calls, taken, accepted, lost>>
          /\ IF charBuffer = <<>>
               THEN taskBuffer' = Queued(t) /\ UNCHANGED <<charBuffer, client, given>>
               ELSE /\ charBuffer' = Tail(charBuffer)
                    /\ client' = [client EXCEPT ![t] = "running"]
                    /\ given' = Append(given, <<t, Head(charBuffer)>>)
                    /\ UNCHANGED taskBuffer
      BY <1>5, <2>2 DEF GetCharServed
    <2>4. charBuffer \in Seq(Keys) /\ Len(charBuffer) < Size /\ taskBuffer \in Seq(Callers)
          /\ given \in Seq(Callers \X Keys)
          /\ client \in [Callers \cup Writers -> {"running", "waits"}]
      BY <1>1 DEF InType, OtherType
    <2>5. /\ charBuffer' \in Seq(Keys) /\ Len(charBuffer') < Size
          /\ taskBuffer' \in Seq(Callers) /\ given' \in Seq(Callers \X Keys)
          /\ client' \in [Callers \cup Writers -> {"running", "waits"}]
      <3>1. CASE charBuffer = <<>>
        <4>1. Queued(t) \in Seq(Callers)
          BY <2>4, AppendProperties DEF Queued
        <4> QED BY <2>3, <2>4, <3>1, <4>1
      <3>2. CASE charBuffer # <<>>
        <4>1. PICK k \in Keys : k = Head(charBuffer)
          BY <2>4, <3>2, HeadTail
        <4>2. Append(given, <<t, k>>) \in Seq(Callers \X Keys)
          BY <2>4, AppendProperties
        <4>3. Tail(charBuffer) \in Seq(Keys) /\ Len(Tail(charBuffer)) < Size
          BY <2>4, <3>2, Shorter
        <4>4. client' = [client EXCEPT ![t] = "running"]
          BY <2>3, <3>2
        <4>5. client' \in [Callers \cup Writers -> {"running", "waits"}]
          BY <2>4, <4>4
        <4> QED BY <2>3, <2>4, <3>2, <4>1, <4>2, <4>3, <4>5
      <3> QED BY <3>1, <3>2
    <2>6. UartType' /\ InType'
      BY <1>1, <2>1, <2>3, <2>5 DEF UartType, InType, uartVars, courVars
    <2>7. OutType' /\ OtherType'
      BY <1>1, <2>3, <2>5 DEF OutType, OtherType, outVars
    <2> QED BY <2>6, <2>7, TypeParts
  <1>6. CASE EchoAsked
    <2>1. inBox' \in Seq(InMsgs)
      BY <1>6, InReceived DEF EchoAsked
    <2>2. /\ courierTid' = TRUE
          /\ UNCHANGED <<uartVars, inNotifier, inChar, inPc, inReq, taskBuffer, charBuffer, courVars,
                         outVars, client, ghostVars>>
      BY <1>6 DEF EchoAsked
    <2>3. UartType' /\ InType'
      BY <1>1, <2>1, <2>2 DEF UartType, InType, uartVars, courVars
    <2>4. OutType' /\ OtherType'
      BY <1>1, <2>2 DEF OutType, OtherType, outVars, ghostVars
    <2> QED BY <2>3, <2>4, TypeParts
  <1> QED BY <1>2, <1>3, <1>4, <1>5, <1>6 DEF InServer

(* What the output server does with what it has: the bytes of the call go  *)
(* behind the others, and the first of all goes to the UART if it waits.   *)
Serves(s, b) ==
    /\ accepted' = accepted \o s /\ lost' \in BOOLEAN
    /\ lost' \/ (b = outBuffer \o s /\ lost' = lost)
    /\ Len(b) < Size
    /\ \/ /\ UNCHANGED <<uartVars, outNotifier>> /\ outBuffer' = b
          /\ sendAddr' = FALSE \/ (sendAddr' = TRUE /\ b = <<>> /\ outNotifier = "sent")
       \/ /\ outNotifier = "sent" /\ b # <<>> /\ Write(Head(b)) /\ outBuffer' = Tail(b)
          /\ sendAddr' = FALSE

LEMMA Overflow ==
    ASSUME NEW n \in Nat, lost \in BOOLEAN, lost' = (lost \/ n >= Size)
    PROVE  lost' \in BOOLEAN /\ (lost' \/ (n < Size /\ lost' = lost))
  <1>1. CASE n >= Size
    BY <1>1, Zenon
  <1>2. CASE ~(n >= Size)
    <2>1. n < Size
      BY <1>2, Constants
    <2>2. lost' = lost
      BY <1>2, Zenon
    <2> QED BY <2>1, <2>2, Zenon
  <1> QED BY <1>1, <1>2

LEMMA OutNotifiedServes ==
    ASSUME TypeOK, Line, Mail, OutNotified
    PROVE  Serves(<<>>, outBuffer)
  <1>1. /\ accepted \in Seq(Bytes) /\ outBuffer \in Seq(Bytes) /\ Len(outBuffer) < Size
        /\ lost \in BOOLEAN /\ sendAddr \in BOOLEAN
    BY TypeParts DEF OtherType, OutType
  <1>2. accepted \o <<>> = accepted /\ outBuffer \o <<>> = outBuffer
    BY <1>1, ConcatEmptySeq
  <1>3. outNotifier = "sent" /\ sendAddr = FALSE
    BY <1>1, OutReceived, OutMessage DEF OutMail, OutNotified
  <1>4. UNCHANGED ghostVars
    BY DEF OutNotified
  <1>5. accepted' = accepted \o <<>> /\ lost' = lost
    BY <1>2, <1>4 DEF ghostVars
  <1>6. IF outBuffer = <<>>
          THEN sendAddr' = TRUE /\ UNCHANGED <<outBuffer, uartVars, outNotifier>>
          ELSE Write(Head(outBuffer)) /\ outBuffer' = Tail(outBuffer) /\ UNCHANGED sendAddr
    BY DEF OutNotified
  <1> QED BY <1>1, <1>2, <1>3, <1>5, <1>6 DEF Serves

LEMMA PutCharServes ==
    ASSUME TypeOK, Line, Mail, Numbered, PutCharServed
    PROVE  /\ sendReq \in Keys /\ <<sendReq>> \in Seq(Bytes) /\ courier = "sent"
           /\ \E b \in Seq(Bytes) : Serves(<<sendReq>>, b)
  <1>1. /\ accepted \in Seq(Bytes) /\ outBuffer \in Seq(Bytes) /\ Len(outBuffer) < Size
        /\ lost \in BOOLEAN /\ sendAddr \in BOOLEAN /\ sendReq \in Keys \cup {None}
    BY TypeParts DEF OtherType, OutType, InType
  <1>2. PICK k : k = Head(outBox).data
    OBVIOUS
  <1>3. courier = "sent" /\ k = sendReq
    BY <1>2, OutReceived, OutMessage DEF OutMail, PutCharServed
  <1>4. k \in Keys /\ k \in Bytes
    <2>1. k # 0
      BY <1>3 DEF Numbered
    <2> QED BY <1>1, <1>3, <2>1, Constants
  <1>5. PICK s \in Seq(Bytes) : s = <<k>> /\ Len(s) = 1 /\ Head(s) = k /\ Tail(s) = <<>> /\ s # <<>>
    <2>1. <<k>> \in Seq(Bytes) /\ Len(<<k>>) = 1 /\ Head(<<k>>) = k /\ <<k>> # <<>>
      BY <1>4
    <2>2. Tail(<<k>>) = <<>>
      OBVIOUS
    <2> QED BY <2>1, <2>2
  <1>6. /\ accepted' = accepted \o s
        /\ lost' = (lost \/ Len(outBuffer) + 1 >= Size)
    BY <1>2, <1>5 DEF PutCharServed, Accepts
  <1>7. IF sendAddr
          THEN Write(k) /\ sendAddr' = FALSE /\ UNCHANGED outBuffer
          ELSE outBuffer' = Pushed(outBuffer, Size, k) /\ UNCHANGED <<sendAddr, uartVars, outNotifier>>
    BY <1>2 DEF PutCharServed, SendAddrReset
  <1>10. Len(outBuffer) + 1 \in Nat
    BY <1>1
  <1>8. CASE sendAddr
    <2>1. outNotifier = "sent" /\ outBuffer = <<>>
      BY <1>8 DEF Line
    <2>2. Len(outBuffer) + 1 < Size /\ Len(s) < Size
      BY <1>5, <2>1, Constants
    <2>3. lost' = lost /\ s = outBuffer \o s
      <3>1. ~(Len(outBuffer) + 1 >= Size)
        BY <2>2, Constants, <1>10
      <3>2. lost' = lost
        BY <1>1, <1>6, <3>1, Zenon
      <3>3. <<>> \o s = s
        BY <1>5, ConcatEmptySeq
      <3> QED BY <2>1, <3>2, <3>3
    <2>4. Write(Head(s)) /\ sendAddr' = FALSE /\ outBuffer' = Tail(s)
      BY <1>5, <1>7, <1>8, <2>1
    <2>5. Serves(s, s)
      BY <1>1, <1>5, <1>6, <2>1, <2>2, <2>3, <2>4 DEF Serves
    <2> QED BY <1>3, <1>4, <1>5, <2>5
  <1>9. CASE ~sendAddr
    <2>1. PICK b : b = Pushed(outBuffer, Size, k)
      OBVIOUS
    <2>2. b \in Seq(Bytes) /\ Len(b) < Size /\ (Len(outBuffer) + 1 < Size => b = outBuffer \o s)
      BY <1>1, <1>4, <1>5, <2>1, Constants, PushedEffect
    <2>3. lost' \in BOOLEAN /\ (lost' \/ (Len(outBuffer) + 1 < Size /\ lost' = lost))
      BY <1>1, <1>6, <1>10, Overflow
    <2>4. UNCHANGED <<uartVars, outNotifier>> /\ outBuffer' = b /\ sendAddr' = FALSE
      BY <1>1, <1>7, <1>9, <2>1
    <2>5. Serves(s, b)
      BY <1>6, <2>2, <2>3, <2>4 DEF Serves
    <2> QED BY <1>3, <1>4, <1>5, <2>2, <2>5
  <1> QED BY <1>8, <1>9

LEMMA PutStrServes ==
    ASSUME TypeOK, Line, Mail, PutStr
    PROVE  \E b \in Seq(Bytes) : Serves(Text, b)
  <1>1. /\ outBuffer \in Seq(Bytes) /\ Len(outBuffer) < Size
        /\ lost \in BOOLEAN /\ sendAddr \in BOOLEAN
    BY TypeParts DEF OtherType, OutType
  <1>2. PICK b : b = PushedAll(outBuffer, Size, Text)
    OBVIOUS
  <1>3. /\ b \in Seq(Bytes) /\ Len(b) < Size
        /\ Len(outBuffer) + Len(Text) < Size => b = outBuffer \o Text
    BY <1>1, <1>2, Constants, PushedAllEffect
  <1>4. accepted' = accepted \o Text /\ lost' = (lost \/ Len(outBuffer) + Len(Text) >= Size)
    BY DEF PutStr, Accepts
  <1>5. lost' \in BOOLEAN /\ (lost' \/ (Len(outBuffer) + Len(Text) < Size /\ lost' = lost))
    <2>1. PICK n \in Nat : n = Len(outBuffer) + Len(Text)
      BY <1>1, Constants
    <2> QED BY <1>1, <1>4, <2>1, Overflow
  <1>6. IF b # <<>> /\ sendAddr
          THEN Write(Head(b)) /\ outBuffer' = Tail(b) /\ sendAddr' = FALSE
          ELSE outBuffer' = b /\ UNCHANGED <<sendAddr, uartVars, outNotifier>>
    BY <1>2 DEF PutStr, SendAddrReset
  <1>7. sendAddr => outNotifier = "sent"
    BY DEF Line
  <1> QED BY <1>1, <1>3, <1>4, <1>5, <1>6, <1>7 DEF Serves

LEMMA ServesKeepsType ==
    ASSUME TypeOK, NEW s \in Seq(Bytes), NEW b \in Seq(Bytes), Serves(s, b)
    PROVE  /\ UartType' /\ UNCHANGED <<rhr, rien, tien, screen>>
           /\ outBuffer' \in Seq(Bytes) /\ Len(outBuffer') < Size /\ sendAddr' \in BOOLEAN
           /\ accepted' \in Seq(Bytes) /\ lost' \in BOOLEAN
           /\ outNotifier' \in {"arm", "await", "woken", "sent"}
  <1>1. UartType /\ OutType /\ OtherType
    BY TypeParts
  <1>2. accepted' \in Seq(Bytes) /\ lost' \in BOOLEAN
    BY <1>1, ConcatProperties DEF Serves, OtherType
  <1>3. Len(b) < Size
    BY DEF Serves
  <1>4. CASE /\ UNCHANGED <<uartVars, outNotifier>> /\ outBuffer' = b
             /\ sendAddr' = FALSE \/ (sendAddr' = TRUE /\ b = <<>> /\ outNotifier = "sent")
    BY <1>1, <1>2, <1>3, <1>4 DEF UartType, OutType, uartVars
  <1>5. CASE /\ outNotifier = "sent" /\ b # <<>> /\ Write(Head(b)) /\ outBuffer' = Tail(b)
             /\ sendAddr' = FALSE
    <2>1. Head(b) \in Bytes /\ Tail(b) \in Seq(Bytes) /\ Len(Tail(b)) < Size
      BY <1>3, <1>5, HeadTail, Shorter
    <2> QED BY <1>1, <1>2, <1>5, <2>1 DEF UartType, OutType, Write
  <1> QED BY <1>4, <1>5 DEF Serves

LEMMA OutServerKeepsType ==
    ASSUME TypeOK, Line, Mail, Numbered, OutServer
    PROVE  TypeOK'
  <1>1. UartType /\ InType /\ OutType /\ OtherType
    BY TypeParts
  <1>2. CASE OutNotified
    <2>1. outBuffer \in Seq(Bytes) /\ <<>> \in Seq(Bytes) /\ Serves(<<>>, outBuffer)
      BY <1>1, <1>2, OutNotifiedServes, EmptySeq DEF OutType
    <2>2. outBox' \in Seq(OutMsgs)
      BY <1>2, OutReceived DEF OutNotified
    <2>3. UNCHANGED <<inVars, courVars, outPc, outReq, client, ghostVars>>
      BY <1>2 DEF OutNotified
    <2>4. UartType' /\ OutType'
      BY <1>1, <2>1, <2>2, <2>3, ServesKeepsType DEF OutType
    <2>5. InType' /\ OtherType'
      BY <1>1, <2>3 DEF InType, OtherType, inVars, courVars, ghostVars
    <2> QED BY <2>4, <2>5, TypeParts
  <1>3. CASE PutCharServed
    <2>1. PICK b \in Seq(Bytes) : Serves(<<sendReq>>, b)
      BY <1>3, PutCharServes
    <2>2. <<sendReq>> \in Seq(Bytes)
      BY <1>3, PutCharServes
    <2>3. outBox' \in Seq(OutMsgs)
      BY <1>3, OutReceived DEF PutCharServed
    <2>4. /\ courier' = "ask"
          /\ UNCHANGED <<inVars, sendReq, outPc, outReq, client, typed, calls, taken, given>>
      BY <1>3 DEF PutCharServed, Accepts
    <2>5. UartType' /\ OutType'
      BY <1>1, <2>1, <2>2, <2>3, <2>4, ServesKeepsType DEF OutType
    <2>6. InType'
      BY <1>1, <2>4 DEF InType, inVars
    <2>7. OtherType'
      BY <1>1, <2>1, <2>2, <2>4, ServesKeepsType DEF OtherType
    <2> QED BY <2>5, <2>6, <2>7, TypeParts
  <1>4. CASE PutStrReply
    <2>1. outBox' \in Seq(OutMsgs) /\ outBox # <<>> /\ Head(outBox).type = "putstr"
      BY <1>4, OutReceived DEF PutStrReply
    <2>2. PICK t \in Writers : t = Head(outBox).tid
      BY <2>1, OutMessage DEF OutMail
    <2>3. /\ outReq' = t /\ client' = [client EXCEPT ![t] = "running"] /\ outPc' = "push"
          /\ UNCHANGED <<uartVars, inVars, courVars, outNotifier, sendAddr, outBuffer, ghostVars>>
      BY <1>4, <2>2 DEF PutStrReply
    <2>4. client' \in [Callers \cup Writers -> {"running", "waits"}]
      BY <1>1, <2>3 DEF OtherType
    <2>5. UartType' /\ InType'
      BY <1>1, <2>3 DEF UartType, InType, uartVars, inVars, courVars
    <2>6. OutType' /\ OtherType'
      BY <1>1, <2>1, <2>3, <2>4 DEF OutType, OtherType, ghostVars
    <2> QED BY <2>5, <2>6, TypeParts
  <1>5. CASE PutStr
    <2>1. PICK b \in Seq(Bytes) : Serves(Text, b)
      BY <1>5, PutStrServes
    <2>2. Text \in Seq(Bytes)
      BY Constants
    <2>3. /\ outPc' = "receive" /\ outReq' = None
          /\ UNCHANGED <<inVars, courVars, outBox, client, typed, calls, taken, given>>
      BY <1>5 DEF PutStr, Accepts
    <2>4. UartType' /\ OutType'
      BY <1>1, <2>1, <2>2, <2>3, ServesKeepsType DEF OutType
    <2>5. InType'
      BY <1>1, <2>3 DEF InType, inVars, courVars
    <2>6. OtherType'
      BY <1>1, <2>1, <2>2, <2>3, ServesKeepsType DEF OtherType
    <2> QED BY <2>4, <2>5, <2>6, TypeParts
  <1> QED BY <1>2, <1>3, <1>4, <1>5 DEF OutServer

LEMMA ClientsKeepType ==
    ASSUME TypeOK, (\E t \in Callers : Getc(t)) \/ (\E t \in Writers : Puts(t))
    PROVE  TypeOK'
  <1>1. UartType /\ InType /\ OutType /\ OtherType
    BY TypeParts
  <1>2. ASSUME NEW t \in Callers, Getc(t)
        PROVE  TypeOK'
    <2>1. inBox \in Seq(InMsgs) /\ calls \in Seq(Callers) /\ GetChar(t) \in InMsgs
          /\ client \in [Callers \cup Writers -> {"running", "waits"}]
      BY <1>1, MessagesAre DEF InType, OtherType
    <2>2. inBox' \in Seq(InMsgs) /\ calls' \in Seq(Callers)
      BY <1>2, <2>1, AppendProperties DEF Getc
    <2>3. client' \in [Callers \cup Writers -> {"running", "waits"}]
      BY <1>2, <2>1 DEF Getc
    <2>4. UNCHANGED <<uartVars, inNotifier, inChar, inPc, inReq, courierTid, taskBuffer, charBuffer,
                      courVars, outVars, typed, taken, given, accepted, lost>>
      BY <1>2 DEF Getc
    <2>5. UartType' /\ InType'
      BY <1>1, <2>2, <2>4 DEF UartType, InType, uartVars, courVars
    <2>6. OutType' /\ OtherType'
      BY <1>1, <2>2, <2>3, <2>4 DEF OutType, OtherType, outVars
    <2> QED BY <2>5, <2>6, TypeParts
  <1>3. ASSUME NEW t \in Writers, Puts(t)
        PROVE  TypeOK'
    <2>1. outBox \in Seq(OutMsgs) /\ PutString(t) \in OutMsgs
          /\ client \in [Callers \cup Writers -> {"running", "waits"}]
      BY <1>1, MessagesAre DEF OutType, OtherType
    <2>2. outBox' \in Seq(OutMsgs)
      BY <1>3, <2>1, AppendProperties DEF Puts
    <2>3. client' \in [Callers \cup Writers -> {"running", "waits"}]
      BY <1>3, <2>1 DEF Puts
    <2>4. UNCHANGED <<uartVars, inVars, courVars, outNotifier, outPc, outReq, sendAddr, outBuffer,
                      ghostVars>>
      BY <1>3 DEF Puts
    <2>5. UartType' /\ InType'
      BY <1>1, <2>4 DEF UartType, InType, uartVars, inVars, courVars
    <2>6. OutType' /\ OtherType'
      BY <1>1, <2>2, <2>3, <2>4 DEF OutType, OtherType, ghostVars
    <2> QED BY <2>5, <2>6, TypeParts
  <1> QED BY <1>2, <1>3
-----------------------------------------------------------------------------
(* Line. *)

lineVars == <<rien, tien, inNotifier, outNotifier, thr, sendAddr, outBuffer, inReq, inPc>>

LEMMA LineKept ==
    ASSUME Line, UNCHANGED lineVars
    PROVE  Line'
  BY DEF Line, lineVars

LEMMA ServesKeepsLine ==
    ASSUME TypeOK, Line, NEW s, NEW b \in Seq(Bytes), Serves(s, b),
           UNCHANGED <<inNotifier, inReq, inPc>>
    PROVE  Line'
  <1>1. CASE /\ UNCHANGED <<uartVars, outNotifier>> /\ outBuffer' = b
             /\ sendAddr' = FALSE \/ (sendAddr' = TRUE /\ b = <<>> /\ outNotifier = "sent")
    BY <1>1 DEF Line, uartVars
  <1>2. CASE /\ outNotifier = "sent" /\ Write(Head(b)) /\ sendAddr' = FALSE
    BY <1>2 DEF Line, Write
  <1> QED BY <1>1, <1>2 DEF Serves

LEMMA NextKeepsLine ==
    ASSUME TypeOK, Line, Mail, Numbered, [Next]_vars
    PROVE  Line'
  <1>1. UartType /\ InType /\ OutType
    BY TypeParts
  <1>2. CASE Type
    <2>1. UNCHANGED lineVars
      BY <1>2 DEF Type, lineVars, inVars, outVars
    <2> QED BY <2>1, LineKept
  <1>3. CASE Transmit
    BY <1>3 DEF Line, Transmit, inVars, outVars
  <1>4. CASE RecvInterrupt
    <2>1. inNotifier = "await" /\ inNotifier' = "woken" /\ rien' = FALSE
      BY <1>4 DEF RecvInterrupt, RecvPending, Line
    <2>2. UNCHANGED <<tien, outNotifier, thr, sendAddr, outBuffer, inReq, inPc>>
      BY <1>4 DEF RecvInterrupt, outVars
    <2> QED BY <2>1, <2>2 DEF Line
  <1>5. CASE XmitInterrupt
    <2>1. outNotifier = "await" /\ outNotifier' = "woken" /\ tien' = FALSE /\ thr = None
      BY <1>5 DEF XmitInterrupt, XmitPending, Line
    <2>2. UNCHANGED <<rien, inNotifier, thr, sendAddr, outBuffer, inReq, inPc>>
      BY <1>5 DEF XmitInterrupt, inVars
    <2> QED BY <2>1, <2>2 DEF Line
  <1>6. CASE InNotifier
    <2>1. UNCHANGED <<tien, outNotifier, thr, sendAddr, outBuffer, inReq, inPc>>
      BY <1>6 DEF InNotifier, outVars
    <2>2. \/ inNotifier' = "await" /\ rien' = TRUE
          \/ inNotifier = "woken" /\ inNotifier' = "sent" /\ UNCHANGED rien
      BY <1>6 DEF InNotifier, Enabled
    <2> QED BY <2>1, <2>2 DEF Line
  <1>7. CASE OutNotifier
    <2>1. UNCHANGED <<rien, inNotifier, thr, sendAddr, outBuffer, inReq, inPc>>
      BY <1>7 DEF OutNotifier, inVars
    <2>2. \/ outNotifier = "arm" /\ outNotifier' = "await" /\ tien' = TRUE
          \/ outNotifier = "woken" /\ outNotifier' = "sent" /\ UNCHANGED tien
      BY <1>7 DEF OutNotifier, Enabled
    <2> QED BY <2>1, <2>2 DEF Line
  <1>8. CASE Courier
    <2>1. UNCHANGED lineVars
      BY <1>8 DEF Courier, lineVars, uartVars
    <2> QED BY <2>1, LineKept
  <1>9. CASE NotificationReply
    <2>1. /\ inReq' = Head(inBox).data /\ inNotifier' = "arm" /\ inPc' = "echo"
          /\ UNCHANGED <<rien, tien, outNotifier, thr, sendAddr, outBuffer>>
      BY <1>9 DEF NotificationReply, uartVars, outVars
    <2>2. inNotifier = "sent" /\ Head(inBox).data = inChar
      BY <1>9, InReceived, InMessage DEF InMail, NotificationReply
    <2>3. inReq' # None
      BY <2>1, <2>2 DEF Numbered
    <2> QED BY <2>1, <2>2, <2>3 DEF Line
  <1>10. CASE EchoReply
    BY <1>10 DEF Line, EchoReply, uartVars, outVars
  <1>11. CASE Give
    BY <1>11 DEF Line, Give, uartVars, outVars
  <1>12. CASE GetCharServed \/ EchoAsked
    <2>1. UNCHANGED lineVars
      BY <1>12 DEF GetCharServed, EchoAsked, lineVars, uartVars, outVars
    <2> QED BY <2>1, LineKept
  <1>13. CASE OutNotified
    <2>1. outBuffer \in Seq(Bytes) /\ Serves(<<>>, outBuffer)
      BY <1>1, <1>13, OutNotifiedServes DEF OutType
    <2>2. UNCHANGED <<inNotifier, inReq, inPc>>
      BY <1>13 DEF OutNotified, inVars
    <2> QED BY <2>1, <2>2, ServesKeepsLine
  <1>14. CASE PutCharServed
    <2>1. PICK b \in Seq(Bytes) : Serves(<<sendReq>>, b)
      BY <1>14, PutCharServes
    <2>2. UNCHANGED <<inNotifier, inReq, inPc>>
      BY <1>14 DEF PutCharServed, inVars
    <2> QED BY <2>1, <2>2, ServesKeepsLine
  <1>15. CASE PutStr
    <2>1. PICK b \in Seq(Bytes) : Serves(Text, b)
      BY <1>15, PutStrServes
    <2>2. UNCHANGED <<inNotifier, inReq, inPc>>
      BY <1>15 DEF PutStr, inVars
    <2> QED BY <2>1, <2>2, ServesKeepsLine
  <1>16. CASE PutStrReply \/ (\E t \in Callers : Getc(t)) \/ (\E t \in Writers : Puts(t))
    <2>1. UNCHANGED lineVars
      BY <1>16 DEF PutStrReply, Getc, Puts, lineVars, uartVars, inVars, outVars
    <2> QED BY <2>1, LineKept
  <1>17. CASE UNCHANGED vars
    <2>1. UNCHANGED lineVars
      BY <1>17 DEF vars, lineVars, uartVars, inVars, outVars
    <2> QED BY <2>1, LineKept
  <1> QED BY <1>2, <1>3, <1>4, <1>5, <1>6, <1>7, <1>8, <1>9, <1>10, <1>11, <1>12, <1>13,
             <1>14, <1>15, <1>16, <1>17 DEF Next, Interrupt, Urgent, InServer, OutServer
-----------------------------------------------------------------------------
(* Mail: the queue of the one server, the queue of the other, the courier. *)

InMails ==
    /\ \A m \in Items(inBox) : InMail(m)
    /\ One(inBox, "notification") /\ One(inBox, "echo") /\ AsksFirst(inBox)
    /\ inNotifier = "sent" => Has(inBox, "notification")

OutMails ==
    /\ \A m \in Items(outBox) : OutMail(m)
    /\ One(outBox, "notification") /\ One(outBox, "putchar")

LEMMA MailParts ==
    /\ Mail <=> InMails /\ OutMails /\ (courierTid => courier = "asked")
    /\ InMails' /\ OutMails' /\ (courierTid' => courier' = "asked") => Mail'
  BY DEF Mail, InMails, OutMails

LEMMA InMailsKept ==
    ASSUME InMails, UNCHANGED <<inBox, inNotifier, inChar>>,
           ~Has(inBox, "echo") \/ UNCHANGED <<courier, courierTid>>
    PROVE  InMails'
  <1>1. \A m \in Items(inBox) : m.type = "echo" => UNCHANGED <<courier, courierTid>>
    BY DEF Has
  <1>2. \A m \in Items(inBox) : InMail(m)'
    BY <1>1 DEF InMails, InMail
  <1> QED BY <1>2 DEF InMails, InMail, Items, One, AsksFirst, Has

LEMMA OutMailsKept ==
    ASSUME OutMails, outBox' = outBox,
           ~Has(outBox, "notification") \/ UNCHANGED <<outNotifier, sendAddr>>,
           ~Has(outBox, "putchar") \/ UNCHANGED <<courier, sendReq>>
    PROVE  OutMails'
  <1>1. \A m \in Items(outBox) :
           /\ m.type = "notification" => UNCHANGED <<outNotifier, sendAddr>>
           /\ m.type = "putchar" => UNCHANGED <<courier, sendReq>>
    BY DEF Has
  <1>2. \A m \in Items(outBox) : OutMail(m)'
    BY <1>1 DEF OutMails, OutMail
  <1> QED BY <1>2 DEF OutMails, OutMail, Items, One

(* What is not in the queues, by who cannot have sent it. *)
LEMMA NotSent ==
    ASSUME Mail
    PROVE  /\ Has(inBox, "notification") => inNotifier = "sent"
           /\ Has(inBox, "echo") => courier = "asked" /\ ~courierTid
           /\ Has(outBox, "notification") => outNotifier = "sent" /\ ~sendAddr
           /\ Has(outBox, "putchar") => courier = "sent"
  BY DEF Mail, Has, InMail, OutMail

(* A message has been sent to the input server, or received by it. *)
LEMMA InMailsAppend ==
    ASSUME TypeOK, Mail, NEW m \in InMsgs, inBox' = Append(inBox, m), m.type # "getchar",
           InMail(m)',
           m.type = "notification" => ~Has(inBox, "notification"),
           m.type = "echo" => ~Has(inBox, "echo"),
           \A k \in Items(inBox) : InMail(k)',
           inNotifier' = "sent" => inNotifier = "sent" \/ m.type = "notification"
    PROVE  InMails' /\ Asker(inBox') = Asker(inBox)
  <1>1. inBox \in Seq(InMsgs)
    BY TypeParts DEF InType
  <1>2. PICK b : b = Append(inBox, m)
    OBVIOUS
  <1>3. /\ Items(b) = Items(inBox) \cup {m}
        /\ \A type : Has(b, type) <=> Has(inBox, type) \/ m.type = type
        /\ \A type : One(inBox, type) /\ (m.type = type => ~Has(inBox, type)) => One(b, type)
        /\ AsksFirst(inBox) /\ m.type # "getchar" => AsksFirst(b) /\ Asker(b) = Asker(inBox)
    BY <1>1, <1>2, BoxAppend
  <1>4. /\ One(b, "notification") /\ One(b, "echo") /\ AsksFirst(b)
        /\ inNotifier' = "sent" => Has(b, "notification")
    BY <1>3 DEF Mail
  <1>5. \A k \in Items(b) : InMail(k)'
    BY <1>3
  <1>6. inBox' = b
    BY <1>2
  <1> QED BY <1>3, <1>4, <1>5, <1>6 DEF InMails, InMail, Mail

LEMMA OutMailsAppend ==
    ASSUME TypeOK, Mail, NEW m \in OutMsgs, outBox' = Append(outBox, m),
           OutMail(m)',
           m.type = "notification" => ~Has(outBox, "notification"),
           m.type = "putchar" => ~Has(outBox, "putchar"),
           \A k \in Items(outBox) : OutMail(k)'
    PROVE  OutMails'
  <1>1. outBox \in Seq(OutMsgs)
    BY TypeParts DEF OutType
  <1>2. PICK b : b = Append(outBox, m)
    OBVIOUS
  <1>3. /\ Items(b) = Items(outBox) \cup {m}
        /\ \A type : One(outBox, type) /\ (m.type = type => ~Has(outBox, type)) => One(b, type)
    BY <1>1, <1>2, BoxAppend
  <1>4. One(b, "notification") /\ One(b, "putchar")
    BY <1>3 DEF Mail
  <1>5. \A k \in Items(b) : OutMail(k)'
    BY <1>3
  <1>6. outBox' = b
    BY <1>2
  <1> QED BY <1>4, <1>5, <1>6 DEF OutMails, OutMail

LEMMA InMailsTail ==
    ASSUME TypeOK, Mail, inBox # <<>>, inBox' = Tail(inBox),
           \A k \in Items(Tail(inBox)) : InMail(k)',
           inNotifier' = "sent" => Head(inBox).type # "notification" /\ inNotifier = "sent"
    PROVE  InMails' /\ Asker(inBox') = <<>>
  <1>1. inBox \in Seq(InMsgs)
    BY TypeParts DEF InType
  <1>2. PICK b : b = Tail(inBox)
    OBVIOUS
  <1>3. /\ \A type : Has(inBox, type) <=> Has(b, type) \/ Head(inBox).type = type
        /\ \A type : One(inBox, type) => One(b, type)
        /\ AsksFirst(inBox) => AsksFirst(b) /\ Asker(b) = <<>>
    BY <1>1, <1>2, BoxTail
  <1>4. /\ One(b, "notification") /\ One(b, "echo") /\ AsksFirst(b) /\ Asker(b) = <<>>
        /\ inNotifier' = "sent" => Has(b, "notification")
    BY <1>3 DEF Mail
  <1>5. inBox' = b
    BY <1>2
  <1> QED BY <1>2, <1>4, <1>5 DEF InMails, InMail

LEMMA OutMailsTail ==
    ASSUME TypeOK, Mail, outBox # <<>>, outBox' = Tail(outBox),
           \A k \in Items(Tail(outBox)) : OutMail(k)'
    PROVE  OutMails'
  <1>1. outBox \in Seq(OutMsgs)
    BY TypeParts DEF OutType
  <1>2. PICK b : b = Tail(outBox)
    OBVIOUS
  <1>3. \A type : One(outBox, type) => One(b, type)
    BY <1>1, <1>2, BoxTail
  <1>4. One(b, "notification") /\ One(b, "putchar")
    BY <1>3 DEF Mail
  <1>5. outBox' = b
    BY <1>2
  <1> QED BY <1>2, <1>4, <1>5 DEF OutMails, OutMail

(* What is left when the first message has been taken. *)
LEMMA InRest ==
    ASSUME TypeOK, Mail, inBox # <<>>
    PROVE  \A k \in Items(Tail(inBox)) :
              InMail(k) /\ (k.type \in {"notification", "echo"} => k.type # Head(inBox).type)
  <1>1. inBox \in Seq(InMsgs)
    BY TypeParts DEF InType
  <1>2. Items(Tail(inBox)) \subseteq Items(inBox)
    BY <1>1, BoxTail
  <1>3. \A type : One(inBox, type) => (Head(inBox).type = type => ~Has(Tail(inBox), type))
    BY <1>1, BoxTail
  <1>4. \A k \in Items(Tail(inBox)) : k.type = Head(inBox).type => Has(Tail(inBox), Head(inBox).type)
    BY DEF Has
  <1> QED BY <1>2, <1>3, <1>4 DEF Mail

LEMMA OutRest ==
    ASSUME TypeOK, Mail, outBox # <<>>
    PROVE  \A k \in Items(Tail(outBox)) :
              OutMail(k) /\ (k.type \in {"notification", "putchar"} => k.type # Head(outBox).type)
  <1>1. outBox \in Seq(OutMsgs)
    BY TypeParts DEF OutType
  <1>2. Items(Tail(outBox)) \subseteq Items(outBox)
    BY <1>1, BoxTail
  <1>3. \A type : One(outBox, type) => (Head(outBox).type = type => ~Has(Tail(outBox), type))
    BY <1>1, BoxTail
  <1>4. \A k \in Items(Tail(outBox)) : k.type = Head(outBox).type => Has(Tail(outBox), Head(outBox).type)
    BY DEF Has
  <1> QED BY <1>2, <1>3, <1>4 DEF Mail

LEMMA InterruptKeepsMail ==
    ASSUME TypeOK, Line, Mail, Type \/ Transmit \/ RecvInterrupt \/ XmitInterrupt \/ UNCHANGED vars
    PROVE  Mail'
  <1>1. InMails /\ OutMails /\ (courierTid => courier = "asked")
    BY MailParts
  <1>2. UNCHANGED <<inBox, courier, courierTid, outBox, sendAddr, sendReq>>
    BY DEF Type, Transmit, RecvInterrupt, XmitInterrupt, vars, inVars, courVars, outVars
  <1>3. InMails'
    <2>1. CASE RecvInterrupt
      <3>1. inNotifier = "await" /\ inNotifier' = "woken"
        BY <2>1 DEF RecvInterrupt, RecvPending, Line
      <3>2. \A m \in Items(inBox) : m.type # "notification"
        BY <1>1, <3>1 DEF InMails, InMail
      <3>3. \A m \in Items(inBox) : InMail(m)'
        BY <1>1, <1>2, <3>2 DEF InMails, InMail
      <3> QED BY <1>1, <1>2, <3>1, <3>3 DEF InMails, InMail, Items, One, AsksFirst
    <2>2. CASE ~RecvInterrupt
      <3>1. UNCHANGED <<inNotifier, inChar>>
        BY <2>2 DEF Type, Transmit, XmitInterrupt, vars, inVars
      <3> QED BY <1>1, <1>2, <3>1, InMailsKept
    <2> QED BY <2>1, <2>2
  <1>4. OutMails'
    <2>1. CASE XmitInterrupt
      <3>1. outNotifier = "await"
        BY <2>1 DEF XmitInterrupt, XmitPending, Line
      <3>2. ~Has(outBox, "notification")
        BY <3>1, NotSent
      <3> QED BY <1>1, <1>2, <3>2, OutMailsKept
    <2>2. CASE ~XmitInterrupt
      <3>1. UNCHANGED outNotifier
        BY <2>2 DEF Type, Transmit, RecvInterrupt, vars, outVars
      <3> QED BY <1>1, <1>2, <3>1, OutMailsKept
    <2> QED BY <2>1, <2>2
  <1> QED BY <1>1, <1>2, <1>3, <1>4, MailParts

LEMMA UrgentKeepsMail ==
    ASSUME TypeOK, Line, Mail, Urgent
    PROVE  Mail' /\ Asker(inBox') = Asker(inBox)
  <1>1. InMails /\ OutMails /\ (courierTid => courier = "asked")
    BY MailParts
  <1>2. CASE InNotifier
    <2>1. UNCHANGED <<inChar, courierTid, courier, sendReq, outNotifier, sendAddr, outBox>>
      BY <1>2 DEF InNotifier, courVars, outVars
    <2>2. OutMails' /\ (courierTid' => courier' = "asked")
      BY <1>1, <2>1, OutMailsKept
    <2>3. CASE inNotifier = "arm"
      <3>1. inBox' = inBox /\ inNotifier' = "await" /\ ~Has(inBox, "notification")
        BY <1>2, <2>3, NotSent DEF InNotifier
      <3>2. \A m \in Items(inBox) : InMail(m)'
        BY <1>1, <2>1, <3>1 DEF InMails, InMail, Has
      <3>3. InMails'
        BY <1>1, <3>1, <3>2 DEF InMails, InMail, Items, One, AsksFirst
      <3> QED BY <2>2, <3>1, <3>3, MailParts
    <2>4. CASE inNotifier # "arm"
      <3>1. PICK m : m = Notification(inChar)
        OBVIOUS
      <3>2. inNotifier = "woken" /\ inNotifier' = "sent" /\ inBox' = Append(inBox, m)
        BY <1>2, <2>4, <3>1 DEF InNotifier
      <3>3. m \in InMsgs /\ m.type = "notification" /\ m.data = inChar
        <4>1. inChar \in Keys \cup {None}
          BY TypeParts DEF InType
        <4> QED BY <3>1, <4>1, MessagesAre
      <3>4. InMail(m)'
        BY <2>1, <3>2, <3>3 DEF InMail
      <3>5. ~Has(inBox, "notification")
        BY <3>2, NotSent
      <3>6. \A k \in Items(inBox) : InMail(k)'
        BY <1>1, <2>1, <3>2, <3>5 DEF InMails, InMail, Has
      <3>7. InMails' /\ Asker(inBox') = Asker(inBox)
        BY <3>2, <3>3, <3>4, <3>5, <3>6, InMailsAppend
      <3> QED BY <2>2, <3>7, MailParts
    <2> QED BY <2>3, <2>4
  <1>3. CASE OutNotifier
    <2>1. UNCHANGED <<inBox, inNotifier, inChar, courierTid, courier, sendReq, sendAddr>>
      BY <1>3 DEF OutNotifier, courVars, inVars
    <2>2. InMails' /\ (courierTid' => courier' = "asked")
      BY <1>1, <2>1, InMailsKept
    <2>3. CASE outNotifier = "arm"
      <3>1. outBox' = outBox /\ ~Has(outBox, "notification")
        BY <1>3, <2>3, NotSent DEF OutNotifier
      <3>2. OutMails'
        BY <1>1, <2>1, <3>1, OutMailsKept
      <3> QED BY <2>1, <2>2, <3>2, MailParts
    <2>4. CASE outNotifier # "arm"
      <3>1. PICK m : m = Notification(None)
        OBVIOUS
      <3>2. outNotifier = "woken" /\ outNotifier' = "sent" /\ outBox' = Append(outBox, m)
        BY <1>3, <2>4, <3>1 DEF OutNotifier
      <3>3. m \in OutMsgs /\ m.type = "notification"
        BY <3>1, MessagesAre
      <3>4. sendAddr \in BOOLEAN /\ ~sendAddr /\ ~Has(outBox, "notification")
        BY <3>2, NotSent, TypeParts DEF OutType, Line
      <3>5. OutMail(m)'
        BY <2>1, <3>2, <3>3, <3>4 DEF OutMail
      <3>6. \A k \in Items(outBox) : OutMail(k)'
        BY <1>1, <2>1, <3>2, <3>4 DEF OutMails, OutMail
      <3>7. OutMails'
        BY <3>2, <3>3, <3>4, <3>5, <3>6, OutMailsAppend
      <3> QED BY <2>1, <2>2, <3>7, MailParts
    <2> QED BY <2>3, <2>4
  <1>4. CASE Courier
    <2>1. UNCHANGED <<inNotifier, inChar, courierTid, sendReq, outNotifier, sendAddr>>
      BY <1>4 DEF Courier
    <2>2. CASE courier = "ask"
      <3>1. PICK m : m = Echo
        OBVIOUS
      <3>2. courier' = "asked" /\ inBox' = Append(inBox, m) /\ outBox' = outBox
        BY <1>4, <2>2, <3>1 DEF Courier
      <3>3. m \in InMsgs /\ m.type = "echo"
        BY <3>1, MessagesAre
      <3>4. ~courierTid /\ ~Has(inBox, "echo") /\ ~Has(outBox, "putchar")
        BY <1>1, <2>2, NotSent
      <3>5. InMail(m)'
        BY <2>1, <3>2, <3>3, <3>4 DEF InMail
      <3>6. \A k \in Items(inBox) : InMail(k)'
        BY <1>1, <2>1, <3>2 DEF InMails, InMail
      <3>7. InMails' /\ Asker(inBox') = Asker(inBox)
        BY <2>1, <3>2, <3>3, <3>4, <3>5, <3>6, InMailsAppend
      <3>8. OutMails'
        BY <1>1, <2>1, <3>2, <3>4, OutMailsKept
      <3> QED BY <3>2, <3>7, <3>8, MailParts
    <2>3. CASE courier # "ask"
      <3>1. PICK m : m = PutChar(sendReq)
        OBVIOUS
      <3>2. courier = "put" /\ courier' = "sent" /\ outBox' = Append(outBox, m) /\ inBox' = inBox
        BY <1>4, <2>3, <3>1 DEF Courier
      <3>3. m \in OutMsgs /\ m.type = "putchar" /\ m.data = sendReq
        <4>1. sendReq \in Keys \cup {None}
          BY TypeParts DEF InType
        <4> QED BY <3>1, <4>1, MessagesAre
      <3>4. ~courierTid /\ ~Has(inBox, "echo") /\ ~Has(outBox, "putchar")
        BY <1>1, <3>2, NotSent
      <3>5. OutMail(m)'
        BY <2>1, <3>2, <3>3 DEF OutMail
      <3>6. \A k \in Items(outBox) : OutMail(k)'
        BY <1>1, <2>1, <3>2 DEF OutMails, OutMail
      <3>7. OutMails'
        BY <3>2, <3>3, <3>4, <3>5, <3>6, OutMailsAppend
      <3>8. InMails'
        BY <1>1, <2>1, <3>2, <3>4, InMailsKept
      <3> QED BY <2>1, <3>2, <3>4, <3>7, <3>8, MailParts
    <2> QED BY <2>2, <2>3
  <1> QED BY <1>2, <1>3, <1>4 DEF Urgent

LEMMA InServerKeepsMail ==
    ASSUME TypeOK, Line, Mail, InServer
    PROVE  Mail'
  <1>1. InMails /\ OutMails /\ (courierTid => courier = "asked")
    BY MailParts
  <1>2. CASE NotificationReply
    <2>1. /\ inBox # <<>> /\ inBox' = Tail(inBox) /\ Head(inBox).type = "notification"
          /\ inNotifier' = "arm"
          /\ UNCHANGED <<courierTid, courier, sendReq, outNotifier, sendAddr, outBox>>
      BY <1>2 DEF NotificationReply, InReceives, courVars, outVars
    <2>2. \A k \in Items(Tail(inBox)) : InMail(k)'
      BY <2>1, InRest DEF InMail
    <2> QED BY <1>1, <2>1, <2>2, InMailsTail, OutMailsKept, MailParts
  <1>3. CASE EchoReply
    <2>1. UNCHANGED <<inBox, inNotifier, inChar, outNotifier, sendAddr, outBox>>
      BY <1>3 DEF EchoReply, outVars
    <2>2. \/ courierTid /\ courierTid' = FALSE
          \/ UNCHANGED <<courierTid, courier, sendReq>>
      BY <1>3 DEF EchoReply, courVars
    <2>3. courierTid => ~Has(inBox, "echo") /\ ~Has(outBox, "putchar")
      BY <1>1, NotSent
    <2>4. InMails' /\ OutMails'
      BY <1>1, <2>1, <2>2, <2>3, InMailsKept, OutMailsKept
    <2> QED BY <1>1, <2>2, <2>4, MailParts
  <1>4. CASE Give
    <2>1. UNCHANGED <<inBox, inNotifier, inChar, outNotifier, sendAddr, outBox, courierTid, courier,
                      sendReq>>
      BY <1>4 DEF Give, courVars, outVars
    <2> QED BY <1>1, <2>1, InMailsKept, OutMailsKept, MailParts
  <1>5. CASE GetCharServed
    <2>1. /\ inBox # <<>> /\ inBox' = Tail(inBox) /\ Head(inBox).type = "getchar"
          /\ UNCHANGED <<inNotifier, inChar, courierTid, courier, sendReq, outNotifier, sendAddr,
                         outBox>>
      BY <1>5 DEF GetCharServed, InReceives, courVars, outVars
    <2>2. \A k \in Items(Tail(inBox)) : InMail(k)'
      BY <2>1, InRest DEF InMail
    <2> QED BY <1>1, <2>1, <2>2, InMailsTail, OutMailsKept, MailParts
  <1>6. CASE EchoAsked
    <2>1. /\ inBox # <<>> /\ inBox' = Tail(inBox) /\ Head(inBox).type = "echo"
          /\ UNCHANGED <<inNotifier, inChar, courier, sendReq, outNotifier, sendAddr, outBox>>
      BY <1>6 DEF EchoAsked, InReceives, courVars, outVars
    <2>2. \A k \in Items(Tail(inBox)) : InMail(k)'
      BY <2>1, InRest DEF InMail
    <2>3. courier = "asked"
      BY <2>1, InMessage DEF InMail
    <2> QED BY <1>1, <2>1, <2>2, <2>3, InMailsTail, OutMailsKept, MailParts
  <1> QED BY <1>2, <1>3, <1>4, <1>5, <1>6 DEF InServer

LEMMA OutServerKeepsMail ==
    ASSUME TypeOK, Line, Mail, Numbered, OutServer
    PROVE  Mail' /\ inBox' = inBox
  <1>1. InMails /\ OutMails /\ (courierTid => courier = "asked")
    BY MailParts
  <1>2. UNCHANGED <<inBox, inNotifier, inChar, courierTid, sendReq>>
    BY DEF OutServer, OutNotified, PutCharServed, PutStrReply, PutStr, inVars, courVars
  <1>3. CASE OutNotified
    <2>1. /\ outBox # <<>> /\ outBox' = Tail(outBox) /\ Head(outBox).type = "notification"
          /\ UNCHANGED courier
      BY <1>3 DEF OutNotified, OutReceives, courVars
    <2>2. \A k \in Items(Tail(outBox)) : OutMail(k)'
      BY <1>2, <2>1, OutRest DEF OutMail
    <2> QED BY <1>1, <1>2, <2>1, <2>2, OutMailsTail, InMailsKept, MailParts
  <1>4. CASE PutCharServed
    <2>1. /\ outBox # <<>> /\ outBox' = Tail(outBox) /\ Head(outBox).type = "putchar"
          /\ courier' = "ask"
          /\ sendAddr \/ UNCHANGED <<sendAddr, outNotifier>>
      BY <1>4 DEF PutCharServed, OutReceives
    <2>2. courier = "sent"
      BY <2>1, OutMessage DEF OutMail
    <2>3. ~courierTid /\ ~Has(inBox, "echo")
      BY <1>1, <2>2, NotSent
    <2>4. \A k \in Items(Tail(outBox)) : OutMail(k)'
      BY <1>2, <2>1, OutRest DEF OutMail
    <2>5. InMails' /\ OutMails'
      BY <1>1, <1>2, <2>1, <2>3, <2>4, OutMailsTail, InMailsKept
    <2> QED BY <1>2, <2>3, <2>5, MailParts
  <1>5. CASE PutStrReply
    <2>1. /\ outBox # <<>> /\ outBox' = Tail(outBox)
          /\ UNCHANGED <<courier, sendAddr, outNotifier>>
      BY <1>5 DEF PutStrReply, OutReceives, courVars
    <2>2. \A k \in Items(Tail(outBox)) : OutMail(k)'
      BY <1>2, <2>1, OutRest DEF OutMail
    <2> QED BY <1>1, <1>2, <2>1, <2>2, OutMailsTail, InMailsKept, MailParts
  <1>6. CASE PutStr
    <2>1. UNCHANGED <<courier, outBox>> /\ (sendAddr \/ UNCHANGED <<sendAddr, outNotifier>>)
      BY <1>6 DEF PutStr, courVars
    <2>2. sendAddr => ~Has(outBox, "notification")
      BY NotSent
    <2> QED BY <1>1, <1>2, <2>1, <2>2, OutMailsKept, InMailsKept, MailParts
  <1> QED BY <1>2, <1>3, <1>4, <1>5, <1>6 DEF OutServer

LEMMA ClientsKeepMail ==
    ASSUME TypeOK, Mail, (\E t \in Callers : Getc(t)) \/ (\E t \in Writers : Puts(t))
    PROVE  Mail'
  <1>1. InMails /\ OutMails /\ (courierTid => courier = "asked")
    BY MailParts
  <1>2. UNCHANGED <<inNotifier, inChar, courierTid, courier, sendReq, outNotifier, sendAddr>>
        /\ inBox = <<>> /\ outBox = <<>>
    BY DEF Getc, Puts, ClientsRun, inVars, courVars, outVars
  <1>3. ASSUME NEW t \in Callers, Getc(t)
        PROVE  Mail'
    <2>1. PICK m : m = GetChar(t)
      OBVIOUS
    <2>2. m.type = "getchar" /\ m.tid = t
      BY <2>1, MessagesAre
    <2>3. inBox' = <<m>> /\ outBox' = outBox
      BY <1>2, <1>3, <2>1 DEF Getc, outVars
    <2>4. AsksFirst(<<m>>) /\ Items(<<m>>) = {m} /\ \A type : One(<<m>>, type)
      BY <2>1, Asked DEF Items, One
    <2>5. inNotifier # "sent"
      BY <1>1, <1>2, EmptyBox DEF InMails
    <2>6. InMail(m)'
      BY <2>2 DEF InMail
    <2>7. InMails'
      BY <1>2, <2>3, <2>4, <2>5, <2>6 DEF InMails, InMail
    <2>8. OutMails'
      BY <1>1, <1>2, <2>3, OutMailsKept
    <2> QED BY <1>1, <1>2, <2>7, <2>8, MailParts
  <1>4. ASSUME NEW t \in Writers, Puts(t)
        PROVE  Mail'
    <2>1. PICK m : m = PutString(t)
      OBVIOUS
    <2>2. m.type = "putstr" /\ m.tid = t /\ m \in OutMsgs
      BY <2>1, MessagesAre
    <2>3. outBox' = Append(outBox, m) /\ inBox' = inBox
      BY <1>4, <2>1 DEF Puts, inVars
    <2>4. OutMail(m)' /\ Items(outBox) = {}
      BY <1>2, <2>2, EmptyBox DEF OutMail
    <2>5. OutMails'
      BY <2>2, <2>3, <2>4, OutMailsAppend
    <2>6. InMails'
      BY <1>1, <1>2, <2>3, InMailsKept
    <2> QED BY <1>1, <1>2, <2>5, <2>6, MailParts
  <1> QED BY <1>3, <1>4
-----------------------------------------------------------------------------
(* Numbered. *)

numVars == <<taken, typed, rhr, inNotifier, inChar, inReq, inPc>>

LEMMA TakenIs ==
    ASSUME TypeOK
    PROVE  /\ taken \in Seq(Keys) /\ Len(taken) \in Nat /\ DOMAIN taken = 1 .. Len(taken)
           /\ Seen \in Int /\ Echoed \in Int /\ Echoed <= Len(taken)
  <1>1. taken \in Seq(Keys)
    BY TypeParts DEF OtherType
  <1>2. Len(taken) \in Nat /\ DOMAIN taken = 1 .. Len(taken)
    BY <1>1
  <1> QED BY <1>1, <1>2 DEF Seen, Echoed

LEMMA NumberedKept ==
    ASSUME TypeOK, Numbered, UNCHANGED numVars,
           courier' \in {"put", "sent"} => courier \in {"put", "sent"} /\ UNCHANGED sendReq
    PROVE  Numbered' /\ Echoed' = Echoed
  <1>1. Echoed' = Echoed /\ Seen' = Seen
    BY DEF Echoed, Seen, numVars
  <1>2. Numbered'
    BY <1>1 DEF Numbered, numVars
  <1> QED BY <1>1, <1>2

LEMMA RecvKeepsNumbered ==
    ASSUME TypeOK, Line, Numbered, RecvInterrupt
    PROVE  Numbered' /\ Echoed' = Echoed
  <1>1. PICK n \in Nat : n = Len(taken)
    BY TakenIs
  <1>2. rhr # None /\ rhr = n + 1 /\ typed = n + 1
    BY <1>1 DEF RecvInterrupt, RecvPending, Numbered
  <1>3. inNotifier = "await" /\ inNotifier' = "woken" /\ inChar' = rhr
    BY DEF RecvInterrupt, RecvPending, Line
  <1>4. rhr' = None /\ UNCHANGED <<inReq, inPc, courVars, typed>>
    BY DEF RecvInterrupt
  <1>5. taken \in Seq(Keys) /\ rhr \in Keys
    BY <1>2, TypeParts DEF UartType, OtherType
  <1>6. /\ taken' \in Seq(Keys) /\ Len(taken') = n + 1 /\ DOMAIN taken' = 1 .. n + 1
        /\ \A i \in 1 .. n : taken'[i] = taken[i]
        /\ taken'[n + 1] = n + 1
    BY <1>1, <1>2, <1>5, AppendProperties DEF RecvInterrupt
  <1>7. Seen = n /\ Seen' = n /\ Echoed' = Echoed
    BY <1>1, <1>3, <1>4, <1>6 DEF Seen, Echoed
  <1>8. \A i \in DOMAIN taken' : taken'[i] = i
    <2>1. \A i \in 1 .. n : taken[i] = i
      BY <1>1, TakenIs DEF Numbered
    <2>2. \A i \in 1 .. n + 1 : i \in 1 .. n \/ i = n + 1
      OBVIOUS
    <2> QED BY <1>6, <2>1, <2>2
  <1>9. typed' = Len(taken') /\ inChar' = Len(taken') /\ inChar' # None
    BY <1>2, <1>3, <1>4, <1>6
  <1>10. /\ inReq' # None => inReq' = Seen'
         /\ courier' \in {"put", "sent"} => sendReq' \in 1 .. Echoed'
    BY <1>4, <1>7 DEF Numbered, courVars
  <1> QED BY <1>3, <1>4, <1>7, <1>8, <1>9, <1>10 DEF Numbered

LEMMA InServerKeepsNumbered ==
    ASSUME TypeOK, Line, Mail, Numbered, InServer
    PROVE  /\ Numbered' /\ Echoed <= Echoed' /\ UNCHANGED taken
           /\ \/ courier' \in {"put", "sent"} => courier \in {"put", "sent"} /\ UNCHANGED sendReq
              \/ sendReq' \in Nat /\ sendReq' - 1 = Echoed
  <1>1. PICK n \in Nat : n = Len(taken)
    BY TakenIs
  <1>2. Echoed \in Int /\ Echoed <= Echoed
    BY TakenIs
  <1>3. CASE NotificationReply
    <2>1. /\ inReq' = Head(inBox).data /\ inNotifier' = "arm" /\ inPc' = "echo" /\ inPc = "receive"
          /\ UNCHANGED <<rhr, inChar, courVars, typed, taken>>
      BY <1>3 DEF NotificationReply, InReceives, uartVars, ghostVars
    <2>2. inNotifier = "sent" /\ Head(inBox).data = inChar
      BY <1>3, InReceived, InMessage DEF InMail, NotificationReply
    <2>3. inReq' = n /\ Seen' = n /\ Echoed' = n - 1 /\ Echoed = n - 1
      BY <1>1, <2>1, <2>2 DEF Numbered, Seen, Echoed
    <2>4. Numbered'
      BY <2>1, <2>2, <2>3 DEF Numbered, courVars
    <2> QED BY <1>2, <2>1, <2>3, <2>4 DEF courVars
  <1>4. CASE EchoReply
    <2>1. /\ inPc = "echo" /\ inPc' = "give"
          /\ UNCHANGED <<rhr, inNotifier, inChar, inReq, typed, taken>>
          /\ \/ courierTid /\ courier' = "put" /\ sendReq' = inReq
             \/ UNCHANGED <<courier, sendReq>>
      BY <1>4 DEF EchoReply, uartVars, ghostVars, courVars
    <2>2. inReq \in Nat /\ inReq > 0 /\ inReq = Seen
      <3>1. inReq \in Keys
        BY <2>1, KeyInHand
      <3> QED BY <3>1, Constants DEF Numbered
    <2>3. Seen' = Seen /\ Echoed' = Seen /\ Echoed = Seen - 1
      BY <2>1 DEF Seen, Echoed
    <2>4. /\ courier' \in {"put", "sent"} => sendReq' \in 1 .. Echoed'
      BY <2>1, <2>2, <2>3 DEF Numbered
    <2>5. Numbered'
      BY <2>1, <2>3, <2>4 DEF Numbered
    <2>6. Echoed <= Echoed'
      BY <2>2, <2>3
    <2> QED BY <2>1, <2>2, <2>3, <2>5, <2>6
  <1>5. CASE Give
    <2>1. /\ inPc = "give" /\ inPc' = "receive" /\ inReq' = None
          /\ UNCHANGED <<rhr, inNotifier, inChar, typed, taken, courVars>>
      BY <1>5 DEF Give, uartVars
    <2>2. Seen' = Seen /\ Echoed' = Echoed
      BY <2>1 DEF Seen, Echoed
    <2>3. Numbered'
      BY <2>1, <2>2 DEF Numbered, courVars
    <2> QED BY <1>2, <2>1, <2>2, <2>3 DEF courVars
  <1>6. CASE GetCharServed \/ EchoAsked
    <2>1. UNCHANGED <<numVars, courVars>>
      BY <1>6 DEF GetCharServed, EchoAsked, numVars, uartVars, ghostVars
    <2>2. UNCHANGED <<taken, courier, sendReq>>
      BY <2>1 DEF numVars, courVars
    <2>3. Numbered' /\ Echoed' = Echoed
      BY <2>1, <2>2, NumberedKept
    <2> QED BY <1>2, <2>2, <2>3
  <1> QED BY <1>3, <1>4, <1>5, <1>6 DEF InServer

LEMMA NextKeepsNumbered ==
    ASSUME TypeOK, Line, Mail, Numbered, [Next]_vars
    PROVE  Numbered' /\ Echoed <= Echoed'
  <1>1. Echoed \in Int /\ Echoed <= Echoed
    BY TakenIs
  <1>2. CASE Type
    <2>1. /\ rhr = None /\ typed' = typed + 1 /\ rhr' = typed'
          /\ UNCHANGED <<taken, inNotifier, inChar, inReq, inPc, courVars>>
      BY <1>2 DEF Type, inVars
    <2>2. Seen' = Seen /\ Echoed' = Echoed
      BY <2>1 DEF Seen, Echoed
    <2>3. rhr' # None
      BY <2>1, TakenIs DEF Numbered, None
    <2>4. Numbered'
      BY <2>1, <2>2, <2>3 DEF Numbered, courVars
    <2> QED BY <1>1, <2>2, <2>4
  <1>3. CASE RecvInterrupt
    BY <1>1, <1>3, RecvKeepsNumbered
  <1>4. CASE InNotifier
    <2>1. /\ UNCHANGED <<taken, typed, rhr, inChar, inReq, inPc, courVars>>
          /\ \/ inNotifier = "arm" /\ inNotifier' = "await"
             \/ inNotifier = "woken" /\ inNotifier' = "sent"
      BY <1>4 DEF InNotifier, ghostVars
    <2>2. Seen' = Seen /\ Echoed' = Echoed
      BY <2>1 DEF Seen, Echoed
    <2>3. Numbered'
      BY <2>1, <2>2 DEF Numbered, courVars
    <2> QED BY <1>1, <2>2, <2>3
  <1>5. CASE InServer
    BY <1>5, InServerKeepsNumbered
  <1>6. CASE Transmit \/ XmitInterrupt \/ OutNotifier \/ Courier \/ OutServer
             \/ (\E t \in Callers : Getc(t)) \/ (\E t \in Writers : Puts(t)) \/ UNCHANGED vars
    <2>1. UNCHANGED numVars
      BY <1>6 DEF Transmit, XmitInterrupt, OutNotifier, Courier, OutServer, OutNotified,
                 PutCharServed, PutStrReply, PutStr, Write, Accepts, Getc, Puts, vars, numVars, uartVars,
                 inVars, ghostVars
    <2>2. courier' \in {"put", "sent"} => courier \in {"put", "sent"} /\ UNCHANGED sendReq
      BY <1>6 DEF Transmit, XmitInterrupt, OutNotifier, Courier, OutServer, OutNotified,
                 PutCharServed, PutStrReply, PutStr, Getc, Puts, vars, courVars
    <2> QED BY <1>1, <2>1, <2>2, NumberedKept
  <1> QED BY <1>2, <1>3, <1>4, <1>5, <1>6 DEF Next, Interrupt, Urgent
-----------------------------------------------------------------------------
(* Echoes. *)

LEMMA BelowMore ==
    ASSUME NEW s, NEW k \in Int, NEW l \in Int, k <= l, Below(s, k)
    PROVE  Below(s, l)
  <1> SUFFICES ASSUME NEW i \in DOMAIN s, s[i] \in Keys PROVE s[i] <= l
    BY DEF Below
  <1>1. s[i] \in Nat /\ s[i] <= k
    BY Constants DEF Below
  <1> QED BY <1>1

(* An echo behind the others. *)
LEMMA EchoAppended ==
    ASSUME NEW s \in Seq(Bytes), NEW k \in Keys, Ascending(s), Whole(s), Below(s, k - 1)
    PROVE  Ascending(s \o <<k>>) /\ Whole(s \o <<k>>) /\ Below(s \o <<k>>, k)
  <1>1. PICK n \in Nat : n = Len(s)
    OBVIOUS
  <1>2. PICK t : t = s \o <<k>>
    OBVIOUS
  <1>3. DOMAIN s = 1 .. n /\ DOMAIN t = 1 .. n + 1 /\ t[n + 1] = k
        /\ \A i \in 1 .. n : t[i] = s[i]
    <2>1. t = Append(s, k) /\ k \in Bytes
      BY <1>2, AppendIsConcat, Constants
    <2> QED BY <1>1, <2>1, AppendProperties
  <1>4. \A i \in 1 .. n + 1 : i \in 1 .. n \/ i = n + 1
    OBVIOUS
  <1>5. k \in Nat /\ \A i \in 1 .. n : s[i] \in Keys => s[i] \in Nat /\ s[i] < k
    <2>1. k \in Nat
      BY Constants
    <2>2. \A i \in 1 .. n : s[i] \in Keys => s[i] \in Nat /\ s[i] <= k - 1
      BY <1>3, Constants DEF Below
    <2> QED BY <2>1, <2>2
  <1>6. Below(t, k)
    BY <1>3, <1>4, <1>5 DEF Below
  <1>7. Ascending(t)
    <2> SUFFICES ASSUME NEW i \in 1 .. n + 1, NEW j \in 1 .. n + 1, t[i] \in Keys, t[j] \in Keys, i < j
                 PROVE  t[i] < t[j]
      BY <1>3 DEF Ascending
    <2>1. i \in 1 .. n
      OBVIOUS
    <2>2. CASE j = n + 1
      BY <1>3, <1>5, <2>1, <2>2
    <2>3. CASE j # n + 1
      <3>1. j \in 1 .. n
        BY <1>4, <2>3
      <3> QED BY <1>3, <2>1, <3>1 DEF Ascending
    <2> QED BY <2>2, <2>3
  <1>8. Whole(t)
    <2> SUFFICES ASSUME NEW i \in 1 .. n + 1, t[i] = Text[1], NEW j \in 1 .. Len(Text)
                 PROVE  i + j - 1 \in 1 .. n + 1 /\ t[i + j - 1] = Text[j]
      BY <1>3 DEF Whole
    <2>1. Text[1] # k
      BY Constants
    <2>2. i \in 1 .. n
      BY <1>3, <1>4, <2>1
    <2>3. i + j - 1 \in 1 .. n /\ s[i + j - 1] = Text[j]
      BY <1>3, <2>2 DEF Whole
    <2>4. \A m \in 1 .. n : m \in 1 .. n + 1
      OBVIOUS
    <2> QED BY <1>3, <2>3, <2>4
  <1> QED BY <1>2, <1>6, <1>7, <1>8

(* A string behind the others. *)
LEMMA TextAppended ==
    ASSUME NEW s \in Seq(Bytes), Ascending(s), Whole(s)
    PROVE  /\ Ascending(s \o Text) /\ Whole(s \o Text)
           /\ \A k : Below(s, k) => Below(s \o Text, k)
  <1>1. PICK n \in Nat : n = Len(s)
    OBVIOUS
  <1>2. PICK m \in Nat : m = Len(Text)
    BY Constants
  <1>3. PICK t : t = s \o Text
    OBVIOUS
  <1>4. DOMAIN s = 1 .. n /\ DOMAIN t = 1 .. n + m
        /\ (\A i \in 1 .. n : t[i] = s[i]) /\ \A i \in 1 .. m : t[n + i] = Text[i]
    <2>1. Text \in Seq(Bytes)
      BY Constants
    <2>2. t \in Seq(Bytes) /\ Len(t) = n + m
      BY <1>1, <1>2, <1>3, <2>1, ConcatProperties
    <2>3. \A i \in 1 .. Len(s) + Len(Text) :
             t[i] = IF i <= Len(s) THEN s[i] ELSE Text[i - Len(s)]
      BY <1>3, <2>1, ConcatProperties
    <2>4. \A i \in 1 .. n + m : t[i] = IF i <= n THEN s[i] ELSE Text[i - n]
      BY <1>1, <1>2, <2>3
    <2>5. \A i \in 1 .. n : i \in 1 .. n + m /\ i <= n
      OBVIOUS
    <2>6. \A i \in 1 .. m : n + i \in 1 .. n + m /\ ~(n + i <= n) /\ (n + i) - n = i
      OBVIOUS
    <2> QED BY <1>1, <2>2, <2>4, <2>5, <2>6
  <1>5. \A i \in 1 .. n + m : i \in 1 .. n \/ (i - n \in 1 .. m /\ i = n + (i - n))
    OBVIOUS
  <1>6. \A i \in 1 .. n + m : t[i] \in Keys => i \in 1 .. n
    <2> SUFFICES ASSUME NEW i \in 1 .. n + m, i \notin 1 .. n PROVE t[i] \notin Keys
      OBVIOUS
    <2>1. PICK l \in 1 .. m : i = n + l
      BY <1>5
    <2> QED BY <1>2, <1>4, <2>1, Constants
  <1>7. Ascending(t)
    BY <1>4, <1>6 DEF Ascending
  <1>8. \A k : Below(s, k) => Below(t, k)
    BY <1>4, <1>6 DEF Below
  <1>9. Whole(t)
    <2> SUFFICES ASSUME NEW i \in 1 .. n + m, t[i] = Text[1], NEW j \in 1 .. m
                 PROVE  i + j - 1 \in 1 .. n + m /\ t[i + j - 1] = Text[j]
      BY <1>2, <1>4 DEF Whole
    <2>1. CASE i \in 1 .. n
      <3>1. i + j - 1 \in 1 .. n /\ s[i + j - 1] = Text[j]
        BY <1>2, <1>4, <2>1 DEF Whole
      <3>2. \A l \in 1 .. n : l \in 1 .. n + m
        OBVIOUS
      <3> QED BY <1>4, <3>1, <3>2
    <2>2. CASE i \notin 1 .. n
      <3>1. PICK l \in 1 .. m : i = n + l
        BY <1>5, <2>2
      <3>2. l = 1
        BY <1>2, <1>4, <3>1, Constants
      <3>3. i + j - 1 = n + j /\ n + j \in 1 .. n + m
        BY <3>1, <3>2
      <3> QED BY <1>4, <3>3
    <2> QED BY <2>1, <2>2
  <1> QED BY <1>3, <1>7, <1>8, <1>9

LEMMA EchoesKept ==
    ASSUME TypeOK, Numbered, Echoes, Numbered', UNCHANGED accepted,
           Echoed' \in Int, Echoed <= Echoed',
           \/ courier' \in {"put", "sent"} => courier \in {"put", "sent"} /\ UNCHANGED sendReq
           \/ sendReq' \in Nat /\ sendReq' - 1 = Echoed
    PROVE  Echoes'
  <1>1. Echoed \in Int
    BY TakenIs
  <1>2. Below(accepted, Echoed')
    BY <1>1, BelowMore DEF Echoes
  <1>3. courier' \in {"put", "sent"} => Below(accepted, sendReq' - 1)
    BY DEF Echoes
  <1>4. accepted' = accepted
    OBVIOUS
  <1>5. Below(accepted', Echoed') /\ (courier' \in {"put", "sent"} => Below(accepted', sendReq' - 1))
    BY <1>2, <1>3, <1>4
  <1>6. Ascending(accepted') /\ Whole(accepted')
    BY <1>4 DEF Echoes
  <1> QED BY <1>5, <1>6 DEF Echoes, Ascending, Whole, Below

LEMMA EchoedNext ==
    ASSUME TypeOK'
    PROVE  Echoed' \in Int
  <1>1. taken' \in Seq(Keys)
    BY DEF TypeOK
  <1>2. Len(taken') \in Nat
    BY <1>1
  <1> QED BY <1>2 DEF Echoed, Seen

LEMMA NextKeepsEchoes ==
    ASSUME TypeOK, Line, Mail, Numbered, Echoes, [Next]_vars, TypeOK'
    PROVE  Echoes'
  <1>1. Numbered' /\ Echoed <= Echoed' /\ Echoed \in Int /\ Echoed' \in Int
    BY NextKeepsNumbered, TakenIs, EchoedNext
  <1>2. accepted \in Seq(Bytes)
    BY TypeParts DEF OtherType
  <1>3. CASE InServer
    <2>1. UNCHANGED accepted
      BY <1>3 DEF InServer, NotificationReply, EchoReply, Give, GetCharServed, EchoAsked, ghostVars
    <2> QED BY <1>1, <1>3, <2>1, InServerKeepsNumbered, EchoesKept
  <1>4. CASE PutCharServed
    <2>1. sendReq \in Keys /\ courier = "sent" /\ courier' = "ask"
      BY <1>4, PutCharServes DEF PutCharServed
    <2>2. accepted' = accepted \o <<sendReq>>
      BY <1>4, PutCharServes DEF Serves
    <2>3. PICK b : b = accepted \o <<sendReq>>
      OBVIOUS
    <2>4. Below(accepted, sendReq - 1) /\ Ascending(accepted) /\ Whole(accepted)
          /\ sendReq \in 1 .. Echoed
      BY <2>1 DEF Echoes, Numbered
    <2>5. Ascending(b) /\ Whole(b) /\ Below(b, sendReq)
      BY <1>2, <2>1, <2>3, <2>4, EchoAppended
    <2>6. sendReq \in Int /\ sendReq <= Echoed'
      BY <1>1, <2>4
    <2>7. Below(b, Echoed')
      BY <1>1, <2>5, <2>6, BelowMore
    <2>8. accepted' = b
      BY <2>2, <2>3
    <2> QED BY <2>1, <2>5, <2>7, <2>8 DEF Echoes, Ascending, Whole, Below
  <1>5. CASE PutStr
    <2>1. accepted' = accepted \o Text /\ UNCHANGED <<courier, sendReq>>
      BY <1>5 DEF PutStr, Accepts, courVars
    <2>2. PICK b : b = accepted \o Text
      OBVIOUS
    <2>3. Ascending(b) /\ Whole(b) /\ \A k : Below(accepted, k) => Below(b, k)
      BY <1>2, <2>2, TextAppended DEF Echoes
    <2>4. Below(b, Echoed) /\ (courier \in {"put", "sent"} => Below(b, sendReq - 1))
      BY <2>3 DEF Echoes
    <2>5. Below(b, Echoed')
      BY <1>1, <2>4, BelowMore
    <2>6. accepted' = b
      BY <2>1, <2>2
    <2> QED BY <2>1, <2>3, <2>4, <2>5, <2>6 DEF Echoes, Ascending, Whole, Below
  <1>6. CASE Type \/ Transmit \/ Interrupt \/ Urgent \/ OutNotified \/ PutStrReply
             \/ (\E t \in Callers : Getc(t)) \/ (\E t \in Writers : Puts(t)) \/ UNCHANGED vars
    <2>1. UNCHANGED accepted
      BY <1>6 DEF Type, Transmit, Interrupt, RecvInterrupt, XmitInterrupt, Urgent, InNotifier,
                 OutNotifier, Courier, OutNotified, PutStrReply, Getc, Puts, vars, ghostVars
    <2>2. courier' \in {"put", "sent"} => courier \in {"put", "sent"} /\ UNCHANGED sendReq
      BY <1>6 DEF Type, Transmit, Interrupt, RecvInterrupt, XmitInterrupt, Urgent, InNotifier,
                 OutNotifier, Courier, OutNotified, PutStrReply, Getc, Puts, vars, courVars
    <2> QED BY <1>1, <2>1, <2>2, EchoesKept
  <1> QED BY <1>3, <1>4, <1>5, <1>6 DEF Next, OutServer
-----------------------------------------------------------------------------
(* Order.  Concatenation and sequences under names of their own: the       *)
(* provers then take an equation for what it is, and not element by        *)
(* element.                                                                *)
Cat(x, y) == x \o y
SeqOf(S)  == Seq(S)

LEMMA Regroup ==
    ASSUME NEW S
    PROVE  /\ \A x, y, z \in SeqOf(S) : Cat(Cat(x, y), z) = Cat(x, Cat(y, z))
           /\ \A x, y \in SeqOf(S) : Cat(x, y) \in SeqOf(S)
           /\ \A x \in SeqOf(S) : Cat(x, <<>>) = x /\ Cat(<<>>, x) = x
           /\ <<>> \in SeqOf(S)
  <1>1. ASSUME NEW x \in Seq(S), NEW y \in Seq(S), NEW z \in Seq(S)
        PROVE  (x \o y) \o z = x \o (y \o z)
    BY ConcatAssociative
  <1>2. \A x, y \in Seq(S) : x \o y \in Seq(S)
    BY ConcatProperties
  <1>3. \A x \in Seq(S) : x \o <<>> = x /\ <<>> \o x = x
    BY ConcatEmptySeq
  <1> QED BY <1>1, <1>2, <1>3, EmptySeq DEF Cat, SeqOf

LEMMA OneElement ==
    ASSUME NEW S, NEW x \in S
    PROVE  <<x>> \in SeqOf(S) /\ \A s \in SeqOf(S) : Append(s, x) = Cat(s, <<x>>)
  <1>1. <<x>> \in Seq(S)
    OBVIOUS
  <1>2. \A s \in Seq(S) : Append(s, x) = s \o <<x>>
    BY AppendIsConcat
  <1> QED BY <1>1, <1>2 DEF Cat, SeqOf

LEMMA FirstAndRest ==
    ASSUME NEW S, NEW s \in SeqOf(S), s # <<>>
    PROVE  /\ Head(s) \in S /\ Tail(s) \in SeqOf(S) /\ <<Head(s)>> \in SeqOf(S)
           /\ Cat(<<Head(s)>>, Tail(s)) = s
  BY HeadTail DEF Cat, SeqOf

(* Who got a key and which one, when one more has been given. *)
LEMMA Projections ==
    ASSUME TypeOK
    PROVE  /\ Keyboard \in SeqOf(Keys) /\ Served \in SeqOf(Callers)
           /\ Len(Served) = Len(given) /\ DOMAIN Keyboard = DOMAIN given
  <1>1. given \in Seq(Callers \X Keys)
    BY TypeParts DEF OtherType
  <1>2. PICK n \in Nat : n = Len(given)
    BY <1>1
  <1>3. DOMAIN given = 1 .. n /\ \A i \in 1 .. n : given[i] \in Callers \X Keys
    BY <1>1, <1>2
  <1>4. \A i \in 1 .. n : given[i][1] \in Callers /\ given[i][2] \in Keys
    BY <1>3
  <1>5. Keyboard \in [1 .. n -> Keys] /\ Served \in [1 .. n -> Callers]
    BY <1>3, <1>4 DEF Keyboard, Served
  <1>6. Keyboard \in Seq(Keys) /\ Served \in Seq(Callers)
    BY <1>5, SeqDef
  <1>7. Len(Served) = n
    BY <1>5, <1>6, LenProperties
  <1> QED BY <1>2, <1>3, <1>5, <1>6, <1>7 DEF SeqOf

(* q is p, of length n, with x behind it. *)
Extends(q, p, n, x) ==
    /\ q = [i \in 1 .. n + 1 |-> q[i]]
    /\ (\A i \in 1 .. n : q[i] = p[i]) /\ q[n + 1] = x

LEMMA ExtendsIsCat ==
    ASSUME NEW S, NEW p \in SeqOf(S), NEW x \in S, NEW q, NEW n \in Nat, Len(p) = n,
           Extends(q, p, n, x)
    PROVE  q = Cat(p, <<x>>)
  <1>0. p \in Seq(S)
    BY DEF SeqOf
  <1>1. PICK r : r = Append(p, x)
    OBVIOUS
  <1>2. /\ r \in Seq(S) /\ Len(r) = n + 1 /\ DOMAIN r = 1 .. n + 1
        /\ (\A i \in 1 .. n : r[i] = p[i]) /\ r[n + 1] = x
    BY <1>0, <1>1, AppendProperties
  <1>3. r = [i \in 1 .. n + 1 |-> r[i]]
    BY <1>2
  <1>4. \A i \in 1 .. n + 1 : i \in 1 .. n \/ i = n + 1
    OBVIOUS
  <1>5. \A i \in 1 .. n + 1 : q[i] = r[i]
    BY <1>2, <1>4 DEF Extends
  <1>6. q = r
    BY <1>3, <1>5 DEF Extends
  <1>7. r = p \o <<x>>
    BY <1>0, <1>1, AppendIsConcat
  <1> QED BY <1>6, <1>7 DEF Cat

LEMMA OneMoreGiven ==
    ASSUME TypeOK, NEW t \in Callers, NEW k \in Keys, given' = Append(given, <<t, k>>)
    PROVE  Keyboard' = Cat(Keyboard, <<k>>) /\ Served' = Cat(Served, <<t>>)
  <1>1. given \in Seq(Callers \X Keys) /\ <<t, k>> \in Callers \X Keys
    BY TypeParts DEF OtherType
  <1>2. PICK n \in Nat : n = Len(given)
    BY <1>1
  <1>3. /\ DOMAIN given = 1 .. n /\ DOMAIN given' = 1 .. n + 1
        /\ \A i \in 1 .. n : given'[i] = given[i]
        /\ given'[n + 1] = <<t, k>>
    BY <1>1, <1>2, AppendProperties
  <1>4. \A i \in 1 .. n : i \in 1 .. n + 1
    OBVIOUS
  <1>5. n + 1 \in 1 .. n + 1
    OBVIOUS
  <1>6. Keyboard \in SeqOf(Keys) /\ Served \in SeqOf(Callers) /\ Len(Served) = n
    BY <1>2, Projections
  <1>7. Len(Keyboard) = n
    <2>1. Keyboard \in Seq(Keys) /\ DOMAIN Keyboard = 1 .. n
      BY <1>3, <1>6 DEF SeqOf, Keyboard
    <2> QED BY <2>1
  <1>8. Extends(Keyboard', Keyboard, n, k)
    BY <1>3, <1>4, <1>5 DEF Keyboard, Extends
  <1>9. Extends(Served', Served, n, t)
    BY <1>3, <1>4, <1>5 DEF Served, Extends
  <1> QED BY <1>6, <1>7, <1>8, <1>9, ExtendsIsCat

KeysOrder  == lost \/ Cat(Cat(Cat(Keyboard, charBuffer), Held(inReq)), Coming) = taken
CallsOrder == Cat(Cat(Served, taskBuffer), Asker(inBox)) = calls
ShownOrder == lost \/ Cat(Cat(screen, Held(thr)), outBuffer) = accepted
NoneWaits  == taskBuffer # <<>> => charBuffer = <<>>

LEMMA OrderParts ==
    /\ Order <=> KeysOrder /\ CallsOrder /\ ShownOrder /\ NoneWaits
    /\ KeysOrder' /\ CallsOrder' /\ ShownOrder' /\ NoneWaits' => Order'
  BY DEF Order, KeysOrder, CallsOrder, ShownOrder, NoneWaits, Cat, Shown

LEMMA HeldIs ==
    /\ Held(None) = <<>> /\ \A k \in Bytes : Held(k) = <<k>>
    /\ \A k \in Keys : Held(k) = <<k>>
  BY Constants DEF Held

LEMMA KeysOrderTypes ==
    ASSUME TypeOK, Numbered
    PROVE  /\ Keyboard \in SeqOf(Keys) /\ charBuffer \in SeqOf(Keys) /\ Held(inReq) \in SeqOf(Keys)
           /\ Coming \in SeqOf(Keys) /\ taken \in SeqOf(Keys)
           /\ inNotifier \in {"woken", "sent"} => inChar \in Keys
  <1>1. charBuffer \in SeqOf(Keys) /\ taken \in SeqOf(Keys)
    BY TypeParts DEF InType, OtherType, SeqOf
  <1>2. inReq \in Keys \cup {None} /\ inChar \in Keys \cup {None}
    BY TypeParts DEF InType
  <1>3. Held(inReq) \in SeqOf(Keys)
    BY <1>2, HeldIs, OneElement, Regroup
  <1>4. inNotifier \in {"woken", "sent"} => inChar \in Keys
    BY <1>2 DEF Numbered
  <1>5. Coming \in SeqOf(Keys)
    BY <1>4, OneElement, Regroup DEF Coming
  <1> QED BY <1>1, <1>3, <1>4, <1>5, Projections

LEMMA KeysOrderKept ==
    ASSUME KeysOrder, UNCHANGED <<given, charBuffer, inReq, taken, lost>>, Coming' = Coming
    PROVE  KeysOrder'
  <1>1. Keyboard' = Keyboard /\ Held(inReq)' = Held(inReq)
    BY DEF Keyboard, Held
  <1> QED BY <1>1 DEF KeysOrder

LEMMA NextKeepsKeysOrder ==
    ASSUME TypeOK, Line, Mail, Numbered, KeysOrder, NoneWaits, [Next]_vars
    PROVE  KeysOrder'
  <1>1. /\ Keyboard \in SeqOf(Keys) /\ charBuffer \in SeqOf(Keys) /\ Held(inReq) \in SeqOf(Keys)
        /\ Coming \in SeqOf(Keys) /\ taken \in SeqOf(Keys)
        /\ inNotifier \in {"woken", "sent"} => inChar \in Keys
    BY KeysOrderTypes
  <1>2. CASE RecvInterrupt
    <2>1. inNotifier = "await" /\ inNotifier' = "woken" /\ inChar' = rhr
      BY <1>2 DEF RecvInterrupt, RecvPending, Line
    <2>2. rhr \in Keys /\ taken' = Append(taken, rhr)
          /\ UNCHANGED <<given, charBuffer, inReq, lost>>
      BY <1>2, TypeParts DEF RecvInterrupt, RecvPending, UartType
    <2>3. Coming = <<>> /\ Coming' = <<rhr>>
      BY <2>1 DEF Coming
    <2>4. taken' = Cat(taken, <<rhr>>) /\ <<rhr>> \in SeqOf(Keys)
      BY <1>1, <2>2, OneElement
    <2>5. PICK p : p = Cat(Cat(Keyboard, charBuffer), Held(inReq))
      OBVIOUS
    <2>6. p \in SeqOf(Keys) /\ Cat(p, <<>>) = p
      BY <1>1, <2>5, Regroup
    <2>7. lost \/ Cat(p, Coming') = taken'
      BY <2>3, <2>4, <2>5, <2>6 DEF KeysOrder
    <2>8. Keyboard' = Keyboard /\ Held(inReq)' = Held(inReq)
      BY <2>2 DEF Keyboard, Held
    <2> QED BY <2>2, <2>5, <2>7, <2>8 DEF KeysOrder
  <1>3. CASE InNotifier
    <2>1. UNCHANGED <<given, charBuffer, inReq, taken, lost, inChar>>
      BY <1>3 DEF InNotifier, ghostVars
    <2>2. \/ inNotifier = "arm" /\ inNotifier' = "await"
          \/ inNotifier = "woken" /\ inNotifier' = "sent"
      BY <1>3 DEF InNotifier
    <2>3. Coming' = Coming
      BY <2>1, <2>2 DEF Coming
    <2> QED BY <2>1, <2>3, KeysOrderKept
  <1>4. CASE NotificationReply
    <2>1. /\ inReq' = Head(inBox).data /\ inNotifier' = "arm" /\ inPc = "receive"
          /\ UNCHANGED <<given, charBuffer, taken, lost>>
      BY <1>4 DEF NotificationReply, InReceives, ghostVars
    <2>2. inNotifier = "sent" /\ Head(inBox).data = inChar
      BY <1>4, InReceived, InMessage DEF InMail, NotificationReply
    <2>3. inReq = None /\ inChar \in Keys
      BY <1>1, <2>1, <2>2 DEF Line
    <2>4. Held(inReq) = <<>> /\ Coming = <<inChar>> /\ Held(inReq)' = <<inChar>> /\ Coming' = <<>>
      BY <2>1, <2>2, <2>3, HeldIs DEF Coming, Held
    <2>5. PICK p : p = Cat(Keyboard, charBuffer)
      OBVIOUS
    <2>6. PICK h : h = <<inChar>>
      OBVIOUS
    <2>7. p \in SeqOf(Keys) /\ h \in SeqOf(Keys)
      BY <1>1, <2>3, <2>5, <2>6, Regroup, OneElement
    <2>8. Cat(Cat(p, <<>>), h) = Cat(Cat(p, h), <<>>)
      BY <2>7, Regroup
    <2>9. lost \/ Cat(Cat(p, <<>>), h) = taken
      BY <2>4, <2>5, <2>6 DEF KeysOrder
    <2>10. Keyboard' = Keyboard
      BY <2>1 DEF Keyboard
    <2> QED BY <2>1, <2>4, <2>5, <2>6, <2>8, <2>9, <2>10 DEF KeysOrder
  <1>5. CASE Give
    <2>1. inReq \in Keys /\ inReq' = None /\ UNCHANGED <<taken, inNotifier, inChar>>
      BY <1>5, KeyInHand DEF Give
    <2>2. PICK h : h = <<inReq>>
      OBVIOUS
    <2>3. h \in SeqOf(Keys) /\ Held(inReq) = h /\ Held(inReq)' = <<>>
      BY <2>1, <2>2, HeldIs, OneElement DEF Held
    <2>4. Coming' = Coming
      BY <2>1 DEF Coming
    <2>5. SUFFICES ASSUME ~lost'
                   PROVE  Cat(Cat(Cat(Keyboard', charBuffer'), <<>>), Coming) = taken
      BY <2>1, <2>3, <2>4 DEF KeysOrder
    <2>6. CASE taskBuffer = <<>>
      <3>1. /\ charBuffer' = Pushed(charBuffer, Size, inReq) /\ UNCHANGED given
            /\ lost' = (lost \/ Len(charBuffer) + 1 >= Size)
        BY <1>5, <2>6 DEF Give
      <3>2. charBuffer \in Seq(Keys) /\ Len(charBuffer) \in Nat /\ lost \in BOOLEAN
        BY TypeParts DEF InType, OtherType
      <3>3. Len(charBuffer) + 1 < Size /\ ~lost
        <4>1. PICK n \in Nat : n = Len(charBuffer) + 1
          BY <3>2
        <4> QED BY <2>5, <3>1, <3>2, <4>1, Overflow
      <3>4. charBuffer' = Cat(charBuffer, h)
        BY <2>1, <2>2, <3>1, <3>2, <3>3, Constants, PushedEffect DEF Cat
      <3>5. Keyboard' = Keyboard
        BY <3>1 DEF Keyboard
      <3>6. Cat(Cat(Cat(Keyboard, charBuffer), h), Coming) = taken
        BY <2>3, <3>3 DEF KeysOrder
      <3>7. Cat(Cat(Keyboard, Cat(charBuffer, h)), <<>>) = Cat(Cat(Keyboard, charBuffer), h)
        BY <1>1, <2>3, Regroup
      <3> QED BY <3>4, <3>5, <3>6, <3>7
    <2>7. CASE taskBuffer # <<>>
      <3>1. taskBuffer \in SeqOf(Callers)
        BY TypeParts DEF InType, SeqOf
      <3>2. PICK t \in Callers : t = Head(taskBuffer)
        BY <2>7, <3>1, FirstAndRest
      <3>3. given' = Append(given, <<t, inReq>>) /\ UNCHANGED <<charBuffer, lost>>
        BY <1>5, <2>7, <3>2 DEF Give
      <3>4. Keyboard' = Cat(Keyboard, h)
        BY <2>1, <2>2, <3>3, OneMoreGiven
      <3>5. charBuffer = <<>> /\ charBuffer' = <<>>
        BY <2>7, <3>3 DEF NoneWaits
      <3>6. Cat(Cat(Cat(Keyboard, <<>>), h), Coming) = taken
        BY <2>3, <2>5, <3>3, <3>5 DEF KeysOrder
      <3>7. Cat(Cat(Cat(Keyboard, h), <<>>), <<>>) = Cat(Cat(Keyboard, <<>>), h)
        BY <1>1, <2>3, Regroup
      <3> QED BY <3>4, <3>5, <3>6, <3>7
    <2> QED BY <2>6, <2>7
  <1>6. CASE GetCharServed
    <2>1. PICK t \in Callers : t = Head(inBox).tid
      BY <1>6, InReceived, InMessage DEF InMail, GetCharServed
    <2>2. /\ UNCHANGED <<inReq, taken, inNotifier, inChar, lost>>
          /\ IF charBuffer = <<>>
               THEN UNCHANGED <<charBuffer, given>>
               ELSE charBuffer' = Tail(charBuffer) /\ given' = Append(given, <<t, Head(charBuffer)>>)
      BY <1>6, <2>1 DEF GetCharServed
    <2>3. Coming' = Coming /\ Held(inReq)' = Held(inReq)
      BY <2>2 DEF Coming, Held
    <2>4. CASE charBuffer = <<>>
      BY <2>2, <2>3, <2>4, KeysOrderKept
    <2>5. CASE charBuffer # <<>>
      <3>1. PICK k \in Keys : k = Head(charBuffer)
        BY <1>1, <2>5, FirstAndRest
      <3>2. PICK h : h = <<k>>
        OBVIOUS
      <3>3. PICK b : b = Tail(charBuffer)
        OBVIOUS
      <3>4. h \in SeqOf(Keys) /\ b \in SeqOf(Keys) /\ charBuffer = Cat(h, b)
        BY <1>1, <2>5, <3>1, <3>2, <3>3, FirstAndRest
      <3>5. Keyboard' = Cat(Keyboard, h)
        BY <2>2, <2>5, <3>1, <3>2, OneMoreGiven
      <3>6. Cat(Keyboard, Cat(h, b)) = Cat(Cat(Keyboard, h), b)
        BY <1>1, <3>4, Regroup
      <3>7. Cat(Keyboard', charBuffer') = Cat(Keyboard, charBuffer)
        BY <2>2, <2>5, <3>3, <3>4, <3>5, <3>6
      <3> QED BY <2>2, <2>3, <3>7 DEF KeysOrder
    <2> QED BY <2>4, <2>5
  <1>7. CASE OutServer
    <2>1. UNCHANGED <<given, charBuffer, inReq, taken, inNotifier, inChar>>
      BY <1>7 DEF OutServer, OutNotified, PutCharServed, PutStrReply, PutStr, Accepts, inVars, ghostVars
    <2>2. lost => lost'
      <3>1. CASE OutNotified \/ PutStrReply
        BY <3>1 DEF OutNotified, PutStrReply, ghostVars
      <3>2. CASE PutCharServed
        <4>1. PICK s : Accepts(s)
          BY <3>2 DEF PutCharServed
        <4> QED BY <4>1, Zenon DEF Accepts
      <3>3. CASE PutStr
        <4>1. Accepts(Text)
          BY <3>3 DEF PutStr
        <4> QED BY <4>1, Zenon DEF Accepts
      <3> QED BY <1>7, <3>1, <3>2, <3>3 DEF OutServer
    <2>3. Keyboard' = Keyboard /\ Held(inReq)' = Held(inReq) /\ Coming' = Coming
      BY <2>1 DEF Keyboard, Held, Coming
    <2> QED BY <2>1, <2>2, <2>3 DEF KeysOrder
  <1>8. CASE Type \/ Transmit \/ XmitInterrupt \/ OutNotifier \/ Courier \/ EchoReply \/ EchoAsked
             \/ (\E t \in Callers : Getc(t)) \/ (\E t \in Writers : Puts(t)) \/ UNCHANGED vars
    <2>1. UNCHANGED <<given, charBuffer, inReq, taken, lost, inNotifier, inChar>>
      BY <1>8 DEF Type, Transmit, XmitInterrupt, OutNotifier, Courier, EchoReply, EchoAsked, Getc,
                 Puts, vars, inVars, ghostVars
    <2>2. Coming' = Coming
      BY <2>1 DEF Coming
    <2> QED BY <2>1, <2>2, KeysOrderKept
  <1> QED BY <1>2, <1>3, <1>4, <1>5, <1>6, <1>7, <1>8 DEF Next, Interrupt, Urgent, InServer

LEMMA CallsOrderKept ==
    ASSUME CallsOrder, UNCHANGED <<given, taskBuffer, calls>>, Asker(inBox') = Asker(inBox)
    PROVE  CallsOrder'
  <1>1. Served' = Served
    BY DEF Served
  <1> QED BY <1>1 DEF CallsOrder

(* What the input server makes of a call of Getc. *)
LEMMA CallServed ==
    ASSUME TypeOK, Mail, CallsOrder, NoneWaits, GetCharServed
    PROVE  CallsOrder' /\ NoneWaits'
  <1>1. /\ inBox \in Seq(InMsgs) /\ inBox # <<>> /\ inBox' = Tail(inBox)
        /\ Head(inBox).type = "getchar"
    BY InReceived DEF GetCharServed
  <1>2. PICK t \in Callers : t = Head(inBox).tid
    BY <1>1, InMessage DEF InMail
  <1>3. PICK h : h = <<t>>
    OBVIOUS
  <1>4. Asker(inBox) = h
    BY <1>1, <1>2, <1>3, BoxTail
  <1>5. Asker(inBox') = <<>>
    BY <1>1, BoxTail DEF Mail
  <1>6. /\ Served \in SeqOf(Callers) /\ taskBuffer \in SeqOf(Callers) /\ h \in SeqOf(Callers)
        /\ charBuffer \in SeqOf(Keys)
    BY <1>3, Projections, TypeParts, OneElement DEF InType, SeqOf
  <1>7. Cat(Cat(Served, taskBuffer), h) = calls
    BY <1>4 DEF CallsOrder
  <1>8. /\ UNCHANGED calls
        /\ IF charBuffer = <<>>
             THEN taskBuffer' = Append(taskBuffer, t) /\ UNCHANGED <<charBuffer, given>>
             ELSE given' = Append(given, <<t, Head(charBuffer)>>) /\ UNCHANGED taskBuffer
    BY <1>2 DEF GetCharServed, Queued
  <1>9. CASE charBuffer = <<>>
    <2>1. taskBuffer' = Cat(taskBuffer, h) /\ charBuffer' = <<>>
      BY <1>3, <1>6, <1>8, <1>9, OneElement
    <2>2. Served' = Served
      BY <1>8, <1>9 DEF Served
    <2>3. Cat(Cat(Served, Cat(taskBuffer, h)), <<>>) = Cat(Cat(Served, taskBuffer), h)
      BY <1>6, Regroup
    <2>4. CallsOrder'
      BY <1>5, <1>7, <1>8, <2>1, <2>2, <2>3 DEF CallsOrder
    <2> QED BY <2>1, <2>4 DEF NoneWaits
  <1>10. CASE charBuffer # <<>>
    <2>1. PICK k \in Keys : k = Head(charBuffer)
      BY <1>6, <1>10, FirstAndRest
    <2>2. Served' = Cat(Served, h)
      BY <1>3, <1>8, <1>10, <2>1, OneMoreGiven
    <2>3. taskBuffer = <<>> /\ taskBuffer' = <<>>
      BY <1>8, <1>10 DEF NoneWaits
    <2>4. Cat(Cat(Cat(Served, h), <<>>), <<>>) = Cat(Cat(Served, <<>>), h)
      BY <1>6, Regroup
    <2>5. CallsOrder'
      BY <1>5, <1>7, <1>8, <2>2, <2>3, <2>4 DEF CallsOrder
    <2> QED BY <2>3, <2>5 DEF NoneWaits
  <1> QED BY <1>9, <1>10

LEMMA KeyGiven ==
    ASSUME TypeOK, Line, CallsOrder, NoneWaits, Give
    PROVE  CallsOrder' /\ NoneWaits'
  <1>1. /\ Served \in SeqOf(Callers) /\ taskBuffer \in SeqOf(Callers) /\ inReq \in Keys
    BY Projections, TypeParts, KeyInHand DEF InType, SeqOf, Give
  <1>2. UNCHANGED <<inBox, calls>>
    BY DEF Give
  <1>3. CASE taskBuffer = <<>>
    <2>1. UNCHANGED <<taskBuffer, given>>
      BY <1>3 DEF Give
    <2> QED BY <1>2, <1>3, <2>1, CallsOrderKept DEF NoneWaits
  <1>4. CASE taskBuffer # <<>>
    <2>1. PICK t \in Callers : t = Head(taskBuffer)
      BY <1>1, <1>4, FirstAndRest
    <2>2. PICK h : h = <<t>>
      OBVIOUS
    <2>3. PICK b : b = Tail(taskBuffer)
      OBVIOUS
    <2>4. h \in SeqOf(Callers) /\ b \in SeqOf(Callers) /\ taskBuffer = Cat(h, b)
      BY <1>1, <1>4, <2>1, <2>2, <2>3, FirstAndRest
    <2>5. given' = Append(given, <<t, inReq>>) /\ taskBuffer' = b /\ charBuffer' = charBuffer
      BY <1>4, <2>1, <2>3 DEF Give
    <2>6. Served' = Cat(Served, h)
      BY <1>1, <2>2, <2>5, OneMoreGiven
    <2>7. Cat(Cat(Served, h), b) = Cat(Served, Cat(h, b))
      BY <1>1, <2>4, Regroup
    <2>8. CallsOrder'
      BY <1>2, <2>4, <2>5, <2>6, <2>7 DEF CallsOrder
    <2> QED BY <1>4, <2>5, <2>8 DEF NoneWaits
  <1> QED BY <1>3, <1>4

LEMMA NextKeepsCallsOrder ==
    ASSUME TypeOK, Line, Mail, CallsOrder, NoneWaits, [Next]_vars
    PROVE  CallsOrder' /\ NoneWaits'
  <1>1. CASE Give
    BY <1>1, KeyGiven
  <1>2. CASE GetCharServed
    BY <1>2, CallServed
  <1>3. CASE NotificationReply \/ EchoAsked
    <2>1. /\ inBox \in Seq(InMsgs) /\ inBox # <<>> /\ inBox' = Tail(inBox)
          /\ Head(inBox).type # "getchar"
      BY <1>3, InReceived DEF NotificationReply, EchoAsked
    <2>2. Asker(inBox') = <<>> /\ Asker(inBox) = <<>>
      BY <2>1, BoxTail DEF Mail
    <2>3. UNCHANGED <<given, taskBuffer, calls, charBuffer>>
      BY <1>3 DEF NotificationReply, EchoAsked, ghostVars
    <2> QED BY <2>2, <2>3, CallsOrderKept DEF NoneWaits
  <1>4. CASE Urgent
    <2>1. Asker(inBox') = Asker(inBox)
      BY <1>4, UrgentKeepsMail
    <2>2. UNCHANGED <<given, taskBuffer, calls, charBuffer>>
      BY <1>4 DEF Urgent, InNotifier, OutNotifier, Courier, inVars, ghostVars
    <2> QED BY <2>1, <2>2, CallsOrderKept DEF NoneWaits
  <1>5. ASSUME NEW t \in Callers, Getc(t)
        PROVE  CallsOrder' /\ NoneWaits'
    <2>1. /\ inBox = <<>> /\ inBox' = Append(<<>>, GetChar(t)) /\ calls' = Append(calls, t)
          /\ UNCHANGED <<given, taskBuffer, charBuffer>>
      BY <1>5 DEF Getc, ClientsRun
    <2>2. PICK h : h = <<t>>
      OBVIOUS
    <2>3. Asker(inBox) = <<>> /\ Asker(inBox') = h
      BY <2>1, <2>2, EmptyBox, Asked
    <2>4. /\ Served \in SeqOf(Callers) /\ taskBuffer \in SeqOf(Callers) /\ calls \in SeqOf(Callers)
      BY Projections, TypeParts DEF InType, OtherType, SeqOf
    <2>5. calls' = Cat(calls, h)
      BY <2>1, <2>2, <2>4, OneElement
    <2>6. PICK p : p = Cat(Served, taskBuffer)
      OBVIOUS
    <2>7. p \in SeqOf(Callers) /\ Cat(p, <<>>) = p
      BY <2>4, <2>6, Regroup
    <2>8. Cat(p, h) = calls'
      BY <2>3, <2>5, <2>6, <2>7 DEF CallsOrder
    <2>9. Served' = Served
      BY <2>1 DEF Served
    <2> QED BY <2>1, <2>3, <2>6, <2>8, <2>9 DEF CallsOrder, NoneWaits
  <1>6. CASE Type \/ Transmit \/ Interrupt \/ EchoReply \/ OutServer
             \/ (\E t \in Writers : Puts(t)) \/ UNCHANGED vars
    <2>1. UNCHANGED <<given, taskBuffer, calls, charBuffer, inBox>>
      BY <1>6 DEF Type, Transmit, Interrupt, RecvInterrupt, XmitInterrupt, EchoReply, OutServer,
                 OutNotified, PutCharServed, PutStrReply, PutStr, Accepts, Puts, vars, inVars, ghostVars
    <2> QED BY <2>1, CallsOrderKept DEF NoneWaits
  <1> QED BY <1>1, <1>2, <1>3, <1>4, <1>5, <1>6 DEF Next, InServer

LEMMA ServesKeepsShown ==
    ASSUME TypeOK, Line, ShownOrder, NEW s \in Seq(Bytes), NEW b \in Seq(Bytes), Serves(s, b)
    PROVE  ShownOrder'
  <1>1. SUFFICES ASSUME ~lost'
                 PROVE  Cat(Cat(screen', Held(thr')), outBuffer') = accepted'
    BY DEF ShownOrder, Held
  <1>2. b = Cat(outBuffer, s) /\ ~lost /\ accepted' = Cat(accepted, s)
    BY <1>1 DEF Serves, Cat
  <1>3. Cat(Cat(screen, Held(thr)), outBuffer) = accepted
    BY <1>2 DEF ShownOrder
  <1>4. thr \in Bytes \cup {None} /\ screen \in SeqOf(Bytes) /\ outBuffer \in SeqOf(Bytes)
        /\ s \in SeqOf(Bytes) /\ b \in SeqOf(Bytes)
    BY TypeParts DEF UartType, OutType, SeqOf
  <1>5. Held(thr) \in SeqOf(Bytes)
    <2>1. CASE thr = None
      BY <2>1, HeldIs, Regroup
    <2>2. CASE thr # None
      <3>1. thr \in Bytes /\ Held(thr) = <<thr>>
        BY <1>4, <2>2, HeldIs
      <3> QED BY <3>1, OneElement
    <2> QED BY <2>1, <2>2
  <1>6. PICK p : p = Cat(screen, Held(thr))
    OBVIOUS
  <1>7. p \in SeqOf(Bytes) /\ Cat(p, b) = accepted'
    <2>1. p \in SeqOf(Bytes)
      BY <1>4, <1>5, <1>6, Regroup
    <2>2. Cat(Cat(p, outBuffer), s) = Cat(p, Cat(outBuffer, s))
      BY <1>4, <2>1, Regroup
    <2> QED BY <1>2, <1>3, <1>6, <2>1, <2>2
  <1>8. CASE UNCHANGED <<uartVars, outNotifier>> /\ outBuffer' = b
    BY <1>6, <1>7, <1>8 DEF uartVars
  <1>9. CASE outNotifier = "sent" /\ b # <<>> /\ Write(Head(b)) /\ outBuffer' = Tail(b)
    <2>1. PICK h : h = <<Head(b)>>
      OBVIOUS
    <2>2. Head(b) \in Bytes /\ Tail(b) \in SeqOf(Bytes) /\ h \in SeqOf(Bytes) /\ Cat(h, Tail(b)) = b
      BY <1>4, <1>9, <2>1, FirstAndRest
    <2>3. thr = None /\ Held(thr) = <<>> /\ p = screen
      BY <1>4, <1>6, <1>9, HeldIs, Regroup DEF Line
    <2>4. Held(thr') = h /\ screen' = screen
      BY <1>9, <2>1, <2>2, HeldIs DEF Write
    <2>5. Cat(Cat(screen, h), Tail(b)) = Cat(screen, b)
      BY <1>4, <2>2, Regroup
    <2> QED BY <1>7, <1>9, <2>3, <2>4, <2>5
  <1> QED BY <1>8, <1>9 DEF Serves

LEMMA NextKeepsShownOrder ==
    ASSUME TypeOK, Line, Mail, Numbered, ShownOrder, [Next]_vars
    PROVE  ShownOrder'
  <1>1. CASE Transmit
    <2>1. /\ thr \in Bytes /\ screen \in SeqOf(Bytes) /\ screen' = Append(screen, thr)
          /\ thr' = None /\ UNCHANGED <<outBuffer, accepted, lost>>
      BY <1>1, TypeParts DEF Transmit, UartType, SeqOf, outVars, ghostVars
    <2>2. Held(thr) = <<thr>> /\ Held(thr') = <<>>
      BY <2>1, HeldIs
    <2>3. <<thr>> \in SeqOf(Bytes) /\ Append(screen, thr) = Cat(screen, <<thr>>)
      BY <2>1, OneElement
    <2>4. Cat(screen, <<thr>>) \in SeqOf(Bytes)
      BY <2>1, <2>3, Regroup
    <2>5. Cat(screen', <<>>) = screen'
      BY <2>1, <2>3, <2>4, Regroup
    <2> QED BY <2>1, <2>2, <2>3, <2>5 DEF ShownOrder, Held
  <1>2. CASE OutNotified
    <2>1. outBuffer \in Seq(Bytes) /\ <<>> \in Seq(Bytes)
      BY TypeParts, EmptySeq DEF OutType
    <2> QED BY <1>2, <2>1, OutNotifiedServes, ServesKeepsShown
  <1>3. CASE PutCharServed
    <2>1. <<sendReq>> \in Seq(Bytes) /\ \E b \in Seq(Bytes) : Serves(<<sendReq>>, b)
      BY <1>3, PutCharServes
    <2> QED BY <2>1, ServesKeepsShown
  <1>4. CASE PutStr
    <2>1. Text \in Seq(Bytes) /\ \E b \in Seq(Bytes) : Serves(Text, b)
      BY <1>4, PutStrServes, Constants
    <2> QED BY <2>1, ServesKeepsShown
  <1>5. CASE Give
    <2>1. UNCHANGED <<screen, thr, outBuffer, accepted>>
      BY <1>5 DEF Give, uartVars, outVars
    <2>2. lost => lost'
      BY <1>5, Zenon DEF Give
    <2> QED BY <2>1, <2>2 DEF ShownOrder, Held
  <1>6. CASE Type \/ Interrupt \/ Urgent \/ NotificationReply \/ EchoReply \/ GetCharServed
             \/ EchoAsked \/ PutStrReply
             \/ (\E t \in Callers : Getc(t)) \/ (\E t \in Writers : Puts(t)) \/ UNCHANGED vars
    <2>1. UNCHANGED <<screen, thr, outBuffer, accepted, lost>>
      BY <1>6 DEF Type, Interrupt, RecvInterrupt, XmitInterrupt, Urgent, InNotifier, OutNotifier,
                 Courier, NotificationReply, EchoReply, GetCharServed, EchoAsked, PutStrReply, Getc,
                 Puts, vars, uartVars, outVars, ghostVars
    <2> QED BY <2>1 DEF ShownOrder, Held
  <1> QED BY <1>1, <1>2, <1>3, <1>4, <1>5, <1>6 DEF Next, InServer, OutServer
-----------------------------------------------------------------------------
LEMMA NextIInv ==
    ASSUME IInv, [Next]_vars
    PROVE  IInv'
  <1>1. TypeOK /\ Line /\ Mail /\ Numbered /\ Echoes /\ Order
    BY DEF IInv
  <1>2. KeysOrder /\ CallsOrder /\ ShownOrder /\ NoneWaits
    BY <1>1, OrderParts
  <1>3. TypeOK' /\ Mail'
    <2>1. CASE Type \/ Transmit \/ Interrupt
      <3>1. TypeOK'
        BY <1>1, <2>1, InterruptsKeepType DEF Interrupt
      <3>2. Mail'
        BY <1>1, <2>1, InterruptKeepsMail DEF Interrupt
      <3> QED BY <3>1, <3>2
    <2>2. CASE Urgent
      BY <1>1, <2>2, UrgentKeepsType, UrgentKeepsMail
    <2>3. CASE InServer
      BY <1>1, <2>3, InServerKeepsType, InServerKeepsMail
    <2>4. CASE OutServer
      BY <1>1, <2>4, OutServerKeepsType, OutServerKeepsMail
    <2>5. CASE (\E t \in Callers : Getc(t)) \/ (\E t \in Writers : Puts(t))
      BY <1>1, <2>5, ClientsKeepType, ClientsKeepMail
    <2>6. CASE UNCHANGED vars
      <3>1. UartType' /\ InType' /\ OutType' /\ OtherType'
        BY <1>1, <2>6, TypeParts DEF UartType, InType, OutType, OtherType, vars, uartVars, inVars,
             courVars, outVars, ghostVars
      <3> QED BY <1>1, <2>6, <3>1, TypeParts, InterruptKeepsMail
    <2> QED BY <2>1, <2>2, <2>3, <2>4, <2>5, <2>6 DEF Next
  <1>4. Line' /\ Numbered' /\ Echoes'
    BY <1>1, <1>3, NextKeepsLine, NextKeepsNumbered, NextKeepsEchoes
  <1>5. KeysOrder' /\ CallsOrder' /\ NoneWaits' /\ ShownOrder'
    BY <1>1, <1>2, NextKeepsKeysOrder, NextKeepsCallsOrder, NextKeepsShownOrder
  <1>6. Order'
    BY <1>5, OrderParts
  <1> QED BY <1>3, <1>4, <1>6 DEF IInv

(* What a concatenation begins with. *)
LEMMA PrefixOf ==
    ASSUME NEW S, NEW p \in Seq(S), NEW r \in Seq(S), NEW c, c = p \o r, NEW n, n = Len(p)
    PROVE  p = SubSeq(c, 1, n)
  <1>1. n \in Nat /\ Len(r) \in Nat
    OBVIOUS
  <1>2. c \in Seq(S) /\ Len(c) = n + Len(r)
        /\ \A i \in 1 .. Len(p) + Len(r) : c[i] = IF i <= Len(p) THEN p[i] ELSE r[i - Len(p)]
    BY ConcatProperties
  <1>3. \A i \in 1 .. n : i \in 1 .. n + Len(r) /\ i <= n /\ c[i] = p[i]
    BY <1>1, <1>2
  <1>4. p = [i \in 1 .. n |-> p[i]]
    OBVIOUS
  <1>5. PICK q : q = SubSeq(c, 1, n)
    OBVIOUS
  <1>6. \A i \in 1 .. n : i \in 1 .. n + Len(r) /\ c[i] \in S
    BY <1>1, <1>2
  <1>7. q \in Seq(S) /\ Len(q) = n /\ \A i \in 1 .. n : q[i] = c[i]
    BY <1>1, <1>2, <1>5
  <1>8. q = [i \in 1 .. n |-> q[i]]
    BY <1>7
  <1> QED BY <1>3, <1>4, <1>5, <1>7, <1>8

LEMMA Inductive == Spec => []IInv
  BY InitIInv, NextIInv, PTL DEF Spec

(* Every variable holds what its declaration can hold, and the buffers     *)
(* keep a slot free, whatever is typed and written (io.c:102-320).         *)
THEOREM TypeCorrect == Spec => []TypeOK
  BY Inductive, PTL DEF IInv

(* Every key the interrupt handler takes is given to one caller of Getc,   *)
(* once and in the order typed, to the callers in the order they called,   *)
(* and none waits while a key is there, until the buffer overflows         *)
(* (io.c:144-198, interrupts.c:270-287).                                   *)
THEOREM KeysStayInOrder == Spec => []KeysInOrder
  <1>1. ASSUME IInv
        PROVE  KeysInOrder
    <2>1. TypeOK /\ Line /\ Mail /\ Numbered /\ Order
      BY <1>1 DEF IInv
    <2>2. OnTheirWay = Held(inReq) \o Coming
      <3>1. inNotifier = "sent" => \E i \in DOMAIN inBox : inBox[i].type = "notification"
        BY <2>1 DEF Mail, Has, Items
      <3> QED BY <3>1 DEF OnTheirWay, Coming
    <2>3. lost \/ Keyboard \o charBuffer \o OnTheirWay = taken
      <3> SUFFICES ASSUME ~lost PROVE Cat(Cat(Keyboard, charBuffer), OnTheirWay) = taken
        BY DEF Cat
      <3>1. KeysOrder
        BY <2>1, OrderParts
      <3>2. /\ Keyboard \in SeqOf(Keys) /\ charBuffer \in SeqOf(Keys)
            /\ Held(inReq) \in SeqOf(Keys) /\ Coming \in SeqOf(Keys)
        BY <2>1, KeysOrderTypes
      <3>3. Cat(Keyboard, charBuffer) \in SeqOf(Keys)
        BY <3>2, Regroup
      <3>4. OnTheirWay = Cat(Held(inReq), Coming)
        BY <2>2 DEF Cat
      <3> QED BY <3>1, <3>2, <3>3, <3>4, Regroup DEF KeysOrder
    <2>4. Served = SubSeq(calls, 1, Len(given))
      <3>1. Served \in Seq(Callers) /\ Len(Served) = Len(given)
        BY <2>1, Projections DEF SeqOf
      <3>2. taskBuffer \in SeqOf(Callers) /\ Served \in SeqOf(Callers)
        BY <2>1, <3>1, TypeParts DEF InType, SeqOf
      <3>3. Asker(inBox) \in SeqOf(Callers)
        <4>1. inBox \in Seq(InMsgs)
          BY <2>1, TypeParts DEF InType
        <4>2. CASE inBox = <<>>
          BY <4>2, EmptyBox, Regroup
        <4>3. CASE inBox # <<>>
          <5>1. Head(inBox).type = "getchar" => Head(inBox).tid \in Callers
            BY <2>1, <4>3, InMessage DEF InMail
          <5>2. Asker(inBox) = IF Head(inBox).type = "getchar" THEN <<Head(inBox).tid>> ELSE <<>>
            BY <4>1, <4>3, BoxTail
          <5> QED BY <5>1, <5>2, OneElement, Regroup
        <4> QED BY <4>2, <4>3
      <3>4. PICK r \in Seq(Callers) : r = Cat(taskBuffer, Asker(inBox))
        BY <3>2, <3>3, Regroup DEF SeqOf
      <3>5. calls = Served \o r
        <4>1. Cat(Cat(Served, taskBuffer), Asker(inBox)) = calls
          BY <2>1, OrderParts DEF CallsOrder
        <4>2. calls = Cat(Served, r)
          BY <3>2, <3>3, <3>4, <4>1, Regroup
        <4> QED BY <4>2 DEF Cat
      <3> QED BY <3>1, <3>4, <3>5, PrefixOf
    <2> QED BY <2>1, <2>3, <2>4 DEF KeysInOrder, Order
  <1> QED BY <1>1, Inductive, PTL

(* A part of a sequence that agrees with another one is that one. *)
LEMMA PartIs ==
    ASSUME NEW S, NEW s \in Seq(S), NEW p \in Seq(S), p # <<>>, NEW i \in DOMAIN s,
           \A j \in 1 .. Len(p) : i + j - 1 \in DOMAIN s /\ s[i + j - 1] = p[j]
    PROVE  SubSeq(s, i, i + Len(p) - 1) = p
  <1>1. PICK n \in Nat : n = Len(p)
    OBVIOUS
  <1>2. DOMAIN s = 1 .. Len(s) /\ Len(s) \in Nat /\ i \in Nat /\ i >= 1 /\ n > 0
    BY <1>1, EmptySeq
  <1>3. PICK k \in Nat : k = i + n - 1
    BY <1>2
  <1>4. \A j \in i .. k : s[j] \in S
    <2> SUFFICES ASSUME NEW j \in i .. k PROVE j \in DOMAIN s
      OBVIOUS
    <2>1. j - i + 1 \in 1 .. n /\ i + (j - i + 1) - 1 = j
      BY <1>2, <1>3
    <2> QED BY <1>1, <2>1
  <1>5. PICK q : q = SubSeq(s, i, k)
    OBVIOUS
  <1>6. q \in Seq(S) /\ Len(q) = n /\ \A j \in 1 .. n : q[j] = s[i + j - 1]
    <2>1. i \in Int /\ k \in Int /\ i <= k /\ k - i + 1 = n
      BY <1>2, <1>3
    <2>2. /\ SubSeq(s, i, k) \in Seq(S)
          /\ Len(SubSeq(s, i, k)) = (IF i <= k THEN k - i + 1 ELSE 0)
          /\ \A j \in 1 .. k - i + 1 : SubSeq(s, i, k)[j] = s[i + j - 1]
      BY <1>4, <2>1, SubSeqProperties, SMTT(60)
    <2>3. q \in Seq(S) /\ Len(q) = n
      BY <1>5, <2>1, <2>2
    <2>4. \A j \in 1 .. n : q[j] = s[i + j - 1]
      BY <1>5, <2>1, <2>2, ZenonT(40)
    <2> QED BY <2>3, <2>4
  <1>7. \A j \in 1 .. n : q[j] = p[j]
    BY <1>1, <1>6
  <1>8. q = [j \in 1 .. n |-> q[j]] /\ p = [j \in 1 .. n |-> p[j]]
    BY <1>1, <1>6
  <1> QED BY <1>1, <1>3, <1>5, <1>7, <1>8

(* What is shown is what was taken over for output, in that order; the     *)
(* echoes in it are keys in the order they were taken, and no echo comes   *)
(* in between the bytes of a string, until the buffer overflows            *)
(* (io.c:102-117, 235-320).                                                *)
THEOREM EchoesStayInOrder == Spec => []EchoesInOrder
  <1>1. ASSUME IInv, ~lost
        PROVE  EchoesInOrder
    <2>1. TypeOK /\ Numbered /\ Echoes /\ Order
      BY <1>1 DEF IInv
    <2>2. Shown = accepted /\ accepted \in Seq(Bytes) /\ Text \in Seq(Bytes) /\ Text # <<>>
      BY <1>1, <2>1, TypeParts, Constants DEF Order, OtherType
    <2>3. Ascending(accepted) /\ Whole(accepted) /\ Below(accepted, Echoed)
      BY <2>1 DEF Echoes
    <2>4. ASSUME NEW i \in DOMAIN accepted, accepted[i] \in Keys
          PROVE  \E k \in DOMAIN taken : taken[k] = accepted[i]
      <3>1. PICK k \in Nat \ {0} : k = accepted[i]
        BY <2>4, Constants
      <3>2. k <= Echoed
        BY <2>3, <2>4, <3>1 DEF Below
      <3>3. k \in DOMAIN taken
        BY <2>1, <3>2, TakenIs
      <3> QED BY <2>1, <3>1, <3>3 DEF Numbered
    <2>5. ASSUME NEW i \in DOMAIN accepted, accepted[i] = Head(Text)
          PROVE  SubSeq(accepted, i, i + Len(Text) - 1) = Text
      <3>1. Head(Text) = Text[1]
        BY <2>2, HeadTail
      <3>2. \A j \in 1 .. Len(Text) : i + j - 1 \in DOMAIN accepted /\ accepted[i + j - 1] = Text[j]
        BY <2>3, <2>5, <3>1 DEF Whole
      <3> QED BY <2>2, <3>2, PartIs
    <2>6. \A i, j \in DOMAIN accepted :
             {accepted[i], accepted[j]} \subseteq Keys /\ i < j => accepted[i] < accepted[j]
      BY <2>3 DEF Ascending
    <2> QED BY <2>2, <2>4, <2>5, <2>6 DEF EchoesInOrder
  <1>2. IInv => EchoesInOrder
    BY <1>1 DEF EchoesInOrder
  <1> QED BY <1>2, Inductive, PTL
=============================================================================
