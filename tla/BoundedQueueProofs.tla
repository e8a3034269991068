------------------------- MODULE BoundedQueueProofs -------------------------
(***************************************************************************)
(* What the operators of BoundedQueue do to any queue.  TrainOutProofs and *)
(* MonitorProofs rest on these lemmas.                                     *)
(***************************************************************************)
EXTENDS BoundedQueue, SequenceTheorems, WellFoundedInduction, TLAPS

LEMMA LeastExists ==
    ASSUME NEW S, S \subseteq Nat, S # {}
    PROVE  \E k \in S : \A j \in S : k <= j
  <1>1. PICK k \in S : \A j \in S : ~(<<j, k>> \in OpToRel(<, Nat))
    BY NatLessThanWellFounded, WFMin
  <1>2. \A j \in S : ~(j < k)
    BY <1>1 DEF OpToRel
  <1>3. k \in Nat /\ \A j \in S : j \in Nat
    OBVIOUS
  <1>4. \A j \in S : k <= j
    BY <1>2, <1>3
  <1> QED BY <1>4

(* f is what the buffer holds after each of the first k elements of s. *)
Pushes(q, size, s, k, f) ==
    f = [n \in 0 .. k |-> IF n = 0 THEN q ELSE Pushed(f[n - 1], size, s[n])]

LEMMA PushesExist ==
    ASSUME NEW q, NEW size, NEW s, NEW k \in Nat
    PROVE  \E f : Pushes(q, size, s, k, f)
  <1> DEFINE Bad == {j \in Nat : ~\E f : Pushes(q, size, s, j, f)}
  <1>1. SUFFICES ASSUME Bad # {} PROVE FALSE
    OBVIOUS
  <1>2. PICK b \in Bad : \A j \in Bad : b <= j
    BY <1>1, LeastExists
  <1>3. CASE b = 0
    <2>1. PICK f : f = [j \in 0 .. 0 |-> q]
      OBVIOUS
    <2>2. \A j \in 0 .. 0 : j = 0
      OBVIOUS
    <2>3. f = [n \in 0 .. 0 |-> IF n = 0 THEN q ELSE Pushed(f[n - 1], size, s[n])]
      BY <2>1, <2>2, Zenon
    <2> QED BY <1>3, <2>3 DEF Pushes
  <1>4. CASE b # 0
    <2>1. b \in Nat /\ b - 1 \in Nat /\ ~(b <= b - 1)
      BY <1>4
    <2>2. PICK f : Pushes(q, size, s, b - 1, f)
      BY <1>2, <2>1
    <2>3. PICK g : g = [n \in 0 .. b |-> IF n = b THEN Pushed(f[b - 1], size, s[b]) ELSE f[n]]
      OBVIOUS
    <2>4. \A n \in 0 .. b - 1 : f[n] = IF n = 0 THEN q ELSE Pushed(f[n - 1], size, s[n])
      BY <2>2, Zenon DEF Pushes
    <2>5. ASSUME NEW n \in 0 .. b
          PROVE  g[n] = IF n = 0 THEN q ELSE Pushed(g[n - 1], size, s[n])
      <3>1. CASE n = b
        <4>1. b - 1 \in 0 .. b /\ b - 1 # b /\ b \in 0 .. b
          BY <2>1
        <4>2. g[b - 1] = f[b - 1] /\ g[b] = Pushed(f[b - 1], size, s[b])
          BY <2>3, <4>1
        <4> QED BY <1>4, <3>1, <4>2
      <3>2. CASE n # b
        <4>1. n \in 0 .. b - 1 /\ (n # 0 => n - 1 \in 0 .. b /\ n - 1 # b)
          BY <2>1, <3>2
        <4>2. g[n] = f[n] /\ (n # 0 => g[n - 1] = f[n - 1])
          BY <2>3, <3>2, <4>1
        <4> QED BY <2>4, <4>1, <4>2
      <3> QED BY <3>1, <3>2
    <2>6. g = [n \in 0 .. b |-> g[n]]
      BY <2>3
    <2>7. Pushes(q, size, s, b, g)
      BY <2>5, <2>6 DEF Pushes
    <2> QED BY <2>7
  <1> QED BY <1>3, <1>4

LEMMA PushedEffect ==
    ASSUME NEW S, NEW q \in Seq(S), NEW x \in S, NEW size \in Nat, size > 1
    PROVE  /\ Pushed(q, size, x) \in Seq(S) /\ Len(Pushed(q, size, x)) < size
           /\ Len(q) + 1 < size => Pushed(q, size, x) = q \o <<x>>
  <1>1. Len(q) \in Nat
    OBVIOUS
  <1>2. CASE Len(q) < size - 1
    <2>1. Pushed(q, size, x) = Append(q, x)
      BY <1>2 DEF Pushed
    <2>2. Append(q, x) \in Seq(S) /\ Len(Append(q, x)) = Len(q) + 1
      OBVIOUS
    <2>3. Append(q, x) = q \o <<x>>
      BY AppendIsConcat
    <2> QED BY <1>1, <1>2, <2>1, <2>2, <2>3
  <1>3. CASE ~(Len(q) < size - 1)
    <2>1. Pushed(q, size, x) = <<x>>
      BY <1>3 DEF Pushed
    <2>2. <<x>> \in Seq(S) /\ Len(<<x>>) = 1
      OBVIOUS
    <2> QED BY <1>1, <1>3, <2>1, <2>2
  <1> QED BY <1>2, <1>3

(* What the copying loop leaves: never more than fits, and all of the      *)
(* string behind what was there when there is room for it.                 *)
LEMMA PushedAllEffect ==
    ASSUME NEW S, NEW q \in Seq(S), NEW s \in Seq(S), NEW size \in Nat, size > 1,
           Len(q) < size
    PROVE  /\ PushedAll(q, size, s) \in Seq(S) /\ Len(PushedAll(q, size, s)) < size
           /\ Len(q) + Len(s) < size => PushedAll(q, size, s) = q \o s
  <1>1. Len(s) \in Nat /\ Len(q) \in Nat
    OBVIOUS
  <1>2. PICK f : f = CHOOSE g : Pushes(q, size, s, Len(s), g)
    OBVIOUS
  <1>3. PushedAll(q, size, s) = f[Len(s)]
    BY <1>2 DEF PushedAll, Pushes
  <1>4. Pushes(q, size, s, Len(s), f)
    BY <1>1, <1>2, PushesExist
  <1>5. \A n \in 0 .. Len(s) : f[n] = IF n = 0 THEN q ELSE Pushed(f[n - 1], size, s[n])
    BY <1>4, Zenon DEF Pushes
  <1> DEFINE Good(n) == /\ f[n] \in Seq(S) /\ Len(f[n]) < size
                        /\ Len(q) + n < size =>
                              f[n] = q \o SubSeq(s, 1, n) /\ Len(f[n]) = Len(q) + n
             Bad == {n \in Nat : n <= Len(s) /\ ~Good(n)}
  <1>6. Bad = {}
    <2> SUFFICES ASSUME Bad # {} PROVE FALSE
      OBVIOUS
    <2>1. PICK b \in Bad : \A j \in Bad : b <= j
      BY LeastExists
    <2>2. CASE b = 0
      <3>1. f[0] = q
        BY <1>1, <1>5
      <3>2. SubSeq(s, 1, 0) = << >>
        BY SubSeqEmpty
      <3>3. q \o << >> = q
        BY ConcatEmptySeq
      <3> QED BY <1>1, <2>1, <2>2, <3>1, <3>2, <3>3
    <2>3. CASE b # 0
      <3>1. b \in 1 .. Len(s) /\ b \in Nat /\ b - 1 \in Nat /\ ~(b <= b - 1) /\ b - 1 <= Len(s)
        BY <1>1, <2>3
      <3>2. Good(b - 1)
        BY <2>1, <3>1
      <3>3. f[b] = Pushed(f[b - 1], size, s[b]) /\ s[b] \in S
        BY <1>1, <1>5, <3>1
      <3>4. PICK p \in Seq(S) : p = f[b - 1]
        BY <3>2
      <3>10. PICK x \in S : x = s[b]
        BY <3>3
      <3>11. PICK t : t = SubSeq(s, 1, b - 1)
        OBVIOUS
      <3>5. f[b] = Pushed(p, size, x)
        BY <3>3, <3>4, <3>10
      <3>6. f[b] \in Seq(S) /\ Len(f[b]) < size
        BY <3>5, PushedEffect
      <3>7. ASSUME Len(q) + b < size
            PROVE  f[b] = q \o SubSeq(s, 1, b) /\ Len(f[b]) = Len(q) + b
        <4>1. Len(q) + (b - 1) < size
          BY <1>1, <3>1, <3>7
        <4>2. p = q \o t /\ Len(p) = Len(q) + (b - 1)
          BY <3>2, <3>4, <3>11, <4>1
        <4>3. Len(p) + 1 < size /\ Len(p) + 1 = Len(q) + b
          BY <1>1, <3>1, <3>7, <4>2
        <4>4. f[b] = p \o <<x>>
          BY <3>5, <4>3, PushedEffect
        <4>5. t \in Seq(S) /\ q \in Seq(S) /\ <<x>> \in Seq(S)
          <5>1. b - 1 \in Int /\ \A i \in 1 .. b - 1 : s[i] \in S
            BY <3>1
          <5> QED BY <3>1, <3>11, <5>1, SubSeqProperties
        <4>6. (q \o t) \o <<x>> = q \o (t \o <<x>>)
          <5>1. PICK u \in Seq(S) : u = <<x>>
            BY <4>5
          <5>2. (q \o t) \o u = q \o (t \o u)
            BY <4>5, ConcatAssociative, SMTT(60)
          <5> QED BY <5>1, <5>2
        <4>7. 1 \in 1 .. Len(s) /\ b \in 1 .. Len(s)
          BY <3>1
        <4>8. SubSeq(s, 1, b) = t \o <<x>>
          BY <3>10, <3>11, <4>7, SubSeqRecursiveSecond
        <4>9. Len(p \o <<x>>) = Len(p) + 1
          BY <4>5, ConcatProperties
        <4> QED BY <4>2, <4>3, <4>4, <4>6, <4>8, <4>9
      <3> QED BY <2>1, <3>6, <3>7
    <2> QED BY <2>2, <2>3
  <1>7. Good(Len(s))
    BY <1>1, <1>6
  <1>8. SubSeq(s, 1, Len(s)) = s
    BY SubSeqFull
  <1> QED BY <1>3, <1>7, <1>8
LEMMA HeadTail ==
    ASSUME NEW S, NEW s \in Seq(S), s # <<>>
    PROVE  /\ Head(s) \in S /\ Tail(s) \in Seq(S) /\ <<Head(s)>> \in Seq(S)
           /\ Len(s) \in Nat /\ Len(s) > 0 /\ Len(Tail(s)) = Len(s) - 1
           /\ 1 \in DOMAIN s /\ s[1] = Head(s)
           /\ \A i \in DOMAIN Tail(s) : i + 1 \in DOMAIN s /\ Tail(s)[i] = s[i + 1]
           /\ <<Head(s)>> \o Tail(s) = s
  <1>1. Len(s) \in Nat /\ Len(s) > 0 /\ DOMAIN s = 1 .. Len(s)
    BY EmptySeq
  <1>2. /\ Head(s) \in S /\ Tail(s) \in Seq(S) /\ <<Head(s)>> \in Seq(S)
        /\ Len(Tail(s)) = Len(s) - 1
        /\ DOMAIN Tail(s) = 1 .. Len(s) - 1
        /\ \A i \in 1 .. Len(s) - 1 : Tail(s)[i] = s[i + 1]
    BY <1>1
  <1>3. s[1] = Head(s)
    BY <1>1
  <1>4. <<Head(s)>> \o Tail(s) = s
    <2>1. 1 \in 1 .. Len(s) /\ Len(s) \in 1 .. Len(s)
      BY <1>1
    <2>2. SubSeq(s, 1, Len(s)) = << s[1] >> \o SubSeq(s, 2, Len(s))
      BY <2>1, SubSeqRecursiveFirst
    <2> QED BY <1>3, <2>2, SubSeqFull, TailIsSubSeq
  <1> QED BY <1>1, <1>2, <1>3, <1>4
=============================================================================
