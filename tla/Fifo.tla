-------------------------------- MODULE Fifo --------------------------------
(***************************************************************************)
(* The queue module CBuffer implements: a sequence of fewer than Size      *)
(* elements, and the result of the last call.                              *)
(***************************************************************************)
EXTENDS BoundedQueue, Integers

CONSTANTS Size, Values

VARIABLES queue, out

Init == queue = <<>> /\ out = 0

Push(v) ==
    /\ queue' = Pushed(queue, Size, v)
    /\ out' = IF Len(queue) = Size - 1 THEN -1 ELSE 0

Pop ==
    IF queue = <<>> THEN out' = -1 /\ UNCHANGED queue
    ELSE out' = Head(queue) /\ queue' = Tail(queue)

Clean == queue' = <<>> /\ out' = 0

Next == Pop \/ Clean \/ \E v \in Values : Push(v)

Spec == Init /\ [][Next]_<<queue, out>>
=============================================================================
