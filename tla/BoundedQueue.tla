---------------------------- MODULE BoundedQueue ----------------------------
(***************************************************************************)
(* What the ring buffers of kernel/utils.c hold, seen as a sequence: the   *)
(* servers use them through these operators, and module CBuffer shows that *)
(* the ring of the code behaves like this.                                 *)
(*                                                                         *)
(* One slot is never used, so a buffer of `size' holds size-1 elements.  A *)
(* push into a full one steps the tail over the head: what was there is    *)
(* gone and only the new element is left.                                  *)
(***************************************************************************)
EXTENDS Naturals, Sequences

Pushed(q, size, x) == IF Len(q) < size - 1 THEN Append(q, x) ELSE <<x>>

(* CBufferPushStr and CBufferPushString: one element after the other. *)
PushedAll(q, size, s) ==
    LET push[n \in 0 .. Len(s)] ==
          IF n = 0 THEN q ELSE Pushed(push[n - 1], size, s[n])
    IN  push[Len(s)]
=============================================================================
