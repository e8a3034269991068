--------------------------- MODULE MCReservation ---------------------------
(***************************************************************************)
(* Reservation on two tracks.                                              *)
(*                                                                         *)
(* The first is a loop of L nodes, from 2 round to the branch L + 1, which *)
(* curves off to the exit L + 2; 2 is also reached from the enter 1.  The  *)
(* nodes after these are their reverses, backwards, and look the same.     *)
(***************************************************************************)
EXTENDS Reservation

CONSTANT L

MCNodes   == 1 .. 2 * (L + 2)
MCReverse == [n \in MCNodes |-> 2 * L + 5 - n]

MCEdges ==
    [n \in MCNodes |->
        LET before == IF n > L + 2 THEN L + 2 ELSE 0
        IN  CASE n = before + L + 2 -> <<>>
              [] n = before + L + 1 -> <<before + 2, n + 1>>
              [] OTHER -> <<n + 1>>]

MCSettings == {{}, {n \in MCNodes : Len(MCEdges[n]) = 2}}

MCStarts == {[t \in Engineers |-> IF t = 1 THEN 2 ELSE L + 1]}

(* The second is the inner loop of track A (test/track_data.c) and where   *)
(* its turnouts lead off it: 1 to 15 are A3, BR14, C11, BR13, E16, E1,     *)
(* MR156, BR154, BR153, C1, B4, MR16, C9, MR15 and B15, 31 - n the reverse *)
(* of n, and the nodes off the loop are exits, with their enters.          *)
LoopNodes   == 1 .. 44
LoopReverse == [n \in LoopNodes |-> IF n <= 30 THEN 31 - n ELSE 75 - n]

Branches == <<2, 4, 8, 9, 17, 19, 24>>

(* All are set along the loop, BR154 straight. *)
LoopSetting == {2, 4, 9, 17, 19, 24}

Round(n) == CASE n = 15 -> 1 [] n = 30 -> 16 [] OTHER -> n + 1

LoopEdges ==
    [n \in LoopNodes |->
        IF n <= 30
        THEN IF \E i \in 1 .. 7 : Branches[i] = n
             THEN LET off == 30 + CHOOSE i \in 1 .. 7 : Branches[i] = n
                  IN  IF n \in LoopSetting THEN <<off, Round(n)>> ELSE <<Round(n), off>>
             ELSE <<Round(n)>>
        ELSE IF n <= 37 THEN <<>> ELSE <<31 - Branches[45 - n]>>]

LoopStarts == {[t \in Engineers |-> 1]}
=============================================================================
