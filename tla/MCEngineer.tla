----------------------------- MODULE MCEngineer -----------------------------
(***************************************************************************)
(* Engineer on a loop of two sensors, 1 and 3, with a merge, 2, on the way *)
(* from 1 to 3; 6, 5, 4 are their reverses.                                *)
(***************************************************************************)
EXTENDS Engineer

MCNodes    == 1 .. 6
MCReverse  == [n \in MCNodes |-> 7 - n]
MCNextNode == [n \in MCNodes |-> CASE n = 3 -> 1 [] n = 6 -> 4 [] OTHER -> n + 1]
=============================================================================
