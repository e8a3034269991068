--------------------------- MODULE MCPathFinding ---------------------------
(***************************************************************************)
(* PathFinding on a loop 1, 2, ..., 10 and back to 1, with three ways from *)
(* the branch 2 to the merge 8 and an exit at 11.  23 - n is the reverse   *)
(* of n.  Nobody owns track, or somebody one of the ways or another, or    *)
(* the train itself the way on from the merge.                             *)
(***************************************************************************)
EXTENDS PathFinding

SequencesExt == INSTANCE SequencesExt

MCNodes   == 1 .. 22
MCReverse == [n \in MCNodes |-> 23 - n]

MCLines == {<<1, 2, 3>>, <<2, 3, 1>>, <<2, 4, 2>>, <<3, 5, 6>>, <<3, 6, 0>>, <<4, 7, 4>>,
            <<6, 7, 4>>, <<5, 8, 1>>, <<7, 8, 2>>, <<8, 9, 1>>, <<9, 10, 2>>, <<10, 11, 3>>,
            <<10, 1, 2>>}

(* The way from a to b is the way from b's reverse to a's, too. *)
MCEdges ==
    LET both == MCLines \cup {<<MCReverse[e[2]], MCReverse[e[1]], e[3]>> : e \in MCLines}
    IN  [n \in MCNodes |->
            LET out == SequencesExt!SetToSortSeq({e \in both : e[1] = n}, LAMBDA e, f : e[2] < f[2])
            IN  [k \in DOMAIN out |-> [dest |-> out[k][2], dist |-> out[k][3]]]]

MCReservations ==
    LET by(own) == [n \in MCNodes |-> IF n \in DOMAIN own THEN own[n] ELSE NoOne]
    IN  {by(<<>>), by([n \in {3, 19} |-> 2]), by([n \in {6} |-> 2]), by([n \in {9} |-> 1])}
=============================================================================
