----------------------------- MODULE MCTrainOut -----------------------------
(***************************************************************************)
(* TrainOut on a small instance: single bytes, the empty string, and a     *)
(* string of two.                                                          *)
(***************************************************************************)
EXTENDS TrainOut

MCStrings == {<<>>, <<1>>, <<2, 3>>}
=============================================================================
