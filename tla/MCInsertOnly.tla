----------------------------- MODULE MCInsertOnly -----------------------------
(***************************************************************************)
(* Loads for rings of a few slots, and the loads of main() for the ratios. *)
(***************************************************************************)
EXTENDS InsertOnly

ASSUME MainExperimentsFit == ExperimentsFit

SmallFills == {<<1, 2>>, <<3, 5>>, <<2, 3>>, <<4, 5>>}
SmallFill == <<2, 3>>
=============================================================================
