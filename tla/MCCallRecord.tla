---------------------------- MODULE MCCallRecord ----------------------------
(***************************************************************************)
(* A small instance of the rows of a call.  The asks of the agent are      *)
(* interchangeable; the properties checked with this symmetry are          *)
(* invariants and properties of a step.                                    *)
(***************************************************************************)
EXTENDS CallRecord, TLC

AsksSymmetry == Permutations(Asks)
=============================================================================
