----------------------------- MODULE MCExecution -----------------------------
(***************************************************************************)
(* Execution on small instances.                                           *)
(***************************************************************************)
EXTENDS Execution, TLC

Symmetry == Permutations(Runs)
=============================================================================
