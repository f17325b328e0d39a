--------------------------- MODULE MCProcessTree ---------------------------
(***************************************************************************)
(* Instances of ProcessTree for TLC.                                       *)
(***************************************************************************)
EXTENDS ProcessTree, TLC

Symmetry == Permutations(Pids)
=============================================================================
