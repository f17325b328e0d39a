------------------------- MODULE MCSessionLifecycle -------------------------
(***************************************************************************)
(* Small instances of SessionLifecycle for TLC.                            *)
(***************************************************************************)
EXTENDS SessionLifecycle, TLC

\* Clients and Names are only ever compared, so both may be permuted
Symmetry == Permutations(Clients) \cup Permutations(Names)
=============================================================================
