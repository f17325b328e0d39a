---------------------------- MODULE MCWindowsJob ----------------------------
(***************************************************************************)
(* Instances of WindowsJob for TLC.                                        *)
(***************************************************************************)
EXTENDS WindowsJob, TLC

Symmetry == Permutations(Launches)

\* Everything but a command that breaks off between its keeper's birth and the
\* first record.
Bounded == FaultKinds \ {"unrecorded"}
=============================================================================
