---------------------------- MODULE MCSetupOwner ----------------------------
(***************************************************************************)
(* Instances of SetupOwner for TLC: callers that may each run any          *)
(* command any number of times.                                            *)
(***************************************************************************)
EXTENDS SetupOwner, TLC

\* The callers run the same code.
Symmetry == Permutations(Callers)

\* Everything that may go wrong, and what a stop must survive: a keeper that
\* dies, and a launch that dies with its dispatch half done.  (Any other
\* interrupted caller, a process that cannot be asked and a Job that does not
\* drain are reported to the client, which asks again.)
AllFaults == FaultKinds
DyingProcesses == {"keeperCrash", "launchCrash"}
=============================================================================
