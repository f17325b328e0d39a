---------------------------- MODULE SetupRecords ----------------------------
(***************************************************************************)
(* The terminal record of a Windows setup attempt (SetupTerminal in        *)
(* src/blendersessiond/setup_owner.py) and the rule that says which        *)
(* combinations of its fields a reader accepts.  Data the protocol never   *)
(* looks at (the output bytes, the message, the time) is left out; the two *)
(* truncation flags are one, because every rule uses them together.        *)
(***************************************************************************)

Outcomes  == {"cancelled", "cleanup_unverified", "launch_failed", "owner_lost",
              "process_failed", "process_succeeded", "stopped",
              "stopped_before_ownership", "timed_out"}

Processes == {"cancelled", "cancelled_before_resume", "exited", "failed",
              "not_resumed", "not_started", "owner_lost", "timed_out"}

Cleanups  == {"cleanup_unverified", "tree_gone"}

\* exit_code: None, 0, or anything else.
ExitCodes == {"none", "zero", "nonzero"}

Terminals == [outcome: Outcomes, process: Processes, cleanup: Cleanups,
              exit: ExitCodes, truncated: BOOLEAN]

\* "There is no terminal.json."
NoTerminal == [outcome |-> "absent"]

\* A terminal written without an exit code and without output.
Bare(outcome, process, cleanup) ==
    [outcome |-> outcome, process |-> process, cleanup |-> cleanup,
     exit |-> "none", truncated |-> FALSE]

\* SetupTerminal.succeeded
Succeeded(t) ==
    /\ t.outcome = "process_succeeded"
    /\ t.process = "exited"
    /\ t.cleanup = "tree_gone"
    /\ t.exit = "zero"
    /\ ~t.truncated

\* _terminal_semantics_are_valid: what every reader demands of a record.
SemanticsValid(t) ==
    \/ Succeeded(t)
    \/ /\ t.outcome = "process_failed"
       /\ \/ t.process = "failed" /\ t.exit = "none"
          \/ t.process = "exited" /\ ~(t.exit = "zero" /\ ~t.truncated)
    \/ /\ t.outcome = "cancelled"
       /\ t.process = "cancelled"
       /\ t.cleanup = "tree_gone"
    \/ /\ t.outcome = "timed_out"
       /\ t.process \in {"timed_out", "not_resumed"}
       /\ t.cleanup = "tree_gone"
    \/ /\ t.exit = "none"
       /\ \/ /\ t.outcome = "stopped"
             /\ t.process \in {"cancelled", "cancelled_before_resume"}
             /\ t.cleanup = "tree_gone"
          \/ /\ t.outcome = "stopped_before_ownership"
             /\ t.process = "not_started"
             /\ t.cleanup = "tree_gone"
          \/ /\ t.outcome = "launch_failed"
             /\ t.process \in {"not_started", "not_resumed"}
          \/ /\ t.outcome = "owner_lost"
             /\ t.process = "owner_lost"
             /\ t.cleanup = "tree_gone"
          \/ /\ t.outcome = "cleanup_unverified"
             /\ t.process \in {"cancelled", "owner_lost"}
             /\ t.cleanup = "cleanup_unverified"

\* The records that say the script was never allowed to run.
NeverRan(t) == t.process \in {"not_started", "not_resumed", "cancelled_before_resume"}
=============================================================================
