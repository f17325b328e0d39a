---------------------------- MODULE SetupAttempt ----------------------------
(***************************************************************************)
(* What a setup attempt promises its client, whoever calls and whatever    *)
(* crashes: docs/adr/0005-fenced-windows-setup-owner.md names the three    *)
(* create-once records (request, launch receipt, terminal), and the code   *)
(* of setup_owner.py and windows_setup_process.py is shown to implement    *)
(* this specification by module SetupOwner.                                *)
(***************************************************************************)
EXTENDS SetupRecords

CONSTANTS Requests,   \* the raw requests a client may send for one attempt
          NoRequest   \* "there is no request.json"

VARIABLES request,    \* request.json
          owned,      \* launch-receipt.json exists
          run,        \* the staged script: "never" started, "running", "over"
          terminal    \* terminal.json

attemptVars == <<request, owned, run, terminal>>

AttemptInit ==
    /\ request = NoRequest
    /\ owned = FALSE
    /\ run = "never"
    /\ terminal = NoTerminal

\* The first request is kept for ever.
Accept ==
    /\ request = NoRequest
    /\ request' \in Requests
    /\ UNCHANGED <<owned, run, terminal>>

\* A keeper says that it owns the suspended root process.
Own ==
    /\ request # NoRequest
    /\ terminal = NoTerminal
    /\ ~owned
    /\ owned' = TRUE
    /\ UNCHANGED <<request, run, terminal>>

\* The script starts: at most once, after the receipt, before any terminal.
Resume ==
    /\ owned
    /\ terminal = NoTerminal
    /\ run = "never"
    /\ run' = "running"
    /\ UNCHANGED <<request, owned, terminal>>

\* The last process of the tree is gone.
Finish ==
    /\ run = "running"
    /\ run' = "over"
    /\ UNCHANGED <<request, owned, terminal>>

\* The terminal is published: once, readable, and true of the script.
Settle ==
    /\ request # NoRequest
    /\ terminal = NoTerminal
    /\ terminal' \in Terminals
    /\ SemanticsValid(terminal')
    /\ NeverRan(terminal') => run = "never"
    /\ terminal'.cleanup = "tree_gone" => run # "running"
    /\ Succeeded(terminal') => run = "over"
    /\ UNCHANGED <<request, owned, run>>

AttemptNext == Accept \/ Own \/ Resume \/ Finish \/ Settle

AttemptSpec == AttemptInit /\ [][AttemptNext]_attemptVars
=============================================================================
