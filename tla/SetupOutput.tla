----------------------------- MODULE SetupOutput -----------------------------
(***************************************************************************)
(* The output of a setup script on its way into terminal.json: the two     *)
(* threads of WindowsSetupProcess that drain its streams up to a bound,    *)
(* and the end of _run_keeper, which encodes what they kept as one JSON    *)
(* record with a bound of its own.                                         *)
(*                                                                         *)
(* Sizes are in units of 8 KiB.  The output is valid UTF-8 and its reads   *)
(* fall between characters: output that is not fails closed.               *)
(***************************************************************************)
EXTENDS Naturals, Sequences, SequencesExt

CONSTANTS
    MaxStream,  \* _MAX_STREAM_BYTES, kept of each stream
    MaxRecord,  \* MAX_RECORD_BYTES of an encoded record
    MaxRead     \* what one ReadFile returns at most

Streams == {"stdout", "stderr"}

\* What a byte becomes in JSON: itself, or a \u00xx escape.
Kinds == {"plain", "control"}
Width(kind) == IF kind = "control" THEN 6 ELSE 1

VARIABLES
    root,      \* "running", or how the script exited: "zero" or "nonzero"
    open,      \* the streams still being drained
    collected, \* _drain's `collected`
    truncated, \* and `truncated`
    terminal   \* terminal.json

vars == <<root, open, collected, truncated, terminal>>

NoTerminal == [outcome |-> "none"]

Init ==
    /\ root = "running"
    /\ open = Streams
    /\ collected = [s \in Streams |-> <<>>]
    /\ truncated = [s \in Streams |-> FALSE]
    /\ terminal = NoTerminal

\* One read of _drain, of what the script or a process of its tree wrote; the
\* rest of a full stream is read and dropped.
Drain(s) ==
    /\ s \in open
    /\ \E kind \in Kinds, n \in 1 .. MaxRead :
          LET remaining == MaxStream - Len(collected[s])
              kept == IF n < remaining THEN n ELSE remaining
          IN  /\ collected' = [collected EXCEPT ![s] = @ \o [i \in 1 .. kept |-> kind]]
              /\ truncated' = [truncated EXCEPT ![s] = @ \/ n > remaining]
    /\ UNCHANGED <<root, open, terminal>>

RootExits ==
    /\ root = "running"
    /\ \E code \in {"zero", "nonzero"} : root' = code
    /\ UNCHANGED <<open, collected, truncated, terminal>>

\* The pipe is broken by its writer's end, or the read fails.
DrainEnds(s) ==
    /\ s \in open
    /\ open' = open \ {s}
    /\ \/ root # "running" /\ UNCHANGED truncated
       \/ truncated' = [truncated EXCEPT ![s] = TRUE]
    /\ UNCHANGED <<root, collected, terminal>>

Encoded(content) == FoldSeq(LAMBDA kind, size : size + Width(kind), 0, content)

Whole == \A s \in Streams : ~truncated[s]
Result == [outcome |-> IF root = "zero" /\ Whole THEN "process_succeeded" ELSE "process_failed",
           process |-> "exited", code |-> root, output |-> collected]

\* The except clause: no exit code, no output, and the error as the message.
Failure == [outcome |-> "process_failed", process |-> "failed"]

\* finish_io and the rest of _run_keeper; _encode_record refuses a record past
\* its bound, of which the fields other than the output take less than a unit.
KeeperRecords ==
    /\ root # "running" /\ open = {} /\ terminal = NoTerminal
    /\ terminal' = IF Encoded(collected["stdout"]) + Encoded(collected["stderr"]) < MaxRecord
                   THEN Result ELSE Failure
    /\ UNCHANGED <<root, open, collected, truncated>>

Next ==
    \/ \E s \in Streams : Drain(s) \/ DrainEnds(s)
    \/ RootExits \/ KeeperRecords

Spec == Init /\ [][Next]_vars

-----------------------------------------------------------------------------
\* terminal.json records the process outcome and the bounded output: a script
\* that exited by itself and whose output stayed within its bounds is recorded
\* as exited, with its code and its output
\* (docs/adr/0005-fenced-windows-setup-owner.md:34).
RecordsOutcome ==
    terminal # NoTerminal /\ Whole =>
        /\ terminal.process = "exited"
        /\ terminal.code = root
        /\ terminal.output = collected
=============================================================================
