----------------------------- MODULE SetupOwner -----------------------------
(***************************************************************************)
(* One Windows setup attempt: the callers of `blendersessiond setup-owner` *)
(* (launch, status, stop; setup_owner.py), the detached keeper and the     *)
(* process tree in its kill-on-close Job (windows_setup_process.py).       *)
(*                                                                         *)
(* Callers and keeper share the attempt's directory only: three            *)
(* create-once records, two markers, and the lock file.  A step is one     *)
(* critical section of the code, cut after every durable write, because a  *)
(* reader without the lock sees the directory between two writes and a     *)
(* crash may fall there.  Each poll loop is one read: it may answer, or    *)
(* give up at its bound, whenever it is scheduled.                         *)
(***************************************************************************)
EXTENDS SetupRecords

CONSTANTS
    Callers,    \* processes that run setup-owner commands
    Requests,   \* raw requests sent for this attempt
    NoRequest,  \* there is no request.json
    Keeper,     \* the keeper, as the holder of the lock
    Nobody,     \* nobody holds the lock
    Faults      \* which faults may happen

FaultKinds == {"callerCrash",   \* a command is interrupted
               "launchCrash",   \* a launch is, before it touches .stop
               "keeperCrash",   \* the keeper dies
               "query",         \* a process cannot be opened or asked
               "spawn",         \* the keeper is not created
               "stage",         \* the staged script is not the accepted one
               "launch",        \* no suspended process, or no keeper identity
               "io",            \* resume, wait or stream failure
               "drain",         \* the Job is not empty within its bound
               "write"}         \* a record cannot be written

ASSUME DistinctHolders == /\ Keeper # Nobody
                          /\ Keeper \notin Callers
                          /\ Nobody \notin Callers
ASSUME RealRequests == NoRequest \notin Requests
ASSUME KnownFaults == Faults \subseteq FaultKinds

VARIABLES
    request,     \* request.json
    dispatched,  \* marker .dispatch
    stopAsked,   \* marker .stop
    receipt,     \* launch-receipt.json exists
    terminal,    \* terminal.json
    lock,        \* who holds .lock
    expired,     \* the request's deadline has passed
    pc,          \* where each caller is in its command
    answered,    \* the terminals callers were given so far
    kpc,         \* where the keeper is
    verdict,     \* the keeper's locals `process` and `exit_value`
    draft,       \* the terminal the keeper is about to publish
    root,        \* the root process of the setup tree
    child,       \* a descendant of it is alive
    doomed,      \* the Job was terminated or its last handle closed
    ran          \* history: the root was resumed

caller == <<pc, answered>>
records == <<request, dispatched, stopAsked, receipt, terminal>>
keeper == <<kpc, verdict, draft>>
tree == <<root, child, doomed, ran>>
vars == <<records, lock, expired, caller, keeper, tree>>

CallerPoints == {"idle", "launch", "spawn", "await", "giveUp", "giveUpPublish",
                 "lossDecide", "publishLost", "stopAck", "publishNoAck",
                 "stopWait", "stopKill", "reconcile", "publishCancelled"}

KeeperPoints == {"none", "load", "gate", "create", "own", "abandon", "owned",
                 "cancel", "io", "overdue", "watch", "watchJob", "readExit",
                 "collect", "fail", "failWait", "publish", "close", "dead"}

Alive == {"suspended", "running"}
Exits == {"zero", "nonzero", "stillActive"}     \* 259 reads as "still active"
RootStates == {"none", "killed"} \cup Alive \cup Exits

\* WindowsSetupProcess.empty
JobEmpty == root \notin Alive /\ ~child

KeeperAlive == kpc \notin {"none", "dead"}

TypeOK ==
    /\ request \in Requests \cup {NoRequest}
    /\ dispatched \in BOOLEAN /\ stopAsked \in BOOLEAN /\ receipt \in BOOLEAN
    /\ terminal \in Terminals \cup {NoTerminal}
    /\ lock \in Callers \cup {Keeper, Nobody}
    /\ expired \in BOOLEAN
    /\ pc \in [Callers -> CallerPoints]
    /\ answered \subseteq Terminals
    /\ kpc \in KeeperPoints
    /\ verdict \in [process: {"none", "exited", "cancelled", "timed_out"}, exit: ExitCodes]
    /\ draft \in Terminals \cup {NoTerminal}
    /\ root \in RootStates
    /\ child \in BOOLEAN /\ doomed \in BOOLEAN /\ ran \in BOOLEAN

Init ==
    /\ request = NoRequest
    /\ dispatched = FALSE /\ stopAsked = FALSE /\ receipt = FALSE
    /\ terminal = NoTerminal
    /\ lock = Nobody
    /\ expired = FALSE
    /\ pc = [c \in Callers |-> "idle"]
    /\ answered = {}
    /\ kpc = "none"
    /\ verdict = [process |-> "none", exit |-> "none"]
    /\ draft = NoTerminal
    /\ root = "none"
    /\ child = FALSE /\ doomed = FALSE /\ ran = FALSE

-----------------------------------------------------------------------------
(* What the commands and the keeper write.                                 *)

LaunchFailed       == Bare("launch_failed", "not_started", "cleanup_unverified")
Unstaged           == Bare("launch_failed", "not_started", "tree_gone")
StoppedBeforeOwner == Bare("stopped_before_ownership", "not_started", "tree_gone")
StoppedBeforeStart == Bare("stopped", "cancelled_before_resume", "tree_gone")
Overdue            == Bare("timed_out", "not_resumed", "tree_gone")
OwnerLost          == Bare("cleanup_unverified", "owner_lost", "cleanup_unverified")
StopUnverified     == Bare("cleanup_unverified", "cancelled", "cleanup_unverified")

ResultIfTruncated(v, truncated) ==  \* mutant: truncated output still succeeds
    [outcome |-> IF v.process # "exited" THEN v.process
                 ELSE IF v.exit = "zero" THEN "process_succeeded" ELSE "process_failed",
     process |-> v.process, cleanup |-> "tree_gone", exit |-> v.exit,
     truncated |-> truncated]

\* The last lines of _run_keeper: how the tree ended.
Result(v, truncated) ==
    [outcome |-> IF v.process # "exited" THEN v.process
                 ELSE IF v.exit = "zero" /\ ~truncated THEN "process_succeeded"
                 ELSE "process_failed",
     process |-> v.process, cleanup |-> "tree_gone", exit |-> v.exit,
     truncated |-> truncated]

\* Its except clause.
Failure(resumed, cleanup) ==
    IF resumed THEN Bare("process_failed", "failed", cleanup)
               ELSE Bare("launch_failed", "not_resumed", cleanup)

-----------------------------------------------------------------------------
(* Callers.                                                                *)

\* _read_view: terminal.json first, then launch-receipt.json.  Records are
\* never removed and no receipt follows a terminal, so the two reads give
\* what one read at some moment between them would.
View == IF terminal # NoTerminal THEN "terminal"
        ELSE IF receipt THEN "receipt" ELSE "none"

Goto(c, point) == pc' = [pc EXCEPT ![c] = point]

\* The command returns the view it has just read.
Answer(c) ==
    /\ Goto(c, "idle")
    /\ answered' = IF terminal # NoTerminal THEN answered \cup {terminal} ELSE answered

\* _process_state: the exact identity is alive, is not, or cannot be asked.
Seen(alive) == {IF alive THEN "matches" ELSE "gone"}
                 \cup (IF "query" \in Faults THEN {"unknown"} ELSE {})

\* launch: accept_launch_request under the lock.  Other bytes are refused.
LaunchAccept(c, r) ==
    /\ pc[c] = "idle" /\ lock = Nobody
    /\ request \in {NoRequest, r}
    /\ request = NoRequest => ~expired
    /\ request' = r
    /\ Goto(c, "launch")
    /\ UNCHANGED <<dispatched, stopAsked, receipt, terminal, lock, expired, answered, keeper, tree>>

\* launch: the section that decides who spawns the keeper.
LaunchDispatch(c) ==
    /\ pc[c] = "launch" /\ lock = Nobody
    /\ \/ View # "none" /\ Answer(c) /\ UNCHANGED dispatched
       \/ /\ View = "none"
          /\ dispatched' = TRUE
          /\ Goto(c, IF dispatched THEN "await" ELSE "spawn")
          /\ UNCHANGED answered
    /\ UNCHANGED <<request, stopAsked, receipt, terminal, lock, expired, keeper, tree>>

\* _spawn_keeper: it may fail after the keeper exists, because the start time
\* of the new process cannot be read.
LaunchSpawn(c) ==
    /\ pc[c] = "spawn"
    /\ \/ kpc' = "load" /\ Goto(c, "await")
       \/ "query" \in Faults /\ kpc' = "load" /\ Goto(c, "giveUp")
       \/ "spawn" \in Faults /\ kpc' = kpc /\ Goto(c, "giveUp")
    /\ UNCHANGED <<records, lock, expired, answered, verdict, draft, tree>>

\* launch: the poll for an acknowledgement and its bound.
LaunchAwait(c) ==
    /\ pc[c] = "await"
    /\ \/ View # "none" /\ Answer(c)
       \/ View = "none" /\ Goto(c, "giveUp") /\ UNCHANGED answered
    /\ UNCHANGED <<records, lock, expired, keeper, tree>>

\* launch and status without an acknowledgement: look again under the lock,
\* and forbid the keeper to go on.
GiveUp(c) ==
    /\ pc[c] = "giveUp" /\ lock = Nobody
    /\ \/ View # "none" /\ Answer(c) /\ UNCHANGED <<stopAsked, lock>>
       \/ /\ View = "none"
          /\ stopAsked' = TRUE
          /\ lock' = c
          /\ Goto(c, "giveUpPublish")
          /\ UNCHANGED answered
    /\ UNCHANGED <<request, dispatched, receipt, terminal, expired, keeper, tree>>

GiveUpPublish(c) ==
    /\ pc[c] = "giveUpPublish"
    /\ terminal' = LaunchFailed
    /\ answered' = answered \cup {LaunchFailed}
    /\ lock' = Nobody
    /\ Goto(c, "idle")
    /\ UNCHANGED <<request, dispatched, stopAsked, receipt, expired, keeper, tree>>

\* status, with the exact fence of the accepted request.
Status(c, r) ==
    /\ pc[c] = "idle" /\ request # NoRequest /\ r = request
    /\ \/ View = "terminal" /\ Answer(c)
       \/ /\ View = "none" /\ dispatched /\ expired
          /\ Goto(c, "giveUp") /\ UNCHANGED answered
       \/ /\ View = "receipt" /\ "gone" \in Seen(KeeperAlive)
          /\ Goto(c, "lossDecide") /\ UNCHANGED answered
    /\ UNCHANGED <<records, lock, expired, keeper, tree>>

\* _reconcile_owner_loss after its poll: keeper and root are asked again.
LossDecide(c) ==
    /\ pc[c] = "lossDecide"
    /\ \E k \in Seen(KeeperAlive), p \in Seen(root \in Alive) :
          Goto(c, IF k = "gone" /\ p # "unknown" THEN "publishLost" ELSE "idle")
    /\ UNCHANGED <<records, lock, expired, answered, keeper, tree>>

\* stop: its first section.
Stop(c, r) ==
    /\ pc[c] = "idle" /\ request # NoRequest /\ r = request /\ lock = Nobody
    /\ \/ View = "terminal" /\ Answer(c) /\ UNCHANGED <<stopAsked, terminal>>
       \/ /\ View = "none" /\ ~dispatched
          /\ terminal' = StoppedBeforeOwner
          /\ answered' = answered \cup {StoppedBeforeOwner}
          /\ UNCHANGED <<pc, stopAsked>>
       \/ /\ View = "receipt" \/ (View = "none" /\ dispatched)
          /\ stopAsked' = TRUE
          /\ Goto(c, "stopAck")
          /\ UNCHANGED <<answered, terminal>>
    /\ UNCHANGED <<request, dispatched, receipt, lock, expired, keeper, tree>>

\* stop: the poll for an acknowledgement, and the read after its bound.
StopAck(c) ==
    /\ pc[c] = "stopAck"
    /\ \/ View = "terminal" /\ Answer(c)
       \/ View = "receipt" /\ Goto(c, "stopWait") /\ UNCHANGED answered
       \/ View = "none" /\ Goto(c, "publishNoAck") /\ UNCHANGED answered
    /\ UNCHANGED <<records, lock, expired, keeper, tree>>

\* stop: the poll for the keeper's terminal; its bound, or a lost keeper.
StopWait(c) ==
    /\ pc[c] = "stopWait"
    /\ \/ View = "terminal" /\ Answer(c)
       \/ View # "terminal" /\ Goto(c, "stopKill") /\ UNCHANGED answered
    /\ UNCHANGED <<records, lock, expired, keeper, tree>>

KeeperEndsAlone ==  \* mutant: no kill-on-close
    /\ kpc' = "dead"
    /\ lock' = IF lock = Keeper THEN Nobody ELSE lock
    /\ UNCHANGED doomed

\* The keeper's process ends, killed or by itself: its lock is released and
\* the last handle of its kill-on-close Job goes with it.
KeeperEnds ==
    /\ kpc' = "dead"
    /\ lock' = IF lock = Keeper THEN Nobody ELSE lock
    /\ doomed' = (root # "none")

\* stop: terminate_exact_process on a keeper that is alive or unknown.
StopKill(c) ==
    /\ pc[c] = "stopKill"
    /\ \/ /\ "gone" \in Seen(KeeperAlive) \/ ("unknown" \in Seen(KeeperAlive) /\ ~KeeperAlive)
          /\ Goto(c, "reconcile")
          /\ UNCHANGED <<kpc, lock, doomed>>
       \/ KeeperAlive /\ KeeperEnds /\ Goto(c, "reconcile")
       \/ "query" \in Faults /\ Goto(c, "idle") /\ UNCHANGED <<kpc, lock, doomed>>
    /\ UNCHANGED <<records, expired, answered, verdict, draft, root, child, ran>>

ReconcileAsksNobody(c) ==  \* mutant: without a terminal, stop just reports
    /\ pc[c] = "reconcile"
    /\ Answer(c)
    /\ UNCHANGED <<records, lock, expired, keeper, tree>>

\* _reconcile_after_stop: its poll, then keeper and root are asked.
Reconcile(c) ==
    /\ pc[c] = "reconcile"
    /\ \/ View = "terminal" /\ Answer(c)
       \/ /\ View # "terminal"
          /\ \E k \in Seen(KeeperAlive), p \in Seen(root \in Alive) :
                Goto(c, IF k = "gone" /\ p # "unknown" THEN "publishCancelled" ELSE "idle")
          /\ UNCHANGED answered
    /\ UNCHANGED <<records, lock, expired, keeper, tree>>

PublishOver(t) == lock = Nobody /\ terminal' = t  \* mutant: the last one wins

\* _publish_terminal: a terminal that is there already wins.
PublishTerminal(t) ==
    /\ lock = Nobody
    /\ terminal' = IF terminal = NoTerminal THEN t ELSE terminal

CallerPublish(c, point, t) ==
    /\ pc[c] = point
    /\ PublishTerminal(t)
    /\ answered' = answered \cup {terminal'}
    /\ Goto(c, "idle")
    /\ UNCHANGED <<request, dispatched, stopAsked, receipt, lock, expired, keeper, tree>>

PublishNoAck(c)     == CallerPublish(c, "publishNoAck", LaunchFailed)
PublishLost(c)      == CallerPublish(c, "publishLost", OwnerLost)
PublishCancelled(c) == CallerPublish(c, "publishCancelled", StopUnverified)

\* A command ends between two steps: whatever it wrote stays.
CallerCrash(c) ==
    /\ \/ "callerCrash" \in Faults /\ pc[c] # "idle"
       \/ "launchCrash" \in Faults /\ pc[c] \in {"launch", "spawn", "await", "giveUp"}
    /\ lock' = IF lock = c THEN Nobody ELSE lock
    /\ Goto(c, "idle")
    /\ UNCHANGED <<records, expired, answered, keeper, tree>>

-----------------------------------------------------------------------------
(* The keeper: _run_keeper.                                                *)

KeeperAt(from, to) == kpc = from /\ kpc' = to

\* The job is terminated; its processes die when the kernel gets to them.
Terminate == doomed' = TRUE

DrainedAtOnce == TRUE  \* mutant: nobody waits for the Job

\* wait_empty returned, or raised after its ten seconds.
Drained  == JobEmpty
DrainLost == "drain" \in Faults /\ ~JobEmpty

\* read_staged_script, again, before anything is created.
KeeperStage ==
    /\ \/ KeeperAt("load", "gate") /\ UNCHANGED draft
       \/ "stage" \in Faults /\ KeeperAt("load", "publish") /\ draft' = Unstaged
    /\ UNCHANGED <<records, lock, expired, caller, verdict, tree>>

\* The first section: a stop or a terminal that came before ownership.
KeeperGate ==
    /\ lock = Nobody
    /\ \/ terminal # NoTerminal /\ KeeperAt("gate", "close") /\ UNCHANGED terminal
       \/ /\ terminal = NoTerminal /\ stopAsked
          /\ KeeperAt("gate", "close")
          /\ terminal' = StoppedBeforeOwner
       \/ /\ terminal = NoTerminal /\ ~stopAsked
          /\ KeeperAt("gate", "create")
          /\ UNCHANGED terminal
    /\ UNCHANGED <<request, dispatched, stopAsked, receipt, lock, expired, caller, verdict, draft, tree>>

\* create_suspended: the root is born suspended inside the Job, or nothing
\* is left of it; then the keeper reads its own identity.
KeeperCreate ==
    /\ \/ KeeperAt("create", "own") /\ root' = "suspended"
       \/ "launch" \in Faults /\ KeeperAt("create", "fail") /\ root' \in {"none", "suspended"}
    /\ UNCHANGED <<records, lock, expired, caller, verdict, draft, child, doomed, ran>>

KeeperOwnUnasked ==  \* mutant: the terminal is not looked for again
    /\ lock = Nobody
    /\ KeeperAt("own", "owned")
    /\ receipt' = TRUE
    /\ lock' = Keeper
    /\ UNCHANGED <<request, dispatched, stopAsked, terminal, expired, caller, verdict, draft, tree>>

\* The second section, to its first write.
KeeperOwn ==
    /\ lock = Nobody
    /\ \/ /\ terminal # NoTerminal
          /\ KeeperAt("own", "abandon")
          /\ Terminate
          /\ lock' = Keeper
          /\ UNCHANGED receipt
       \/ /\ terminal = NoTerminal
          /\ KeeperAt("own", "owned")
          /\ receipt' = TRUE
          /\ lock' = Keeper
          /\ UNCHANGED doomed
       \/ /\ "write" \in Faults /\ terminal = NoTerminal
          /\ KeeperAt("own", "fail")
          /\ UNCHANGED <<receipt, lock, doomed>>
    /\ UNCHANGED <<request, dispatched, stopAsked, terminal, expired, caller, verdict, draft, root, child, ran>>

\* An existing terminal: the tree goes before the lock does.
KeeperAbandon ==
    /\ \/ Drained /\ KeeperAt("abandon", "close")
       \/ DrainLost /\ KeeperAt("abandon", "fail")
    /\ lock' = Nobody
    /\ UNCHANGED <<records, expired, caller, verdict, draft, tree>>

KeeperOwnedAnyway ==  \* mutant: .stop is not looked for again
    /\ KeeperAt("owned", "io")
    /\ UNCHANGED <<records, lock, expired, caller, verdict, draft, tree>>

\* The receipt is out and the lock still held: a stop that came first wins.
KeeperOwned ==
    /\ \/ stopAsked /\ KeeperAt("owned", "cancel") /\ Terminate
       \/ ~stopAsked /\ KeeperAt("owned", "io") /\ UNCHANGED doomed
    /\ UNCHANGED <<records, lock, expired, caller, verdict, draft, root, child, ran>>

\* The two ends of the second section that write a terminal themselves.
SettleInSection(point, t) ==
    /\ \/ Drained /\ KeeperAt(point, "close") /\ terminal' = t
       \/ DrainLost /\ KeeperAt(point, "fail") /\ UNCHANGED terminal
    /\ lock' = Nobody
    /\ UNCHANGED <<request, dispatched, stopAsked, receipt, expired, caller, verdict, draft, tree>>

KeeperCancel  == SettleInSection("cancel", StoppedBeforeStart)
KeeperOverdue == SettleInSection("overdue", Overdue)

\* start_io, the deadline, and the resume: the lock is released last.
KeeperResume ==
    /\ \/ expired /\ KeeperAt("io", "overdue") /\ Terminate /\ UNCHANGED <<root, ran, lock>>
       \/ /\ ~expired
          /\ KeeperAt("io", "watch")
          /\ root' = "running" /\ ran' = TRUE
          /\ lock' = Nobody
          /\ UNCHANGED doomed
       \/ /\ "io" \in Faults
          /\ KeeperAt("io", "fail")
          /\ lock' = Nobody
          /\ UNCHANGED <<root, ran, doomed>>
    /\ UNCHANGED <<records, expired, caller, verdict, draft, child>>

Decide(process) == verdict' = [verdict EXCEPT !.process = process]

\* _wait_for_process: the marker, the deadline and the root are asked one after
\* another, so the answer that ends the loop may be older than another's change.
KeeperWatch ==
    /\ \/ stopAsked /\ KeeperAt("watch", "readExit") /\ Decide("cancelled") /\ Terminate
       \/ expired /\ KeeperAt("watch", "readExit") /\ Decide("timed_out") /\ Terminate
       \/ root \notin Alive /\ KeeperAt("watch", "watchJob") /\ UNCHANGED <<verdict, doomed>>
       \/ "io" \in Faults /\ KeeperAt("watch", "fail") /\ UNCHANGED <<verdict, doomed>>
    /\ UNCHANGED <<records, lock, expired, caller, draft, root, child, ran>>

\* _wait_for_owned_job: the same, and descendants must be gone as well.
KeeperWatchJob ==
    /\ KeeperAt("watchJob", "readExit")
    /\ \/ stopAsked /\ Decide("cancelled") /\ Terminate
       \/ expired /\ Decide("timed_out") /\ doomed' = (doomed \/ ~JobEmpty)
       \/ JobEmpty /\ Decide("exited") /\ UNCHANGED doomed
    /\ UNCHANGED <<records, lock, expired, caller, draft, root, child, ran>>

ExitCodeRaw == root  \* mutant: whatever the system call returned
ExitCodeLax ==       \* mutant: 259, still active, is not an error
    IF root \in {"zero", "stillActive"} THEN "zero" ELSE "nonzero"

\* GetExitCodeProcess at this moment: a killed root may still be alive.
ExitCode == CASE root = "zero" -> "zero"
              [] root \in {"nonzero", "killed"} -> "nonzero"
              [] OTHER -> "none"

KeeperReadExit ==
    /\ KeeperAt("readExit", "collect")
    /\ verdict' = [verdict EXCEPT !.exit = ExitCode]
    /\ doomed' = (doomed \/ ~JobEmpty)
    /\ UNCHANGED <<records, lock, expired, caller, draft, root, child, ran>>

\* wait_empty, finish_io and the decoding of what the streams held.
KeeperCollect ==
    /\ \/ /\ Drained
          /\ KeeperAt("collect", "publish")
          /\ \E truncated \in BOOLEAN : draft' = Result(verdict, truncated)
       \/ /\ DrainLost \/ "io" \in Faults
          /\ KeeperAt("collect", "fail")
          /\ UNCHANGED draft
    /\ UNCHANGED <<records, lock, expired, caller, verdict, tree>>

\* The except clause: terminate what there is, wait, and say what is known.
KeeperFail ==
    /\ \/ /\ root = "none"
          /\ KeeperAt("fail", "publish")
          /\ draft' = Failure(ran, "cleanup_unverified")
          /\ UNCHANGED doomed
       \/ /\ root # "none"
          /\ KeeperAt("fail", "failWait")
          /\ Terminate
          /\ UNCHANGED draft
    /\ UNCHANGED <<records, lock, expired, caller, verdict, root, child, ran>>

KeeperFailWait ==
    /\ KeeperAt("failWait", "publish")
    /\ \/ Drained /\ draft' = Failure(ran, "tree_gone")
       \/ DrainLost /\ draft' = Failure(ran, "cleanup_unverified")
    /\ UNCHANGED <<records, lock, expired, caller, verdict, tree>>

KeeperPublish ==
    /\ KeeperAt("publish", "close")
    /\ PublishTerminal(draft)
    /\ UNCHANGED <<request, dispatched, stopAsked, receipt, lock, expired, caller, verdict, draft, tree>>

\* The record is not written.  Of the normal end the except clause is told;
\* of the others nobody is.
KeeperPublishFails ==
    /\ "write" \in Faults
    /\ lock = Nobody /\ terminal = NoTerminal
    /\ KeeperAt("publish", IF draft.process \in {"exited", "cancelled", "timed_out"}
                           THEN "fail" ELSE "close")
    /\ UNCHANGED <<records, lock, expired, caller, verdict, draft, tree>>

\* owned.close, and the end of the process.
KeeperClose ==
    /\ kpc = "close"
    /\ KeeperEnds
    /\ UNCHANGED <<records, expired, caller, verdict, draft, root, child, ran>>

KeeperCrash ==
    /\ "keeperCrash" \in Faults
    /\ KeeperAlive
    /\ KeeperEnds
    /\ UNCHANGED <<records, expired, caller, verdict, draft, root, child, ran>>

-----------------------------------------------------------------------------
(* The setup tree, the kernel and the clock.                               *)

RootExits ==
    /\ root = "running" /\ ~doomed
    /\ root' \in Exits
    /\ UNCHANGED <<records, lock, expired, caller, keeper, child, doomed, ran>>

ChildStarts ==
    /\ root = "running" /\ ~doomed /\ ~child
    /\ child' = TRUE
    /\ UNCHANGED <<records, lock, expired, caller, keeper, root, doomed, ran>>

ChildEnds ==
    /\ child
    /\ child' = FALSE
    /\ UNCHANGED <<records, lock, expired, caller, keeper, root, doomed, ran>>

\* The kernel ends what a terminated or closed Job still holds.
JobDies ==
    /\ doomed /\ ~JobEmpty
    /\ root' = IF root \in Alive THEN "killed" ELSE root
    /\ child' = FALSE
    /\ UNCHANGED <<records, lock, expired, caller, keeper, doomed, ran>>

Expire ==
    /\ request # NoRequest /\ ~expired
    /\ expired' = TRUE
    /\ UNCHANGED <<records, lock, caller, keeper, tree>>

-----------------------------------------------------------------------------
CallerStep(c) ==
    \/ LaunchDispatch(c) \/ LaunchSpawn(c) \/ LaunchAwait(c)
    \/ GiveUp(c) \/ GiveUpPublish(c)
    \/ LossDecide(c) \/ PublishLost(c)
    \/ StopAck(c) \/ PublishNoAck(c) \/ StopWait(c) \/ StopKill(c)
    \/ Reconcile(c) \/ PublishCancelled(c)

CallerStart(c, r) == LaunchAccept(c, r) \/ Status(c, r) \/ Stop(c, r)

KeeperStep ==
    \/ KeeperStage \/ KeeperGate \/ KeeperCreate
    \/ KeeperOwn \/ KeeperAbandon \/ KeeperOwned \/ KeeperCancel \/ KeeperOverdue
    \/ KeeperResume \/ KeeperWatch \/ KeeperWatchJob \/ KeeperReadExit
    \/ KeeperCollect \/ KeeperFail \/ KeeperFailWait
    \/ KeeperPublish \/ KeeperPublishFails \/ KeeperClose

Environment == RootExits \/ ChildStarts \/ ChildEnds \/ JobDies \/ Expire

Next ==
    \/ \E c \in Callers : CallerStep(c) \/ CallerCrash(c)
    \/ \E c \in Callers, r \in Requests : CallerStart(c, r)
    \/ KeeperStep \/ KeeperCrash
    \/ Environment

Spec == Init /\ [][Next]_vars

\* A command in progress and the keeper go on, the kernel ends a doomed Job,
\* and the deadline comes.  Nothing makes a client call again, and nothing
\* makes the script end by itself.
Fairness ==
    /\ \A c \in Callers : WF_vars(CallerStep(c))
    /\ WF_vars(KeeperStep)
    /\ WF_vars(JobDies)
    /\ WF_vars(Expire)

FairSpec == Spec /\ Fairness

-----------------------------------------------------------------------------
(* Properties.                                                             *)

\* A terminal that says the script never ran is true then and stays true,
\* although it is often published by a caller that only gave up waiting while
\* the keeper may be anywhere between its creation and the resume.
NeverRanIsTrue == terminal # NoTerminal /\ NeverRan(terminal) => ~ran

\* A terminal that says tree_gone is never published while a process of the
\* setup tree lives, and no such process is created after it.
TreeGoneIsTrue == terminal # NoTerminal /\ terminal.cleanup = "tree_gone" => JobEmpty

\* Success is claimed only of a script that ran to its own exit code zero
\* with no descendant left: never of a killed, timed out or stopped tree.
SuccessIsTrue == terminal # NoTerminal /\ terminal.outcome = "process_succeeded"
                    => ran /\ root = "zero" /\ JobEmpty

\* Every terminal any caller was ever given is the one in terminal.json:
\* racing launch, status, stop and keeper never tell two stories.
OneStory == answered \subseteq {terminal}

\* Whatever is written can be read back (_terminal_from_record): otherwise
\* the attempt could never be asked about again.
TerminalReadable == terminal # NoTerminal => SemanticsValid(terminal)

\* Once .stop is touched, by stop or by a launch or status that gave up, the
\* suspended script is never resumed.
StopHolds == [][stopAsked => ran' = ran]_vars

\* A stop, and every give-up, ends with a published terminal, even when the
\* keeper dies at any step, and when the launch died between .dispatch and
\* the keeper's creation so that there never is one.
StopSettles == stopAsked ~> terminal # NoTerminal

\* The setup tree does not outlive its deadline or its keeper.
TreeEnds == (root # "none") ~> [](JobEmpty)

-----------------------------------------------------------------------------
(* The attempt as its client sees it.                                      *)

Run == IF ~ran THEN "never" ELSE IF JobEmpty THEN "over" ELSE "running"

Attempt == INSTANCE SetupAttempt WITH owned <- receipt, run <- Run

\* The directory protocol implements the abstract attempt.
ImplementsAttempt == Attempt!AttemptSpec
=============================================================================
