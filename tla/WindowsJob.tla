----------------------------- MODULE WindowsJob -----------------------------
(***************************************************************************)
(* The launches of one Session Name on Windows: the command that starts or *)
(* stops it (sessions.py, processes.py), the detached keeper that holds a  *)
(* kill-on-close Job (windows_job.py), the launcher that waits behind the  *)
(* gate, and Blender.                                                      *)
(*                                                                         *)
(* Commands of one name exclude each other by its lock, so there is one    *)
(* command at a time; it may die at any step, and then the next one runs.  *)
(* The handshake files belong to the name, not to the launch: every keeper *)
(* and every launcher of the name reads and removes the same ones.         *)
(***************************************************************************)
CONSTANTS
    Launches,   \* the keepers a start may spawn, each with its launcher and Blender
    NoLaunch,   \* no launch
    Faults      \* which faults may happen

FaultKinds == {"spawn",        \* a process is not created
               "assign",       \* the launcher cannot be put into the Job
               "kill",         \* taskkill fails, or the tree is not gone in time
               "query",        \* a keeper cannot ask how many processes its Job has
               "commandDies",  \* a command dies
               "interrupt",    \* an exception ends a start, or its cleanup
               "unrecorded",   \* either of the two also before the first record
               "keeperDies"}   \* a keeper dies
ASSUME KnownFaults == Faults \subseteq FaultKinds
ASSUME NoLaunchIsNone == NoLaunch \notin Launches
ASSUME BootsDistinct == Launches \cap {"absent", "error"} = {}  \* values of boot

VARIABLES
    record,    \* launching.json or session.json: its keeper and its Blender
    ready,     \* .launch-bootstrap.ready exists
    gate,      \* .launch-bootstrap.gate exists
    boot,      \* .launch-bootstrap.json: a Blender, an error, or absent
    pc,        \* where the command is
    cur,       \* its launch, or the one it stops
    found,     \* the Blender whose pid it read
    keeper,    \* where each keeper is
    launcher,  \* where each launcher is
    blender,   \* each launch's Blender
    inJob,     \* the launchers and Blenders that are in their Job
    closed,    \* the Jobs whose last handle is closed
    claimed,   \* history: the records whose tree a stop has reported as gone
    orphans    \* history: launchers whose keeper ended before they were in its Job

files == <<record, ready, gate, boot>>
command == <<pc, cur, found>>
processes == <<keeper, launcher, blender, inJob, closed>>
history == <<claimed, orphans>>
vars == <<files, command, processes, history>>

NoRecord == [keeper |-> NoLaunch, blender |-> NoLaunch]
Records == [keeper : Launches, blender : Launches \cup {NoLaunch}]  \* provisional: none

CommandPoints == {"idle", "clean", "identify", "provisional", "awaitReady", "openGate",
                  "awaitBoot", "record", "promote", "abort", "abortWait", "remove", "finally",
                  "stopKill", "stopWait", "stopRemove"}
KeeperPoints == {"none", "start", "create", "assign", "ready", "wait", "fail", "unlink",
                 "close", "gone"}
LauncherPoints == {"none", "waiting", "gated", "spawned", "failed", "gone"}

TypeOK ==
    /\ record \in Records \cup {NoRecord}
    /\ ready \in BOOLEAN /\ gate \in BOOLEAN
    /\ boot \in Launches \cup {"absent", "error"}
    /\ pc \in CommandPoints
    /\ cur \in Launches \cup {NoLaunch} /\ found \in Launches \cup {NoLaunch}
    /\ keeper \in [Launches -> KeeperPoints]
    /\ launcher \in [Launches -> LauncherPoints]
    /\ blender \in [Launches -> {"none", "alive", "gone"}]
    /\ inJob \in [Launches -> [launcher : BOOLEAN, blender : BOOLEAN]]
    /\ closed \subseteq Launches
    /\ claimed \subseteq Records
    /\ orphans \subseteq Launches

Init ==
    /\ record = NoRecord
    /\ ready = FALSE /\ gate = FALSE /\ boot = "absent"
    /\ pc = "idle" /\ cur = NoLaunch /\ found = NoLaunch
    /\ keeper = [l \in Launches |-> "none"]
    /\ launcher = [l \in Launches |-> "none"]
    /\ blender = [l \in Launches |-> "none"]
    /\ inJob = [l \in Launches |-> [launcher |-> FALSE, blender |-> FALSE]]
    /\ closed = {}
    /\ claimed = {} /\ orphans = {}

KeeperAlive(l) == keeper[l] \notin {"none", "gone"}
LauncherAlive(l) == launcher[l] \notin {"none", "gone"}
BlenderAlive(l) == blender[l] = "alive"

\* A process of a closed Job runs no more; the kernel has yet to remove it.
LauncherRuns(l) == LauncherAlive(l) /\ ~(inJob[l].launcher /\ l \in closed)
BlenderRuns(l) == BlenderAlive(l) /\ ~(inJob[l].blender /\ l \in closed)

\* _active_processes(job) = 0
JobEmpty(l) == ~(LauncherAlive(l) /\ inJob[l].launcher) /\ ~(BlenderAlive(l) /\ inJob[l].blender)

Goto(point) == pc' = point

-----------------------------------------------------------------------------
(* The keeper's end: with its handles goes its Job.                        *)

\* mutant: a Job without kill-on-close
KeeperEndsAlone(l) ==
    /\ keeper' = [keeper EXCEPT ![l] = "gone"]
    /\ UNCHANGED closed

KeeperEnds(l) ==
    /\ keeper' = [keeper EXCEPT ![l] = "gone"]
    /\ closed' = IF keeper[l] \in {"none", "start"} THEN closed ELSE closed \cup {l}

\* Ended from outside, at whatever step it is: a launcher that is not yet in
\* the Job goes on without it.
KeeperKilled(l) ==
    /\ KeeperAlive(l)
    /\ KeeperEnds(l)
    /\ orphans' = IF LauncherAlive(l) /\ ~inJob[l].launcher THEN orphans \cup {l} ELSE orphans

-----------------------------------------------------------------------------
(* start_session and _launch_and_record.                                   *)

\* _inspect_unlocked on Windows: the tree exists while its keeper does; the
\* pid of a provisional record is the keeper's own.
TreeExists(r) == r # NoRecord /\ KeeperAlive(r.keeper)
RootMatches(r) == IF r.blender = NoLaunch THEN TreeExists(r) ELSE BlenderAlive(r.blender)

\* mutant: the record's own keeper is not asked for
StartBeginAnyway(l) ==
    /\ pc = "idle" /\ keeper[l] = "none"
    /\ record' = NoRecord
    /\ cur' = l /\ found' = NoLaunch
    /\ Goto("clean")
    /\ UNCHANGED <<ready, gate, boot, processes, history>>

\* A name is free when it has no record, or its keeper and its root are gone.
StartBegin(l) ==
    /\ pc = "idle" /\ keeper[l] = "none"
    /\ ~TreeExists(record)
    /\ record # NoRecord => ~RootMatches(record)
    /\ record' = NoRecord
    /\ cur' = l /\ found' = NoLaunch
    /\ Goto("clean")
    /\ UNCHANGED <<ready, gate, boot, processes, history>>

\* mutant: the files of an earlier launch stay
StartSpawnOverFiles ==
    /\ pc = "clean"
    /\ \/ keeper' = [keeper EXCEPT ![cur] = "start"] /\ Goto("identify")
       \/ "spawn" \in Faults /\ keeper' = [keeper EXCEPT ![cur] = "gone"] /\ Goto("remove")
    /\ UNCHANGED <<files, cur, found, launcher, blender, inJob, closed, history>>

\* spawn_windows_job_keeper; a failure to create it is cleaned up at once.
StartSpawn ==
    /\ pc = "clean"
    /\ boot' = "absent" /\ gate' = FALSE /\ ready' = FALSE
    /\ \/ keeper' = [keeper EXCEPT ![cur] = "start"] /\ Goto("identify")
       \/ "spawn" \in Faults /\ keeper' = [keeper EXCEPT ![cur] = "gone"] /\ Goto("remove")
    /\ UNCHANGED <<record, cur, found, launcher, blender, inJob, closed, history>>

\* wait_for_process_start_time
StartIdentify ==
    /\ pc = "identify"
    /\ Goto(IF KeeperAlive(cur) THEN "provisional" ELSE "remove")
    /\ UNCHANGED <<files, cur, found, processes, history>>

StartProvisional ==
    /\ pc = "provisional"
    /\ record' = [keeper |-> cur, blender |-> NoLaunch]
    /\ Goto("awaitReady")
    /\ UNCHANGED <<ready, gate, boot, cur, found, processes, history>>

\* finish_windows_job_start up to its gate: readiness, a lost keeper, a bound.
StartAwaitReady ==
    /\ pc = "awaitReady"
    /\ Goto(IF ready THEN "openGate" ELSE "abort")
    /\ UNCHANGED <<files, cur, found, processes, history>>

StartOpenGate ==
    /\ pc = "openGate"
    /\ gate' = TRUE
    /\ Goto("awaitBoot")
    /\ UNCHANGED <<record, ready, boot, cur, found, processes, history>>

\* mutant: what the bootstrap file says is not looked at
StartAwaitAnyBoot ==
    /\ pc = "awaitBoot"
    /\ found' = boot
    /\ Goto("record")
    /\ UNCHANGED <<files, cur, processes, history>>

\* The Blender pid, an error, a lost keeper, or the bound.
StartAwaitBoot ==
    /\ pc = "awaitBoot"
    /\ \/ boot \in Launches /\ found' = boot /\ Goto("record")
       \/ boot \notin Launches /\ found' = found /\ Goto("abort")
    /\ UNCHANGED <<files, cur, processes, history>>

\* Blender's identity, and session.json beside launching.json.
StartRecord ==
    /\ pc = "record"
    /\ \/ /\ BlenderAlive(found)
          /\ record' = [keeper |-> cur, blender |-> found]
          /\ Goto("promote")
       \/ ~BlenderAlive(found) /\ record' = record /\ Goto("abort")
    /\ UNCHANGED <<ready, gate, boot, cur, found, processes, history>>

\* launching.json goes; until then an exception still ends what was recorded.
StartPromote ==
    /\ pc = "promote"
    /\ Goto("finally")
    /\ UNCHANGED <<files, cur, found, processes, history>>

\* mutant: the record goes and what was started stays
StartAbortForgets ==
    /\ pc = "abort"
    /\ Goto("remove")
    /\ UNCHANGED <<files, cur, found, processes, history>>

\* The except clause: terminate_owned_tree of what was started.
StartAbort ==
    /\ pc = "abort"
    /\ \/ ~KeeperAlive(cur) /\ Goto("remove") /\ UNCHANGED <<keeper, closed, orphans>>
       \/ KeeperKilled(cur) /\ Goto("abortWait")
       \/ "kill" \in Faults /\ KeeperAlive(cur) /\ Goto("finally")
          /\ UNCHANGED <<keeper, closed, orphans>>
    /\ UNCHANGED <<files, cur, found, launcher, blender, inJob, claimed>>

\* Its wait; when Blender outlives it, the exception leaves the record behind.
StartAbortWait ==
    /\ pc = "abortWait"
    /\ Goto(IF found # NoLaunch /\ BlenderAlive(found) THEN "finally" ELSE "remove")
    /\ UNCHANGED <<files, cur, found, processes, history>>

\* _remove_record_files
StartRemove ==
    /\ pc = "remove"
    /\ record' = NoRecord
    /\ boot' = "absent" /\ gate' = FALSE /\ ready' = FALSE
    /\ Goto("finally")
    /\ UNCHANGED <<cur, found, processes, history>>

StartFinally ==
    /\ pc = "finally"
    /\ boot' = "absent" /\ gate' = FALSE
    /\ Goto("idle")
    /\ UNCHANGED <<record, ready, cur, found, processes, history>>

-----------------------------------------------------------------------------
(* stop_session and terminate_owned_tree.                                  *)

Stop ==
    /\ pc = "idle" /\ record # NoRecord
    /\ cur' = record.keeper /\ found' = record.blender
    /\ Goto(IF TreeExists(record) \/ RootMatches(record) THEN "stopKill" ELSE "stopRemove")
    /\ UNCHANGED <<files, processes, history>>

StopKill ==
    /\ pc = "stopKill"
    /\ \/ /\ ~KeeperAlive(cur)
          /\ Goto("stopRemove")
          /\ claimed' = claimed \cup {record}
          /\ UNCHANGED <<keeper, closed, orphans>>
       \/ KeeperKilled(cur) /\ Goto("stopWait") /\ UNCHANGED claimed
       \/ "kill" \in Faults /\ KeeperAlive(cur) /\ Goto("idle")
          /\ UNCHANGED <<keeper, closed, history>>
    /\ UNCHANGED <<files, cur, found, launcher, blender, inJob>>

StopWait ==
    /\ pc = "stopWait"
    /\ \/ /\ ~RootMatches(record)
          /\ Goto("stopRemove")
          /\ claimed' = claimed \cup {record}
       \/ /\ RootMatches(record)
          /\ Goto("idle")
          /\ UNCHANGED claimed
    /\ UNCHANGED <<files, cur, found, processes, orphans>>

StopRemove ==
    /\ pc = "stopRemove"
    /\ record' = NoRecord
    /\ boot' = "absent" /\ gate' = FALSE /\ ready' = FALSE
    /\ Goto("idle")
    /\ UNCHANGED <<cur, found, processes, history>>

\* The steps at which a start has a keeper that no record names.
Unrecorded == {"identify", "provisional"}
MayBreakOff == pc \in Unrecorded => "unrecorded" \in Faults

\* An exception of any kind inside the try of _launch_and_record: its except
\* clause, or what follows when it comes there. Without the keeper's identity
\* nothing is terminated. (Before the keeper is born it is StartSpawn's fault.)
StartInterrupted ==
    /\ "interrupt" \in Faults /\ MayBreakOff
    /\ pc \in Unrecorded \cup {"awaitReady", "openGate", "awaitBoot", "record", "promote",
                              "abort", "abortWait", "remove"}
    /\ Goto(CASE pc = "identify" -> "remove"
              [] pc \in {"abort", "abortWait", "remove"} -> "finally"
              [] OTHER -> "abort")
    /\ UNCHANGED <<files, cur, found, processes, history>>

\* A command dies: the name lock is released, its files stay.
CommandDies ==
    /\ "commandDies" \in Faults /\ MayBreakOff
    /\ pc # "idle"
    /\ Goto("idle")
    /\ UNCHANGED <<files, cur, found, processes, history>>

-----------------------------------------------------------------------------
(* windows_job.main: the keeper.                                           *)

KeeperTo(l, from, to) == keeper[l] = from /\ keeper' = [keeper EXCEPT ![l] = to]

\* A gate left over by an earlier launch is not for this one.
KeeperClears(l) ==
    /\ KeeperTo(l, "start", "create")
    /\ gate' = FALSE
    /\ UNCHANGED <<record, ready, boot, command, launcher, blender, inJob, closed, history>>

\* The Job, then the launcher, which is born outside it.
KeeperCreates(l) ==
    /\ \/ KeeperTo(l, "create", "assign") /\ launcher' = [launcher EXCEPT ![l] = "waiting"]
       \/ "spawn" \in Faults /\ KeeperTo(l, "create", "fail") /\ UNCHANGED launcher
    /\ UNCHANGED <<files, command, blender, inJob, closed, history>>

\* mutant: the result of the assignment is not looked at
KeeperAssignsUnchecked(l) ==
    /\ KeeperTo(l, "assign", "ready")
    /\ \/ LauncherAlive(l) /\ inJob' = [inJob EXCEPT ![l].launcher = TRUE]
       \/ "assign" \in Faults /\ UNCHANGED inJob
    /\ UNCHANGED <<files, command, launcher, blender, closed, history>>

KeeperAssigns(l) ==
    /\ \/ /\ LauncherAlive(l)
          /\ KeeperTo(l, "assign", "ready")
          /\ inJob' = [inJob EXCEPT ![l].launcher = TRUE]
       \/ /\ ~LauncherAlive(l) \/ "assign" \in Faults
          /\ KeeperTo(l, "assign", "fail")
          /\ UNCHANGED inJob
    /\ UNCHANGED <<files, command, launcher, blender, closed, history>>

KeeperReady(l) ==
    /\ KeeperTo(l, "ready", "wait")
    /\ ready' = TRUE
    /\ UNCHANGED <<record, gate, boot, command, launcher, blender, inJob, closed, history>>

KeeperWaits(l) ==
    /\ KeeperTo(l, "wait", "unlink")
    /\ JobEmpty(l)
    /\ UNCHANGED <<files, command, launcher, blender, inJob, closed, history>>

\* The Job cannot be asked: nothing makes that happen.
KeeperCannotAsk(l) ==
    /\ "query" \in Faults
    /\ KeeperTo(l, "wait", "fail")
    /\ UNCHANGED <<files, command, launcher, blender, inJob, closed, history>>

\* The except clause: the launcher is killed, wherever it is.
KeeperFails(l) ==
    /\ KeeperTo(l, "fail", "unlink")
    /\ launcher' = [launcher EXCEPT ![l] = IF LauncherAlive(l) THEN "gone" ELSE @]
    /\ boot' = "error"
    /\ UNCHANGED <<record, ready, gate, command, blender, inJob, closed, history>>

KeeperUnlinks(l) ==
    /\ KeeperTo(l, "unlink", "close")
    /\ gate' = FALSE /\ ready' = FALSE
    /\ UNCHANGED <<record, boot, command, launcher, blender, inJob, closed, history>>

KeeperCloses(l) ==
    /\ keeper[l] = "close"
    /\ KeeperEnds(l)
    /\ UNCHANGED <<files, command, launcher, blender, inJob, history>>

KeeperDies(l) ==
    /\ "keeperDies" \in Faults
    /\ KeeperKilled(l)
    /\ UNCHANGED <<files, command, launcher, blender, inJob, claimed>>

-----------------------------------------------------------------------------
(* _launch_child: the launcher, and its Blender.                           *)

LauncherTo(l, from, to) ==
    /\ launcher[l] = from /\ LauncherRuns(l)
    /\ launcher' = [launcher EXCEPT ![l] = to]

\* mutant: no deadline
LauncherWaitsForEver(l) ==
    /\ gate /\ LauncherTo(l, "waiting", "gated")
    /\ UNCHANGED <<files, command, keeper, blender, inJob, closed, history>>

\* _wait_for_gate: the gate, which stays, or fifteen seconds.
LauncherWaits(l) ==
    /\ LauncherTo(l, "waiting", IF gate THEN "gated" ELSE "failed")
    /\ UNCHANGED <<files, command, keeper, blender, inJob, closed, history>>

\* Blender is born into whatever Job its launcher is in.
LauncherSpawns(l) ==
    /\ \/ /\ LauncherTo(l, "gated", "spawned")
          /\ blender' = [blender EXCEPT ![l] = "alive"]
          /\ inJob' = [inJob EXCEPT ![l].blender = inJob[l].launcher]
       \/ "spawn" \in Faults /\ LauncherTo(l, "gated", "failed") /\ UNCHANGED <<blender, inJob>>
    /\ UNCHANGED <<files, command, keeper, closed, history>>

LauncherReports(l) ==
    /\ \/ LauncherTo(l, "spawned", "gone") /\ boot' = l
       \/ LauncherTo(l, "failed", "gone") /\ boot' = "error"
    /\ UNCHANGED <<record, ready, gate, command, keeper, blender, inJob, closed, history>>

BlenderExits(l) ==
    /\ BlenderAlive(l)
    /\ blender' = [blender EXCEPT ![l] = "gone"]
    /\ UNCHANGED <<files, command, keeper, launcher, inJob, closed, history>>

\* The kernel removes what a closed Job held.
JobDies(l) ==
    /\ l \in closed /\ ~JobEmpty(l)
    /\ launcher' = [launcher EXCEPT ![l] = IF LauncherAlive(l) /\ inJob[l].launcher THEN "gone" ELSE @]
    /\ blender' = [blender EXCEPT ![l] = IF BlenderAlive(l) /\ inJob[l].blender THEN "gone" ELSE @]
    /\ UNCHANGED <<files, command, keeper, inJob, closed, history>>

-----------------------------------------------------------------------------
CommandStep ==
    \/ StartSpawn \/ StartIdentify \/ StartProvisional \/ StartAwaitReady \/ StartOpenGate
    \/ StartAwaitBoot \/ StartRecord \/ StartPromote \/ StartAbort \/ StartAbortWait \/ StartRemove
    \/ StartFinally \/ StopKill \/ StopWait \/ StopRemove

KeeperStep(l) ==
    \/ KeeperClears(l) \/ KeeperCreates(l) \/ KeeperAssigns(l) \/ KeeperReady(l)
    \/ KeeperWaits(l) \/ KeeperFails(l) \/ KeeperUnlinks(l) \/ KeeperCloses(l)

LauncherStep(l) == LauncherWaits(l) \/ LauncherSpawns(l) \/ LauncherReports(l)

Next ==
    \/ CommandStep \/ Stop \/ StartInterrupted \/ CommandDies
    \/ \E l \in Launches :
          \/ StartBegin(l) \/ KeeperStep(l) \/ KeeperCannotAsk(l) \/ KeeperDies(l)
          \/ LauncherStep(l) \/ BlenderExits(l) \/ JobDies(l)

Spec == Init /\ [][Next]_vars

\* Keepers and launchers go on, and the kernel ends what a closed Job held.
\* Nothing makes a command come, go on, or Blender end.
Fairness == \A l \in Launches : /\ WF_vars(KeeperStep(l))
                                /\ WF_vars(LauncherStep(l))
                                /\ WF_vars(JobDies(l))
FairSpec == Spec /\ Fairness

-----------------------------------------------------------------------------
(* Properties.                                                             *)

\* Every Blender is born inside the Job of a keeper: the gate opens only for
\* a launcher that was assigned to it, whatever files were left behind. Only a
\* launcher whose keeper was ended before it could assign it may start one
\* outside, when the name's next launch opens the gate; no other launch can.
BornInJob == \A l \in Launches \ orphans : blender[l] # "none" => inJob[l].blender

\* The pid in session.json is that of the Blender in the recorded keeper's Job,
\* or of one that a launcher without a keeper reported in its place.
RecordsOwnBlender == record.blender \in {NoLaunch, record.keeper} \cup orphans

\* When stop reported that a Session's process tree is gone, its keeper's
\* Blender and the recorded Blender run no more, and never will again, unless
\* they are those of a launcher that its keeper left outside its Job.
StopMeansGone ==
    \A r \in claimed : \A l \in ({r.keeper, r.blender} \cap Launches) \ orphans :
        ~BlenderRuns(l) /\ ~LauncherRuns(l)

\* A name without a record has nothing running: what a failed, timed out,
\* stopped or interrupted launch started is gone before its record is, unless
\* it is a launcher left outside its keeper's Job, and what that starts.
NothingLeft == pc = "idle" /\ record = NoRecord =>
    \A l \in Launches \ orphans : ~BlenderRuns(l) /\ ~LauncherRuns(l)

\* Two launches of one name never have a Blender running at the same time,
\* those apart whose launcher was left outside its keeper's Job.
OneTree == \A l, m \in Launches \ orphans : BlenderRuns(l) /\ BlenderRuns(m) => l = m

\* A keeper without a Blender ends, so that its name can be used again, also
\* when the command that should have opened the gate died.
KeeperFollows == \A l \in Launches : KeeperAlive(l) ~> (BlenderAlive(l) \/ ~KeeperAlive(l))
=============================================================================
