-------------------------- MODULE WindowsJobProofs --------------------------
(***************************************************************************)
(* Proofs about WindowsJob, for any number of launches and under every     *)
(* fault but a command that breaks off before its first record.            *)
(***************************************************************************)
EXTENDS WindowsJob, TLAPS

\* No command dies, or is interrupted, between the birth of a keeper and the
\* record that names it. (A keeper may die at any step: what it leaves outside
\* its Job is in orphans.)
KeepersRecorded == "unrecorded" \notin Faults

Early == {"start", "create", "assign"}
Starting == {"awaitReady", "openGate", "awaitBoot", "record", "promote", "abort"}
Ending == {"abortWait", "remove", "finally"}
Stopping == {"stopKill", "stopWait", "stopRemove"}

\* What a launcher and its Blender may do beside a keeper that has put the
\* launcher into its Job, or is about to.
JobInv(l) ==
    /\ launcher[l] \in {"gated", "spawned"} => inJob[l].launcher
    /\ blender[l] # "none" => inJob[l].blender
    /\ keeper[l] = "gone" =>
          /\ LauncherAlive(l) => inJob[l].launcher /\ l \in closed
          /\ BlenderAlive(l) => l \in closed

\* What runs at each point of a keeper, and what of it is in the Job.
TreeInv(l) ==
    /\ keeper[l] \in {"none", "start", "create"} => launcher[l] = "none"
    /\ launcher[l] \in {"none", "waiting", "gated"} => blender[l] = "none"
    /\ keeper[l] = "assign" =>
          launcher[l] \in {"none", "waiting", "failed", "gone"} /\ blender[l] = "none"
    /\ keeper[l] \in {"ready", "wait"} => inJob[l].launcher
    /\ keeper[l] \in {"unlink", "close"} => ~LauncherAlive(l)
    /\ l \in closed \cup orphans => keeper[l] = "gone"
    /\ l \notin orphans => JobInv(l)

\* The files of the handshake: a gate and a readiness mark are of a keeper that
\* has assigned its launcher, and a reported Blender is of the current launch
\* or of a launcher without a keeper.
FilesInv ==
    /\ ready \/ gate \/ pc = "openGate" =>
          \A l \in Launches : keeper[l] \notin Early /\ (keeper[l] = "fail" => inJob[l].launcher)
    /\ pc \in {"identify", "provisional"} \cup Starting /\ boot \in Launches =>
          boot \in {cur} \cup orphans

\* What the command knows at each of its points.
CommandInv ==
    /\ pc \notin {"idle"} \cup Stopping => cur \in Launches /\ found \in {NoLaunch, cur} \cup orphans
    /\ pc = "clean" => keeper[cur] = "none"
    /\ pc \in {"record", "promote"} => found \in {cur} \cup orphans
    /\ pc \notin {"idle", "clean"} => cur \in Launches /\ keeper[cur] # "none"
    /\ pc \in {"clean", "identify", "provisional"} => record = NoRecord
    /\ pc \in Starting => record.keeper = cur
    /\ pc \in {"remove", "abortWait", "finally"} => record = NoRecord \/ record.keeper = cur
    /\ pc \in Stopping => record # NoRecord /\ record.keeper = cur
    /\ pc \in {"abortWait", "remove", "stopWait", "stopRemove"} => ~KeeperAlive(cur)

\* A keeper that lives is in the record, or the start that spawned it is about
\* to write it; a record is of one launch.
RecordInv ==
    /\ \A l \in Launches : KeeperAlive(l) =>
          record.keeper = l \/ (l = cur /\ pc \in {"identify", "provisional"})
    /\ record # NoRecord => record.keeper \in Launches /\ keeper[record.keeper] # "none"
    /\ record.blender \in {NoLaunch, record.keeper} \cup orphans

ClaimedInv == \A r \in claimed :
    keeper[r.keeper] = "gone" /\ r.blender \in {NoLaunch, r.keeper} \cup orphans

IInv == TypeOK /\ (\A l \in Launches : TreeInv(l)) /\ FilesInv /\ CommandInv /\ RecordInv /\ ClaimedInv

-----------------------------------------------------------------------------
(* The invariant survives every action: one lemma per action, one step per *)
(* conjunct.                                                               *)

USE NoLaunchIsNone, BootsDistinct
    DEF IInv, Early, Starting, Ending, Stopping, KeeperAlive, LauncherAlive, BlenderAlive,
        NoRecord, Goto, files, command, processes, history

LEMMA StartBeginKeeps == ASSUME IInv, KeepersRecorded, NEW l \in Launches, StartBegin(l) PROVE IInv'
<1>1. TypeOK'
  BY DEF TypeOK, CommandPoints, StartBegin
<1>2. \A m \in Launches : TreeInv(m)'
  BY DEF TreeInv, JobInv, StartBegin
<1>3. FilesInv'
  BY DEF FilesInv, StartBegin
<1>4. CommandInv'
  BY DEF CommandInv, StartBegin
<1>5. RecordInv'
  BY DEF RecordInv, StartBegin, TreeExists
<1>6. ClaimedInv'
  BY DEF ClaimedInv, StartBegin
<1> QED
  BY <1>1, <1>2, <1>3, <1>4, <1>5, <1>6

LEMMA StartSpawnKeeps == ASSUME IInv, KeepersRecorded, StartSpawn PROVE IInv'
<1>1. TypeOK'
  BY DEF TypeOK, CommandPoints, KeeperPoints, StartSpawn
<1>2. \A l \in Launches : TreeInv(l)'
  BY DEF TypeOK, TreeInv, JobInv, CommandInv, StartSpawn
<1>3. FilesInv'
  BY DEF FilesInv, StartSpawn
<1>4. CommandInv'
  BY DEF TypeOK, CommandInv, StartSpawn
<1>5. RecordInv'
  BY DEF TypeOK, RecordInv, StartSpawn
<1>6. ClaimedInv'
  BY DEF TypeOK, Records, CommandInv, ClaimedInv, StartSpawn
<1> QED
  BY <1>1, <1>2, <1>3, <1>4, <1>5, <1>6

LEMMA StartIdentifyKeeps == ASSUME IInv, KeepersRecorded, StartIdentify PROVE IInv'
<1>1. TypeOK'
  BY DEF TypeOK, CommandPoints, StartIdentify
<1>2. \A l \in Launches : TreeInv(l)'
  BY DEF TreeInv, JobInv, StartIdentify
<1>3. FilesInv'
  BY DEF FilesInv, StartIdentify
<1>4. CommandInv'
  BY DEF CommandInv, StartIdentify
<1>5. RecordInv'
  BY DEF RecordInv, StartIdentify
<1>6. ClaimedInv'
  BY DEF ClaimedInv, StartIdentify
<1> QED
  BY <1>1, <1>2, <1>3, <1>4, <1>5, <1>6

LEMMA StartProvisionalKeeps == ASSUME IInv, KeepersRecorded, StartProvisional PROVE IInv'
<1>1. TypeOK'
  BY DEF TypeOK, Records, CommandPoints, StartProvisional
<1>2. \A l \in Launches : TreeInv(l)'
  BY DEF TreeInv, JobInv, StartProvisional
<1>3. FilesInv'
  BY DEF FilesInv, StartProvisional
<1>4. CommandInv'
  BY DEF CommandInv, StartProvisional
<1>5. RecordInv'
  BY DEF CommandInv, RecordInv, StartProvisional
<1>6. ClaimedInv'
  BY DEF ClaimedInv, StartProvisional
<1> QED
  BY <1>1, <1>2, <1>3, <1>4, <1>5, <1>6

LEMMA StartAwaitReadyKeeps == ASSUME IInv, KeepersRecorded, StartAwaitReady PROVE IInv'
<1>1. TypeOK'
  BY DEF TypeOK, CommandPoints, StartAwaitReady
<1>2. \A l \in Launches : TreeInv(l)'
  BY DEF TreeInv, JobInv, StartAwaitReady
<1>3. FilesInv'
  BY DEF FilesInv, StartAwaitReady
<1>4. CommandInv'
  BY DEF CommandInv, StartAwaitReady
<1>5. RecordInv'
  BY DEF RecordInv, StartAwaitReady
<1>6. ClaimedInv'
  BY DEF ClaimedInv, StartAwaitReady
<1> QED
  BY <1>1, <1>2, <1>3, <1>4, <1>5, <1>6

LEMMA StartOpenGateKeeps == ASSUME IInv, KeepersRecorded, StartOpenGate PROVE IInv'
<1>1. TypeOK'
  BY DEF TypeOK, CommandPoints, StartOpenGate
<1>2. \A l \in Launches : TreeInv(l)'
  BY DEF TreeInv, JobInv, StartOpenGate
<1>3. FilesInv'
  BY DEF FilesInv, StartOpenGate
<1>4. CommandInv'
  BY DEF CommandInv, StartOpenGate
<1>5. RecordInv'
  BY DEF RecordInv, StartOpenGate
<1>6. ClaimedInv'
  BY DEF ClaimedInv, StartOpenGate
<1> QED
  BY <1>1, <1>2, <1>3, <1>4, <1>5, <1>6

LEMMA StartAwaitBootKeeps == ASSUME IInv, KeepersRecorded, StartAwaitBoot PROVE IInv'
<1>1. TypeOK'
  BY DEF TypeOK, CommandPoints, StartAwaitBoot
<1>2. \A l \in Launches : TreeInv(l)'
  BY DEF TreeInv, JobInv, StartAwaitBoot
<1>3. FilesInv'
  BY DEF FilesInv, StartAwaitBoot
<1>4. CommandInv'
  BY DEF CommandInv, FilesInv, StartAwaitBoot
<1>5. RecordInv'
  BY DEF RecordInv, StartAwaitBoot
<1>6. ClaimedInv'
  BY DEF ClaimedInv, StartAwaitBoot
<1> QED
  BY <1>1, <1>2, <1>3, <1>4, <1>5, <1>6

LEMMA StartRecordKeeps == ASSUME IInv, KeepersRecorded, StartRecord PROVE IInv'
<1>1. TypeOK'
  BY DEF TypeOK, Records, CommandPoints, CommandInv, StartRecord
<1>2. \A l \in Launches : TreeInv(l)'
  BY DEF TreeInv, JobInv, StartRecord
<1>3. FilesInv'
  BY DEF FilesInv, StartRecord
<1>4. CommandInv'
  BY DEF CommandInv, StartRecord
<1>5. RecordInv'
  BY DEF CommandInv, RecordInv, StartRecord
<1>6. ClaimedInv'
  BY DEF ClaimedInv, StartRecord
<1> QED
  BY <1>1, <1>2, <1>3, <1>4, <1>5, <1>6

LEMMA StartPromoteKeeps == ASSUME IInv, KeepersRecorded, StartPromote PROVE IInv'
<1>1. TypeOK'
  BY DEF TypeOK, CommandPoints, StartPromote
<1>2. \A l \in Launches : TreeInv(l)'
  BY DEF TreeInv, JobInv, StartPromote
<1>3. FilesInv'
  BY DEF FilesInv, StartPromote
<1>4. CommandInv'
  BY DEF CommandInv, StartPromote
<1>5. RecordInv'
  BY DEF RecordInv, StartPromote
<1>6. ClaimedInv'
  BY DEF ClaimedInv, StartPromote
<1> QED
  BY <1>1, <1>2, <1>3, <1>4, <1>5, <1>6

LEMMA StartAbortKeeps == ASSUME IInv, KeepersRecorded, StartAbort PROVE IInv'
<1>1. TypeOK'
  BY DEF TypeOK, CommandPoints, KeeperPoints, CommandInv, StartAbort, KeeperKilled, KeeperEnds
<1>2. \A l \in Launches : TreeInv(l)'
  BY DEF TypeOK, TreeInv, JobInv, StartAbort, KeeperKilled, KeeperEnds
<1>3. FilesInv'
  BY DEF TypeOK, FilesInv, StartAbort, KeeperKilled, KeeperEnds
<1>4. CommandInv'
  BY DEF TypeOK, CommandInv, StartAbort, KeeperKilled, KeeperEnds
<1>5. RecordInv'
  BY DEF TypeOK, RecordInv, StartAbort, KeeperKilled, KeeperEnds
<1>6. ClaimedInv'
  BY DEF TypeOK, Records, ClaimedInv, StartAbort, KeeperKilled, KeeperEnds
<1> QED
  BY <1>1, <1>2, <1>3, <1>4, <1>5, <1>6

LEMMA StartAbortWaitKeeps == ASSUME IInv, KeepersRecorded, StartAbortWait PROVE IInv'
<1>1. TypeOK'
  BY DEF TypeOK, CommandPoints, StartAbortWait
<1>2. \A l \in Launches : TreeInv(l)'
  BY DEF TreeInv, JobInv, StartAbortWait
<1>3. FilesInv'
  BY DEF FilesInv, StartAbortWait
<1>4. CommandInv'
  BY DEF CommandInv, StartAbortWait
<1>5. RecordInv'
  BY DEF RecordInv, StartAbortWait
<1>6. ClaimedInv'
  BY DEF ClaimedInv, StartAbortWait
<1> QED
  BY <1>1, <1>2, <1>3, <1>4, <1>5, <1>6

LEMMA StartRemoveKeeps == ASSUME IInv, KeepersRecorded, StartRemove PROVE IInv'
<1>1. TypeOK'
  BY DEF TypeOK, CommandPoints, StartRemove
<1>2. \A l \in Launches : TreeInv(l)'
  BY DEF TreeInv, JobInv, StartRemove
<1>3. FilesInv'
  BY DEF FilesInv, StartRemove
<1>4. CommandInv'
  BY DEF CommandInv, StartRemove
<1>5. RecordInv'
  BY DEF CommandInv, RecordInv, StartRemove
<1>6. ClaimedInv'
  BY DEF ClaimedInv, StartRemove
<1> QED
  BY <1>1, <1>2, <1>3, <1>4, <1>5, <1>6

LEMMA StartFinallyKeeps == ASSUME IInv, KeepersRecorded, StartFinally PROVE IInv'
<1>1. TypeOK'
  BY DEF TypeOK, CommandPoints, StartFinally
<1>2. \A l \in Launches : TreeInv(l)'
  BY DEF TreeInv, JobInv, StartFinally
<1>3. FilesInv'
  BY DEF FilesInv, StartFinally
<1>4. CommandInv'
  BY DEF CommandInv, StartFinally
<1>5. RecordInv'
  BY DEF RecordInv, StartFinally
<1>6. ClaimedInv'
  BY DEF ClaimedInv, StartFinally
<1> QED
  BY <1>1, <1>2, <1>3, <1>4, <1>5, <1>6

LEMMA StopKeeps == ASSUME IInv, KeepersRecorded, Stop PROVE IInv'
<1>1. TypeOK'
  BY DEF TypeOK, Records, CommandPoints, Stop
<1>2. \A l \in Launches : TreeInv(l)'
  BY DEF TreeInv, JobInv, Stop
<1>3. FilesInv'
  BY DEF FilesInv, Stop
<1>4. CommandInv'
  BY DEF CommandInv, RecordInv, Stop, TreeExists
<1>5. RecordInv'
  BY DEF RecordInv, Stop
<1>6. ClaimedInv'
  BY DEF ClaimedInv, Stop
<1> QED
  BY <1>1, <1>2, <1>3, <1>4, <1>5, <1>6

LEMMA StopKillKeeps == ASSUME IInv, KeepersRecorded, StopKill PROVE IInv'
<1>1. TypeOK'
  BY DEF TypeOK, CommandPoints, KeeperPoints, CommandInv, StopKill, KeeperKilled, KeeperEnds
<1>2. \A l \in Launches : TreeInv(l)'
  BY DEF TypeOK, TreeInv, JobInv, StopKill, KeeperKilled, KeeperEnds
<1>3. FilesInv'
  BY DEF TypeOK, FilesInv, StopKill, KeeperKilled, KeeperEnds
<1>4. CommandInv'
  BY DEF TypeOK, CommandInv, StopKill, KeeperKilled, KeeperEnds
<1>5. RecordInv'
  BY DEF TypeOK, RecordInv, StopKill, KeeperKilled, KeeperEnds
<1>6. ClaimedInv'
  BY DEF TypeOK, Records, CommandInv, RecordInv, ClaimedInv, StopKill, KeeperKilled, KeeperEnds
<1> QED
  BY <1>1, <1>2, <1>3, <1>4, <1>5, <1>6

LEMMA StopWaitKeeps == ASSUME IInv, KeepersRecorded, StopWait PROVE IInv'
<1>1. TypeOK'
  BY DEF TypeOK, CommandPoints, CommandInv, StopWait
<1>2. \A l \in Launches : TreeInv(l)'
  BY DEF TreeInv, JobInv, StopWait
<1>3. FilesInv'
  BY DEF FilesInv, StopWait
<1>4. CommandInv'
  BY DEF CommandInv, StopWait
<1>5. RecordInv'
  BY DEF RecordInv, StopWait
<1>6. ClaimedInv'
  BY DEF CommandInv, RecordInv, ClaimedInv, StopWait
<1> QED
  BY <1>1, <1>2, <1>3, <1>4, <1>5, <1>6

LEMMA StopRemoveKeeps == ASSUME IInv, KeepersRecorded, StopRemove PROVE IInv'
<1>1. TypeOK'
  BY DEF TypeOK, CommandPoints, StopRemove
<1>2. \A l \in Launches : TreeInv(l)'
  BY DEF TreeInv, JobInv, StopRemove
<1>3. FilesInv'
  BY DEF FilesInv, StopRemove
<1>4. CommandInv'
  BY DEF CommandInv, StopRemove
<1>5. RecordInv'
  BY DEF CommandInv, RecordInv, StopRemove
<1>6. ClaimedInv'
  BY DEF ClaimedInv, StopRemove
<1> QED
  BY <1>1, <1>2, <1>3, <1>4, <1>5, <1>6

LEMMA StartInterruptedKeeps == ASSUME IInv, KeepersRecorded, StartInterrupted PROVE IInv'
<1>1. TypeOK'
  BY DEF TypeOK, CommandPoints, StartInterrupted, MayBreakOff, Unrecorded
<1>2. \A l \in Launches : TreeInv(l)'
  BY DEF TreeInv, JobInv, StartInterrupted
<1>3. FilesInv'
  BY DEF FilesInv, KeepersRecorded, StartInterrupted, MayBreakOff, Unrecorded
<1>4. CommandInv'
  BY DEF CommandInv, KeepersRecorded, StartInterrupted, MayBreakOff, Unrecorded
<1>5. RecordInv'
  BY DEF RecordInv, KeepersRecorded, StartInterrupted, MayBreakOff, Unrecorded
<1>6. ClaimedInv'
  BY DEF ClaimedInv, StartInterrupted
<1> QED
  BY <1>1, <1>2, <1>3, <1>4, <1>5, <1>6

LEMMA CommandDiesKeeps == ASSUME IInv, KeepersRecorded, CommandDies PROVE IInv'
<1>1. TypeOK'
  BY DEF TypeOK, CommandPoints, CommandDies
<1>2. \A l \in Launches : TreeInv(l)'
  BY DEF TreeInv, JobInv, CommandDies
<1>3. FilesInv'
  BY DEF FilesInv, CommandDies
<1>4. CommandInv'
  BY DEF CommandInv, CommandDies
<1>5. RecordInv'
  BY DEF RecordInv, KeepersRecorded, CommandDies, MayBreakOff, Unrecorded
<1>6. ClaimedInv'
  BY DEF ClaimedInv, CommandDies
<1> QED
  BY <1>1, <1>2, <1>3, <1>4, <1>5, <1>6

LEMMA KeeperClearsKeeps == ASSUME IInv, KeepersRecorded, NEW l \in Launches, KeeperClears(l) PROVE IInv'
<1>1. TypeOK'
  BY DEF TypeOK, KeeperPoints, KeeperClears, KeeperTo
<1>2. \A m \in Launches : TreeInv(m)'
  BY DEF TreeInv, JobInv, KeeperClears, KeeperTo
<1>3. FilesInv'
  BY DEF FilesInv, KeeperClears, KeeperTo
<1>4. CommandInv'
  BY DEF CommandInv, KeeperClears, KeeperTo
<1>5. RecordInv'
  BY DEF RecordInv, KeeperClears, KeeperTo
<1>6. ClaimedInv'
  BY DEF ClaimedInv, KeeperClears, KeeperTo
<1> QED
  BY <1>1, <1>2, <1>3, <1>4, <1>5, <1>6

LEMMA KeeperCreatesKeeps == ASSUME IInv, KeepersRecorded, NEW l \in Launches, KeeperCreates(l) PROVE IInv'
<1>1. TypeOK'
  BY DEF TypeOK, Records, KeeperPoints, LauncherPoints, KeeperCreates, KeeperTo
<1>2. \A m \in Launches : TreeInv(m)'
  BY DEF TypeOK, TreeInv, JobInv, KeeperCreates, KeeperTo
<1>3. FilesInv'
  BY DEF FilesInv, KeeperCreates, KeeperTo
<1>4. CommandInv'
  BY DEF TypeOK, CommandInv, KeeperCreates, KeeperTo
<1>5. RecordInv'
  BY DEF TypeOK, RecordInv, KeeperCreates, KeeperTo
<1>6. ClaimedInv'
  BY DEF TypeOK, Records, ClaimedInv, KeeperCreates, KeeperTo
<1> QED
  BY <1>1, <1>2, <1>3, <1>4, <1>5, <1>6

LEMMA KeeperAssignsKeeps == ASSUME IInv, KeepersRecorded, NEW l \in Launches, KeeperAssigns(l) PROVE IInv'
<1>1. TypeOK'
  <2>1. [inJob[l] EXCEPT !.launcher = TRUE] \in [launcher : BOOLEAN, blender : BOOLEAN]
    BY DEF TypeOK
  <2>2. inJob' \in [Launches -> [launcher : BOOLEAN, blender : BOOLEAN]]
    BY <2>1 DEF TypeOK, KeeperAssigns, KeeperTo
  <2>3. launcher' \in [Launches -> LauncherPoints] /\ blender' \in [Launches -> {"none", "alive", "gone"}]
    BY DEF TypeOK, KeeperAssigns
  <2> QED
    BY <2>2, <2>3 DEF TypeOK, Records, KeeperPoints, KeeperAssigns, KeeperTo
<1>2. \A m \in Launches : TreeInv(m)'
  BY DEF TypeOK, TreeInv, JobInv, KeeperAssigns, KeeperTo
<1>3. FilesInv'
  BY DEF FilesInv, KeeperAssigns, KeeperTo
<1>4. CommandInv'
  BY DEF TypeOK, CommandInv, KeeperAssigns, KeeperTo
<1>5. RecordInv'
  BY DEF TypeOK, RecordInv, KeeperAssigns, KeeperTo
<1>6. ClaimedInv'
  BY DEF TypeOK, Records, ClaimedInv, KeeperAssigns, KeeperTo
<1> QED
  BY <1>1, <1>2, <1>3, <1>4, <1>5, <1>6

LEMMA KeeperReadyKeeps == ASSUME IInv, KeepersRecorded, NEW l \in Launches, KeeperReady(l) PROVE IInv'
<1>1. TypeOK'
  BY DEF TypeOK, KeeperPoints, KeeperReady, KeeperTo
<1>2. \A m \in Launches : TreeInv(m)'
  BY DEF TreeInv, JobInv, KeeperReady, KeeperTo
<1>3. FilesInv'
  BY DEF FilesInv, CommandInv, RecordInv, KeeperReady, KeeperTo
<1>4. CommandInv'
  BY DEF CommandInv, KeeperReady, KeeperTo
<1>5. RecordInv'
  BY DEF RecordInv, KeeperReady, KeeperTo
<1>6. ClaimedInv'
  BY DEF ClaimedInv, KeeperReady, KeeperTo
<1> QED
  BY <1>1, <1>2, <1>3, <1>4, <1>5, <1>6

LEMMA KeeperWaitsKeeps == ASSUME IInv, KeepersRecorded, NEW l \in Launches, KeeperWaits(l) PROVE IInv'
<1>1. TypeOK'
  BY DEF TypeOK, KeeperPoints, KeeperWaits, KeeperTo
<1>2. \A m \in Launches : TreeInv(m)'
  BY DEF TypeOK, TreeInv, JobInv, KeeperWaits, KeeperTo, JobEmpty
<1>3. FilesInv'
  BY DEF TypeOK, TreeInv, FilesInv, KeeperWaits, KeeperTo
<1>4. CommandInv'
  BY DEF TypeOK, CommandInv, KeeperWaits, KeeperTo
<1>5. RecordInv'
  BY DEF TypeOK, RecordInv, KeeperWaits, KeeperTo
<1>6. ClaimedInv'
  BY DEF TypeOK, Records, ClaimedInv, KeeperWaits, KeeperTo
<1> QED
  BY <1>1, <1>2, <1>3, <1>4, <1>5, <1>6

LEMMA KeeperCannotAskKeeps == ASSUME IInv, KeepersRecorded, NEW l \in Launches, KeeperCannotAsk(l) PROVE IInv'
<1>1. TypeOK'
  BY DEF TypeOK, KeeperPoints, KeeperCannotAsk, KeeperTo
<1>2. \A m \in Launches : TreeInv(m)'
  BY DEF TypeOK, TreeInv, JobInv, KeeperCannotAsk, KeeperTo
<1>3. FilesInv'
  BY DEF TypeOK, TreeInv, FilesInv, KeeperCannotAsk, KeeperTo
<1>4. CommandInv'
  BY DEF TypeOK, CommandInv, KeeperCannotAsk, KeeperTo
<1>5. RecordInv'
  BY DEF TypeOK, RecordInv, KeeperCannotAsk, KeeperTo
<1>6. ClaimedInv'
  BY DEF TypeOK, Records, ClaimedInv, KeeperCannotAsk, KeeperTo
<1> QED
  BY <1>1, <1>2, <1>3, <1>4, <1>5, <1>6

LEMMA KeeperFailsKeeps == ASSUME IInv, KeepersRecorded, NEW l \in Launches, KeeperFails(l) PROVE IInv'
<1>1. TypeOK'
  BY DEF TypeOK, KeeperPoints, LauncherPoints, KeeperFails, KeeperTo
<1>2. \A m \in Launches : TreeInv(m)'
  BY DEF TypeOK, TreeInv, JobInv, KeeperFails, KeeperTo
<1>3. FilesInv'
  BY DEF FilesInv, KeeperFails, KeeperTo
<1>4. CommandInv'
  BY DEF CommandInv, KeeperFails, KeeperTo
<1>5. RecordInv'
  BY DEF RecordInv, KeeperFails, KeeperTo
<1>6. ClaimedInv'
  BY DEF ClaimedInv, KeeperFails, KeeperTo
<1> QED
  BY <1>1, <1>2, <1>3, <1>4, <1>5, <1>6

LEMMA KeeperUnlinksKeeps == ASSUME IInv, KeepersRecorded, NEW l \in Launches, KeeperUnlinks(l) PROVE IInv'
<1>1. TypeOK'
  BY DEF TypeOK, KeeperPoints, KeeperUnlinks, KeeperTo
<1>2. \A m \in Launches : TreeInv(m)'
  BY DEF TreeInv, JobInv, KeeperUnlinks, KeeperTo
<1>3. FilesInv'
  BY DEF FilesInv, KeeperUnlinks, KeeperTo
<1>4. CommandInv'
  BY DEF CommandInv, KeeperUnlinks, KeeperTo
<1>5. RecordInv'
  BY DEF RecordInv, KeeperUnlinks, KeeperTo
<1>6. ClaimedInv'
  BY DEF ClaimedInv, KeeperUnlinks, KeeperTo
<1> QED
  BY <1>1, <1>2, <1>3, <1>4, <1>5, <1>6

LEMMA KeeperClosesKeeps == ASSUME IInv, KeepersRecorded, NEW l \in Launches, KeeperCloses(l) PROVE IInv'
<1>1. TypeOK'
  BY DEF TypeOK, KeeperPoints, KeeperCloses, KeeperEnds
<1>2. \A m \in Launches : TreeInv(m)'
  BY DEF TypeOK, TreeInv, JobInv, KeeperCloses, KeeperEnds
<1>3. FilesInv'
  BY DEF FilesInv, KeeperCloses, KeeperEnds
<1>4. CommandInv'
  BY DEF CommandInv, KeeperCloses, KeeperEnds
<1>5. RecordInv'
  BY DEF RecordInv, KeeperCloses, KeeperEnds
<1>6. ClaimedInv'
  BY DEF ClaimedInv, KeeperCloses, KeeperEnds
<1> QED
  BY <1>1, <1>2, <1>3, <1>4, <1>5, <1>6

LEMMA KeeperDiesKeeps == ASSUME IInv, KeepersRecorded, NEW l \in Launches, KeeperDies(l) PROVE IInv'
<1>1. TypeOK'
  BY DEF TypeOK, KeeperPoints, KeeperDies, KeeperKilled, KeeperEnds
<1>2. \A m \in Launches : TreeInv(m)'
  BY DEF TypeOK, TreeInv, JobInv, KeeperDies, KeeperKilled, KeeperEnds
<1>3. FilesInv'
  BY DEF FilesInv, KeeperDies, KeeperKilled, KeeperEnds
<1>4. CommandInv'
  BY DEF CommandInv, KeeperDies, KeeperKilled, KeeperEnds
<1>5. RecordInv'
  BY DEF RecordInv, KeeperDies, KeeperKilled, KeeperEnds
<1>6. ClaimedInv'
  BY DEF ClaimedInv, KeeperDies, KeeperKilled, KeeperEnds
<1> QED
  BY <1>1, <1>2, <1>3, <1>4, <1>5, <1>6

LEMMA LauncherWaitsKeeps == ASSUME IInv, KeepersRecorded, NEW l \in Launches, LauncherWaits(l) PROVE IInv'
<1>1. TypeOK'
  BY DEF TypeOK, LauncherPoints, LauncherWaits, LauncherTo
<1>2. \A m \in Launches : TreeInv(m)'
  <2>1. gate => keeper[l] \notin Early /\ (l \notin orphans => inJob[l].launcher)
    BY DEF TypeOK, TreeInv, JobInv, FilesInv, KeeperPoints, LauncherWaits, LauncherTo
  <2>2. TreeInv(l)'
    BY <2>1 DEF TreeInv, JobInv, LauncherWaits, LauncherTo
  <2>3. ASSUME NEW m \in Launches, m # l PROVE TreeInv(m)'
    BY <2>3 DEF TreeInv, JobInv, LauncherWaits, LauncherTo
  <2> QED
    BY <2>2, <2>3
<1>3. FilesInv'
  BY DEF FilesInv, LauncherWaits
<1>4. CommandInv'
  BY DEF CommandInv, LauncherWaits
<1>5. RecordInv'
  BY DEF RecordInv, LauncherWaits
<1>6. ClaimedInv'
  BY DEF ClaimedInv, LauncherWaits
<1> QED
  BY <1>1, <1>2, <1>3, <1>4, <1>5, <1>6

LEMMA LauncherSpawnsKeeps == ASSUME IInv, KeepersRecorded, NEW l \in Launches, LauncherSpawns(l) PROVE IInv'
<1>1. TypeOK'
  <2>1. [inJob[l] EXCEPT !.blender = inJob[l].launcher] \in [launcher : BOOLEAN, blender : BOOLEAN]
    BY DEF TypeOK
  <2>2. inJob' \in [Launches -> [launcher : BOOLEAN, blender : BOOLEAN]]
    BY <2>1 DEF TypeOK, LauncherSpawns
  <2>3. launcher' \in [Launches -> LauncherPoints] /\ blender' \in [Launches -> {"none", "alive", "gone"}]
    BY DEF TypeOK, LauncherPoints, LauncherSpawns, LauncherTo
  <2> QED
    BY <2>2, <2>3 DEF TypeOK, LauncherSpawns
<1>2. \A m \in Launches : TreeInv(m)'
  BY DEF TypeOK, TreeInv, JobInv, LauncherSpawns, LauncherTo
<1>3. FilesInv'
  BY DEF TypeOK, FilesInv, LauncherSpawns
<1>4. CommandInv'
  BY DEF CommandInv, LauncherSpawns
<1>5. RecordInv'
  BY DEF RecordInv, LauncherSpawns
<1>6. ClaimedInv'
  BY DEF ClaimedInv, LauncherSpawns
<1> QED
  BY <1>1, <1>2, <1>3, <1>4, <1>5, <1>6

LEMMA LauncherReportsKeeps == ASSUME IInv, KeepersRecorded, NEW l \in Launches, LauncherReports(l) PROVE IInv'
<1>1. TypeOK'
  BY DEF TypeOK, Records, LauncherPoints, LauncherReports, LauncherTo
<1>2. \A m \in Launches : TreeInv(m)'
  BY DEF TypeOK, TreeInv, JobInv, LauncherReports, LauncherTo
<1>3. FilesInv'
  BY DEF TreeInv, JobInv, FilesInv, CommandInv, RecordInv, LauncherReports, LauncherTo, LauncherRuns
<1>4. CommandInv'
  BY DEF CommandInv, LauncherReports
<1>5. RecordInv'
  BY DEF RecordInv, LauncherReports
<1>6. ClaimedInv'
  BY DEF ClaimedInv, LauncherReports
<1> QED
  BY <1>1, <1>2, <1>3, <1>4, <1>5, <1>6

LEMMA BlenderExitsKeeps == ASSUME IInv, KeepersRecorded, NEW l \in Launches, BlenderExits(l) PROVE IInv'
<1>1. TypeOK'
  BY DEF TypeOK, BlenderExits
<1>2. \A m \in Launches : TreeInv(m)'
  BY DEF TreeInv, JobInv, BlenderExits
<1>3. FilesInv'
  BY DEF FilesInv, BlenderExits
<1>4. CommandInv'
  BY DEF CommandInv, BlenderExits
<1>5. RecordInv'
  BY DEF RecordInv, BlenderExits
<1>6. ClaimedInv'
  BY DEF ClaimedInv, BlenderExits
<1> QED
  BY <1>1, <1>2, <1>3, <1>4, <1>5, <1>6

LEMMA JobDiesKeeps == ASSUME IInv, KeepersRecorded, NEW l \in Launches, JobDies(l) PROVE IInv'
<1>1. TypeOK'
  BY DEF TypeOK, LauncherPoints, JobDies
<1>2. \A m \in Launches : TreeInv(m)'
  BY DEF TreeInv, JobInv, JobDies
<1>3. FilesInv'
  BY DEF FilesInv, JobDies
<1>4. CommandInv'
  BY DEF CommandInv, JobDies
<1>5. RecordInv'
  BY DEF RecordInv, JobDies
<1>6. ClaimedInv'
  BY DEF ClaimedInv, JobDies
<1> QED
  BY <1>1, <1>2, <1>3, <1>4, <1>5, <1>6

-----------------------------------------------------------------------------
(* The invariant, and what it says.                                        *)

LEMMA InitEstablishes == Init => IInv
<1> SUFFICES ASSUME Init PROVE IInv
  OBVIOUS
<1>1. TypeOK
  BY DEF Init, TypeOK, CommandPoints, KeeperPoints, LauncherPoints
<1>2. \A l \in Launches : TreeInv(l)
  BY DEF Init, TreeInv, JobInv
<1>3. FilesInv /\ CommandInv
  BY DEF Init, FilesInv, CommandInv
<1>4. RecordInv /\ ClaimedInv
  BY DEF Init, RecordInv, ClaimedInv
<1> QED
  BY <1>1, <1>2, <1>3, <1>4

LEMMA StutterKeeps == IInv /\ UNCHANGED vars => IInv'
<1> SUFFICES ASSUME IInv, UNCHANGED vars PROVE IInv'
  OBVIOUS
<1>1. TypeOK'
  BY DEF vars, TypeOK
<1>2. \A l \in Launches : TreeInv(l)'
  BY DEF vars, TreeInv, JobInv
<1>3. FilesInv' /\ CommandInv'
  BY DEF vars, FilesInv, CommandInv
<1>4. RecordInv' /\ ClaimedInv'
  BY DEF vars, RecordInv, ClaimedInv
<1> QED
  BY <1>1, <1>2, <1>3, <1>4

LEMMA NextKeeps == ASSUME KeepersRecorded, IInv, [Next]_vars PROVE IInv'
<1>1. CASE CommandStep
  BY <1>1, StartSpawnKeeps, StartIdentifyKeeps, StartProvisionalKeeps, StartAwaitReadyKeeps,
     StartOpenGateKeeps, StartAwaitBootKeeps, StartRecordKeeps, StartPromoteKeeps,
     StartAbortKeeps,
     StartAbortWaitKeeps, StartRemoveKeeps, StartFinallyKeeps, StopKillKeeps, StopWaitKeeps,
     StopRemoveKeeps, Zenon DEF CommandStep
<1>2. CASE Stop \/ StartInterrupted \/ CommandDies
  BY <1>2, StopKeeps, StartInterruptedKeeps, CommandDiesKeeps, Zenon
<1>3. ASSUME NEW l \in Launches, KeeperStep(l) PROVE IInv'
  BY <1>3, KeeperClearsKeeps, KeeperCreatesKeeps, KeeperAssignsKeeps, KeeperReadyKeeps,
     KeeperWaitsKeeps, KeeperFailsKeeps, KeeperUnlinksKeeps, KeeperClosesKeeps, Zenon
     DEF KeeperStep
<1>4. ASSUME NEW l \in Launches, LauncherStep(l) PROVE IInv'
  BY <1>4, LauncherWaitsKeeps, LauncherSpawnsKeeps, LauncherReportsKeeps, Zenon DEF LauncherStep
<1>5. ASSUME NEW l \in Launches,
             StartBegin(l) \/ KeeperCannotAsk(l) \/ KeeperDies(l) \/ BlenderExits(l) \/ JobDies(l)
      PROVE  IInv'
  BY <1>5, StartBeginKeeps, KeeperCannotAskKeeps, KeeperDiesKeeps, BlenderExitsKeeps, JobDiesKeeps, Zenon
<1>6. CASE UNCHANGED vars
  BY <1>6, StutterKeeps
<1> QED
  BY <1>1, <1>2, <1>3, <1>4, <1>5, <1>6, Zenon DEF Next

\* The inductive invariant: what runs at each point of a keeper, what the files
\* of the name can mean, and where a living keeper is written down.
THEOREM Invariance == ASSUME KeepersRecorded PROVE Spec => []IInv
<1>1. IInv /\ [Next]_vars => IInv'
  BY NextKeeps
<1> QED
  BY <1>1, InitEstablishes, PTL DEF Spec

\* Every reachable state is well typed.
THEOREM TypeCorrect == ASSUME KeepersRecorded PROVE Spec => []TypeOK
<1>1. IInv => TypeOK
  BY Zenon DEF IInv
<1> QED
  BY <1>1, Invariance, PTL

\* A process that runs has its keeper, or was left outside its Job: whoever is
\* neither alive in a Job nor ended by one was never started.
LEMMA RunsUnderKeeper ==
    ASSUME IInv, NEW l \in Launches \ orphans, LauncherRuns(l) \/ BlenderRuns(l)
    PROVE  KeeperAlive(l)
  BY DEF TreeInv, JobInv, LauncherRuns, BlenderRuns

\* One keeper of a name lives at a time.
LEMMA OneKeeper ==
    ASSUME IInv, NEW l \in Launches, NEW m \in Launches, KeeperAlive(l), KeeperAlive(m)
    PROVE  l = m
  BY DEF CommandInv, RecordInv

\* Every Blender is born inside the Job of its keeper, whatever handshake files
\* earlier launches of the name left behind (windows_job.py:90-111), but for
\* those of a launcher whose keeper ended before it was in the Job.
THEOREM EveryBlenderInJob == ASSUME KeepersRecorded PROVE Spec => []BornInJob
<1>1. IInv => BornInJob
  BY DEF BornInJob, TreeInv, JobInv
<1> QED
  BY <1>1, Invariance, PTL

\* session.json names the Blender of the keeper it names (sessions.py:538-575),
\* or that of a launcher left outside its Job, which reports into the same file.
THEOREM RecordIsOwn == ASSUME KeepersRecorded PROVE Spec => []RecordsOwnBlender
<1>1. IInv => RecordsOwnBlender
  BY DEF RecordsOwnBlender, RecordInv
<1> QED
  BY <1>1, Invariance, PTL

\* What a stop has reported as gone runs no more (processes.py:237-247), what a
\* keeper left outside its Job apart.
THEOREM StopIsComplete == ASSUME KeepersRecorded PROVE Spec => []StopMeansGone
<1>1. IInv => StopMeansGone
  <2> SUFFICES ASSUME IInv, NEW r \in claimed,
                      NEW l \in ({r.keeper, r.blender} \cap Launches) \ orphans
               PROVE  ~BlenderRuns(l) /\ ~LauncherRuns(l)
    BY DEF StopMeansGone
  <2>1. keeper[l] = "gone"
    BY DEF ClaimedInv
  <2> QED
    BY <2>1, RunsUnderKeeper
<1> QED
  BY <1>1, Invariance, PTL

\* When no record names anything, nothing of the name runs but what a keeper
\* left outside its Job: a start that fails, times out or is interrupted after
\* its first record ends its keeper before it removes that record
\* (sessions.py:578-592). One that breaks off earlier is ruled out.
THEOREM NothingBehind == ASSUME KeepersRecorded PROVE Spec => []NothingLeft
<1>1. IInv => NothingLeft
  <2> SUFFICES ASSUME IInv, pc = "idle", record = NoRecord, NEW l \in Launches \ orphans
               PROVE  ~BlenderRuns(l) /\ ~LauncherRuns(l)
    BY DEF NothingLeft
  <2>1. ~KeeperAlive(l)
    BY DEF RecordInv
  <2> QED
    BY <2>1, RunsUnderKeeper
<1> QED
  BY <1>1, Invariance, PTL

\* Two launches of one name never run a Blender at the same time, those left
\* outside their Job apart.
THEOREM OneTreeAtATime == ASSUME KeepersRecorded PROVE Spec => []OneTree
<1>1. IInv => OneTree
  BY RunsUnderKeeper, OneKeeper DEF OneTree
<1> QED
  BY <1>1, Invariance, PTL
=============================================================================
