----------------------- MODULE SessionLifecycleProofs -----------------------
(***************************************************************************)
(* Proofs about SessionLifecycle, for every value of its constants: any    *)
(* number of clients and names, any bounds and any set of faults.          *)
(***************************************************************************)
EXTENDS SessionLifecycle, TLAPS

\* Where a client works with a record it has read or is making
RecPcs == {"tree", "wire", "probe", "callWire", "call", "reply"} \cup KillPcs

\* Where a start may be once it has minted its launch
FreshPcs == {"spawn", "finally", "unlock"} \cup TryPcs \cup ClearPcs \cup KillPcs

\* What a client's job j holds beyond its type when the client is at point p
JobOK(p, j) ==
    /\ p # "idle" => j.name \in Names /\ j.at \in Names
    /\ j.op = "start" => j.sid \in Launches
    /\ j.fresh => j.op = "start" /\ j.rec.launch = j.sid
    /\ p \in {"lock", "fence", "decide", "ports", "callWire", "call", "reply"} => j.at = j.name
    /\ p \in InspectPcs /\ j.at # j.name => j.op = "start"
    /\ p \in {"scan", "tally", "alloc", "prep"} => j.op = "start"
    /\ p \in {"ports"} \cup ClearPcs => j.op \in {"start", "stop"}
    /\ p \in {"alloc", "prep"} => j.rec.blender = 0
    /\ p \in ClearPcs /\ j.op = "start" /\ ~j.fresh => j.rec.blender = 0
    /\ p \in {"spawn", "finally"} \cup TryPcs => j.fresh
    /\ j.fresh => p \in FreshPcs
    /\ p \in {"spawn", "identify", "mark", "provisional", "open", "await"}
           => j.rec.blender = 0
    /\ p \in {"blender", "remark", "record", "promote"} => j.rec.blender \in Launches
    /\ p \in RecPcs \/ j.status \notin {"none", "not-found", "unreadable"}
           => j.rec.launch \in Launches
    /\ p \in KillPcs => j.fresh \/ j.op = "stop"

JobsOK == \A c \in Clients : JobOK(pc[c], job[c])

TypeInv == TypeOK /\ JobsOK

-----------------------------------------------------------------------------
(* Type correctness *)

\* The initial state is well typed.
LEMMA TypeInit == Init => TypeInv
<1>. USE PortAssumption, BoundAssumption, NullAssumption DEF Launches
<1>. SUFFICES ASSUME Init PROVE TypeInv
  OBVIOUS
<1>1. NoJob \in Job /\ NoRec \in Record
  BY DEF NoJob, Job, NoRec, Record, Statuses
<1>2. TypeOK
  BY <1>1 DEF Init, TypeOK, FilesTyped, LocksTyped, ProcsTyped, ClientsTyped,
     BoundsTyped, NoBoot, Boot, SupStates, RootStates, PCs
<1>3. JobsOK
  BY DEF Init, JobsOK, JobOK, NoJob, RecPcs, ClearPcs, KillPcs, TryPcs, InspectPcs
<1>. QED BY <1>2, <1>3 DEF TypeInv

\* A client that moves to p with the job f keeps the clients well typed when p
\* and f are, and fit together.
LEMMA MoveTyped ==
    ASSUME ClientsTyped, JobsOK, NEW c \in Clients, NEW p \in PCs, NEW f \in Job,
           Goto(c, p), Job1(c, f), JobOK(p, f)
    PROVE  ClientsTyped' /\ JobsOK'
BY DEF ClientsTyped, JobsOK, Goto, Job1

\* The record an inspection reads is typed, and is a launch's unless absent.
LEMMA CurrentTyped ==
    ASSUME FilesTyped, NEW n \in Names
    PROVE  /\ Current(n) \in Record
           /\ Current(n) # NoRec => Current(n).launch \in Launches
BY BoundAssumption DEF FilesTyped, Current, Record, FinalRecord, ProvisionalRecord, NoRec, Launches

\* The same for a client that moves and keeps its job.
LEMMA MoveSame ==
    ASSUME ClientsTyped, JobsOK, NEW c \in Clients, NEW p \in PCs,
           Goto(c, p), UNCHANGED job, JobOK(p, job[c])
    PROVE  ClientsTyped' /\ JobsOK'
BY DEF ClientsTyped, JobsOK, Goto

\* A part of the state that a step leaves alone stays well typed.
LEMMA FilesSame == ASSUME FilesTyped, UNCHANGED files PROVE FilesTyped'
BY DEF FilesTyped, files

\* So do the locks,
LEMMA LocksSame == ASSUME LocksTyped, UNCHANGED locks PROVE LocksTyped'
BY DEF LocksTyped, locks

\* the processes,
LEMMA ProcsSame == ASSUME ProcsTyped, UNCHANGED procs PROVE ProcsTyped'
BY DEF ProcsTyped, procs

\* the bounds
LEMMA BoundsSame == ASSUME BoundsTyped, UNCHANGED bounds PROVE BoundsTyped'
BY DEF BoundsTyped, bounds

\* and the clients, with what their jobs hold.
LEMMA ClientsSame == ASSUME ClientsTyped, JobsOK, UNCHANGED <<pc, job>>
    PROVE ClientsTyped' /\ JobsOK'
BY DEF ClientsTyped, JobsOK

\* Whether a recorded process matches is a truth value.
LEMMA MatchBoolean == ASSUME NEW r PROVE RootMatches(r) \in BOOLEAN
<1>1. SupAlive(r.launch) \in BOOLEAN
  BY SMT DEF SupAlive
<1>2. RootAlive(r.blender) \in BOOLEAN
  BY SMT DEF RootAlive
<1>. QED BY <1>1, <1>2, Zenon DEF RootMatches

\* An inspection keeps the state well typed.
LEMMA TypeInspection ==
    ASSUME TypeInv, NEW c \in Clients, Inspection(c)
    PROVE  TypeInv'
<1>0. pc[c] \in PCs /\ job[c] \in Job /\ JobOK(pc[c], job[c])
  BY DEF TypeInv, TypeOK, ClientsTyped, JobsOK
<1>1. CASE Read(c)
  <2>a. job[c].at \in Names
    BY <1>1, <1>0 DEF Read, JobOK
  <2>b. /\ Current(job[c].at) \in Record
        /\ Current(job[c].at) # NoRec => Current(job[c].at).launch \in Launches
    BY <2>a, CurrentTyped DEF TypeInv, TypeOK
  <2>c. RootMatches(Current(job[c].at)) \in BOOLEAN
    BY MatchBoolean
  <2>. DEFINE p == IF Current(job[c].at) = NoRec \/ ~Readable(Current(job[c].at)) THEN Inspected(c) ELSE "tree"
              f == IF Current(job[c].at) = NoRec THEN [job[c] EXCEPT !.status = "not-found"]
                 ELSE IF ~Readable(Current(job[c].at)) THEN [job[c] EXCEPT !.status = "unreadable"]
                 ELSE [job[c] EXCEPT !.rec = Current(job[c].at), !.rootM = RootMatches(Current(job[c].at))]
  <2>1. p \in PCs /\ Goto(c, p) /\ Job1(c, f)
    BY <1>1, <2>b, <1>0 DEF Read, PCs, Inspected, InspectPcs, TryPcs, ClearPcs, KillPcs
  <2>2. f \in Job
    BY <1>1, <2>b, <2>c, <1>0 DEF Read, Statuses, Job
  <2>3. JobOK(p, f)
    BY <1>1, <2>b, <1>0 DEF Read, Statuses, JobOK, Job, Inspected, RecPcs, FreshPcs, InspectPcs, TryPcs, ClearPcs, KillPcs
  <2>4. ClientsTyped' /\ JobsOK'
    BY <2>1, <2>2, <2>3, MoveTyped DEF TypeInv, TypeOK
  <2>5. FilesTyped' /\ LocksTyped' /\ ProcsTyped' /\ BoundsTyped'
    BY <1>1, FilesSame, LocksSame, ProcsSame, BoundsSame DEF Read, TypeInv, TypeOK
  <2>. QED BY <2>4, <2>5 DEF TypeInv, TypeOK
<1>2. CASE Tree(c)
  <2>. DEFINE p == IF Classify(job[c].rec, marker[job[c].at] = job[c].rec.launch, job[c].rootM) = "wire" THEN "wire" ELSE Inspected(c)
              f == [job[c] EXCEPT !.rootM = FALSE, !.status = IF Classify(job[c].rec, marker[job[c].at] = job[c].rec.launch, job[c].rootM) = "wire" THEN "none"
                    ELSE Classify(job[c].rec, marker[job[c].at] = job[c].rec.launch, job[c].rootM)]
  <2>1. p \in PCs /\ Goto(c, p) /\ Job1(c, f)
    BY <1>2, <1>0 DEF Tree, PCs, Inspected, InspectPcs, TryPcs, ClearPcs, KillPcs
  <2>2. f \in Job
    BY <1>2, <1>0 DEF Tree, Statuses, Record, Classify, Job
  <2>3. JobOK(p, f)
    BY <1>2, <1>0 DEF Tree, Statuses, Record, Classify, JobOK, Job, Inspected, RecPcs, FreshPcs, InspectPcs, TryPcs, ClearPcs, KillPcs
  <2>4. ClientsTyped' /\ JobsOK'
    BY <2>1, <2>2, <2>3, MoveTyped DEF TypeInv, TypeOK
  <2>5. FilesTyped' /\ LocksTyped' /\ ProcsTyped' /\ BoundsTyped'
    BY <1>2, FilesSame, LocksSame, ProcsSame, BoundsSame DEF Tree, TypeInv, TypeOK
  <2>. QED BY <2>4, <2>5 DEF TypeInv, TypeOK
<1>3. CASE LockWire(c)
  <2>. DEFINE p == IF pc[c] = "wire" THEN "probe" ELSE "call"
  <2>1. p \in PCs /\ Goto(c, p) /\ UNCHANGED job /\ JobOK(p, job[c])
    BY <1>3, <1>0 DEF LockWire, PCs, JobOK, RecPcs, FreshPcs, InspectPcs, TryPcs, ClearPcs, KillPcs
  <2>2. ClientsTyped' /\ JobsOK'
    BY <2>1, MoveSame DEF TypeInv, TypeOK
  <2>3. LocksTyped'
    BY <1>3, <1>0, BoundAssumption DEF LockWire, LocksTyped, TypeInv, TypeOK
  <2>4. FilesTyped' /\ ProcsTyped' /\ BoundsTyped'
    BY <1>3, FilesSame, ProcsSame, BoundsSame DEF LockWire, TypeInv, TypeOK
  <2>. QED BY <2>2, <2>3, <2>4 DEF TypeInv, TypeOK
<1>4. CASE Probe(c)
  <2>0. PICK st \in {"healthy", "unhealthy"} : Job1(c, [job[c] EXCEPT !.status = st])
    BY <1>4 DEF Probe
  <2>. DEFINE p == Inspected(c)
              f == [job[c] EXCEPT !.status = st]
  <2>1. p \in PCs /\ Goto(c, p) /\ Job1(c, f)
    BY <2>0, <1>4, <1>0 DEF Probe, PCs, Inspected, InspectPcs, TryPcs, ClearPcs, KillPcs
  <2>2. f \in Job
    BY <2>0, <1>4, <1>0 DEF Probe, Statuses, Job
  <2>3. JobOK(p, f)
    BY <2>0, <1>4, <1>0 DEF Probe, Statuses, JobOK, Job, Inspected, RecPcs, FreshPcs, InspectPcs, TryPcs, ClearPcs, KillPcs
  <2>4. ClientsTyped' /\ JobsOK'
    BY <2>1, <2>2, <2>3, MoveTyped DEF TypeInv, TypeOK
  <2>5. LocksTyped'
    BY <1>4, <1>0, BoundAssumption DEF Probe, LocksTyped, TypeInv, TypeOK
  <2>6. FilesTyped' /\ ProcsTyped' /\ BoundsTyped'
    BY <1>4, FilesSame, ProcsSame, BoundsSame DEF Probe, TypeInv, TypeOK
  <2>. QED BY <2>4, <2>5, <2>6 DEF TypeInv, TypeOK
<1>. QED BY <1>1, <1>2, <1>3, <1>4 DEF Inspection

\* A port scan keeps the state well typed.
LEMMA TypeAllocation ==
    ASSUME TypeInv, NEW c \in Clients, Allocation(c)
    PROVE  TypeInv'
<1>0. pc[c] \in PCs /\ job[c] \in Job /\ JobOK(pc[c], job[c])
  BY DEF TypeInv, TypeOK, ClientsTyped, JobsOK
<1>1. CASE Scan(c)
  <2>1. NoRec \in Record /\ FirstPort \in Record
    BY BoundAssumption, PortAssumption DEF NoRec, FirstPort, Record
  <2>2. ASSUME NEW m \in job[c].left, Goto(c, "read"),
               Job1(c, [job[c] EXCEPT !.left = @ \ {m}, !.at = m, !.rec = NoRec, !.status = "none"])
        PROVE  ClientsTyped' /\ JobsOK'
    <3>. DEFINE f == [job[c] EXCEPT !.left = @ \ {m}, !.at = m, !.rec = NoRec, !.status = "none"]
    <3>1. f \in Job /\ f.at \in Names
      BY <1>0, <2>1 DEF Job, Statuses
    <3>2. JobOK("read", f)
      BY <1>0, <1>1, <3>1 DEF Scan, JobOK, Job, NoRec, RecPcs, FreshPcs, InspectPcs, TryPcs, ClearPcs, KillPcs
    <3>3. "read" \in PCs
      BY DEF PCs, InspectPcs
    <3>. QED BY <2>2, <3>1, <3>2, <3>3, MoveTyped DEF TypeInv, TypeOK
  <2>3. ASSUME Goto(c, "alloc"),
               Job1(c, [job[c] EXCEPT !.at = job[c].name, !.status = "none", !.rec = FirstPort])
        PROVE  ClientsTyped' /\ JobsOK'
    <3>. DEFINE f == [job[c] EXCEPT !.at = job[c].name, !.status = "none", !.rec = FirstPort]
    <3>1. f \in Job
      BY <1>0, <1>1, <2>1 DEF Scan, JobOK, Job, Statuses
    <3>2. JobOK("alloc", f)
      BY <1>0, <1>1, <3>1 DEF Scan, JobOK, Job, FirstPort, RecPcs, FreshPcs, InspectPcs, TryPcs, ClearPcs, KillPcs
    <3>3. "alloc" \in PCs
      BY DEF PCs
    <3>. QED BY <2>3, <3>1, <3>2, <3>3, MoveTyped DEF TypeInv, TypeOK
  <2>4. FilesTyped' /\ LocksTyped' /\ ProcsTyped' /\ BoundsTyped'
    BY <1>1, FilesSame, LocksSame, ProcsSame, BoundsSame DEF Scan, TypeInv, TypeOK
  <2>. QED BY <1>1, <2>2, <2>3, <2>4 DEF Scan, TypeInv, TypeOK
<1>2. CASE Tally(c)
  <2>. DEFINE p == IF job[c].status = "unreadable" THEN "unlock" ELSE "scan"
              f == [job[c] EXCEPT !.occ = IF Occupies(job[c].rec, job[c].status) THEN @ \cup {job[c].rec.port} ELSE @]
  <2>1. p \in PCs /\ Goto(c, p) /\ Job1(c, f)
    BY <1>2, <1>0 DEF Tally, PCs, Inspected, InspectPcs, TryPcs, ClearPcs, KillPcs
  <2>2. f \in Job
    BY <1>2, <1>0 DEF Tally, Record, Job
  <2>3. JobOK(p, f)
    BY <1>2, <1>0 DEF Tally, Record, JobOK, Job, Inspected, RecPcs, FreshPcs, InspectPcs, TryPcs, ClearPcs, KillPcs
  <2>4. ClientsTyped' /\ JobsOK'
    BY <2>1, <2>2, <2>3, MoveTyped DEF TypeInv, TypeOK
  <2>5. FilesTyped' /\ LocksTyped' /\ ProcsTyped' /\ BoundsTyped'
    BY <1>2, FilesSame, LocksSame, ProcsSame, BoundsSame DEF Tally, TypeInv, TypeOK
  <2>. QED BY <2>4, <2>5 DEF TypeInv, TypeOK
<1>3. CASE Alloc(c)
  <2>. DEFINE p == IF job[c].rec.port \in job[c].occ THEN "alloc" ELSE IF job[c].reclaim THEN "clearSession" ELSE "prep"
              f == IF job[c].rec.port \in job[c].occ THEN [job[c] EXCEPT !.rec.port = @ + 1] ELSE [job[c] EXCEPT !.occ = {}]
  <2>1. p \in PCs /\ Goto(c, p) /\ Job1(c, f)
    BY <1>3, <1>0 DEF Alloc, PCs, Inspected, InspectPcs, TryPcs, ClearPcs, KillPcs, TypeInv, TypeOK, ClientsTyped
  <2>2. f \in Job
    BY <1>3, <1>0 DEF Alloc, Record, Job
  <2>3. JobOK(p, f)
    BY <1>3, <1>0 DEF Alloc, Record, JobOK, Job, Inspected, RecPcs, FreshPcs, InspectPcs, TryPcs, ClearPcs, KillPcs
  <2>4. ClientsTyped' /\ JobsOK'
    BY <2>1, <2>2, <2>3, MoveTyped DEF TypeInv, TypeOK
  <2>5. FilesTyped' /\ LocksTyped' /\ ProcsTyped' /\ BoundsTyped'
    BY <1>3, FilesSame, LocksSame, ProcsSame, BoundsSame DEF Alloc, TypeInv, TypeOK
  <2>. QED BY <2>4, <2>5 DEF TypeInv, TypeOK
<1>. QED BY <1>1, <1>2, <1>3 DEF Allocation

\* The removal of the record files keeps the state well typed.
LEMMA TypeRemoval ==
    ASSUME TypeInv, NEW c \in Clients, Removal(c)
    PROVE  TypeInv'
<1>0. pc[c] \in PCs /\ job[c] \in Job /\ JobOK(pc[c], job[c])
  BY DEF TypeInv, TypeOK, ClientsTyped, JobsOK
<1>1. CASE ClearSession(c)
  <2>. DEFINE p == "clearLaunching"
  <2>1. p \in PCs /\ Goto(c, p) /\ UNCHANGED job /\ JobOK(p, job[c])
    BY <1>1, <1>0 DEF ClearSession, PCs, JobOK, RecPcs, FreshPcs, InspectPcs, TryPcs, ClearPcs, KillPcs
  <2>2. ClientsTyped' /\ JobsOK'
    BY <2>1, MoveSame DEF TypeInv, TypeOK
  <2>3. FilesTyped'
    BY <1>1, <1>0, BoundAssumption DEF ClearSession, FilesTyped, TypeInv, TypeOK
  <2>4. LocksTyped' /\ ProcsTyped' /\ BoundsTyped'
    BY <1>1, LocksSame, ProcsSame, BoundsSame DEF ClearSession, TypeInv, TypeOK
  <2>. QED BY <2>2, <2>3, <2>4 DEF TypeInv, TypeOK
<1>2. CASE ClearLaunching(c)
  <2>. DEFINE p == "clearMarker"
  <2>1. p \in PCs /\ Goto(c, p) /\ UNCHANGED job /\ JobOK(p, job[c])
    BY <1>2, <1>0 DEF ClearLaunching, PCs, JobOK, RecPcs, FreshPcs, InspectPcs, TryPcs, ClearPcs, KillPcs
  <2>2. ClientsTyped' /\ JobsOK'
    BY <2>1, MoveSame DEF TypeInv, TypeOK
  <2>3. FilesTyped'
    BY <1>2, <1>0, BoundAssumption DEF ClearLaunching, FilesTyped, TypeInv, TypeOK
  <2>4. LocksTyped' /\ ProcsTyped' /\ BoundsTyped'
    BY <1>2, LocksSame, ProcsSame, BoundsSame DEF ClearLaunching, TypeInv, TypeOK
  <2>. QED BY <2>2, <2>3, <2>4 DEF TypeInv, TypeOK
<1>3. CASE ClearMarker(c)
  <2>. DEFINE p == "clearBoot"
  <2>1. p \in PCs /\ Goto(c, p) /\ UNCHANGED job /\ JobOK(p, job[c])
    BY <1>3, <1>0 DEF ClearMarker, PCs, JobOK, RecPcs, FreshPcs, InspectPcs, TryPcs, ClearPcs, KillPcs
  <2>2. ClientsTyped' /\ JobsOK'
    BY <2>1, MoveSame DEF TypeInv, TypeOK
  <2>. 0 \in 0..MaxLaunch
    BY BoundAssumption
  <2>3. FilesTyped'
    BY <1>3 DEF ClearMarker, FilesTyped, TypeInv, TypeOK
  <2>4. LocksTyped' /\ ProcsTyped' /\ BoundsTyped'
    BY <1>3, LocksSame, ProcsSame, BoundsSame DEF ClearMarker, TypeInv, TypeOK
  <2>. QED BY <2>2, <2>3, <2>4 DEF TypeInv, TypeOK
<1>4. CASE ClearBoot(c)
  <2>. DEFINE p == Removed(job[c])
  <2>1. p \in PCs /\ Goto(c, p) /\ UNCHANGED job /\ JobOK(p, job[c])
    BY <1>4, <1>0 DEF ClearBoot, PCs, Removed, JobOK, RecPcs, FreshPcs, InspectPcs, TryPcs, ClearPcs, KillPcs
  <2>2. ClientsTyped' /\ JobsOK'
    BY <2>1, MoveSame DEF TypeInv, TypeOK
  <2>3. FilesTyped'
    BY <1>4, <1>0, BoundAssumption DEF ClearBoot, FilesTyped, TypeInv, TypeOK, DropHandshake, Boot, NoBoot
  <2>4. LocksTyped' /\ ProcsTyped' /\ BoundsTyped'
    BY <1>4, LocksSame, ProcsSame, BoundsSame DEF ClearBoot, TypeInv, TypeOK
  <2>. QED BY <2>2, <2>3, <2>4 DEF TypeInv, TypeOK
<1>. QED BY <1>1, <1>2, <1>3, <1>4 DEF Removal

\* A termination keeps the state well typed.
LEMMA TypeTerminate ==
    ASSUME TypeInv, NEW c \in Clients, Terminate(c)
    PROVE  TypeInv'
<1>0. pc[c] \in PCs /\ job[c] \in Job /\ JobOK(pc[c], job[c])
  BY DEF TypeInv, TypeOK, ClientsTyped, JobsOK
<1>1. CASE TermAbsent(c)
  <2>. DEFINE p == "clearSession"
  <2>1. p \in PCs /\ Goto(c, p) /\ UNCHANGED job /\ JobOK(p, job[c])
    BY <1>1, <1>0 DEF TermAbsent, PCs, JobOK, RecPcs, FreshPcs, InspectPcs, TryPcs, ClearPcs, KillPcs
  <2>2. ClientsTyped' /\ JobsOK'
    BY <2>1, MoveSame DEF TypeInv, TypeOK
  <2>3. FilesTyped' /\ LocksTyped' /\ ProcsTyped' /\ BoundsTyped'
    BY <1>1, FilesSame, LocksSame, ProcsSame, BoundsSame DEF TermAbsent, TypeInv, TypeOK
  <2>. QED BY <2>2, <2>3 DEF TypeInv, TypeOK
<1>2. CASE TermSignal(c)
  <2>. DEFINE p == "kill"
  <2>1. p \in PCs /\ Goto(c, p) /\ UNCHANGED job /\ JobOK(p, job[c])
    BY <1>2, <1>0 DEF TermSignal, PCs, JobOK, RecPcs, FreshPcs, InspectPcs, TryPcs, ClearPcs, KillPcs
  <2>2. ClientsTyped' /\ JobsOK'
    BY <2>1, MoveSame DEF TypeInv, TypeOK
  <2>3. ProcsTyped'
    BY <1>2, <1>0, BoundAssumption DEF TermSignal, ProcsTyped, TypeInv, TypeOK, Signal, SupStates, RootStates
  <2>4. FilesTyped' /\ LocksTyped' /\ BoundsTyped'
    BY <1>2, FilesSame, LocksSame, BoundsSame DEF TermSignal, TypeInv, TypeOK
  <2>. QED BY <2>2, <2>3, <2>4 DEF TypeInv, TypeOK
<1>3. CASE Kill(c)
  <2>. DEFINE p == "clearSession"
  <2>1. p \in PCs /\ Goto(c, p) /\ UNCHANGED job /\ JobOK(p, job[c])
    BY <1>3, <1>0 DEF Kill, PCs, JobOK, RecPcs, FreshPcs, InspectPcs, TryPcs, ClearPcs, KillPcs
  <2>2. ClientsTyped' /\ JobsOK'
    BY <2>1, MoveSame DEF TypeInv, TypeOK
  <2>3. ProcsTyped'
    BY <1>3, <1>0, BoundAssumption DEF Kill, ProcsTyped, TypeInv, TypeOK, Signal, SupStates, RootStates
  <2>4. FilesTyped' /\ LocksTyped' /\ BoundsTyped'
    BY <1>3, FilesSame, LocksSame, BoundsSame DEF Kill, TypeInv, TypeOK
  <2>. QED BY <2>2, <2>3, <2>4 DEF TypeInv, TypeOK
<1>4. CASE KillSurvived(c)
  <2>. DEFINE p == IF job[c].fresh THEN "finally" ELSE "unlock"
  <2>1. p \in PCs /\ Goto(c, p) /\ UNCHANGED job /\ JobOK(p, job[c])
    BY <1>4, <1>0 DEF KillSurvived, PCs, JobOK, RecPcs, FreshPcs, InspectPcs, TryPcs, ClearPcs, KillPcs
  <2>2. ClientsTyped' /\ JobsOK'
    BY <2>1, MoveSame DEF TypeInv, TypeOK
  <2>3. BoundsTyped'
    BY <1>4, <1>0, BoundAssumption DEF KillSurvived, BoundsTyped, TypeInv, TypeOK
  <2>4. FilesTyped' /\ LocksTyped' /\ ProcsTyped'
    BY <1>4, FilesSame, LocksSame, ProcsSame DEF KillSurvived, TypeInv, TypeOK
  <2>. QED BY <2>2, <2>3, <2>4 DEF TypeInv, TypeOK
<1>. QED BY <1>1, <1>2, <1>3, <1>4 DEF Terminate

\* A launch keeps the state well typed.
LEMMA TypeLaunch ==
    ASSUME TypeInv, NEW c \in Clients, Launch(c)
    PROVE  TypeInv'
<1>0. pc[c] \in PCs /\ job[c] \in Job /\ JobOK(pc[c], job[c])
  BY DEF TypeInv, TypeOK, ClientsTyped, JobsOK
<1>1. CASE Prep(c)
  <2>. DEFINE p == "spawn"
              f == [job[c] EXCEPT !.fresh = TRUE, !.rec.launch = job[c].sid]
  <2>1. p \in PCs /\ Goto(c, p) /\ Job1(c, f)
    BY <1>1, <1>0 DEF Prep, PCs, Inspected, InspectPcs, TryPcs, ClearPcs, KillPcs
  <2>2. f \in Job
    BY <1>1, <1>0 DEF Prep, Record, Job
  <2>3. JobOK(p, f)
    BY <1>1, <1>0 DEF Prep, Record, JobOK, Job, Inspected, RecPcs, FreshPcs, InspectPcs, TryPcs, ClearPcs, KillPcs
  <2>4. ClientsTyped' /\ JobsOK'
    BY <2>1, <2>2, <2>3, MoveTyped DEF TypeInv, TypeOK
  <2>5. FilesTyped'
    BY <1>1, <1>0, BoundAssumption DEF Prep, FilesTyped, TypeInv, TypeOK, DropHandshake, Boot, NoBoot
  <2>6. ProcsTyped'
    BY <1>1, <1>0, BoundAssumption DEF Prep, ProcsTyped, TypeInv, TypeOK, Job, Record, JobOK
  <2>7. LocksTyped' /\ BoundsTyped'
    BY <1>1, LocksSame, BoundsSame DEF Prep, TypeInv, TypeOK
  <2>. QED BY <2>4, <2>5, <2>6, <2>7 DEF TypeInv, TypeOK
<1>2. CASE Spawn(c)
  <2>. DEFINE p == "identify"
  <2>1. p \in PCs /\ Goto(c, p) /\ UNCHANGED job /\ JobOK(p, job[c])
    BY <1>2, <1>0 DEF Spawn, PCs, JobOK, RecPcs, FreshPcs, InspectPcs, TryPcs, ClearPcs, KillPcs
  <2>2. ClientsTyped' /\ JobsOK'
    BY <2>1, MoveSame DEF TypeInv, TypeOK
  <2>3. ProcsTyped'
    BY <1>2, <1>0, BoundAssumption DEF Spawn, ProcsTyped, TypeInv, TypeOK, SupStates
  <2>4. FilesTyped' /\ LocksTyped' /\ BoundsTyped'
    BY <1>2, FilesSame, LocksSame, BoundsSame DEF Spawn, TypeInv, TypeOK
  <2>. QED BY <2>2, <2>3, <2>4 DEF TypeInv, TypeOK
<1>3. CASE Identify(c)
  <2>. DEFINE p == IF SupAlive(job[c].sid) THEN "mark" ELSE "clearSession"
  <2>1. p \in PCs /\ Goto(c, p) /\ UNCHANGED job /\ JobOK(p, job[c])
    BY <1>3, <1>0 DEF Identify, PCs, JobOK, RecPcs, FreshPcs, InspectPcs, TryPcs, ClearPcs, KillPcs
  <2>2. ClientsTyped' /\ JobsOK'
    BY <2>1, MoveSame DEF TypeInv, TypeOK
  <2>3. FilesTyped' /\ LocksTyped' /\ ProcsTyped' /\ BoundsTyped'
    BY <1>3, FilesSame, LocksSame, ProcsSame, BoundsSame DEF Identify, TypeInv, TypeOK
  <2>. QED BY <2>2, <2>3 DEF TypeInv, TypeOK
<1>4. CASE Mark(c)
  <2>. DEFINE p == IF pc[c] = "mark" THEN "provisional" ELSE "record"
  <2>1. p \in PCs /\ Goto(c, p) /\ UNCHANGED job /\ JobOK(p, job[c])
    BY <1>4, <1>0 DEF Mark, PCs, JobOK, RecPcs, FreshPcs, InspectPcs, TryPcs, ClearPcs, KillPcs
  <2>2. ClientsTyped' /\ JobsOK'
    BY <2>1, MoveSame DEF TypeInv, TypeOK
  <2>3. FilesTyped'
    BY <1>4, <1>0, BoundAssumption DEF Mark, FilesTyped, TypeInv, TypeOK, Job
  <2>4. LocksTyped' /\ ProcsTyped' /\ BoundsTyped'
    BY <1>4, LocksSame, ProcsSame, BoundsSame DEF Mark, TypeInv, TypeOK
  <2>. QED BY <2>2, <2>3, <2>4 DEF TypeInv, TypeOK
<1>5. CASE Provisional(c)
  <2>. DEFINE p == "open"
  <2>1. p \in PCs /\ Goto(c, p) /\ UNCHANGED job /\ JobOK(p, job[c])
    BY <1>5, <1>0 DEF Provisional, PCs, JobOK, RecPcs, FreshPcs, InspectPcs, TryPcs, ClearPcs, KillPcs
  <2>2. ClientsTyped' /\ JobsOK'
    BY <2>1, MoveSame DEF TypeInv, TypeOK
  <2>3. FilesTyped'
    BY <1>5, <1>0, BoundAssumption DEF Provisional, FilesTyped, TypeInv, TypeOK, Job, Record, JobOK, FreshPcs, TryPcs, ProvisionalRecord
  <2>4. LocksTyped' /\ ProcsTyped' /\ BoundsTyped'
    BY <1>5, LocksSame, ProcsSame, BoundsSame DEF Provisional, TypeInv, TypeOK
  <2>. QED BY <2>2, <2>3, <2>4 DEF TypeInv, TypeOK
<1>6. CASE OpenGate(c)
  <2>. DEFINE p == "await"
  <2>1. p \in PCs /\ Goto(c, p) /\ UNCHANGED job /\ JobOK(p, job[c])
    BY <1>6, <1>0 DEF OpenGate, PCs, JobOK, RecPcs, FreshPcs, InspectPcs, TryPcs, ClearPcs, KillPcs
  <2>2. ClientsTyped' /\ JobsOK'
    BY <2>1, MoveSame DEF TypeInv, TypeOK
  <2>3. FilesTyped'
    BY <1>6, <1>0, BoundAssumption DEF OpenGate, FilesTyped, TypeInv, TypeOK
  <2>4. LocksTyped' /\ ProcsTyped' /\ BoundsTyped'
    BY <1>6, LocksSame, ProcsSame, BoundsSame DEF OpenGate, TypeInv, TypeOK
  <2>. QED BY <2>2, <2>3, <2>4 DEF TypeInv, TypeOK
<1>7. CASE AwaitPid(c)
  <2>0. boot[job[c].name].blender \in Launches
    BY <1>7, <1>0 DEF AwaitPid, JobOK, TypeInv, TypeOK, FilesTyped, Boot
  <2>. DEFINE p == "blender"
              f == [job[c] EXCEPT !.rec.blender = boot[job[c].name].blender]
  <2>1. p \in PCs /\ Goto(c, p) /\ Job1(c, f)
    BY <1>7, <2>0, BoundAssumption, <1>0 DEF AwaitPid, PCs, Inspected, InspectPcs, TryPcs, ClearPcs, KillPcs
  <2>2. f \in Job
    BY <1>7, <2>0, BoundAssumption, <1>0 DEF AwaitPid, Record, Launches, Job
  <2>3. JobOK(p, f)
    BY <1>7, <2>0, BoundAssumption, <1>0 DEF AwaitPid, Record, Launches, JobOK, Job, Inspected, RecPcs, FreshPcs, InspectPcs, TryPcs, ClearPcs, KillPcs
  <2>4. ClientsTyped' /\ JobsOK'
    BY <2>1, <2>2, <2>3, MoveTyped DEF TypeInv, TypeOK
  <2>5. FilesTyped' /\ LocksTyped' /\ ProcsTyped' /\ BoundsTyped'
    BY <1>7, FilesSame, LocksSame, ProcsSame, BoundsSame DEF AwaitPid, TypeInv, TypeOK
  <2>. QED BY <2>4, <2>5 DEF TypeInv, TypeOK
<1>8. CASE AwaitFails(c)
  <2>. DEFINE p == "term"
  <2>1. p \in PCs /\ Goto(c, p) /\ UNCHANGED job /\ JobOK(p, job[c])
    BY <1>8, <1>0 DEF AwaitFails, PCs, JobOK, RecPcs, FreshPcs, InspectPcs, TryPcs, ClearPcs, KillPcs
  <2>2. ClientsTyped' /\ JobsOK'
    BY <2>1, MoveSame DEF TypeInv, TypeOK
  <2>3. FilesTyped' /\ LocksTyped' /\ ProcsTyped' /\ BoundsTyped'
    BY <1>8, FilesSame, LocksSame, ProcsSame, BoundsSame DEF AwaitFails, TypeInv, TypeOK
  <2>. QED BY <2>2, <2>3 DEF TypeInv, TypeOK
<1>9. CASE BlenderIdentity(c)
  <2>. DEFINE p == IF RootAlive(job[c].rec.blender) THEN "remark" ELSE "term"
  <2>1. p \in PCs /\ Goto(c, p) /\ UNCHANGED job /\ JobOK(p, job[c])
    BY <1>9, <1>0 DEF BlenderIdentity, PCs, JobOK, RecPcs, FreshPcs, InspectPcs, TryPcs, ClearPcs, KillPcs
  <2>2. ClientsTyped' /\ JobsOK'
    BY <2>1, MoveSame DEF TypeInv, TypeOK
  <2>3. FilesTyped' /\ LocksTyped' /\ ProcsTyped' /\ BoundsTyped'
    BY <1>9, FilesSame, LocksSame, ProcsSame, BoundsSame DEF BlenderIdentity, TypeInv, TypeOK
  <2>. QED BY <2>2, <2>3 DEF TypeInv, TypeOK
<1>10. CASE RecordSession(c)
  <2>. DEFINE p == "promote"
  <2>1. p \in PCs /\ Goto(c, p) /\ UNCHANGED job /\ JobOK(p, job[c])
    BY <1>10, <1>0 DEF RecordSession, PCs, JobOK, RecPcs, FreshPcs, InspectPcs, TryPcs, ClearPcs, KillPcs
  <2>2. ClientsTyped' /\ JobsOK'
    BY <2>1, MoveSame DEF TypeInv, TypeOK
  <2>3. FilesTyped'
    BY <1>10, <1>0, BoundAssumption DEF RecordSession, FilesTyped, TypeInv, TypeOK, Job, Record, JobOK, FreshPcs, TryPcs, FinalRecord
  <2>4. LocksTyped' /\ ProcsTyped' /\ BoundsTyped'
    BY <1>10, LocksSame, ProcsSame, BoundsSame DEF RecordSession, TypeInv, TypeOK
  <2>. QED BY <2>2, <2>3, <2>4 DEF TypeInv, TypeOK
<1>11. CASE Promote(c)
  <2>. DEFINE p == "finally"
  <2>1. p \in PCs /\ Goto(c, p) /\ UNCHANGED job /\ JobOK(p, job[c])
    BY <1>11, <1>0 DEF Promote, PCs, JobOK, RecPcs, FreshPcs, InspectPcs, TryPcs, ClearPcs, KillPcs
  <2>2. ClientsTyped' /\ JobsOK'
    BY <2>1, MoveSame DEF TypeInv, TypeOK
  <2>3. FilesTyped'
    BY <1>11, <1>0, BoundAssumption DEF Promote, FilesTyped, TypeInv, TypeOK
  <2>4. LocksTyped' /\ ProcsTyped' /\ BoundsTyped'
    BY <1>11, LocksSame, ProcsSame, BoundsSame DEF Promote, TypeInv, TypeOK
  <2>. QED BY <2>2, <2>3, <2>4 DEF TypeInv, TypeOK
<1>12. CASE Finally(c)
  <2>. DEFINE p == "unlock"
  <2>1. p \in PCs /\ Goto(c, p) /\ UNCHANGED job /\ JobOK(p, job[c])
    BY <1>12, <1>0 DEF Finally, PCs, JobOK, RecPcs, FreshPcs, InspectPcs, TryPcs, ClearPcs, KillPcs
  <2>2. ClientsTyped' /\ JobsOK'
    BY <2>1, MoveSame DEF TypeInv, TypeOK
  <2>3. FilesTyped'
    BY <1>12, <1>0, BoundAssumption DEF Finally, FilesTyped, TypeInv, TypeOK, DropHandshake, Boot, NoBoot
  <2>4. LocksTyped' /\ ProcsTyped' /\ BoundsTyped'
    BY <1>12, LocksSame, ProcsSame, BoundsSame DEF Finally, TypeInv, TypeOK
  <2>. QED BY <2>2, <2>3, <2>4 DEF TypeInv, TypeOK
<1>. QED BY <1>1, <1>2, <1>3, <1>4, <1>5, <1>6, <1>7, <1>8, <1>9, <1>10, <1>11, <1>12 DEF Launch

\* A step of a supervisor keeps the state well typed.
LEMMA TypeSup ==
    ASSUME TypeInv, NEW l \in Launches, SupStep(l)
    PROVE  TypeInv'
<1>1. CASE SupSeesGate(l)
  <2>1. ClientsTyped' /\ JobsOK'
    BY <1>1, ClientsSame DEF SupSeesGate, TypeInv, TypeOK
  <2>2. ProcsTyped'
    BY <1>1, BoundAssumption DEF SupSeesGate, ProcsTyped, TypeInv, TypeOK, SupStates, RootStates
  <2>3. FilesTyped' /\ LocksTyped' /\ BoundsTyped'
    BY <1>1, FilesSame, LocksSame, BoundsSame DEF SupSeesGate, TypeInv, TypeOK
  <2>. QED BY <2>1, <2>2, <2>3 DEF TypeInv, TypeOK
<1>2. CASE SupExpires(l)
  <2>1. ClientsTyped' /\ JobsOK'
    BY <1>2, ClientsSame DEF SupExpires, TypeInv, TypeOK
  <2>2. ProcsTyped'
    BY <1>2, BoundAssumption DEF SupExpires, ProcsTyped, TypeInv, TypeOK, SupStates, RootStates
  <2>3. FilesTyped' /\ LocksTyped' /\ BoundsTyped'
    BY <1>2, FilesSame, LocksSame, BoundsSame DEF SupExpires, TypeInv, TypeOK
  <2>. QED BY <2>1, <2>2, <2>3 DEF TypeInv, TypeOK
<1>3. CASE SupTakesGate(l)
  <2>1. ClientsTyped' /\ JobsOK'
    BY <1>3, ClientsSame DEF SupTakesGate, TypeInv, TypeOK
  <2>2. FilesTyped'
    <3>1. CASE sup'[l] = "gone" /\ UNCHANGED boot
      BY <1>3, <3>1 DEF SupTakesGate, FilesTyped, TypeInv, TypeOK
    <3>2. CASE boot' = [boot EXCEPT ![plan[l].name] = [is |-> "launching", blender |-> 0]]
      BY <1>3, <3>2 DEF SupTakesGate, FilesTyped, TypeInv, TypeOK, Boot
    <3>3. ProcsTyped
      BY DEF TypeInv, TypeOK
    <3>. QED BY <1>3, <3>1, <3>2, <3>3 DEF SupTakesGate, ProcsTyped
  <2>3. ProcsTyped'
    BY <1>3, BoundAssumption DEF SupTakesGate, ProcsTyped, TypeInv, TypeOK, SupStates, RootStates
  <2>4. LocksTyped' /\ BoundsTyped'
    BY <1>3, LocksSame, BoundsSame DEF SupTakesGate, TypeInv, TypeOK
  <2>. QED BY <2>1, <2>2, <2>3, <2>4 DEF TypeInv, TypeOK
<1>4. CASE SupSpawns(l)
  <2>1. ClientsTyped' /\ JobsOK'
    BY <1>4, ClientsSame DEF SupSpawns, TypeInv, TypeOK
  <2>2. ProcsTyped'
    BY <1>4, BoundAssumption DEF SupSpawns, ProcsTyped, TypeInv, TypeOK, SupStates, RootStates
  <2>3. FilesTyped' /\ LocksTyped' /\ BoundsTyped'
    BY <1>4, FilesSame, LocksSame, BoundsSame DEF SupSpawns, TypeInv, TypeOK
  <2>. QED BY <2>1, <2>2, <2>3 DEF TypeInv, TypeOK
<1>5. CASE SupCannotSpawn(l)
  <2>1. ClientsTyped' /\ JobsOK'
    BY <1>5, ClientsSame DEF SupCannotSpawn, TypeInv, TypeOK
  <2>2. FilesTyped'
    BY <1>5, BoundAssumption DEF SupCannotSpawn, FilesTyped, TypeInv, TypeOK, Boot, NoBoot
  <2>3. ProcsTyped'
    BY <1>5, BoundAssumption DEF SupCannotSpawn, ProcsTyped, TypeInv, TypeOK, SupStates, RootStates
  <2>4. LocksTyped' /\ BoundsTyped'
    BY <1>5, LocksSame, BoundsSame DEF SupCannotSpawn, TypeInv, TypeOK
  <2>. QED BY <2>1, <2>2, <2>3, <2>4 DEF TypeInv, TypeOK
<1>6. CASE SupReports(l)
  <2>1. ClientsTyped' /\ JobsOK'
    BY <1>6, ClientsSame DEF SupReports, TypeInv, TypeOK
  <2>2. FilesTyped'
    BY <1>6, BoundAssumption DEF SupReports, FilesTyped, TypeInv, TypeOK, Boot, NoBoot
  <2>3. ProcsTyped'
    BY <1>6, BoundAssumption DEF SupReports, ProcsTyped, TypeInv, TypeOK, SupStates, RootStates
  <2>4. LocksTyped' /\ BoundsTyped'
    BY <1>6, LocksSame, BoundsSame DEF SupReports, TypeInv, TypeOK
  <2>. QED BY <2>1, <2>2, <2>3, <2>4 DEF TypeInv, TypeOK
<1>7. CASE SupCannotReport(l)
  <2>1. ClientsTyped' /\ JobsOK'
    BY <1>7, ClientsSame DEF SupCannotReport, TypeInv, TypeOK
  <2>2. ProcsTyped'
    BY <1>7, BoundAssumption DEF SupCannotReport, ProcsTyped, TypeInv, TypeOK, SupStates, RootStates, Signal
  <2>3. FilesTyped' /\ LocksTyped' /\ BoundsTyped'
    BY <1>7, FilesSame, LocksSame, BoundsSame DEF SupCannotReport, TypeInv, TypeOK
  <2>. QED BY <2>1, <2>2, <2>3 DEF TypeInv, TypeOK
<1>. QED BY <1>1, <1>2, <1>3, <1>4, <1>5, <1>6, <1>7 DEF SupStep

\* A step of Blender or its children keeps the state well typed.
LEMMA TypeBlender ==
    ASSUME TypeInv, NEW l \in Launches, BlenderStep(l)
    PROVE  TypeInv'
<1>1. CASE RootBinds(l)
  <2>1. ClientsTyped' /\ JobsOK'
    BY <1>1, ClientsSame DEF RootBinds, TypeInv, TypeOK
  <2>2. ProcsTyped'
    BY <1>1, BoundAssumption DEF RootBinds, ProcsTyped, TypeInv, TypeOK, RootStates
  <2>3. FilesTyped' /\ LocksTyped' /\ BoundsTyped'
    BY <1>1, FilesSame, LocksSame, BoundsSame DEF RootBinds, TypeInv, TypeOK
  <2>. QED BY <2>1, <2>2, <2>3 DEF TypeInv, TypeOK
<1>2. CASE RootExits(l)
  <2>1. ClientsTyped' /\ JobsOK'
    BY <1>2, ClientsSame DEF RootExits, TypeInv, TypeOK
  <2>2. ProcsTyped'
    BY <1>2, BoundAssumption DEF RootExits, ProcsTyped, TypeInv, TypeOK, RootStates
  <2>3. FilesTyped' /\ LocksTyped' /\ BoundsTyped'
    BY <1>2, FilesSame, LocksSame, BoundsSame DEF RootExits, TypeInv, TypeOK
  <2>. QED BY <2>1, <2>2, <2>3 DEF TypeInv, TypeOK
<1>3. CASE HelperStarts(l)
  <2>1. ClientsTyped' /\ JobsOK'
    BY <1>3, ClientsSame DEF HelperStarts, TypeInv, TypeOK
  <2>2. ProcsTyped'
    BY <1>3, BoundAssumption DEF HelperStarts, ProcsTyped, TypeInv, TypeOK, RootStates
  <2>3. BoundsTyped'
    BY <1>3, BoundAssumption DEF HelperStarts, BoundsTyped, TypeInv, TypeOK, Fault
  <2>4. FilesTyped' /\ LocksTyped'
    BY <1>3, FilesSame, LocksSame DEF HelperStarts, TypeInv, TypeOK
  <2>. QED BY <2>1, <2>2, <2>3, <2>4 DEF TypeInv, TypeOK
<1>4. CASE HelperEnds(l)
  <2>1. ClientsTyped' /\ JobsOK'
    BY <1>4, ClientsSame DEF HelperEnds, TypeInv, TypeOK
  <2>2. ProcsTyped'
    BY <1>4, BoundAssumption DEF HelperEnds, ProcsTyped, TypeInv, TypeOK, RootStates
  <2>3. FilesTyped' /\ LocksTyped' /\ BoundsTyped'
    BY <1>4, FilesSame, LocksSame, BoundsSame DEF HelperEnds, TypeInv, TypeOK
  <2>. QED BY <2>1, <2>2, <2>3 DEF TypeInv, TypeOK
<1>. QED BY <1>1, <1>2, <1>3, <1>4 DEF BlenderStep

\* Locks, the fence, decisions and the call keep the state well typed.
LEMMA TypeControl ==
    ASSUME TypeInv, NEW c \in Clients, Control(c)
    PROVE  TypeInv'
<1>0. pc[c] \in PCs /\ job[c] \in Job /\ JobOK(pc[c], job[c])
  BY DEF TypeInv, TypeOK, ClientsTyped, JobsOK
<1>1. CASE LockName(c)
  <2>. DEFINE p == IF job[c].op \in {"call", "stop"} THEN "fence" ELSE "read"
  <2>1. p \in PCs /\ Goto(c, p) /\ UNCHANGED job /\ JobOK(p, job[c])
    BY <1>1, <1>0 DEF LockName, PCs, JobOK, RecPcs, FreshPcs, InspectPcs, TryPcs, ClearPcs, KillPcs
  <2>2. ClientsTyped' /\ JobsOK'
    BY <2>1, MoveSame DEF TypeInv, TypeOK
  <2>3. LocksTyped'
    BY <1>1, <1>0, BoundAssumption DEF LockName, LocksTyped, TypeInv, TypeOK
  <2>4. FilesTyped' /\ ProcsTyped' /\ BoundsTyped'
    BY <1>1, FilesSame, ProcsSame, BoundsSame DEF LockName, TypeInv, TypeOK
  <2>. QED BY <2>2, <2>3, <2>4 DEF TypeInv, TypeOK
<1>2. CASE Fence(c)
  <2>. DEFINE p == IF FencePasses(Current(job[c].name), job[c].sid) THEN "read" ELSE "unlock"
  <2>1. p \in PCs /\ Goto(c, p) /\ UNCHANGED job /\ JobOK(p, job[c])
    BY <1>2, <1>0 DEF Fence, PCs, JobOK, RecPcs, FreshPcs, InspectPcs, TryPcs, ClearPcs, KillPcs
  <2>2. ClientsTyped' /\ JobsOK'
    BY <2>1, MoveSame DEF TypeInv, TypeOK
  <2>3. FilesTyped' /\ LocksTyped' /\ ProcsTyped' /\ BoundsTyped'
    BY <1>2, FilesSame, LocksSame, ProcsSame, BoundsSame DEF Fence, TypeInv, TypeOK
  <2>. QED BY <2>2, <2>3 DEF TypeInv, TypeOK
<1>3. CASE Decide(c)
  <2>0. PICK q \in Verdicts(job[c].op, job[c].status) : Goto(c, q)
    BY <1>3 DEF Decide, Verdicts
  <2>. DEFINE p == q
              f == [job[c] EXCEPT !.reclaim = job[c].op = "start" /\ Reclaimable(job[c].status)]
  <2>1. p \in PCs /\ Goto(c, p) /\ Job1(c, f)
    BY <2>0, <1>3, <1>0 DEF Decide, PCs, Verdicts, Inspected, InspectPcs, TryPcs, ClearPcs, KillPcs
  <2>2. f \in Job
    BY <2>0, <1>3, <1>0 DEF Decide, Reclaimable, Job
  <2>3. JobOK(p, f)
    BY <2>0, <1>3, <1>0 DEF Decide, Verdicts, Reclaimable, JobOK, Job, Inspected, RecPcs, FreshPcs, InspectPcs, TryPcs, ClearPcs, KillPcs
  <2>4. ClientsTyped' /\ JobsOK'
    BY <2>1, <2>2, <2>3, MoveTyped DEF TypeInv, TypeOK
  <2>5. FilesTyped' /\ LocksTyped' /\ ProcsTyped' /\ BoundsTyped'
    BY <1>3, FilesSame, LocksSame, ProcsSame, BoundsSame DEF Decide, TypeInv, TypeOK
  <2>. QED BY <2>4, <2>5 DEF TypeInv, TypeOK
<1>4. CASE LockPorts(c)
  <2>. DEFINE p == IF job[c].op = "start" THEN "scan" ELSE IF Stoppable(job[c].status) THEN "term" ELSE "clearSession"
              f == IF job[c].op = "start" THEN [job[c] EXCEPT !.left = Names \ {job[c].name}] ELSE job[c]
  <2>1. p \in PCs /\ Goto(c, p) /\ Job1(c, f)
    BY <1>4, <1>0 DEF LockPorts, PCs, Inspected, InspectPcs, TryPcs, ClearPcs, KillPcs, TypeInv, TypeOK, ClientsTyped
  <2>2. f \in Job
    BY <1>4, <1>0 DEF LockPorts, Stoppable, Job
  <2>3. JobOK(p, f)
    BY <1>4, <1>0 DEF LockPorts, Stoppable, JobOK, Job, Inspected, RecPcs, FreshPcs, InspectPcs, TryPcs, ClearPcs, KillPcs
  <2>4. ClientsTyped' /\ JobsOK'
    BY <2>1, <2>2, <2>3, MoveTyped DEF TypeInv, TypeOK
  <2>5. LocksTyped'
    BY <1>4, <1>0, BoundAssumption DEF LockPorts, LocksTyped, TypeInv, TypeOK
  <2>6. FilesTyped' /\ ProcsTyped' /\ BoundsTyped'
    BY <1>4, FilesSame, ProcsSame, BoundsSame DEF LockPorts, TypeInv, TypeOK
  <2>. QED BY <2>4, <2>5, <2>6 DEF TypeInv, TypeOK
<1>5. CASE Call(c)
  <2>. DEFINE p == "reply"
  <2>1. p \in PCs /\ Goto(c, p) /\ UNCHANGED job /\ JobOK(p, job[c])
    BY <1>5, <1>0 DEF Call, PCs, JobOK, RecPcs, FreshPcs, InspectPcs, TryPcs, ClearPcs, KillPcs
  <2>2. ClientsTyped' /\ JobsOK'
    BY <2>1, MoveSame DEF TypeInv, TypeOK
  <2>3. FilesTyped' /\ LocksTyped' /\ ProcsTyped' /\ BoundsTyped'
    BY <1>5, FilesSame, LocksSame, ProcsSame, BoundsSame DEF Call, TypeInv, TypeOK
  <2>. QED BY <2>2, <2>3 DEF TypeInv, TypeOK
<1>6. CASE Reply(c)
  <2>. DEFINE p == "unlock"
  <2>1. p \in PCs /\ Goto(c, p) /\ UNCHANGED job /\ JobOK(p, job[c])
    BY <1>6, <1>0 DEF Reply, PCs, JobOK, RecPcs, FreshPcs, InspectPcs, TryPcs, ClearPcs, KillPcs
  <2>2. ClientsTyped' /\ JobsOK'
    BY <2>1, MoveSame DEF TypeInv, TypeOK
  <2>3. LocksTyped'
    BY <1>6, <1>0, BoundAssumption DEF Reply, LocksTyped, TypeInv, TypeOK
  <2>4. FilesTyped' /\ ProcsTyped' /\ BoundsTyped'
    BY <1>6, FilesSame, ProcsSame, BoundsSame DEF Reply, TypeInv, TypeOK
  <2>. QED BY <2>2, <2>3, <2>4 DEF TypeInv, TypeOK
<1>7. CASE UnlockPorts(c)
  <2>1. ClientsTyped' /\ JobsOK'
    BY <1>7, ClientsSame DEF UnlockPorts, TypeInv, TypeOK
  <2>2. LocksTyped'
    BY <1>7, <1>0, BoundAssumption DEF UnlockPorts, LocksTyped, TypeInv, TypeOK
  <2>3. FilesTyped' /\ ProcsTyped' /\ BoundsTyped'
    BY <1>7, FilesSame, ProcsSame, BoundsSame DEF UnlockPorts, TypeInv, TypeOK
  <2>. QED BY <2>1, <2>2, <2>3 DEF TypeInv, TypeOK
<1>8. CASE UnlockName(c)
  <2>. DEFINE p == "idle"
              f == NoJob
  <2>1. p \in PCs /\ Goto(c, p) /\ Job1(c, f)
    BY <1>8, BoundAssumption, <1>0 DEF UnlockName, PCs, Inspected, InspectPcs, TryPcs, ClearPcs, KillPcs
  <2>2. f \in Job
    BY <1>8, BoundAssumption, <1>0 DEF UnlockName, NoJob, Record, NoRec, Statuses, Job
  <2>3. JobOK(p, f)
    BY <1>8, BoundAssumption, <1>0 DEF UnlockName, NoJob, Record, NoRec, Statuses, JobOK, Job, Inspected, RecPcs, FreshPcs, InspectPcs, TryPcs, ClearPcs, KillPcs
  <2>4. ClientsTyped' /\ JobsOK'
    BY <2>1, <2>2, <2>3, MoveTyped DEF TypeInv, TypeOK
  <2>5. LocksTyped'
    BY <1>8, <1>0, BoundAssumption DEF UnlockName, LocksTyped, TypeInv, TypeOK
  <2>6. FilesTyped' /\ ProcsTyped' /\ BoundsTyped'
    BY <1>8, FilesSame, ProcsSame, BoundsSame DEF UnlockName, TypeInv, TypeOK
  <2>. QED BY <2>4, <2>5, <2>6 DEF TypeInv, TypeOK
<1>. QED BY <1>1, <1>2, <1>3, <1>4, <1>5, <1>6, <1>7, <1>8 DEF Control

\* A new operation keeps the state well typed.
LEMMA TypeBegin ==
    ASSUME TypeInv, NEW c \in Clients, Begin(c)
    PROVE  TypeInv'
<1>. USE BoundAssumption
<1>. DEFINE Fit(f) == f \in Job /\ JobOK("lock", f)
<1>1. ASSUME NEW f, Accept(c, f), Fit(f), BoundsTyped'
      PROVE  TypeInv'
  <2>1. "lock" \in PCs
    BY DEF PCs
  <2>2. ClientsTyped' /\ JobsOK'
    BY <1>1, <2>1, MoveTyped DEF Accept, TypeInv, TypeOK
  <2>3. FilesTyped' /\ LocksTyped' /\ ProcsTyped'
    BY <1>1, FilesSame, LocksSame, ProcsSame DEF Accept, TypeInv, TypeOK
  <2>. QED BY <1>1, <2>2, <2>3 DEF TypeInv, TypeOK
<1>6. NoJob \in Job
  BY DEF NoJob, NoRec, Job, Record, Statuses
<1>2. starts \in 0..MaxLaunch /\ ops \in 0..MaxOps /\ faults \in 0..MaxFaults
  BY DEF TypeInv, TypeOK, BoundsTyped
<1>3. ASSUME NEW n \in Names, BeginStart(c, n) PROVE TypeInv'
  <2>. DEFINE f == [NoJob EXCEPT !.op = "start", !.name = n, !.at = n, !.sid = starts + 1]
  <2>1. Fit(f)
    <3>0. starts + 1 \in 0..MaxLaunch /\ NoJob.rec \in Record
      BY <1>2, <1>3 DEF BeginStart, NoJob, NoRec, Record
    <3>1. f \in Job
      BY <3>0 DEF NoJob, Job, Statuses
    <3>2. JobOK("lock", f)
      BY <1>2, <1>3 DEF BeginStart, NoJob, NoRec, JobOK, RecPcs, FreshPcs, InspectPcs, TryPcs, ClearPcs, KillPcs, Launches
    <3>. QED BY <3>1, <3>2
  <2>2. BoundsTyped' /\ Accept(c, f)
    BY <1>2, <1>3 DEF BeginStart, Accept, BoundsTyped
  <2>. QED BY <1>1, <2>1, <2>2
<1>4. ASSUME NEW n \in Names, BeginStatus(c, n) PROVE TypeInv'
  <2>. DEFINE f == [NoJob EXCEPT !.op = "status", !.name = n, !.at = n]
  <2>1. Fit(f)
    <3>1. f \in Job
      BY <1>6 DEF Job, Launches
    <3>2. JobOK("lock", f)
      BY DEF NoJob, NoRec, JobOK, RecPcs, FreshPcs, InspectPcs, TryPcs, ClearPcs, KillPcs, Launches
    <3>. QED BY <3>1, <3>2
  <2>2. BoundsTyped' /\ Accept(c, f)
    BY <1>2, <1>4 DEF BeginStatus, Accept, BoundsTyped
  <2>. QED BY <1>1, <2>1, <2>2
<1>5. ASSUME NEW n \in Names, BeginFenced(c, n) PROVE TypeInv'
  <2>1. PICK o \in {"call", "stop"}, l \in Launches :
            Accept(c, [NoJob EXCEPT !.op = o, !.name = n, !.at = n, !.sid = l])
    BY <1>5 DEF BeginFenced
  <2>. DEFINE f == [NoJob EXCEPT !.op = o, !.name = n, !.at = n, !.sid = l]
  <2>2. Fit(f)
    <3>0. l \in 0..MaxLaunch /\ NoJob.rec \in Record
      BY DEF Launches, NoJob, NoRec, Record
    <3>1. f \in Job
      BY <3>0 DEF NoJob, Job, Statuses
    <3>2. JobOK("lock", f)
      BY DEF NoJob, NoRec, JobOK, RecPcs, FreshPcs, InspectPcs, TryPcs, ClearPcs, KillPcs, Launches
    <3>. QED BY <3>1, <3>2
  <2>3. BoundsTyped'
    BY <1>2, <1>5, <2>1 DEF BeginFenced, Accept, BoundsTyped
  <2>. QED BY <1>1, <2>1, <2>2, <2>3
<1>. QED BY <1>3, <1>4, <1>5 DEF Begin

\* A client's crash or interruption keeps the state well typed.
LEMMA TypeClientFault ==
    ASSUME TypeInv, NEW c \in Clients, ClientFault(c)
    PROVE  TypeInv'
<1>0. pc[c] \in PCs /\ job[c] \in Job /\ JobOK(pc[c], job[c])
  BY DEF TypeInv, TypeOK, ClientsTyped, JobsOK
<1>1. CASE Crash(c)
  <2>. DEFINE p == "idle"
              f == NoJob
  <2>1. p \in PCs /\ Goto(c, p) /\ Job1(c, f)
    BY <1>1, BoundAssumption, <1>0 DEF Crash, PCs, Inspected, InspectPcs, TryPcs, ClearPcs, KillPcs
  <2>2. f \in Job
    BY <1>1, BoundAssumption, <1>0 DEF Crash, NoJob, Record, NoRec, Statuses, Job
  <2>3. JobOK(p, f)
    BY <1>1, BoundAssumption, <1>0 DEF Crash, NoJob, Record, NoRec, Statuses, JobOK, Job, Inspected, RecPcs, FreshPcs, InspectPcs, TryPcs, ClearPcs, KillPcs
  <2>4. ClientsTyped' /\ JobsOK'
    BY <2>1, <2>2, <2>3, MoveTyped DEF TypeInv, TypeOK
  <2>5. LocksTyped'
    BY <1>1, <1>0, BoundAssumption DEF Crash, LocksTyped, TypeInv, TypeOK
  <2>6. BoundsTyped'
    BY <1>1, <1>0, BoundAssumption DEF Crash, BoundsTyped, TypeInv, TypeOK, Fault
  <2>7. FilesTyped' /\ ProcsTyped'
    BY <1>1, FilesSame, ProcsSame DEF Crash, TypeInv, TypeOK
  <2>. QED BY <2>4, <2>5, <2>6, <2>7 DEF TypeInv, TypeOK
<1>2. CASE Interrupt(c)
  <2>. DEFINE p == AfterInterrupt(pc[c])
  <2>1. p \in PCs /\ Goto(c, p) /\ UNCHANGED job /\ JobOK(p, job[c])
    BY <1>2, <1>0 DEF Interrupt, PCs, AfterInterrupt, JobOK, RecPcs, FreshPcs, InspectPcs, TryPcs, ClearPcs, KillPcs
  <2>2. ClientsTyped' /\ JobsOK'
    BY <2>1, MoveSame DEF TypeInv, TypeOK
  <2>3. BoundsTyped'
    BY <1>2, <1>0, BoundAssumption DEF Interrupt, BoundsTyped, TypeInv, TypeOK, Fault
  <2>4. FilesTyped' /\ LocksTyped' /\ ProcsTyped'
    BY <1>2, FilesSame, LocksSame, ProcsSame DEF Interrupt, TypeInv, TypeOK
  <2>. QED BY <2>2, <2>3, <2>4 DEF TypeInv, TypeOK
<1>. QED BY <1>1, <1>2 DEF ClientFault

\* A fault outside the clients keeps the state well typed.
LEMMA TypeOuterFault ==
    ASSUME TypeInv,
           \/ \E l \in Launches : SupKilled(l)
           \/ \E p \in BasePort..MaxPort : ForeignBinds(p)
    PROVE  TypeInv'
<1>. USE BoundAssumption, PortAssumption
<1>1. CASE \E l \in Launches : SupKilled(l)
  <2>1. ProcsTyped' /\ BoundsTyped'
    BY <1>1 DEF SupKilled, Fault, ProcsTyped, BoundsTyped, SupStates, TypeInv, TypeOK
  <2>2. FilesTyped' /\ LocksTyped' /\ ClientsTyped' /\ JobsOK'
    BY <1>1, FilesSame, LocksSame, ClientsSame DEF SupKilled, TypeInv, TypeOK
  <2>. QED BY <2>1, <2>2 DEF TypeInv, TypeOK
<1>2. CASE \E p \in BasePort..MaxPort : ForeignBinds(p)
  <2>1. ProcsTyped' /\ BoundsTyped'
    BY <1>2 DEF ForeignBinds, Fault, ProcsTyped, BoundsTyped, TypeInv, TypeOK
  <2>2. FilesTyped' /\ LocksTyped' /\ ClientsTyped' /\ JobsOK'
    BY <1>2, FilesSame, LocksSame, ClientsSame DEF ForeignBinds, TypeInv, TypeOK
  <2>. QED BY <2>1, <2>2 DEF TypeInv, TypeOK
<1>. QED BY <1>1, <1>2

\* A step in which nothing changes keeps the state well typed.
LEMMA TypeStutter == ASSUME TypeInv, UNCHANGED vars PROVE TypeInv'
BY FilesSame, LocksSame, ProcsSame, BoundsSame, ClientsSame
   DEF TypeInv, TypeOK, vars

\* Every step keeps the state well typed and the jobs as they should be.
LEMMA TypeStep == TypeInv /\ [Next]_vars => TypeInv'
<1>. SUFFICES ASSUME TypeInv, [Next]_vars PROVE TypeInv'
  OBVIOUS
<1>1. ASSUME NEW c \in Clients, Begin(c) \/ ClientStep(c) PROVE TypeInv'
  BY <1>1, TypeBegin, TypeControl, TypeInspection, TypeAllocation, TypeRemoval, TypeLaunch,
     TypeTerminate DEF ClientStep
<1>2. ASSUME NEW l \in Launches, SupStep(l) \/ BlenderStep(l) PROVE TypeInv'
  BY <1>2, TypeSup, TypeBlender
<1>3. CASE FaultStep
  BY <1>3, TypeClientFault, TypeOuterFault DEF FaultStep
<1>4. CASE Quiet \/ UNCHANGED vars
  BY <1>4, TypeStutter DEF Quiet
<1>. QED BY <1>1, <1>2, <1>3, <1>4 DEF Next

\* The state is always well typed; in particular session.json only ever holds
\* final records and launching.json provisional ones.
THEOREM TypeCorrect == Spec => []TypeOK
<1>1. TypeInv => TypeOK
  BY DEF TypeInv
<1>. QED BY TypeInit, TypeStep, <1>1, PTL DEF Spec

-----------------------------------------------------------------------------
(* What a step of one client leaves alone *)

\* The job f has the name, operation and id of the job j
SameErrand(f, j) == f.name = j.name /\ f.op = j.op /\ f.sid = j.sid

\* Client c keeps its errand until it is idle again, and changes no other client
\* and no record of another name.
Moves(c) ==
    /\ \A d \in Clients \ {c} : pc'[d] = pc[d] /\ job'[d] = job[d]
    /\ \A n \in Names \ {job[c].name} :
          session'[n] = session[n] /\ launching'[n] = launching[n] /\ marker'[n] = marker[n]
    /\ pc[c] # "idle" /\ pc'[c] # "lock"
    /\ \/ pc'[c] = "idle" /\ job'[c] = NoJob
       \/ SameErrand(job'[c], job[c])

\* A client that moves to p with the job f and leaves the files alone.
LEMMA MovesTo ==
    ASSUME ClientsTyped, NEW c \in Clients, NEW p, NEW f, Goto(c, p), Job1(c, f),
           pc[c] # "idle", p # "lock", SameErrand(f, job[c]), UNCHANGED files
    PROVE  Moves(c)
BY DEF Moves, Goto, Job1, ClientsTyped, files

\* So does every step of taking and leaving locks, and deciding.
LEMMA MovesControl ==
    ASSUME TypeInv, NEW c \in Clients, Control(c)
    PROVE  Moves(c)
<1>0. pc[c] \in PCs /\ job[c] \in Job /\ ClientsTyped
  BY DEF TypeInv, TypeOK, ClientsTyped
<1>1. CASE LockName(c)
  BY <1>1, <1>0 DEF LockName, Moves, SameErrand, Goto, ClientsTyped, files
<1>2. CASE Fence(c)
  BY <1>2, <1>0 DEF Fence, Moves, SameErrand, Goto, ClientsTyped, files
<1>3. CASE Decide(c)
  BY <1>3, <1>0 DEF Decide, Moves, SameErrand, Goto, ClientsTyped, files, Job1, Verdicts, Job
<1>4. CASE LockPorts(c)
  BY <1>4, <1>0 DEF LockPorts, Moves, SameErrand, Goto, ClientsTyped, files, Job1, Job
<1>5. CASE Call(c)
  BY <1>5, <1>0 DEF Call, Moves, SameErrand, Goto, ClientsTyped, files
<1>6. CASE Reply(c)
  BY <1>6, <1>0 DEF Reply, Moves, SameErrand, Goto, ClientsTyped, files
<1>7. CASE UnlockPorts(c)
  BY <1>7, <1>0 DEF UnlockPorts, Moves, SameErrand, Goto, ClientsTyped, files
<1>8. CASE UnlockName(c)
  BY <1>8, <1>0 DEF UnlockName, Moves, SameErrand, Goto, ClientsTyped, files, Job1, Job
<1>. QED BY <1>1, <1>2, <1>3, <1>4, <1>5, <1>6, <1>7, <1>8 DEF Control

\* So does every step of an inspection.
LEMMA MovesInspection ==
    ASSUME TypeInv, NEW c \in Clients, Inspection(c)
    PROVE  Moves(c)
<1>0. pc[c] \in PCs /\ job[c] \in Job /\ ClientsTyped
  BY DEF TypeInv, TypeOK, ClientsTyped
<1>1. CASE Read(c)
  <2>. DEFINE r == Current(job[c].at)
  <2>1. CASE r = NoRec \/ ~Readable(r)
    <3>. DEFINE f == [job[c] EXCEPT !.status = IF r = NoRec THEN "not-found" ELSE "unreadable"]
    <3>1. Goto(c, Inspected(c)) /\ Job1(c, f) /\ SameErrand(f, job[c])
      BY <1>1, <2>1, <1>0 DEF Read, Job, SameErrand
    <3>2. Inspected(c) # "lock" /\ pc[c] # "idle" /\ UNCHANGED files
      BY <1>1 DEF Read, Inspected
    <3>. QED BY <1>0, <3>1, <3>2, MovesTo
  <2>2. CASE ~(r = NoRec \/ ~Readable(r))
    <3>. DEFINE f == [job[c] EXCEPT !.rec = r, !.rootM = RootMatches(r)]
    <3>1. Goto(c, "tree") /\ Job1(c, f) /\ SameErrand(f, job[c])
      BY <1>1, <2>2, <1>0 DEF Read, Job, SameErrand
    <3>2. pc[c] # "idle" /\ UNCHANGED files
      BY <1>1 DEF Read
    <3>. QED BY <1>0, <3>1, <3>2, MovesTo
  <2>. QED BY <2>1, <2>2
<1>2. CASE Tree(c)
  BY <1>2, <1>0 DEF Tree, Moves, SameErrand, Goto, ClientsTyped, files, Job1, Inspected, Job
<1>3. CASE LockWire(c)
  BY <1>3, <1>0 DEF LockWire, Moves, SameErrand, Goto, ClientsTyped, files
<1>4. CASE Probe(c)
  BY <1>4, <1>0 DEF Probe, Moves, SameErrand, Goto, ClientsTyped, files, Job1, Inspected, Job
<1>. QED BY <1>1, <1>2, <1>3, <1>4 DEF Inspection

\* So does every step of a port scan.
LEMMA MovesAllocation ==
    ASSUME TypeInv, NEW c \in Clients, Allocation(c)
    PROVE  Moves(c)
<1>0. pc[c] \in PCs /\ job[c] \in Job /\ ClientsTyped
  BY DEF TypeInv, TypeOK, ClientsTyped
<1>1. CASE Scan(c)
  <2>1. pc[c] # "idle" /\ UNCHANGED files
    BY <1>1 DEF Scan
  <2>2. ASSUME NEW m \in job[c].left, Goto(c, "read"),
               Job1(c, [job[c] EXCEPT !.left = @ \ {m}, !.at = m, !.rec = NoRec, !.status = "none"])
        PROVE  Moves(c)
    <3>. DEFINE f == [job[c] EXCEPT !.left = @ \ {m}, !.at = m, !.rec = NoRec, !.status = "none"]
    <3>1. SameErrand(f, job[c])
      BY <1>0 DEF Job, SameErrand
    <3>. QED BY <1>0, <2>1, <2>2, <3>1, MovesTo
  <2>3. ASSUME Goto(c, "alloc"),
               Job1(c, [job[c] EXCEPT !.at = job[c].name, !.status = "none", !.rec = FirstPort])
        PROVE  Moves(c)
    <3>. DEFINE f == [job[c] EXCEPT !.at = job[c].name, !.status = "none", !.rec = FirstPort]
    <3>1. SameErrand(f, job[c])
      BY <1>0 DEF Job, SameErrand
    <3>. QED BY <1>0, <2>1, <2>3, <3>1, MovesTo
  <2>. QED BY <1>1, <2>2, <2>3 DEF Scan
<1>2. CASE Tally(c)
  BY <1>2, <1>0 DEF Tally, Moves, SameErrand, Goto, ClientsTyped, files, Job1, Job
<1>3. CASE Alloc(c)
  BY <1>3, <1>0 DEF Alloc, Moves, SameErrand, Goto, ClientsTyped, files, Job1, Job
<1>. QED BY <1>1, <1>2, <1>3 DEF Allocation

\* So does every step of a removal.
LEMMA MovesRemoval ==
    ASSUME TypeInv, NEW c \in Clients, Removal(c)
    PROVE  Moves(c)
<1>0. pc[c] \in PCs /\ job[c] \in Job /\ ClientsTyped /\ FilesTyped
  BY DEF TypeInv, TypeOK, ClientsTyped
<1>1. CASE ClearSession(c)
  BY <1>1, <1>0 DEF ClearSession, Moves, SameErrand, Goto, ClientsTyped, FilesTyped
<1>2. CASE ClearLaunching(c)
  BY <1>2, <1>0 DEF ClearLaunching, Moves, SameErrand, Goto, ClientsTyped, FilesTyped
<1>3. CASE ClearMarker(c)
  BY <1>3, <1>0 DEF ClearMarker, Moves, SameErrand, Goto, ClientsTyped, FilesTyped
<1>4. CASE ClearBoot(c)
  BY <1>4, <1>0 DEF ClearBoot, Moves, SameErrand, Goto, ClientsTyped, DropHandshake, Removed, FilesTyped
<1>. QED BY <1>1, <1>2, <1>3, <1>4 DEF Removal

\* So does every step of a launch.
LEMMA MovesLaunch ==
    ASSUME TypeInv, NEW c \in Clients, Launch(c)
    PROVE  Moves(c)
<1>0. pc[c] \in PCs /\ job[c] \in Job /\ ClientsTyped /\ FilesTyped
  BY DEF TypeInv, TypeOK, ClientsTyped
<1>1. CASE Prep(c)
  BY <1>1, <1>0 DEF Prep, Moves, SameErrand, Goto, ClientsTyped, Job1, DropHandshake, Job, FilesTyped
<1>2. CASE Spawn(c)
  BY <1>2, <1>0 DEF Spawn, Moves, SameErrand, Goto, ClientsTyped, files, FilesTyped
<1>3. CASE Identify(c)
  BY <1>3, <1>0 DEF Identify, Moves, SameErrand, Goto, ClientsTyped, files, FilesTyped
<1>4. CASE Mark(c)
  BY <1>4, <1>0 DEF Mark, Moves, SameErrand, Goto, ClientsTyped, FilesTyped
<1>5. CASE Provisional(c)
  BY <1>5, <1>0 DEF Provisional, Moves, SameErrand, Goto, ClientsTyped, FilesTyped
<1>6. CASE OpenGate(c)
  BY <1>6, <1>0 DEF OpenGate, Moves, SameErrand, Goto, ClientsTyped, FilesTyped
<1>7. CASE AwaitPid(c)
  BY <1>7, <1>0 DEF AwaitPid, Moves, SameErrand, Goto, ClientsTyped, files, Job1, Job, FilesTyped
<1>8. CASE AwaitFails(c)
  BY <1>8, <1>0 DEF AwaitFails, Moves, SameErrand, Goto, ClientsTyped, files, FilesTyped
<1>9. CASE BlenderIdentity(c)
  BY <1>9, <1>0 DEF BlenderIdentity, Moves, SameErrand, Goto, ClientsTyped, files, FilesTyped
<1>10. CASE RecordSession(c)
  BY <1>10, <1>0 DEF RecordSession, Moves, SameErrand, Goto, ClientsTyped, FilesTyped
<1>11. CASE Promote(c)
  BY <1>11, <1>0 DEF Promote, Moves, SameErrand, Goto, ClientsTyped, FilesTyped
<1>12. CASE Finally(c)
  BY <1>12, <1>0 DEF Finally, Moves, SameErrand, Goto, ClientsTyped, DropHandshake, FilesTyped
<1>. QED BY <1>1, <1>2, <1>3, <1>4, <1>5, <1>6, <1>7, <1>8, <1>9, <1>10, <1>11, <1>12 DEF Launch

\* So does every step of a termination.
LEMMA MovesTerminate ==
    ASSUME TypeInv, NEW c \in Clients, Terminate(c)
    PROVE  Moves(c)
<1>0. pc[c] \in PCs /\ job[c] \in Job /\ ClientsTyped
  BY DEF TypeInv, TypeOK, ClientsTyped
<1>1. CASE TermAbsent(c)
  BY <1>1, <1>0 DEF TermAbsent, Moves, SameErrand, Goto, ClientsTyped, files
<1>2. CASE TermSignal(c)
  BY <1>2, <1>0 DEF TermSignal, Moves, SameErrand, Goto, ClientsTyped, files
<1>3. CASE Kill(c)
  BY <1>3, <1>0 DEF Kill, Moves, SameErrand, Goto, ClientsTyped, files
<1>4. CASE KillSurvived(c)
  BY <1>4, <1>0 DEF KillSurvived, Moves, SameErrand, Goto, ClientsTyped, files
<1>. QED BY <1>1, <1>2, <1>3, <1>4 DEF Terminate

\* So does every step of a crash or an interruption.
LEMMA MovesClientFault ==
    ASSUME TypeInv, NEW c \in Clients, ClientFault(c)
    PROVE  Moves(c)
<1>0. pc[c] \in PCs /\ job[c] \in Job /\ ClientsTyped
  BY DEF TypeInv, TypeOK, ClientsTyped
<1>1. CASE Crash(c)
  BY <1>1, <1>0 DEF Crash, Moves, SameErrand, Goto, ClientsTyped, files, Job1, Job
<1>2. CASE Interrupt(c)
  BY <1>2, <1>0 DEF Interrupt, Moves, SameErrand, Goto, ClientsTyped, files, AfterInterrupt, TryPcs, KillPcs, ClearPcs
<1>. QED BY <1>1, <1>2 DEF ClientFault

-----------------------------------------------------------------------------
(* The name lock, and what its holder knows about the files of its name *)

\* From the moment it has its name lock to the end of its operation, a client
\* holds it.
NameLocks ==
    \A c \in Clients : pc[c] \notin {"idle", "lock"} => nameLock[job[c].name] = c

\* A step of a client in its operation that leaves the name locks alone.
LEMMA NameLocksKept ==
    ASSUME NameLocks, NEW c \in Clients, Moves(c), pc[c] # "lock", UNCHANGED nameLock
    PROVE  NameLocks'
BY DEF NameLocks, Moves, SameErrand

\* Most groups of actions leave the name locks alone.
LEMMA NameLockUnchanged ==
    ASSUME NEW c \in Clients,
           Inspection(c) \/ Allocation(c) \/ Removal(c) \/ Launch(c) \/ Terminate(c) \/ Interrupt(c)
    PROVE  UNCHANGED nameLock /\ pc[c] # "lock"
<1>1. CASE Inspection(c)
  BY <1>1 DEF Inspection, Read, Tree, LockWire, Probe, locks
<1>2. CASE Allocation(c)
  BY <1>2 DEF Allocation, Scan, Tally, Alloc, locks
<1>3. CASE Removal(c)
  BY <1>3 DEF Removal, ClearSession, ClearLaunching, ClearMarker, ClearBoot, locks
<1>4. CASE Launch(c)
  BY <1>4 DEF Launch, Prep, Spawn, Identify, Mark, Provisional, OpenGate, AwaitPid, AwaitFails, BlenderIdentity, RecordSession, Promote, Finally, locks
<1>5. CASE Terminate(c)
  BY <1>5 DEF Terminate, TermAbsent, TermSignal, Kill, KillSurvived, locks
<1>6. CASE Interrupt(c)
  BY <1>6 DEF Interrupt, locks, TryPcs, KillPcs, ClearPcs
<1>. QED BY <1>1, <1>2, <1>3, <1>4, <1>5, <1>6

\* Locks and decisions keep the name locks with their holders.
LEMMA NameLocksControl ==
    ASSUME TypeInv, NameLocks, NEW c \in Clients, Control(c)
    PROVE  NameLocks'
<1>0. /\ pc[c] \in PCs /\ job[c] \in Job /\ JobOK(pc[c], job[c]) /\ ClientsTyped
      /\ nameLock \in [Names -> Clients \cup {Free}] /\ Moves(c)
  BY MovesControl DEF TypeInv, TypeOK, ClientsTyped, LocksTyped, JobsOK
<1>1. CASE LockName(c)
  BY <1>0, <1>1, NullAssumption DEF LockName, NameLocks, Moves, SameErrand, JobOK
<1>2. CASE UnlockName(c)
  BY <1>0, <1>2 DEF UnlockName, Goto, NameLocks, Moves, ClientsTyped
<1>3. CASE Fence(c) \/ Decide(c) \/ LockPorts(c) \/ Call(c) \/ Reply(c) \/ UnlockPorts(c)
  <2>1. UNCHANGED nameLock /\ pc[c] # "lock"
    BY <1>3 DEF Fence, Decide, LockPorts, Call, Reply, UnlockPorts, locks
  <2>. QED BY <1>0, <2>1, NameLocksKept
<1>. QED BY <1>1, <1>2, <1>3 DEF Control

\* Two clients in their operations work on different names.
LEMMA NamesDiffer ==
    ASSUME NameLocks, NEW c \in Clients, NEW d \in Clients, c # d,
           pc[c] \notin {"idle", "lock"}, pc[d] \notin {"idle", "lock"}
    PROVE  job[c].name # job[d].name
BY DEF NameLocks

\* A start that has decided to launch, until it has a port
Choosing(p, j) ==
    p \in {"ports", "scan", "tally", "alloc"} \/ (p \in InspectPcs /\ j.at # j.name)

\* What a client at p with job j knows of its name: s is the session.json, l
\* the launching.json and k the Ownership marker.
MarkFacts(p, j, s, l, k) ==
    /\ p = "clearLaunching" => s = NoRec
    /\ p \in {"clearMarker", "clearBoot", "prep", "spawn", "identify", "mark", "provisional"}
           => s = NoRec /\ l = NoRec
    /\ p = "decide" /\ j.status = "not-found" => s = NoRec /\ l = NoRec
    /\ Choosing(p, j) /\ j.op = "start" /\ ~j.reclaim => s = NoRec /\ l = NoRec
    /\ p \in {"provisional", "open", "await", "blender", "remark", "record"} => k = j.sid

\* Where a call or stop has its record in hand
Holding(p, st) ==
    \/ p \in {"tree", "wire", "probe", "ports", "callWire", "call", "reply"} \cup KillPcs
    \/ p = "decide" /\ st \notin {"not-found", "unreadable"}

FenceFacts(p, j, s, l) ==
    LET cur == IF s # NoRec THEN s ELSE l IN
    /\ p \in {"callWire", "call", "reply"} => j.op = "call"
    /\ j.op \in {"call", "stop"} /\ p \in InspectPcs => FencePasses(cur, j.sid)
    /\ j.op \in {"call", "stop"} /\ Holding(p, j.status) =>
          j.rec = cur /\ cur # NoRec /\ cur.launch = j.sid

Facts(p, j, s, l, k) == MarkFacts(p, j, s, l, k) /\ FenceFacts(p, j, s, l)

Knows(c) ==
    LET n == job[c].name IN
    pc[c] \notin {"idle", "lock"} => Facts(pc[c], job[c], session[n], launching[n], marker[n])

Agrees(n) ==
    /\ session[n] # NoRec => marker[n] = session[n].launch
    /\ launching[n] # NoRec => marker[n] = launching[n].launch

FileInv == NameLocks /\ (\A c \in Clients : Knows(c)) /\ (\A n \in Names : Agrees(n))

\* A client's step disturbs neither the knowledge of another client nor the
\* agreement of another name's files.
LEMMA OthersKnow ==
    ASSUME FileInv, NEW c \in Clients, Moves(c), pc[c] # "lock" \/ UNCHANGED files,
           job[c].name \in Names, \A d \in Clients : pc[d] # "idle" => job[d].name \in Names
    PROVE  /\ \A d \in Clients \ {c} : Knows(d)'
           /\ \A n \in Names \ {job[c].name} : Agrees(n)'
<1>1. ASSUME NEW d \in Clients \ {c} PROVE Knows(d)'
  <2>1. pc'[d] = pc[d] /\ job'[d] = job[d] /\ Knows(d)
    BY DEF Moves, FileInv
  <2>2. CASE pc[d] \in {"idle", "lock"}
    BY <2>1, <2>2 DEF Knows
  <2>3. CASE pc[d] \notin {"idle", "lock"}
    <3>. DEFINE n == job[d].name
    <3>1. session'[n] = session[n] /\ launching'[n] = launching[n] /\ marker'[n] = marker[n]
      <4>1. CASE pc[c] = "lock"
        BY <4>1 DEF files
      <4>2. CASE pc[c] # "lock"
        <5>1. pc[c] \notin {"idle", "lock"} /\ NameLocks
          BY <4>2 DEF Moves, FileInv
        <5>2. n # job[c].name /\ n \in Names
          BY <5>1, <2>3, NamesDiffer
        <5>. QED BY <5>2 DEF Moves
      <4>. QED BY <4>1, <4>2
    <3>. QED BY <2>1, <3>1 DEF Knows
  <2>. QED BY <2>2, <2>3
<1>2. ASSUME NEW n \in Names \ {job[c].name} PROVE Agrees(n)'
  BY DEF Agrees, Moves, FileInv
<1>. QED BY <1>1, <1>2

\* What is left to show of a client that moves to p with the job f and leaves
\* the files alone.
LEMMA KnowsTo ==
    ASSUME ClientsTyped, NEW c \in Clients, NEW n, n = job[c].name, NEW p, NEW f,
           Goto(c, p), Job1(c, f), f.name = n, UNCHANGED files,
           Facts(p, f, session[n], launching[n], marker[n])
    PROVE  Knows(c)'
BY DEF Knows, Goto, Job1, ClientsTyped, files

\* Locks and decisions keep the files in agreement, and the client's knowledge true.
LEMMA KnowControl ==
    ASSUME TypeInv, FileInv, NEW c \in Clients, Control(c), NEW n, n = job[c].name
    PROVE  Knows(c)' /\ (n \in Names => Agrees(n)')
<1>. DEFINE K == Facts(pc[c], job[c], session[n], launching[n], marker[n])
<1>0. /\ pc[c] \in PCs /\ job[c] \in Job /\ JobOK(pc[c], job[c]) /\ ClientsTyped /\ FilesTyped
      /\ n \in Names => Agrees(n)
      /\ pc[c] \notin {"idle", "lock"} => K
  BY DEF TypeInv, TypeOK, ClientsTyped, JobsOK, FileInv, Knows
<1>1. CASE LockName(c)
  <2>1. Knows(c)'
    BY <1>1, <1>0 DEF LockName, Goto, ClientsTyped, FilesTyped, files, Job, Knows, Facts, MarkFacts, FenceFacts, Choosing, Holding, JobOK, InspectPcs, TryPcs, ClearPcs, KillPcs
  <2>2. n \in Names => Agrees(n)'
    BY <1>1, <1>0 DEF LockName, files, Agrees, FilesTyped, Facts, MarkFacts, JobOK, TryPcs
  <2>. QED BY <2>1, <2>2
<1>2. CASE Fence(c)
  <2>1. Knows(c)'
    BY <1>2, <1>0 DEF Fence, Goto, ClientsTyped, files, Current, Knows, Facts, MarkFacts, FenceFacts, Choosing, Holding, JobOK, InspectPcs, TryPcs, ClearPcs, KillPcs
  <2>2. n \in Names => Agrees(n)'
    BY <1>2, <1>0 DEF Fence, files, Agrees
  <2>. QED BY <2>1, <2>2
<1>3. CASE Decide(c)
  <2>1. Knows(c)'
    BY <1>3, <1>0 DEF Decide, Goto, ClientsTyped, FilesTyped, files, Job1, Verdicts, Reclaimable, Stoppable, Reclaimable, Job, Knows, Facts, MarkFacts, FenceFacts, Choosing, Holding, JobOK, InspectPcs, TryPcs, ClearPcs, KillPcs
  <2>2. n \in Names => Agrees(n)'
    BY <1>3, <1>0 DEF Decide, files, Agrees, FilesTyped, Facts, MarkFacts, JobOK, TryPcs
  <2>. QED BY <2>1, <2>2
<1>4. CASE LockPorts(c)
  <2>1. Knows(c)'
    BY <1>4, <1>0 DEF LockPorts, Goto, ClientsTyped, FilesTyped, files, Job1, Stoppable, Job, Knows, Facts, MarkFacts, FenceFacts, Choosing, Holding, JobOK, InspectPcs, TryPcs, ClearPcs, KillPcs
  <2>2. n \in Names => Agrees(n)'
    BY <1>4, <1>0 DEF LockPorts, files, Agrees, FilesTyped, Facts, MarkFacts, JobOK, TryPcs
  <2>. QED BY <2>1, <2>2
<1>5. CASE Call(c)
  <2>1. Knows(c)'
    BY <1>5, <1>0 DEF Call, Goto, ClientsTyped, FilesTyped, files, Job, Knows, Facts, MarkFacts, FenceFacts, Choosing, Holding, JobOK, InspectPcs, TryPcs, ClearPcs, KillPcs
  <2>2. n \in Names => Agrees(n)'
    BY <1>5, <1>0 DEF Call, files, Agrees, FilesTyped, Facts, MarkFacts, JobOK, TryPcs
  <2>. QED BY <2>1, <2>2
<1>6. CASE Reply(c)
  <2>1. Knows(c)'
    BY <1>6, <1>0 DEF Reply, Goto, ClientsTyped, FilesTyped, files, Job, Knows, Facts, MarkFacts, FenceFacts, Choosing, Holding, JobOK, InspectPcs, TryPcs, ClearPcs, KillPcs
  <2>2. n \in Names => Agrees(n)'
    BY <1>6, <1>0 DEF Reply, files, Agrees, FilesTyped, Facts, MarkFacts, JobOK, TryPcs
  <2>. QED BY <2>1, <2>2
<1>7. CASE UnlockPorts(c)
  <2>1. Knows(c)'
    BY <1>7, <1>0 DEF UnlockPorts, Goto, ClientsTyped, FilesTyped, files, Job, Knows, Facts, MarkFacts, FenceFacts, Choosing, Holding, JobOK, InspectPcs, TryPcs, ClearPcs, KillPcs
  <2>2. n \in Names => Agrees(n)'
    BY <1>7, <1>0 DEF UnlockPorts, files, Agrees, FilesTyped, Facts, MarkFacts, JobOK, TryPcs
  <2>. QED BY <2>1, <2>2
<1>8. CASE UnlockName(c)
  <2>1. Knows(c)'
    BY <1>8, <1>0 DEF UnlockName, Goto, ClientsTyped, FilesTyped, files, Job1, Job, Knows, Facts, MarkFacts, FenceFacts, Choosing, Holding, JobOK, InspectPcs, TryPcs, ClearPcs, KillPcs
  <2>2. n \in Names => Agrees(n)'
    BY <1>8, <1>0 DEF UnlockName, files, Agrees, FilesTyped, Facts, MarkFacts, JobOK, TryPcs
  <2>. QED BY <2>1, <2>2
<1>. QED BY <1>1, <1>2, <1>3, <1>4, <1>5, <1>6, <1>7, <1>8 DEF Control

\* An inspection keeps the files in agreement, and the client's knowledge true.
LEMMA KnowInspection ==
    ASSUME TypeInv, FileInv, NEW c \in Clients, Inspection(c), NEW n, n = job[c].name
    PROVE  Knows(c)' /\ (n \in Names => Agrees(n)')
<1>. DEFINE K == Facts(pc[c], job[c], session[n], launching[n], marker[n])
<1>0. /\ pc[c] \in PCs /\ job[c] \in Job /\ JobOK(pc[c], job[c]) /\ ClientsTyped /\ FilesTyped
      /\ n \in Names => Agrees(n)
      /\ pc[c] \notin {"idle", "lock"} => K
  BY DEF TypeInv, TypeOK, ClientsTyped, JobsOK, FileInv, Knows
<1>1. CASE Read(c)
  <2>. DEFINE r == Current(job[c].at)
              k == RootMatches(r)
  <2>1. UNCHANGED files /\ pc[c] = "read"
    BY <1>1 DEF Read
  <2>2. n \in Names => Agrees(n)'
    BY <2>1, <1>0 DEF files, Agrees
  <2>3. job[c].at = n => r = IF session[n] # NoRec THEN session[n] ELSE launching[n]
    BY DEF Current
  <2>4. CASE r = NoRec \/ ~Readable(r)
    <3>. DEFINE st == IF r = NoRec THEN "not-found" ELSE "unreadable"
                p == IF job[c].at = n THEN "decide" ELSE "tally"
                f == [job[c] EXCEPT !.status = st]
    <3>1. Goto(c, p) /\ Job1(c, f) /\ f.name = n
      BY <1>1, <2>4, <1>0 DEF Read, Inspected, Job
    <3>. HIDE DEF r
    <3>2. Facts(p, f, session[n], launching[n], marker[n])
      BY <1>0, <2>1, <2>3, <2>4 DEF Job, Facts, MarkFacts, FenceFacts, Choosing, Holding, JobOK, InspectPcs, KillPcs
    <3>. QED BY <1>0, <2>1, <2>2, <3>1, <3>2, KnowsTo
  <2>5. CASE ~(r = NoRec \/ ~Readable(r))
    <3>. DEFINE f == [job[c] EXCEPT !.rec = r, !.rootM = k]
    <3>1. Goto(c, "tree") /\ Job1(c, f) /\ f.name = n
      BY <1>1, <2>5, <1>0 DEF Read, Job
    <3>. HIDE DEF r, k
    <3>2. Facts("tree", f, session[n], launching[n], marker[n])
      BY <1>0, <2>1, <2>3, <2>5 DEF Job, Facts, MarkFacts, FenceFacts, FencePasses, Choosing, Holding, JobOK, InspectPcs, KillPcs
    <3>. QED BY <1>0, <2>1, <2>2, <3>1, <3>2, KnowsTo
  <2>. QED BY <2>4, <2>5
<1>2. CASE Tree(c)
  <2>. DEFINE k == Classify(job[c].rec, marker[job[c].at] = job[c].rec.launch, job[c].rootM)
              st == IF k = "wire" THEN "none" ELSE k
              p == IF k = "wire" THEN "wire" ELSE IF job[c].at = n THEN "decide" ELSE "tally"
              f == [job[c] EXCEPT !.rootM = FALSE, !.status = st]
  <2>1. UNCHANGED files /\ pc[c] = "tree"
    BY <1>2 DEF Tree
  <2>2. n \in Names => Agrees(n)'
    BY <2>1, <1>0 DEF files, Agrees
  <2>3. st # "not-found"
    BY DEF Classify
  <2>4. Goto(c, p) /\ Job1(c, f) /\ f.name = n
    BY <1>2, <1>0 DEF Tree, Inspected, Job
  <2>. HIDE DEF k
  <2>5. Facts(p, f, session[n], launching[n], marker[n])
    BY <1>0, <2>1, <2>3 DEF Job, Facts, MarkFacts, FenceFacts, Choosing, Holding, JobOK, InspectPcs, KillPcs
  <2>. QED BY <1>0, <2>1, <2>2, <2>4, <2>5, KnowsTo
<1>3. CASE LockWire(c)
  <2>1. Knows(c)'
    BY <1>3, <1>0 DEF LockWire, Goto, ClientsTyped, FilesTyped, files, Job, Knows, Facts, MarkFacts, FenceFacts, Choosing, Holding, JobOK, InspectPcs, TryPcs, ClearPcs, KillPcs
  <2>2. n \in Names => Agrees(n)'
    BY <1>3, <1>0 DEF LockWire, files, Agrees, FilesTyped, Facts, MarkFacts, JobOK, TryPcs
  <2>. QED BY <2>1, <2>2
<1>4. CASE Probe(c)
  <2>1. Knows(c)'
    BY <1>4, <1>0 DEF Probe, Goto, ClientsTyped, FilesTyped, files, Job1, Inspected, Job, Knows, Facts, MarkFacts, FenceFacts, Choosing, Holding, JobOK, InspectPcs, TryPcs, ClearPcs, KillPcs
  <2>2. n \in Names => Agrees(n)'
    BY <1>4, <1>0 DEF Probe, files, Agrees, FilesTyped, Facts, MarkFacts, JobOK, TryPcs
  <2>. QED BY <2>1, <2>2
<1>. QED BY <1>1, <1>2, <1>3, <1>4 DEF Inspection

\* A port scan keeps the files in agreement, and the client's knowledge true.
LEMMA KnowAllocation ==
    ASSUME TypeInv, FileInv, NEW c \in Clients, Allocation(c), NEW n, n = job[c].name
    PROVE  Knows(c)' /\ (n \in Names => Agrees(n)')
<1>. DEFINE K == Facts(pc[c], job[c], session[n], launching[n], marker[n])
<1>0. /\ pc[c] \in PCs /\ job[c] \in Job /\ JobOK(pc[c], job[c]) /\ ClientsTyped /\ FilesTyped
      /\ n \in Names => Agrees(n)
      /\ pc[c] \notin {"idle", "lock"} => K
  BY DEF TypeInv, TypeOK, ClientsTyped, JobsOK, FileInv, Knows
<1>1. CASE Scan(c)
  <2>1. UNCHANGED files /\ pc[c] = "scan"
    BY <1>1 DEF Scan
  <2>2. n \in Names => Agrees(n)'
    BY <2>1, <1>0 DEF files, Agrees
  <2>3. ASSUME NEW m \in job[c].left, Goto(c, "read"),
               Job1(c, [job[c] EXCEPT !.left = @ \ {m}, !.at = m, !.rec = NoRec, !.status = "none"])
        PROVE  Knows(c)'
    <3>. DEFINE f == [job[c] EXCEPT !.left = @ \ {m}, !.at = m, !.rec = NoRec, !.status = "none"]
    <3>1. f.name = n /\ f.op = "start" /\ f.reclaim = job[c].reclaim /\ f.sid = job[c].sid
      BY <1>0, <2>1 DEF Job, JobOK
    <3>2. Facts("read", f, session[n], launching[n], marker[n])
      BY <1>0, <2>1, <3>1 DEF Facts, MarkFacts, FenceFacts, Choosing, Holding, JobOK, InspectPcs, KillPcs
    <3>. QED BY <1>0, <2>1, <2>3, <3>1, <3>2, KnowsTo
  <2>4. ASSUME Goto(c, "alloc"),
               Job1(c, [job[c] EXCEPT !.at = job[c].name, !.status = "none", !.rec = FirstPort])
        PROVE  Knows(c)'
    <3>. DEFINE f == [job[c] EXCEPT !.at = job[c].name, !.status = "none", !.rec = FirstPort]
    <3>1. f.name = n /\ f.op = "start" /\ f.reclaim = job[c].reclaim /\ f.sid = job[c].sid
      BY <1>0, <2>1 DEF Job, JobOK
    <3>2. Facts("alloc", f, session[n], launching[n], marker[n])
      BY <1>0, <2>1, <3>1 DEF Facts, MarkFacts, FenceFacts, Choosing, Holding, JobOK, InspectPcs, KillPcs
    <3>. QED BY <1>0, <2>1, <2>4, <3>1, <3>2, KnowsTo
  <2>. QED BY <1>1, <2>2, <2>3, <2>4 DEF Scan
<1>2. CASE Tally(c)
  <2>1. Knows(c)'
    BY <1>2, <1>0 DEF Tally, Goto, ClientsTyped, FilesTyped, files, Job1, Job, Knows, Facts, MarkFacts, FenceFacts, Choosing, Holding, JobOK, InspectPcs, TryPcs, ClearPcs, KillPcs
  <2>2. n \in Names => Agrees(n)'
    BY <1>2, <1>0 DEF Tally, files, Agrees, FilesTyped, Facts, MarkFacts, JobOK, TryPcs
  <2>. QED BY <2>1, <2>2
<1>3. CASE Alloc(c)
  <2>1. UNCHANGED files /\ pc[c] = "alloc"
    BY <1>3 DEF Alloc
  <2>2. n \in Names => Agrees(n)'
    BY <2>1, <1>0 DEF files, Agrees
  <2>3. CASE job[c].rec.port \in job[c].occ
    <3>. DEFINE f == [job[c] EXCEPT !.rec.port = @ + 1]
    <3>1. Goto(c, "alloc") /\ Job1(c, f)
      BY <1>3, <2>3 DEF Alloc
    <3>2. f.name = n /\ f.op = "start" /\ f.reclaim = job[c].reclaim
      BY <1>0, <2>1 DEF Job, JobOK
    <3>3. Facts("alloc", f, session[n], launching[n], marker[n])
      BY <1>0, <2>1, <3>2 DEF Facts, MarkFacts, FenceFacts, Choosing, Holding, JobOK, InspectPcs, KillPcs
    <3>. QED BY <1>0, <2>1, <2>2, <3>1, <3>2, <3>3, KnowsTo
  <2>4. CASE job[c].rec.port \notin job[c].occ
    <3>. DEFINE f == [job[c] EXCEPT !.occ = {}]
                p == IF job[c].reclaim THEN "clearSession" ELSE "prep"
    <3>1. Goto(c, p) /\ Job1(c, f)
      BY <1>3, <2>4 DEF Alloc
    <3>2. f.name = n /\ f.op = "start" /\ f.reclaim = job[c].reclaim
      BY <1>0, <2>1 DEF Job, JobOK
    <3>3. Facts(p, f, session[n], launching[n], marker[n])
      BY <1>0, <2>1, <3>2 DEF Facts, MarkFacts, FenceFacts, Choosing, Holding, JobOK, InspectPcs, KillPcs
    <3>. QED BY <1>0, <2>1, <2>2, <3>1, <3>2, <3>3, KnowsTo
  <2>. QED BY <2>3, <2>4
<1>. QED BY <1>1, <1>2, <1>3 DEF Allocation

\* A removal keeps the files in agreement, and the client's knowledge true.
LEMMA KnowRemoval ==
    ASSUME TypeInv, FileInv, NEW c \in Clients, Removal(c), NEW n, n = job[c].name
    PROVE  Knows(c)' /\ (n \in Names => Agrees(n)')
<1>. DEFINE K == Facts(pc[c], job[c], session[n], launching[n], marker[n])
<1>0. /\ pc[c] \in PCs /\ job[c] \in Job /\ JobOK(pc[c], job[c]) /\ ClientsTyped /\ FilesTyped
      /\ n \in Names => Agrees(n)
      /\ pc[c] \notin {"idle", "lock"} => K
  BY DEF TypeInv, TypeOK, ClientsTyped, JobsOK, FileInv, Knows
<1>1. CASE ClearSession(c)
  <2>1. Knows(c)'
    BY <1>1, <1>0 DEF ClearSession, Goto, ClientsTyped, FilesTyped, Job, Knows, Facts, MarkFacts, FenceFacts, Choosing, Holding, JobOK, InspectPcs, TryPcs, ClearPcs, KillPcs
  <2>2. n \in Names => Agrees(n)'
    BY <1>1, <1>0 DEF ClearSession, Agrees, FilesTyped, Facts, MarkFacts, JobOK, TryPcs
  <2>. QED BY <2>1, <2>2
<1>2. CASE ClearLaunching(c)
  <2>1. Knows(c)'
    BY <1>2, <1>0 DEF ClearLaunching, Goto, ClientsTyped, FilesTyped, Job, Knows, Facts, MarkFacts, FenceFacts, Choosing, Holding, JobOK, InspectPcs, TryPcs, ClearPcs, KillPcs
  <2>2. n \in Names => Agrees(n)'
    BY <1>2, <1>0 DEF ClearLaunching, Agrees, FilesTyped, Facts, MarkFacts, JobOK, TryPcs
  <2>. QED BY <2>1, <2>2
<1>3. CASE ClearMarker(c)
  <2>1. Knows(c)'
    BY <1>3, <1>0 DEF ClearMarker, Goto, ClientsTyped, FilesTyped, Job, Knows, Facts, MarkFacts, FenceFacts, Choosing, Holding, JobOK, InspectPcs, TryPcs, ClearPcs, KillPcs
  <2>2. n \in Names => Agrees(n)'
    BY <1>3, <1>0 DEF ClearMarker, Agrees, FilesTyped, Facts, MarkFacts, JobOK, TryPcs
  <2>. QED BY <2>1, <2>2
<1>4. CASE ClearBoot(c)
  <2>1. Knows(c)'
    BY <1>4, <1>0 DEF ClearBoot, Goto, ClientsTyped, FilesTyped, DropHandshake, Removed, Job, Knows, Facts, MarkFacts, FenceFacts, Choosing, Holding, JobOK, InspectPcs, TryPcs, ClearPcs, KillPcs
  <2>2. n \in Names => Agrees(n)'
    BY <1>4, <1>0 DEF ClearBoot, Agrees, FilesTyped, Facts, MarkFacts, JobOK, TryPcs
  <2>. QED BY <2>1, <2>2
<1>. QED BY <1>1, <1>2, <1>3, <1>4 DEF Removal

\* A launch keeps the files in agreement, and the client's knowledge true.
LEMMA KnowLaunch ==
    ASSUME TypeInv, FileInv, NEW c \in Clients, Launch(c), NEW n, n = job[c].name
    PROVE  Knows(c)' /\ (n \in Names => Agrees(n)')
<1>. DEFINE K == Facts(pc[c], job[c], session[n], launching[n], marker[n])
<1>0. /\ pc[c] \in PCs /\ job[c] \in Job /\ JobOK(pc[c], job[c]) /\ ClientsTyped /\ FilesTyped
      /\ n \in Names => Agrees(n)
      /\ pc[c] \notin {"idle", "lock"} => K
  BY DEF TypeInv, TypeOK, ClientsTyped, JobsOK, FileInv, Knows
<1>1. CASE Prep(c)
  <2>1. Knows(c)'
    BY <1>1, <1>0 DEF Prep, Goto, ClientsTyped, FilesTyped, Job1, DropHandshake, Job, Knows, Facts, MarkFacts, FenceFacts, Choosing, Holding, JobOK, InspectPcs, TryPcs, ClearPcs, KillPcs
  <2>2. n \in Names => Agrees(n)'
    BY <1>1, <1>0 DEF Prep, Agrees, FilesTyped, Facts, MarkFacts, JobOK, TryPcs
  <2>. QED BY <2>1, <2>2
<1>2. CASE Spawn(c)
  <2>1. Knows(c)'
    BY <1>2, <1>0 DEF Spawn, Goto, ClientsTyped, FilesTyped, files, Job, Knows, Facts, MarkFacts, FenceFacts, Choosing, Holding, JobOK, InspectPcs, TryPcs, ClearPcs, KillPcs
  <2>2. n \in Names => Agrees(n)'
    BY <1>2, <1>0 DEF Spawn, files, Agrees, FilesTyped, Facts, MarkFacts, JobOK, TryPcs
  <2>. QED BY <2>1, <2>2
<1>3. CASE Identify(c)
  <2>1. Knows(c)'
    BY <1>3, <1>0 DEF Identify, Goto, ClientsTyped, FilesTyped, files, Job, Knows, Facts, MarkFacts, FenceFacts, Choosing, Holding, JobOK, InspectPcs, TryPcs, ClearPcs, KillPcs
  <2>2. n \in Names => Agrees(n)'
    BY <1>3, <1>0 DEF Identify, files, Agrees, FilesTyped, Facts, MarkFacts, JobOK, TryPcs
  <2>. QED BY <2>1, <2>2
<1>4. CASE Mark(c)
  <2>1. Knows(c)'
    BY <1>4, <1>0 DEF Mark, Goto, ClientsTyped, FilesTyped, Job, Knows, Facts, MarkFacts, FenceFacts, Choosing, Holding, JobOK, InspectPcs, TryPcs, ClearPcs, KillPcs
  <2>2. n \in Names => Agrees(n)'
    BY <1>4, <1>0 DEF Mark, Agrees, FilesTyped, Facts, MarkFacts, JobOK, TryPcs
  <2>. QED BY <2>1, <2>2
<1>5. CASE Provisional(c)
  <2>1. Knows(c)'
    BY <1>5, <1>0 DEF Provisional, Goto, ClientsTyped, FilesTyped, Job, Knows, Facts, MarkFacts, FenceFacts, Choosing, Holding, JobOK, InspectPcs, TryPcs, ClearPcs, KillPcs
  <2>2. n \in Names => Agrees(n)'
    BY <1>5, <1>0 DEF Provisional, Agrees, FilesTyped, Facts, MarkFacts, JobOK, TryPcs
  <2>. QED BY <2>1, <2>2
<1>6. CASE OpenGate(c)
  <2>1. Knows(c)'
    BY <1>6, <1>0 DEF OpenGate, Goto, ClientsTyped, FilesTyped, Job, Knows, Facts, MarkFacts, FenceFacts, Choosing, Holding, JobOK, InspectPcs, TryPcs, ClearPcs, KillPcs
  <2>2. n \in Names => Agrees(n)'
    BY <1>6, <1>0 DEF OpenGate, Agrees, FilesTyped, Facts, MarkFacts, JobOK, TryPcs
  <2>. QED BY <2>1, <2>2
<1>7. CASE AwaitPid(c)
  <2>1. Knows(c)'
    BY <1>7, <1>0 DEF AwaitPid, Goto, ClientsTyped, FilesTyped, files, Job1, Job, Knows, Facts, MarkFacts, FenceFacts, Choosing, Holding, JobOK, InspectPcs, TryPcs, ClearPcs, KillPcs
  <2>2. n \in Names => Agrees(n)'
    BY <1>7, <1>0 DEF AwaitPid, files, Agrees, FilesTyped, Facts, MarkFacts, JobOK, TryPcs
  <2>. QED BY <2>1, <2>2
<1>8. CASE AwaitFails(c)
  <2>1. Knows(c)'
    BY <1>8, <1>0 DEF AwaitFails, Goto, ClientsTyped, FilesTyped, files, Job, Knows, Facts, MarkFacts, FenceFacts, Choosing, Holding, JobOK, InspectPcs, TryPcs, ClearPcs, KillPcs
  <2>2. n \in Names => Agrees(n)'
    BY <1>8, <1>0 DEF AwaitFails, files, Agrees, FilesTyped, Facts, MarkFacts, JobOK, TryPcs
  <2>. QED BY <2>1, <2>2
<1>9. CASE BlenderIdentity(c)
  <2>1. Knows(c)'
    BY <1>9, <1>0 DEF BlenderIdentity, Goto, ClientsTyped, FilesTyped, files, Job, Knows, Facts, MarkFacts, FenceFacts, Choosing, Holding, JobOK, InspectPcs, TryPcs, ClearPcs, KillPcs
  <2>2. n \in Names => Agrees(n)'
    BY <1>9, <1>0 DEF BlenderIdentity, files, Agrees, FilesTyped, Facts, MarkFacts, JobOK, TryPcs
  <2>. QED BY <2>1, <2>2
<1>10. CASE RecordSession(c)
  <2>1. Knows(c)'
    BY <1>10, <1>0 DEF RecordSession, Goto, ClientsTyped, FilesTyped, Job, Knows, Facts, MarkFacts, FenceFacts, Choosing, Holding, JobOK, InspectPcs, TryPcs, ClearPcs, KillPcs
  <2>2. n \in Names => Agrees(n)'
    BY <1>10, <1>0 DEF RecordSession, Agrees, FilesTyped, Facts, MarkFacts, JobOK, TryPcs
  <2>. QED BY <2>1, <2>2
<1>11. CASE Promote(c)
  <2>1. Knows(c)'
    BY <1>11, <1>0 DEF Promote, Goto, ClientsTyped, FilesTyped, Job, Knows, Facts, MarkFacts, FenceFacts, Choosing, Holding, JobOK, InspectPcs, TryPcs, ClearPcs, KillPcs
  <2>2. n \in Names => Agrees(n)'
    BY <1>11, <1>0 DEF Promote, Agrees, FilesTyped, Facts, MarkFacts, JobOK, TryPcs
  <2>. QED BY <2>1, <2>2
<1>12. CASE Finally(c)
  <2>1. Knows(c)'
    BY <1>12, <1>0 DEF Finally, Goto, ClientsTyped, FilesTyped, DropHandshake, Job, Knows, Facts, MarkFacts, FenceFacts, Choosing, Holding, JobOK, InspectPcs, TryPcs, ClearPcs, KillPcs
  <2>2. n \in Names => Agrees(n)'
    BY <1>12, <1>0 DEF Finally, Agrees, FilesTyped, Facts, MarkFacts, JobOK, TryPcs
  <2>. QED BY <2>1, <2>2
<1>. QED BY <1>1, <1>2, <1>3, <1>4, <1>5, <1>6, <1>7, <1>8, <1>9, <1>10, <1>11, <1>12 DEF Launch

\* A termination keeps the files in agreement, and the client's knowledge true.
LEMMA KnowTerminate ==
    ASSUME TypeInv, FileInv, NEW c \in Clients, Terminate(c), NEW n, n = job[c].name
    PROVE  Knows(c)' /\ (n \in Names => Agrees(n)')
<1>. DEFINE K == Facts(pc[c], job[c], session[n], launching[n], marker[n])
<1>0. /\ pc[c] \in PCs /\ job[c] \in Job /\ JobOK(pc[c], job[c]) /\ ClientsTyped /\ FilesTyped
      /\ n \in Names => Agrees(n)
      /\ pc[c] \notin {"idle", "lock"} => K
  BY DEF TypeInv, TypeOK, ClientsTyped, JobsOK, FileInv, Knows
<1>1. CASE TermAbsent(c)
  <2>1. Knows(c)'
    BY <1>1, <1>0 DEF TermAbsent, Goto, ClientsTyped, FilesTyped, files, Job, Knows, Facts, MarkFacts, FenceFacts, Choosing, Holding, JobOK, InspectPcs, TryPcs, ClearPcs, KillPcs
  <2>2. n \in Names => Agrees(n)'
    BY <1>1, <1>0 DEF TermAbsent, files, Agrees, FilesTyped, Facts, MarkFacts, JobOK, TryPcs
  <2>. QED BY <2>1, <2>2
<1>2. CASE TermSignal(c)
  <2>1. Knows(c)'
    BY <1>2, <1>0 DEF TermSignal, Goto, ClientsTyped, FilesTyped, files, Job, Knows, Facts, MarkFacts, FenceFacts, Choosing, Holding, JobOK, InspectPcs, TryPcs, ClearPcs, KillPcs
  <2>2. n \in Names => Agrees(n)'
    BY <1>2, <1>0 DEF TermSignal, files, Agrees, FilesTyped, Facts, MarkFacts, JobOK, TryPcs
  <2>. QED BY <2>1, <2>2
<1>3. CASE Kill(c)
  <2>1. Knows(c)'
    BY <1>3, <1>0 DEF Kill, Goto, ClientsTyped, FilesTyped, files, Job, Knows, Facts, MarkFacts, FenceFacts, Choosing, Holding, JobOK, InspectPcs, TryPcs, ClearPcs, KillPcs
  <2>2. n \in Names => Agrees(n)'
    BY <1>3, <1>0 DEF Kill, files, Agrees, FilesTyped, Facts, MarkFacts, JobOK, TryPcs
  <2>. QED BY <2>1, <2>2
<1>4. CASE KillSurvived(c)
  <2>1. Knows(c)'
    BY <1>4, <1>0 DEF KillSurvived, Goto, ClientsTyped, FilesTyped, files, Job, Knows, Facts, MarkFacts, FenceFacts, Choosing, Holding, JobOK, InspectPcs, TryPcs, ClearPcs, KillPcs
  <2>2. n \in Names => Agrees(n)'
    BY <1>4, <1>0 DEF KillSurvived, files, Agrees, FilesTyped, Facts, MarkFacts, JobOK, TryPcs
  <2>. QED BY <2>1, <2>2
<1>. QED BY <1>1, <1>2, <1>3, <1>4 DEF Terminate

\* A crash or an interruption keeps the files in agreement, and the client's knowledge true.
LEMMA KnowClientFault ==
    ASSUME TypeInv, FileInv, NEW c \in Clients, ClientFault(c), NEW n, n = job[c].name
    PROVE  Knows(c)' /\ (n \in Names => Agrees(n)')
<1>. DEFINE K == Facts(pc[c], job[c], session[n], launching[n], marker[n])
<1>0. /\ pc[c] \in PCs /\ job[c] \in Job /\ JobOK(pc[c], job[c]) /\ ClientsTyped /\ FilesTyped
      /\ n \in Names => Agrees(n)
      /\ pc[c] \notin {"idle", "lock"} => K
  BY DEF TypeInv, TypeOK, ClientsTyped, JobsOK, FileInv, Knows
<1>1. CASE Crash(c)
  <2>1. Knows(c)'
    BY <1>1, <1>0 DEF Crash, Goto, ClientsTyped, FilesTyped, files, Job1, Job, Knows, Facts, MarkFacts, FenceFacts, Choosing, Holding, JobOK, InspectPcs, TryPcs, ClearPcs, KillPcs
  <2>2. n \in Names => Agrees(n)'
    BY <1>1, <1>0 DEF Crash, files, Agrees, FilesTyped, Facts, MarkFacts, JobOK, TryPcs
  <2>. QED BY <2>1, <2>2
<1>2. CASE Interrupt(c)
  <2>1. Knows(c)'
    BY <1>2, <1>0 DEF Interrupt, Goto, ClientsTyped, FilesTyped, files, AfterInterrupt, Job, Knows, Facts, MarkFacts, FenceFacts, Choosing, Holding, JobOK, InspectPcs, TryPcs, ClearPcs, KillPcs
  <2>2. n \in Names => Agrees(n)'
    BY <1>2, <1>0 DEF Interrupt, files, Agrees, FilesTyped, Facts, MarkFacts, JobOK, TryPcs
  <2>. QED BY <2>1, <2>2
<1>. QED BY <1>1, <1>2 DEF ClientFault

-----------------------------------------------------------------------------
(* The files of a name agree, and a fenced operation keeps its Session *)

\* Initially nobody holds a lock and there are no files.
LEMMA FileInit == Init => FileInv
BY DEF Init, FileInv, NameLocks, Knows, Agrees

\* A step outside the clients, or of a client that only begins.
LEMMA FileUnrelated ==
    ASSUME TypeInv, FileInv, UNCHANGED <<session, launching, marker, nameLock>>,
           \/ UNCHANGED <<pc, job>>
           \/ \E c \in Clients : Begin(c)
    PROVE  FileInv'
<1>1. \A n \in Names : Agrees(n)'
  BY DEF FileInv, Agrees
<1>2. ASSUME NEW d \in Clients
      PROVE  pc'[d] \in {"idle", "lock"} \/ (pc'[d] = pc[d] /\ job'[d] = job[d])
  <2>1. CASE UNCHANGED <<pc, job>>
    BY <2>1
  <2>2. ASSUME NEW c \in Clients, NEW f, Accept(c, f)
        PROVE  pc'[d] \in {"idle", "lock"} \/ (pc'[d] = pc[d] /\ job'[d] = job[d])
    BY <2>2 DEF Accept, Goto, Job1, TypeInv, TypeOK, ClientsTyped
  <2>. QED BY <2>1, <2>2 DEF Begin, BeginStart, BeginStatus, BeginFenced
<1>3. NameLocks'
  BY <1>2 DEF FileInv, NameLocks
<1>4. \A d \in Clients : Knows(d)'
  BY <1>2 DEF FileInv, Knows
<1>. QED BY <1>1, <1>3, <1>4 DEF FileInv

\* A new operation changes no file and no lock.
LEMMA FileBegin ==
    ASSUME TypeInv, FileInv, NEW c \in Clients, Begin(c)
    PROVE  FileInv'
<1>1. UNCHANGED <<session, launching, marker, nameLock>>
  BY DEF Begin, BeginStart, BeginStatus, BeginFenced, Accept, files, locks
<1>. QED BY <1>1, FileUnrelated

\* The processes change neither records nor markers nor locks.
LEMMA FileProcess ==
    ASSUME TypeInv, FileInv, NEW l \in Launches, SupStep(l) \/ BlenderStep(l) \/ SupKilled(l)
    PROVE  FileInv'
<1>1. UNCHANGED <<session, launching, marker, nameLock, pc, job>>
  <2>1. CASE SupStep(l)
    BY <2>1 DEF SupStep, SupSeesGate, SupExpires, SupTakesGate, SupSpawns, SupCannotSpawn,
       SupReports, SupCannotReport, files, locks
  <2>2. CASE BlenderStep(l)
    BY <2>2 DEF BlenderStep, RootBinds, RootExits, HelperStarts, HelperEnds, files, locks
  <2>3. CASE SupKilled(l)
    BY <2>3 DEF SupKilled, files, locks
  <2>. QED BY <2>1, <2>2, <2>3
<1>. QED BY <1>1, FileUnrelated

\* A client's death releases its name lock, and no other.
LEMMA NameLocksFault ==
    ASSUME TypeInv, NameLocks, NEW c \in Clients, ClientFault(c)
    PROVE  NameLocks'
<1>1. CASE Crash(c)
  <2>1. nameLock' = [n \in Names |-> IF nameLock[n] = c THEN Free ELSE nameLock[n]]
    BY <1>1 DEF Crash
  <2>2. pc'[c] = "idle" /\ \A d \in Clients \ {c} : pc'[d] = pc[d] /\ job'[d] = job[d]
    BY <1>1 DEF Crash, Goto, Job1, TypeInv, TypeOK, ClientsTyped
  <2>3. \A d \in Clients : pc[d] # "idle" => job[d].name \in Names
    BY DEF TypeInv, JobsOK, JobOK
  <2>. QED BY <2>1, <2>2, <2>3 DEF NameLocks
<1>2. CASE Interrupt(c)
  BY <1>2, MovesClientFault, NameLockUnchanged, NameLocksKept
<1>. QED BY <1>1, <1>2 DEF ClientFault

\* A client's step keeps what the clients know of the files.
LEMMA FileClient ==
    ASSUME TypeInv, FileInv, NEW c \in Clients, ClientStep(c) \/ ClientFault(c)
    PROVE  FileInv'
<1>1. Moves(c)
  BY MovesControl, MovesInspection, MovesAllocation, MovesRemoval, MovesLaunch,
     MovesTerminate, MovesClientFault DEF ClientStep
<1>2. NameLocks'
  <2>1. CASE Control(c)
    BY <2>1, NameLocksControl DEF FileInv
  <2>2. CASE ClientFault(c)
    BY <2>2, NameLocksFault DEF FileInv
  <2>3. CASE Inspection(c) \/ Allocation(c) \/ Removal(c) \/ Launch(c) \/ Terminate(c)
    BY <2>3, <1>1, NameLockUnchanged, NameLocksKept DEF FileInv
  <2>. QED BY <2>1, <2>2, <2>3 DEF ClientStep
<1>3. PICK n : n = job[c].name
  OBVIOUS
<1>4. \A d \in Clients : pc[d] # "idle" => job[d].name \in Names
  BY DEF TypeInv, JobsOK, JobOK
<1>5. n \in Names
  BY <1>1, <1>3, <1>4 DEF Moves
<1>6. Knows(c)' /\ Agrees(n)'
  BY <1>3, <1>5, KnowControl, KnowInspection, KnowAllocation, KnowRemoval, KnowLaunch,
     KnowTerminate, KnowClientFault DEF ClientStep
<1>7. pc[c] # "lock" \/ UNCHANGED files
  <2>1. CASE Control(c)
    BY <2>1 DEF Control, LockName, Fence, Decide, LockPorts, Call, Reply, UnlockPorts, UnlockName
  <2>2. CASE Crash(c)
    BY <2>2 DEF Crash
  <2>3. CASE ~Control(c) /\ ~Crash(c)
    BY <2>3, NameLockUnchanged DEF ClientStep, ClientFault
  <2>. QED BY <2>1, <2>2, <2>3
<1>8. /\ \A d \in Clients \ {c} : Knows(d)'
      /\ \A m \in Names \ {n} : Agrees(m)'
  BY <1>1, <1>3, <1>4, <1>5, <1>7, OthersKnow
<1>. QED BY <1>2, <1>6, <1>8 DEF FileInv

\* Every step keeps what the clients know of the files.
LEMMA FileStep == TypeInv /\ FileInv /\ [Next]_vars => FileInv'
<1>. SUFFICES ASSUME TypeInv, FileInv, [Next]_vars PROVE FileInv'
  OBVIOUS
<1>1. ASSUME NEW c \in Clients, Begin(c) \/ ClientStep(c) \/ ClientFault(c) PROVE FileInv'
  BY <1>1, FileBegin, FileClient
<1>2. ASSUME NEW l \in Launches, SupStep(l) \/ BlenderStep(l) \/ SupKilled(l) PROVE FileInv'
  BY <1>2, FileProcess
<1>3. ASSUME NEW p \in BasePort..MaxPort, ForeignBinds(p) PROVE FileInv'
  BY <1>3, FileUnrelated DEF ForeignBinds, files, locks
<1>4. CASE Quiet \/ UNCHANGED vars
  BY <1>4, FileUnrelated DEF Quiet, vars, files, locks
<1>. QED BY <1>1, <1>2, <1>3, <1>4 DEF Next, FaultStep

\* No crash, interruption or interleaving leaves a record without its Ownership
\* marker.
THEOREM MarkersCorrect == Spec => []RecordMarked
<1>1. FileInv => RecordMarked
  BY DEF FileInv, Agrees, RecordMarked, Current
<1>. QED BY TypeInit, TypeStep, FileInit, FileStep, <1>1, PTL DEF Spec

\* A call or stop that has passed the fence acts on the Session it was given.
THEOREM FenceCorrect == Spec => []FencedActor
<1>1. TypeInv /\ FileInv => FencedActor
  <2>. SUFFICES ASSUME TypeInv, FileInv, NEW c \in Clients,
                       pc[c] \in {"callWire", "call", "reply"} \cup KillPcs, ~job[c].fresh
                PROVE  job[c].rec.launch = job[c].sid /\ Current(job[c].name) = job[c].rec
    BY DEF FencedActor
  <2>1. JobOK(pc[c], job[c]) /\ pc[c] \notin {"idle", "lock"} /\ Knows(c)
    BY DEF TypeInv, JobsOK, FileInv, KillPcs
  <2>2. job[c].op \in {"call", "stop"} /\ Holding(pc[c], job[c].status)
    BY <2>1 DEF JobOK, Knows, Facts, FenceFacts, Holding
  <2>. QED BY <2>1, <2>2 DEF Knows, Facts, FenceFacts, Current
<1>. QED BY TypeInit, TypeStep, FileInit, FileStep, <1>1, PTL DEF Spec

-----------------------------------------------------------------------------
(* Supervisors and Blenders are born once, and fade *)

\* A start that has not yet spawned its supervisor
Unmade(p, j) == j.op = "start" /\ (~j.fresh \/ p = "spawn")

\* A supervisor starts one Blender, and only before it reports
Coupled(l) ==
    /\ sup[l] \in {"unborn", "waiting", "sawGate", "opened"} => root[l] = "none"
    /\ sup[l] \in {"spawned", "anchor"} => root[l] # "none"

\* Launch numbers are minted once: no two starts have the same, and the
\* supervisor of one is not born before its start spawns it.
Minted ==
    /\ \A l \in Launches : l > starts => sup[l] = "unborn"
    /\ \A c \in Clients : job[c].op = "start" => job[c].sid <= starts
    /\ \A c, d \in Clients :
          c # d /\ job[c].op = "start" /\ job[d].op = "start" => job[c].sid # job[d].sid
    /\ \A c \in Clients : Unmade(pc[c], job[c]) => sup[job[c].sid] = "unborn"
    /\ \A c \in Clients : pc[c] \in TryPcs => sup[job[c].sid] # "unborn"

ProcInv == Minted /\ \A l \in Launches : Coupled(l)

\* Nothing that was born and has gone comes back.
Fades ==
    \A l \in Launches :
        /\ sup[l] # "unborn" => sup'[l] # "unborn" /\ (SupAlive(l)' => SupAlive(l))
        /\ root[l] # "none" => root'[l] # "none" /\ (RootAlive(l)' => RootAlive(l))

\* Initially nothing has been minted or born.
LEMMA ProcInit == Init => ProcInv
BY DEF Init, ProcInv, Minted, Unmade, Coupled, NoJob, TryPcs

\* A client's step that gives birth to no supervisor keeps the launches minted.
LEMMA MintedKept ==
    ASSUME TypeInv, Minted, NEW c \in Clients, Moves(c), UNCHANGED starts,
           \A l \in Launches : sup'[l] = "unborn" <=> sup[l] = "unborn",
           Unmade(pc'[c], job'[c]) => Unmade(pc[c], job[c]),
           pc'[c] \in TryPcs => pc[c] \in TryPcs
    PROVE  Minted'
<1>1. \A d \in Clients : /\ job[d].op = "start" => job[d].sid \in Launches
                         /\ pc[d] \in TryPcs => job[d].op = "start"
  BY DEF TypeInv, JobsOK, JobOK
<1>2. \A d \in Clients : job'[d].op = "start" =>
          job[d].op = "start" /\ job'[d].sid = job[d].sid
  BY DEF Moves, SameErrand, NoJob
<1>3. \A d \in Clients : pc'[d] \in TryPcs => pc[d] \in TryPcs /\ job'[d].sid = job[d].sid
  BY DEF Moves, SameErrand, TryPcs
<1>4. \A d \in Clients : Unmade(pc'[d], job'[d]) => Unmade(pc[d], job[d])
  BY DEF Moves
<1>5. \A d \in Clients : Unmade(pc'[d], job'[d]) => job'[d].op = "start"
  BY DEF Unmade
<1>. QED BY <1>1, <1>2, <1>3, <1>4, <1>5 DEF Minted

\* The client actions that leave the processes alone
Bystander(c) ==
    /\ UNCHANGED <<sup, root, starts>>
    /\ Unmade(pc'[c], job'[c]) => Unmade(pc[c], job[c])
    /\ pc'[c] \in TryPcs => pc[c] \in TryPcs

\* Locks and decisions leave the processes alone.
LEMMA BystanderControl ==
    ASSUME TypeInv, NEW c \in Clients, Control(c)
    PROVE  Bystander(c)
<1>0. pc[c] \in PCs /\ job[c] \in Job /\ JobOK(pc[c], job[c]) /\ ClientsTyped
  BY DEF TypeInv, TypeOK, ClientsTyped, JobsOK
<1>1. CASE LockName(c)
  BY <1>1, <1>0 DEF LockName, Bystander, Unmade, JobOK, FreshPcs, Goto, ClientsTyped, TryPcs, procs, bounds
<1>2. CASE Fence(c)
  BY <1>2, <1>0 DEF Fence, Bystander, Unmade, JobOK, FreshPcs, Goto, ClientsTyped, TryPcs, procs, bounds
<1>3. CASE Decide(c)
  BY <1>3, <1>0 DEF Decide, Bystander, Unmade, JobOK, FreshPcs, Goto, ClientsTyped, TryPcs, procs, bounds, Job1, Verdicts, Job
<1>4. CASE LockPorts(c)
  BY <1>4, <1>0 DEF LockPorts, Bystander, Unmade, JobOK, FreshPcs, Goto, ClientsTyped, TryPcs, procs, bounds, Job1, Job
<1>5. CASE Call(c)
  BY <1>5, <1>0 DEF Call, Bystander, Unmade, JobOK, FreshPcs, Goto, ClientsTyped, TryPcs, procs, bounds
<1>6. CASE Reply(c)
  BY <1>6, <1>0 DEF Reply, Bystander, Unmade, JobOK, FreshPcs, Goto, ClientsTyped, TryPcs, procs, bounds
<1>7. CASE UnlockPorts(c)
  BY <1>7, <1>0 DEF UnlockPorts, Bystander, Unmade, JobOK, FreshPcs, Goto, ClientsTyped, TryPcs, procs, bounds
<1>8. CASE UnlockName(c)
  BY <1>8, <1>0 DEF UnlockName, Bystander, Unmade, JobOK, FreshPcs, Goto, ClientsTyped, TryPcs, procs, bounds, Job1, NoJob, Job
<1>. QED BY <1>1, <1>2, <1>3, <1>4, <1>5, <1>6, <1>7, <1>8 DEF Control

\* So do inspections.
LEMMA BystanderInspection ==
    ASSUME TypeInv, NEW c \in Clients, Inspection(c)
    PROVE  Bystander(c)
<1>0. pc[c] \in PCs /\ job[c] \in Job /\ JobOK(pc[c], job[c]) /\ ClientsTyped
  BY DEF TypeInv, TypeOK, ClientsTyped, JobsOK
<1>1. CASE Read(c)
  <2>. DEFINE r == Current(job[c].at)
  <2>1. pc'[c] \in {"tree", "decide", "tally"} /\ pc[c] = "read" /\ UNCHANGED <<sup, root, starts>>
    BY <1>1, <1>0 DEF Read, Goto, Inspected, ClientsTyped, procs, bounds
  <2>2. job'[c].op = job[c].op /\ job'[c].fresh = job[c].fresh
    <3>1. \/ Job1(c, [job[c] EXCEPT !.status = IF r = NoRec THEN "not-found" ELSE "unreadable"])
          \/ Job1(c, [job[c] EXCEPT !.rec = r, !.rootM = RootMatches(r)])
      BY <1>1 DEF Read
    <3>. HIDE DEF r
    <3>. QED BY <3>1, <1>0 DEF Job1, Job, ClientsTyped
  <2>. QED BY <2>1, <2>2 DEF Bystander, Unmade, TryPcs
<1>2. CASE Tree(c)
  BY <1>2, <1>0 DEF Tree, Bystander, Unmade, JobOK, FreshPcs, Goto, ClientsTyped, TryPcs, procs, bounds, Job1, Inspected, Job
<1>3. CASE LockWire(c)
  BY <1>3, <1>0 DEF LockWire, Bystander, Unmade, JobOK, FreshPcs, Goto, ClientsTyped, TryPcs, procs, bounds
<1>4. CASE Probe(c)
  BY <1>4, <1>0 DEF Probe, Bystander, Unmade, JobOK, FreshPcs, Goto, ClientsTyped, TryPcs, procs, bounds, Job1, Inspected, Job
<1>. QED BY <1>1, <1>2, <1>3, <1>4 DEF Inspection

\* So does the allocation of a port.
LEMMA BystanderAllocation ==
    ASSUME TypeInv, NEW c \in Clients, Allocation(c)
    PROVE  Bystander(c)
<1>0. pc[c] \in PCs /\ job[c] \in Job /\ JobOK(pc[c], job[c]) /\ ClientsTyped
  BY DEF TypeInv, TypeOK, ClientsTyped, JobsOK
<1>1. CASE Scan(c)
  <2>1. pc'[c] \in {"read", "alloc"} /\ pc[c] = "scan" /\ UNCHANGED <<sup, root, starts>>
    BY <1>1, <1>0 DEF Scan, Goto, ClientsTyped, procs, bounds
  <2>2. job'[c].op = job[c].op /\ job'[c].fresh = job[c].fresh
    <3>1. ASSUME NEW m, Job1(c, [job[c] EXCEPT !.left = @ \ {m}, !.at = m, !.rec = NoRec, !.status = "none"])
          PROVE  job'[c].op = job[c].op /\ job'[c].fresh = job[c].fresh
      BY <3>1, <1>0 DEF Job1, Job, ClientsTyped
    <3>2. ASSUME Job1(c, [job[c] EXCEPT !.at = job[c].name, !.status = "none", !.rec = FirstPort])
          PROVE  job'[c].op = job[c].op /\ job'[c].fresh = job[c].fresh
      BY <3>2, <1>0 DEF Job1, Job, ClientsTyped
    <3>. QED BY <1>1, <3>1, <3>2 DEF Scan
  <2>. QED BY <2>1, <2>2 DEF Bystander, Unmade, TryPcs
<1>2. CASE Tally(c)
  BY <1>2, <1>0 DEF Tally, Bystander, Unmade, JobOK, FreshPcs, Goto, ClientsTyped, TryPcs, procs, bounds, Job1, Job, InspectPcs, ClearPcs, KillPcs
<1>3. CASE Alloc(c)
  BY <1>3, <1>0 DEF Alloc, Bystander, Unmade, JobOK, FreshPcs, Goto, ClientsTyped, TryPcs, procs, bounds, Job1, Job, InspectPcs, ClearPcs, KillPcs
<1>. QED BY <1>1, <1>2, <1>3 DEF Allocation

\* So does a removal.
LEMMA BystanderRemoval ==
    ASSUME TypeInv, NEW c \in Clients, Removal(c)
    PROVE  Bystander(c)
<1>0. pc[c] \in PCs /\ job[c] \in Job /\ JobOK(pc[c], job[c]) /\ ClientsTyped
  BY DEF TypeInv, TypeOK, ClientsTyped, JobsOK
<1>1. CASE ClearSession(c)
  BY <1>1, <1>0 DEF ClearSession, Bystander, Unmade, JobOK, FreshPcs, Goto, ClientsTyped, TryPcs, procs, bounds, InspectPcs, ClearPcs, KillPcs
<1>2. CASE ClearLaunching(c)
  BY <1>2, <1>0 DEF ClearLaunching, Bystander, Unmade, JobOK, FreshPcs, Goto, ClientsTyped, TryPcs, procs, bounds, InspectPcs, ClearPcs, KillPcs
<1>3. CASE ClearMarker(c)
  BY <1>3, <1>0 DEF ClearMarker, Bystander, Unmade, JobOK, FreshPcs, Goto, ClientsTyped, TryPcs, procs, bounds, InspectPcs, ClearPcs, KillPcs
<1>4. CASE ClearBoot(c)
  BY <1>4, <1>0 DEF ClearBoot, Bystander, Unmade, JobOK, FreshPcs, Goto, ClientsTyped, TryPcs, procs, bounds, Removed, InspectPcs, ClearPcs, KillPcs
<1>. QED BY <1>1, <1>2, <1>3, <1>4 DEF Removal

\* So does a launch, but for the spawn of its supervisor.
LEMMA BystanderLaunch ==
    ASSUME TypeInv, NEW c \in Clients, Launch(c), ~Spawn(c)
    PROVE  Bystander(c)
<1>0. pc[c] \in PCs /\ job[c] \in Job /\ JobOK(pc[c], job[c]) /\ ClientsTyped
  BY DEF TypeInv, TypeOK, ClientsTyped, JobsOK
<1>1. CASE Prep(c)
  BY <1>1, <1>0 DEF Prep, Bystander, Unmade, JobOK, FreshPcs, Goto, ClientsTyped, TryPcs, bounds, Job1, Job, InspectPcs, ClearPcs, KillPcs
<1>3. CASE Identify(c)
  BY <1>3, <1>0 DEF Identify, Bystander, Unmade, JobOK, FreshPcs, Goto, ClientsTyped, TryPcs, procs, bounds, InspectPcs, ClearPcs, KillPcs
<1>4. CASE Mark(c)
  BY <1>4, <1>0 DEF Mark, Bystander, Unmade, JobOK, FreshPcs, Goto, ClientsTyped, TryPcs, procs, bounds, InspectPcs, ClearPcs, KillPcs
<1>5. CASE Provisional(c)
  BY <1>5, <1>0 DEF Provisional, Bystander, Unmade, JobOK, FreshPcs, Goto, ClientsTyped, TryPcs, procs, bounds, InspectPcs, ClearPcs, KillPcs
<1>6. CASE OpenGate(c)
  BY <1>6, <1>0 DEF OpenGate, Bystander, Unmade, JobOK, FreshPcs, Goto, ClientsTyped, TryPcs, procs, bounds, InspectPcs, ClearPcs, KillPcs
<1>7. CASE AwaitPid(c)
  BY <1>7, <1>0 DEF AwaitPid, Bystander, Unmade, JobOK, FreshPcs, Goto, ClientsTyped, TryPcs, procs, bounds, Job1, Job, InspectPcs, ClearPcs, KillPcs
<1>8. CASE AwaitFails(c)
  BY <1>8, <1>0 DEF AwaitFails, Bystander, Unmade, JobOK, FreshPcs, Goto, ClientsTyped, TryPcs, procs, bounds, InspectPcs, ClearPcs, KillPcs
<1>9. CASE BlenderIdentity(c)
  BY <1>9, <1>0 DEF BlenderIdentity, Bystander, Unmade, JobOK, FreshPcs, Goto, ClientsTyped, TryPcs, procs, bounds, InspectPcs, ClearPcs, KillPcs
<1>10. CASE RecordSession(c)
  BY <1>10, <1>0 DEF RecordSession, Bystander, Unmade, JobOK, FreshPcs, Goto, ClientsTyped, TryPcs, procs, bounds, InspectPcs, ClearPcs, KillPcs
<1>11. CASE Promote(c)
  BY <1>11, <1>0 DEF Promote, Bystander, Unmade, JobOK, FreshPcs, Goto, ClientsTyped, TryPcs, procs, bounds, InspectPcs, ClearPcs, KillPcs
<1>12. CASE Finally(c)
  BY <1>12, <1>0 DEF Finally, Bystander, Unmade, JobOK, FreshPcs, Goto, ClientsTyped, TryPcs, procs, bounds, InspectPcs, ClearPcs, KillPcs
<1>. QED BY <1>1, <1>3, <1>4, <1>5, <1>6, <1>7, <1>8, <1>9, <1>10, <1>11, <1>12 DEF Launch

\* So does a termination that does not come to signal.
LEMMA BystanderTerminate ==
    ASSUME TypeInv, NEW c \in Clients, Terminate(c), ~TermSignal(c), ~Kill(c)
    PROVE  Bystander(c)
<1>0. pc[c] \in PCs /\ job[c] \in Job /\ JobOK(pc[c], job[c]) /\ ClientsTyped
  BY DEF TypeInv, TypeOK, ClientsTyped, JobsOK
<1>1. CASE TermAbsent(c)
  BY <1>1, <1>0 DEF TermAbsent, Bystander, Unmade, JobOK, FreshPcs, Goto, ClientsTyped, TryPcs, procs, bounds, InspectPcs, ClearPcs, KillPcs
<1>4. CASE KillSurvived(c)
  BY <1>4, <1>0 DEF KillSurvived, Bystander, Unmade, JobOK, FreshPcs, Goto, ClientsTyped, TryPcs, procs, InspectPcs, ClearPcs, KillPcs
<1>. QED BY <1>1, <1>4 DEF Terminate

\* So does a crash or an interruption of a client.
LEMMA BystanderClientFault ==
    ASSUME TypeInv, NEW c \in Clients, ClientFault(c)
    PROVE  Bystander(c)
<1>0. pc[c] \in PCs /\ job[c] \in Job /\ JobOK(pc[c], job[c]) /\ ClientsTyped
  BY DEF TypeInv, TypeOK, ClientsTyped, JobsOK
<1>1. CASE Crash(c)
  BY <1>1, <1>0 DEF Crash, Bystander, Unmade, JobOK, FreshPcs, Goto, ClientsTyped, TryPcs, procs, Job1, NoJob, Fault, Job, InspectPcs, ClearPcs, KillPcs
<1>2. CASE Interrupt(c)
  BY <1>2, <1>0 DEF Interrupt, Bystander, Unmade, JobOK, FreshPcs, Goto, ClientsTyped, TryPcs, procs, AfterInterrupt, Fault, InspectPcs, ClearPcs, KillPcs
<1>. QED BY <1>1, <1>2 DEF ClientFault

\* Such a step keeps the launches minted and the processes as they are.
LEMMA ProcBystander ==
    ASSUME TypeInv, ProcInv, NEW c \in Clients, Moves(c), Bystander(c)
    PROVE  ProcInv' /\ Fades
<1>1. Minted'
  BY MintedKept DEF ProcInv, Bystander
<1>2. \A l \in Launches : Coupled(l)'
  BY DEF ProcInv, Coupled, Bystander
<1>3. Fades
  BY DEF Fades, Bystander, SupAlive, RootAlive
<1>. QED BY <1>1, <1>2, <1>3 DEF ProcInv

\* The spawn of a supervisor is the birth of the launch its start has minted.
LEMMA ProcSpawn ==
    ASSUME TypeInv, ProcInv, NEW c \in Clients, Spawn(c)
    PROVE  ProcInv' /\ Fades
<1>. DEFINE l == job[c].sid
<1>1. /\ pc[c] = "spawn" /\ job[c].fresh /\ job[c].op = "start" /\ l \in Launches
      /\ pc \in [Clients -> PCs] /\ sup \in [Launches -> SupStates]
      /\ UNCHANGED <<root, job, starts>>
  BY DEF TypeInv, TypeOK, ClientsTyped, ProcsTyped, JobsOK, JobOK, Spawn, bounds
<1>2. sup[l] = "unborn"
  BY <1>1 DEF ProcInv, Minted, Unmade
<1>3. sup' = [sup EXCEPT ![l] = "waiting"] /\ pc' = [pc EXCEPT ![c] = "identify"]
  BY DEF Spawn, Goto
<1>. HIDE DEF l
<1>4. root[l] = "none"
  BY <1>1, <1>2 DEF ProcInv, Coupled
<1>5. \A k \in Launches : Coupled(k)'
  BY <1>1, <1>3, <1>4 DEF ProcInv, Coupled
<1>6. Fades
  BY <1>1, <1>2, <1>3 DEF Fades, SupAlive, RootAlive
<1>7. Minted'
  <2>1. \A k \in Launches : k > starts' => sup'[k] = "unborn"
    <3>1. ~(l > starts)
      BY <1>1 DEF ProcInv, Minted, l, TypeInv, TypeOK, BoundsTyped, Launches
    <3>. QED BY <1>1, <1>3, <3>1 DEF ProcInv, Minted
  <2>2. \A d \in Clients : job'[d].op = "start" => job'[d].sid <= starts'
    BY <1>1 DEF ProcInv, Minted
  <2>3. \A d, e \in Clients :
          d # e /\ job'[d].op = "start" /\ job'[e].op = "start" => job'[d].sid # job'[e].sid
    BY <1>1 DEF ProcInv, Minted
  <2>4. ASSUME NEW d \in Clients, Unmade(pc'[d], job'[d]) PROVE sup'[job'[d].sid] = "unborn"
    <3>1. d # c
      BY <1>1, <1>3, <2>4 DEF Unmade
    <3>2. job[d].op = "start" /\ sup[job[d].sid] = "unborn" /\ job[d].sid # l
      BY <1>1, <1>3, <2>4, <3>1 DEF Unmade, ProcInv, Minted, l
    <3>3. job[d].sid \in Launches
      BY <3>2 DEF TypeInv, JobsOK, JobOK
    <3>. QED BY <1>1, <1>3, <3>2, <3>3
  <2>5. ASSUME NEW d \in Clients, pc'[d] \in TryPcs PROVE sup'[job'[d].sid] # "unborn"
    <3>1. CASE d = c
      BY <1>1, <1>3, <3>1 DEF l
    <3>2. CASE d # c
      <4>1. pc[d] \in TryPcs /\ sup[job[d].sid] # "unborn"
        BY <1>1, <1>3, <2>5, <3>2 DEF ProcInv, Minted
      <4>2. job[d].sid \in Launches
        BY <4>1 DEF TypeInv, JobsOK, JobOK
      <4>. QED BY <1>1, <1>3, <4>1, <4>2
    <3>. QED BY <3>1, <3>2
  <2>. QED BY <2>1, <2>2, <2>3, <2>4, <2>5 DEF Minted
<1>. QED BY <1>5, <1>6, <1>7 DEF ProcInv

\* A signal to a group lets its members fade.
LEMMA SignalFades ==
    ASSUME TypeInv, ProcInv, NEW l, NEW linger, Signal(l, linger)
    PROVE  /\ \A k \in Launches : Coupled(k)'
           /\ \A k \in Launches : sup'[k] = "unborn" <=> sup[k] = "unborn"
           /\ Fades
<1>1. sup \in [Launches -> SupStates] /\ root \in [Launches -> RootStates]
  BY DEF TypeInv, TypeOK, ProcsTyped
<1>2. sup' = [sup EXCEPT ![l] = IF SupAlive(l) THEN "gone" ELSE @]
  BY DEF Signal
<1>3. root' = [root EXCEPT ![l] = IF RootAlive(l) /\ "root" \notin linger THEN "gone" ELSE @]
  BY DEF Signal
<1>4. ASSUME NEW k \in Launches
      PROVE  sup'[k] = sup[k] \/ (SupAlive(k) /\ sup'[k] = "gone")
  BY <1>1, <1>2
<1>5. ASSUME NEW k \in Launches
      PROVE  root'[k] = root[k] \/ (RootAlive(k) /\ root'[k] = "gone")
  BY <1>1, <1>3
<1>6. \A k \in Launches : Coupled(k)'
  BY <1>4, <1>5 DEF ProcInv, Coupled, SupAlive, RootAlive
<1>7. Fades
  BY <1>4, <1>5 DEF Fades, SupAlive, RootAlive
<1>8. \A k \in Launches : sup'[k] = "unborn" <=> sup[k] = "unborn"
  BY <1>4 DEF SupAlive
<1>. QED BY <1>6, <1>7, <1>8

\* A client that signals keeps the launches minted.
LEMMA ProcTermination ==
    ASSUME TypeInv, ProcInv, NEW c \in Clients, TermSignal(c) \/ Kill(c)
    PROVE  ProcInv' /\ Fades
<1>1. PICK linger : Signal(job[c].rec.launch, linger)
  BY DEF TermSignal, Kill
<1>2. Moves(c) /\ UNCHANGED starts
  BY MovesTerminate DEF Terminate, TermSignal, Kill, bounds
<1>3. pc'[c] \in {"kill", "clearSession"} /\ pc[c] \in KillPcs /\ job' = job
  BY DEF TermSignal, Kill, Goto, TypeInv, TypeOK, ClientsTyped, KillPcs
<1>4. Minted'
  BY <1>1, <1>2, <1>3, SignalFades, MintedKept DEF ProcInv, Unmade, TryPcs, KillPcs
<1>. QED BY <1>1, <1>4, SignalFades DEF ProcInv

\* A supervisor or a Blender that goes on, or dies.
LEMMA ProcProcess ==
    ASSUME TypeInv, ProcInv, NEW l \in Launches, SupStep(l) \/ BlenderStep(l) \/ SupKilled(l)
    PROVE  ProcInv' /\ Fades
<1>0. /\ sup \in [Launches -> SupStates] /\ root \in [Launches -> RootStates]
      /\ Coupled(l) /\ ProcInv
  BY DEF TypeInv, TypeOK, ProcsTyped, ProcInv
<1>1. /\ UNCHANGED <<pc, job, starts>>
      /\ \A k \in Launches \ {l} : sup'[k] = sup[k] /\ root'[k] = root[k]
      /\ sup'[l] = "unborn" <=> sup[l] = "unborn"
      /\ Coupled(l)'
      /\ sup[l] # "unborn" => (SupAlive(l)' => SupAlive(l))
      /\ root[l] # "none" => root'[l] # "none" /\ (RootAlive(l)' => RootAlive(l))
  <2>1. CASE SupSeesGate(l)
    BY <1>0, <2>1 DEF SupSeesGate, Coupled, SupAlive, RootAlive, bounds
  <2>2. CASE SupExpires(l)
    BY <1>0, <2>2 DEF SupExpires, Coupled, SupAlive, RootAlive, bounds
  <2>3. CASE SupTakesGate(l)
    BY <1>0, <2>3 DEF SupTakesGate, Coupled, SupAlive, RootAlive, bounds
  <2>4. CASE SupSpawns(l)
    BY <1>0, <2>4 DEF SupSpawns, Coupled, SupAlive, RootAlive, bounds
  <2>5. CASE SupCannotSpawn(l)
    BY <1>0, <2>5 DEF SupCannotSpawn, Coupled, SupAlive, RootAlive, bounds
  <2>6. CASE SupReports(l)
    BY <1>0, <2>6 DEF SupReports, Coupled, SupAlive, RootAlive, bounds
  <2>7. CASE SupCannotReport(l)
    BY <1>0, <2>7 DEF SupCannotReport, Signal, Coupled, SupAlive, RootAlive, bounds
  <2>8. CASE RootBinds(l)
    BY <1>0, <2>8 DEF RootBinds, Coupled, SupAlive, RootAlive, bounds
  <2>9. CASE RootExits(l)
    BY <1>0, <2>9 DEF RootExits, Coupled, SupAlive, RootAlive, bounds
  <2>10. CASE HelperStarts(l)
    BY <1>0, <2>10 DEF HelperStarts, Coupled, SupAlive, RootAlive, bounds
  <2>11. CASE HelperEnds(l)
    BY <1>0, <2>11 DEF HelperEnds, Coupled, SupAlive, RootAlive, bounds
  <2>12. CASE SupKilled(l)
    BY <1>0, <2>12 DEF SupKilled, Coupled, SupAlive, RootAlive, bounds
  <2>. QED BY <2>1, <2>2, <2>3, <2>4, <2>5, <2>6, <2>7, <2>8, <2>9, <2>10, <2>11, <2>12
            DEF SupStep, BlenderStep
<1>2. Fades
  BY <1>1 DEF Fades, SupAlive, RootAlive
<1>3. \A k \in Launches : Coupled(k)'
  BY <1>0, <1>1 DEF ProcInv, Coupled
<1>4. Minted'
  <2>1. \A d \in Clients : /\ job[d].op = "start" => job[d].sid \in Launches
                           /\ pc[d] \in TryPcs => job[d].op = "start"
                           /\ Unmade(pc[d], job[d]) => job[d].op = "start"
    BY DEF TypeInv, JobsOK, JobOK, Unmade
  <2>2. \A k \in Launches : sup'[k] = "unborn" <=> sup[k] = "unborn"
    BY <1>1
  <2>. QED BY <1>0, <1>1, <2>1, <2>2 DEF ProcInv, Minted
<1>. QED BY <1>2, <1>3, <1>4 DEF ProcInv

\* A new start mints a launch that no other start has.
LEMMA ProcBegin ==
    ASSUME TypeInv, ProcInv, NEW c \in Clients, Begin(c)
    PROVE  ProcInv' /\ Fades
<1>0. \E f : Accept(c, f)
  <2>1. ASSUME NEW n \in Names, BeginFenced(c, n) PROVE \E f : Accept(c, f)
    BY <2>1 DEF BeginFenced
  <2>2. ASSUME NEW n \in Names, BeginStart(c, n) \/ BeginStatus(c, n) PROVE \E f : Accept(c, f)
    BY <2>2 DEF BeginStart, BeginStatus
  <2>. QED BY <2>1, <2>2 DEF Begin
<1>1. UNCHANGED <<sup, root>> /\ pc[c] = "idle" /\ pc' = [pc EXCEPT ![c] = "lock"]
  BY <1>0 DEF Accept, procs, Goto
<1>2. Fades /\ \A l \in Launches : Coupled(l)'
  BY <1>1 DEF Fades, ProcInv, Coupled, SupAlive, RootAlive
<1>3. \A d \in Clients : /\ job[d].op = "start" => job[d].sid \in Launches
                         /\ pc[d] \in TryPcs => job[d].op = "start"
                         /\ Unmade(pc[d], job[d]) => job[d].op = "start"
  BY DEF TypeInv, JobsOK, JobOK, Unmade
<1>4. pc \in [Clients -> PCs] /\ job \in [Clients -> Job] /\ starts \in 0..MaxLaunch
  BY DEF TypeInv, TypeOK, ClientsTyped, BoundsTyped
<1>5. PICK f : job' = [job EXCEPT ![c] = f]
  BY <1>0 DEF Accept, Job1
<1>6. \/ f.op # "start" /\ starts' = starts
      \/ f.op = "start" /\ f.sid = starts + 1 /\ starts' = starts + 1 /\ starts < MaxLaunch
  <2>1. CASE \E n \in Names : BeginStart(c, n)
    BY <2>1, <1>4, <1>5 DEF BeginStart, Accept, Job1, NoJob
  <2>2. CASE \E n \in Names : BeginStatus(c, n)
    BY <2>2, <1>4, <1>5 DEF BeginStatus, Accept, Job1, NoJob
  <2>3. CASE \E n \in Names : BeginFenced(c, n)
    BY <2>3, <1>4, <1>5 DEF BeginFenced, Accept, Job1, NoJob
  <2>. QED BY <2>1, <2>2, <2>3 DEF Begin
<1>7. \A d \in Clients : job'[d] = IF d = c THEN f ELSE job[d]
  BY <1>4, <1>5
<1>8. \A d \in Clients \ {c} : pc'[d] = pc[d]
  BY <1>1, <1>4
<1>9. pc'[c] \notin TryPcs
  BY <1>1, <1>4 DEF TryPcs
<1>10. starts + 1 \in Launches => sup[starts + 1] = "unborn"
  BY <1>4 DEF ProcInv, Minted
<1>11. Minted'
  <2>0. Minted /\ MaxLaunch \in Nat
    BY BoundAssumption DEF ProcInv
  <2>1. \A l \in Launches : l > starts' => sup'[l] = "unborn"
    BY <1>1, <1>4, <1>6, <2>0 DEF Minted, Launches
  <2>2. \A d \in Clients : job'[d].op = "start" => job'[d].sid <= starts'
    BY <1>3, <1>4, <1>6, <1>7, <2>0 DEF Minted, Launches
  <2>3. ASSUME NEW d \in Clients, NEW e \in Clients, d # e,
               job'[d].op = "start", job'[e].op = "start"
        PROVE  job'[d].sid # job'[e].sid
    <3>1. CASE d = c
      BY <1>3, <1>4, <1>6, <1>7, <2>0, <2>3, <3>1 DEF Minted, Launches
    <3>2. CASE e = c
      BY <1>3, <1>4, <1>6, <1>7, <2>0, <2>3, <3>2 DEF Minted, Launches
    <3>3. CASE d # c /\ e # c
      BY <1>7, <2>0, <2>3, <3>3 DEF Minted
    <3>. QED BY <3>1, <3>2, <3>3
  <2>4. ASSUME NEW d \in Clients, Unmade(pc'[d], job'[d]) PROVE sup'[job'[d].sid] = "unborn"
    <3>1. CASE d = c
      BY <1>1, <1>4, <1>6, <1>7, <1>10, <2>0, <2>4, <3>1 DEF Unmade, Launches
    <3>2. CASE d # c
      BY <1>1, <1>7, <1>8, <2>0, <2>4, <3>2 DEF Minted
    <3>. QED BY <3>1, <3>2
  <2>5. \A d \in Clients : pc'[d] \in TryPcs => sup'[job'[d].sid] # "unborn"
    BY <1>1, <1>7, <1>8, <1>9, <2>0 DEF Minted
  <2>. QED BY <2>1, <2>2, <2>3, <2>4, <2>5 DEF Minted
<1>. QED BY <1>2, <1>11 DEF ProcInv

\* Every step keeps the launches minted, and lets processes only fade.
LEMMA ProcStep == TypeInv /\ ProcInv /\ [Next]_vars => ProcInv' /\ Fades
<1>. SUFFICES ASSUME TypeInv, ProcInv, [Next]_vars PROVE ProcInv' /\ Fades
  OBVIOUS
<1>1. ASSUME NEW c \in Clients, ClientStep(c) \/ ClientFault(c) PROVE ProcInv' /\ Fades
  <2>1. Moves(c)
    BY <1>1, MovesControl, MovesInspection, MovesAllocation, MovesRemoval, MovesLaunch,
       MovesTerminate, MovesClientFault DEF ClientStep
  <2>2. CASE Spawn(c) \/ TermSignal(c) \/ Kill(c)
    BY <2>2, ProcSpawn, ProcTermination
  <2>3. CASE ~(Spawn(c) \/ TermSignal(c) \/ Kill(c))
    BY <1>1, <2>1, <2>3, ProcBystander, BystanderControl, BystanderInspection,
       BystanderAllocation, BystanderRemoval, BystanderLaunch, BystanderTerminate,
       BystanderClientFault DEF ClientStep
  <2>. QED BY <2>2, <2>3
<1>2. ASSUME UNCHANGED <<sup, root, pc, job, starts>> PROVE ProcInv' /\ Fades
  BY <1>2 DEF ProcInv, Minted, Unmade, Coupled, Fades, SupAlive, RootAlive
<1>3. ASSUME NEW p \in BasePort..MaxPort, ForeignBinds(p) PROVE ProcInv' /\ Fades
  BY <1>2, <1>3 DEF ForeignBinds
<1>4. CASE Quiet \/ UNCHANGED vars
  BY <1>2, <1>4 DEF Quiet, vars, procs, bounds
<1>. QED BY <1>1, <1>3, <1>4, ProcBegin, ProcProcess DEF Next, FaultStep

-----------------------------------------------------------------------------
(* What the holder of the ports lock has established *)

\* Where a client has taken the ports lock and not yet come to release it
HoldsPorts(p, j) ==
    \/ p \in {"scan", "tally", "alloc", "prep", "spawn", "finally"}
               \cup TryPcs \cup ClearPcs \cup KillPcs
    \/ p \in InspectPcs /\ j.at # j.name

PortsLocks == \A c \in Clients : HoldsPorts(pc[c], job[c]) => portsLock = c

\* The processes a record names have been started, so that they can only fade
Born(r) ==
    r # NoRec => sup[r.launch] # "unborn" /\ (r.blender # 0 => root[r.blender] # "none")

\* Where a start has Blender's pid
NamedPcs == {"blender", "remark", "record", "promote"}

BornInv ==
    /\ \A n \in Names : Born(session[n]) /\ Born(launching[n])
    /\ \A n \in Names : boot[n].is = "pid" => root[boot[n].blender] # "none"
    /\ \A c \in Clients : pc[c] \in NamedPcs => root[job[c].rec.blender] # "none"

\* The two records of one launch carry one port
SamePort(n) ==
    session[n] # NoRec /\ launching[n] # NoRec => session[n].port = launching[n].port

\* What a start at p with job j knows of the launching.json l it has written
OwnFacts(p, j, l) ==
    p \in {"open", "await", "blender", "remark", "record"} => l.port = j.rec.port

Cleared(m, occ)   == Live(Current(m)) => Current(m).port \in occ
Distinct(m, port) == Live(Current(m)) => Current(m).port # port

\* Where a start has chosen its port, until its Session is recorded for good
\* or its processes are gone
Chosen(p, j) ==
    \/ p \in {"prep", "spawn"} \cup TryPcs
    \/ p \in KillPcs /\ j.fresh
    \/ p \in ClearPcs /\ j.op = "start" /\ ~j.fresh

\* Where a start looks at another Session
Looking(p, j) == p \in InspectPcs \cup {"tally"} /\ j.at # j.name

\* What the scan has found out about the Sessions it is done with
ScanFacts(p, j) ==
    /\ p = "scan" =>
          \A m \in Names \ {j.name} : m \notin j.left => Cleared(m, j.occ)
    /\ Looking(p, j) =>
          \A m \in Names \ {j.name} : m \notin j.left /\ m # j.at => Cleared(m, j.occ)
    /\ p = "tally" => j.at # j.name
    /\ p = "alloc" => \A m \in Names \ {j.name} : Cleared(m, j.occ)
    /\ Chosen(p, j) => \A m \in Names \ {j.name} : Distinct(m, j.rec.port)

\* What it has found out about the Session it looks at
LookFacts(p, j) ==
    Looking(p, j) =>
        /\ p = "read" => j.rec = NoRec
        /\ p \in {"tree", "wire", "probe"} => j.rec = Current(j.at) /\ j.rec # NoRec
        /\ p = "tree" /\ ~j.rootM => ~RootMatches(j.rec)
        /\ p = "tally" => \/ j.status = "unreadable"
                          \/ j.rec = Current(j.at) /\ (j.status = "dead" => ~Live(j.rec))

Scanned(p, j) == ScanFacts(p, j) /\ LookFacts(p, j)

PortInv ==
    /\ PortsLocks
    /\ BornInv
    /\ \A n \in Names : SamePort(n)
    /\ \A c \in Clients : pc[c] # "idle" =>
          OwnFacts(pc[c], job[c], launching[job[c].name])
    /\ \A c \in Clients : Scanned(pc[c], job[c])
    /\ UniqueLivePorts

\* Initially no Session exists and no client is at work.
LEMMA PortInit == Init => PortInv
BY DEF Init, PortInv, PortsLocks, HoldsPorts, BornInv, Born, NamedPcs, NoBoot, SamePort,
       Scanned, ScanFacts, LookFacts, Looking, Chosen, UniqueLivePorts, Current, Live,
       TryPcs, ClearPcs, KillPcs, InspectPcs

\* The records of a name keep their types under inspection.
LEMMA RecordTyped ==
    ASSUME TypeInv, NEW m \in Names
    PROVE  /\ session[m] # NoRec => session[m].launch \in Launches /\ session[m].blender \in Launches
           /\ launching[m] # NoRec => launching[m].launch \in Launches /\ launching[m].blender = 0
           /\ Current(m) # NoRec =>
                 Current(m).launch \in Launches /\ Current(m).blender \in Launches \cup {0}
BY DEF TypeInv, TypeOK, FilesTyped, Current, FinalRecord, ProvisionalRecord

\* What an inspection may read has been born.
LEMMA CurrentBorn ==
    ASSUME BornInv, NEW m \in Names
    PROVE  Born(Current(m))
BY DEF BornInv, Current

\* Processes that were born and are gone do not make a record live, nor its root match, again.
LEMMA RecordFades ==
    ASSUME Fades, NEW r, Born(r), r # NoRec => r.launch \in Launches /\ r.blender \in Launches \cup {0}
    PROVE  /\ Born(r)'
           /\ Live(r)' => Live(r)
           /\ r # NoRec /\ ~RootMatches(r) => ~RootMatches(r)'
<1>1. CASE r = NoRec
  BY <1>1 DEF Born, Live
<1>2. CASE r # NoRec
  <2>1. r.launch \in Launches /\ sup[r.launch] # "unborn"
    BY <1>2 DEF Born
  <2>2. sup'[r.launch] # "unborn" /\ (SupAlive(r.launch)' => SupAlive(r.launch))
    BY <2>1 DEF Fades
  <2>3. CASE r.blender = 0
    <3>1. r.blender # r.launch
      BY <2>1, <2>3 DEF Launches
    <3>. QED BY <1>2, <2>2, <2>3, <3>1 DEF Born, Live, TreeExists, RootMatches
  <2>4. CASE r.blender # 0
    <3>1. /\ r.blender \in Launches /\ root[r.blender] # "none"
      BY <1>2, <2>4 DEF Born
    <3>2. root'[r.blender] # "none" /\ (RootAlive(r.blender)' => RootAlive(r.blender))
      BY <3>1 DEF Fades
    <3>. QED BY <1>2, <2>2, <2>4, <3>2 DEF Born, Live, TreeExists, RootMatches
  <2>. QED BY <2>3, <2>4
<1>. QED BY <1>1, <1>2

\* A Session whose files stay the same does not come to life.
LEMMA CurrentFades ==
    ASSUME TypeInv, BornInv, Fades, NEW m \in Names,
           session'[m] = session[m], launching'[m] = launching[m]
    PROVE  /\ Current(m)' = Current(m)
           /\ Live(Current(m))' => Live(Current(m))
<1>1. PICK r : r = Current(m)
  OBVIOUS
<1>2. Current(m)' = r
  BY <1>1 DEF Current
<1>3. Live(r)' => Live(r)
  BY <1>1, RecordTyped, CurrentBorn, RecordFades
<1>. QED BY <1>1, <1>2, <1>3

\* What a start has found out stays true while nobody but the start itself
\* writes records: p and f are where its step takes it.
LEMMA ScanTo ==
    ASSUME TypeInv, BornInv, Fades, NEW p, NEW f, f.at \in Names, Scanned(p, f),
           \A m \in Names \ {f.name} : session'[m] = session[m] /\ launching'[m] = launching[m]
    PROVE  Scanned(p, f)'
<1>1. ASSUME NEW m \in Names \ {f.name}
      PROVE  Current(m)' = Current(m) /\ (Live(Current(m))' => Live(Current(m)))
  BY <1>1, CurrentFades
<1>2. ScanFacts(p, f)'
  <2>1. \A m \in Names \ {f.name} : Cleared(m, f.occ) => Cleared(m, f.occ)'
    BY <1>1 DEF Cleared
  <2>2. \A m \in Names \ {f.name} : Distinct(m, f.rec.port) => Distinct(m, f.rec.port)'
    BY <1>1 DEF Distinct
  <2>. QED BY <2>1, <2>2 DEF Scanned, ScanFacts
<1>3. LookFacts(p, f)'
  <2>. SUFFICES ASSUME Looking(p, f) PROVE LookFacts(p, f)'
    BY DEF LookFacts, Looking
  <2>1. f.at \in Names \ {f.name} /\ LookFacts(p, f)
    BY DEF Looking, Scanned
  <2>2. Current(f.at)' = Current(f.at)
    BY <1>1, <2>1
  <2>3. PICK r : r = f.rec
    OBVIOUS
  <2>4. CASE r = Current(f.at)
    <3>1. (Live(r)' => Live(r)) /\ (r # NoRec /\ ~RootMatches(r) => ~RootMatches(r)')
      BY <2>1, <2>4, RecordTyped, CurrentBorn, RecordFades
    <3>. QED BY <2>1, <2>2, <2>3, <2>4, <3>1 DEF LookFacts
  <2>5. CASE r # Current(f.at)
    BY <2>1, <2>2, <2>3, <2>5 DEF LookFacts
  <2>. QED BY <2>4, <2>5
<1>. QED BY <1>2, <1>3 DEF Scanned

\* A step of c that takes it to p with the job f leaves the ports lock alone
PortsKept(c, p, f) ==
    /\ Scanned(p, f)
    /\ HoldsPorts(p, f) => HoldsPorts(pc[c], job[c])
    /\ UNCHANGED portsLock

\* A removal keeps what a start knows of other Sessions.
LEMMA PortsRemoval ==
    ASSUME TypeInv, FileInv, PortInv, NEW c \in Clients, Removal(c),
           NEW p, p = pc'[c], NEW f, f = job'[c]
    PROVE  PortsKept(c, p, f)
<1>0. /\ pc[c] \in PCs /\ job[c] \in Job /\ JobOK(pc[c], job[c]) /\ ClientsTyped
      /\ Scanned(pc[c], job[c])
  BY DEF TypeInv, TypeOK, ClientsTyped, JobsOK, PortInv
<1>1. CASE ClearSession(c)
  BY <1>1, <1>0 DEF ClearSession, PortsKept, Goto, ClientsTyped, Scanned, ScanFacts, LookFacts, Looking, Chosen, HoldsPorts, JobOK, InspectPcs, TryPcs, ClearPcs, KillPcs, locks
<1>2. CASE ClearLaunching(c)
  BY <1>2, <1>0 DEF ClearLaunching, PortsKept, Goto, ClientsTyped, Scanned, ScanFacts, LookFacts, Looking, Chosen, HoldsPorts, JobOK, InspectPcs, TryPcs, ClearPcs, KillPcs, locks
<1>3. CASE ClearMarker(c)
  BY <1>3, <1>0 DEF ClearMarker, PortsKept, Goto, ClientsTyped, Scanned, ScanFacts, LookFacts, Looking, Chosen, HoldsPorts, JobOK, InspectPcs, TryPcs, ClearPcs, KillPcs, locks
<1>4. CASE ClearBoot(c)
  BY <1>4, <1>0 DEF ClearBoot, PortsKept, Goto, ClientsTyped, Scanned, ScanFacts, LookFacts, Looking, Chosen, HoldsPorts, JobOK, InspectPcs, TryPcs, ClearPcs, KillPcs, locks, Removed
<1>. QED BY <1>1, <1>2, <1>3, <1>4 DEF Removal

\* So does every step of a launch.
LEMMA PortsLaunch ==
    ASSUME TypeInv, FileInv, PortInv, NEW c \in Clients, Launch(c),
           NEW p, p = pc'[c], NEW f, f = job'[c]
    PROVE  PortsKept(c, p, f)
<1>0. /\ pc[c] \in PCs /\ job[c] \in Job /\ JobOK(pc[c], job[c]) /\ ClientsTyped
      /\ Scanned(pc[c], job[c])
  BY DEF TypeInv, TypeOK, ClientsTyped, JobsOK, PortInv
<1>1. CASE Prep(c)
  BY <1>1, <1>0 DEF Prep, PortsKept, Goto, ClientsTyped, Scanned, ScanFacts, LookFacts, Looking, Chosen, HoldsPorts, JobOK, InspectPcs, TryPcs, ClearPcs, KillPcs, locks, Job1, Job
<1>2. CASE Spawn(c)
  BY <1>2, <1>0 DEF Spawn, PortsKept, Goto, ClientsTyped, Scanned, ScanFacts, LookFacts, Looking, Chosen, HoldsPorts, JobOK, InspectPcs, TryPcs, ClearPcs, KillPcs, locks
<1>3. CASE Identify(c)
  BY <1>3, <1>0 DEF Identify, PortsKept, Goto, ClientsTyped, Scanned, ScanFacts, LookFacts, Looking, Chosen, HoldsPorts, JobOK, InspectPcs, TryPcs, ClearPcs, KillPcs, locks
<1>4. CASE Mark(c)
  BY <1>4, <1>0 DEF Mark, PortsKept, Goto, ClientsTyped, Scanned, ScanFacts, LookFacts, Looking, Chosen, HoldsPorts, JobOK, InspectPcs, TryPcs, ClearPcs, KillPcs, locks
<1>5. CASE Provisional(c)
  BY <1>5, <1>0 DEF Provisional, PortsKept, Goto, ClientsTyped, Scanned, ScanFacts, LookFacts, Looking, Chosen, HoldsPorts, JobOK, InspectPcs, TryPcs, ClearPcs, KillPcs, locks
<1>6. CASE OpenGate(c)
  BY <1>6, <1>0 DEF OpenGate, PortsKept, Goto, ClientsTyped, Scanned, ScanFacts, LookFacts, Looking, Chosen, HoldsPorts, JobOK, InspectPcs, TryPcs, ClearPcs, KillPcs, locks
<1>7. CASE AwaitPid(c)
  BY <1>7, <1>0 DEF AwaitPid, PortsKept, Goto, ClientsTyped, Scanned, ScanFacts, LookFacts, Looking, Chosen, HoldsPorts, JobOK, InspectPcs, TryPcs, ClearPcs, KillPcs, locks, Job1, Job
<1>8. CASE AwaitFails(c)
  BY <1>8, <1>0 DEF AwaitFails, PortsKept, Goto, ClientsTyped, Scanned, ScanFacts, LookFacts, Looking, Chosen, HoldsPorts, JobOK, InspectPcs, TryPcs, ClearPcs, KillPcs, locks
<1>9. CASE BlenderIdentity(c)
  BY <1>9, <1>0 DEF BlenderIdentity, PortsKept, Goto, ClientsTyped, Scanned, ScanFacts, LookFacts, Looking, Chosen, HoldsPorts, JobOK, InspectPcs, TryPcs, ClearPcs, KillPcs, locks
<1>10. CASE RecordSession(c)
  BY <1>10, <1>0 DEF RecordSession, PortsKept, Goto, ClientsTyped, Scanned, ScanFacts, LookFacts, Looking, Chosen, HoldsPorts, JobOK, InspectPcs, TryPcs, ClearPcs, KillPcs, locks
<1>11. CASE Promote(c)
  BY <1>11, <1>0 DEF Promote, PortsKept, Goto, ClientsTyped, Scanned, ScanFacts, LookFacts, Looking, Chosen, HoldsPorts, JobOK, InspectPcs, TryPcs, ClearPcs, KillPcs, locks
<1>12. CASE Finally(c)
  BY <1>12, <1>0 DEF Finally, PortsKept, Goto, ClientsTyped, Scanned, ScanFacts, LookFacts, Looking, Chosen, HoldsPorts, JobOK, InspectPcs, TryPcs, ClearPcs, KillPcs, locks
<1>. QED BY <1>1, <1>2, <1>3, <1>4, <1>5, <1>6, <1>7, <1>8, <1>9, <1>10, <1>11, <1>12 DEF Launch

\* So does the termination of a tree.
LEMMA PortsTerminate ==
    ASSUME TypeInv, FileInv, PortInv, NEW c \in Clients, Terminate(c),
           NEW p, p = pc'[c], NEW f, f = job'[c]
    PROVE  PortsKept(c, p, f)
<1>0. /\ pc[c] \in PCs /\ job[c] \in Job /\ JobOK(pc[c], job[c]) /\ ClientsTyped
      /\ Scanned(pc[c], job[c])
  BY DEF TypeInv, TypeOK, ClientsTyped, JobsOK, PortInv
<1>1. CASE TermAbsent(c)
  BY <1>1, <1>0 DEF TermAbsent, PortsKept, Goto, ClientsTyped, Scanned, ScanFacts, LookFacts, Looking, Chosen, HoldsPorts, JobOK, InspectPcs, TryPcs, ClearPcs, KillPcs, locks
<1>2. CASE TermSignal(c)
  BY <1>2, <1>0 DEF TermSignal, PortsKept, Goto, ClientsTyped, Scanned, ScanFacts, LookFacts, Looking, Chosen, HoldsPorts, JobOK, InspectPcs, TryPcs, ClearPcs, KillPcs, locks
<1>3. CASE Kill(c)
  BY <1>3, <1>0 DEF Kill, PortsKept, Goto, ClientsTyped, Scanned, ScanFacts, LookFacts, Looking, Chosen, HoldsPorts, JobOK, InspectPcs, TryPcs, ClearPcs, KillPcs, locks
<1>4. CASE KillSurvived(c)
  BY <1>4, <1>0 DEF KillSurvived, PortsKept, Goto, ClientsTyped, Scanned, ScanFacts, LookFacts, Looking, Chosen, HoldsPorts, JobOK, InspectPcs, TryPcs, ClearPcs, KillPcs, locks
<1>. QED BY <1>1, <1>2, <1>3, <1>4 DEF Terminate

\* The scan adds what it has found out about one Session to what it knew, and a
\* port is chosen among those it has not found occupied.
LEMMA PortsAllocation ==
    ASSUME TypeInv, FileInv, PortInv, NEW c \in Clients, Allocation(c),
           NEW p, p = pc'[c], NEW f, f = job'[c]
    PROVE  PortsKept(c, p, f)
<1>0. /\ pc[c] \in PCs /\ job[c] \in Job /\ JobOK(pc[c], job[c]) /\ ClientsTyped
      /\ Scanned(pc[c], job[c])
  BY DEF TypeInv, TypeOK, ClientsTyped, JobsOK, PortInv
<1>1. CASE Scan(c)
  <2>0. pc[c] = "scan" /\ UNCHANGED portsLock
    BY <1>1, Zenon DEF Scan, locks
  <2>3. \/ \E m \in job[c].left :
           /\ Job1(c, [job[c] EXCEPT !.left = @ \ {m}, !.at = m, !.rec = NoRec, !.status = "none"])
           /\ Goto(c, "read")
        \/ /\ job[c].left = {}
           /\ Job1(c, [job[c] EXCEPT !.at = job[c].name, !.status = "none", !.rec = FirstPort])
           /\ Goto(c, "alloc")
    BY <1>1, Zenon DEF Scan
  <2>1. ASSUME NEW m \in job[c].left, Goto(c, "read"),
               Job1(c, [job[c] EXCEPT !.left = @ \ {m}, !.at = m, !.rec = NoRec, !.status = "none"])
        PROVE  PortsKept(c, p, f)
    <3>1. /\ f.left = job[c].left \ {m} /\ f.at = m /\ f.rec = NoRec /\ p = "read"
          /\ f.name = job[c].name /\ f.occ = job[c].occ
      BY <1>0, <2>1 DEF ClientsTyped, Job, Goto, Job1
    <3>2. ScanFacts(p, f)
      BY <1>0, <2>0, <3>1 DEF Scanned, ScanFacts, Chosen, TryPcs, KillPcs, ClearPcs
    <3>3. LookFacts(p, f)
      BY <3>1 DEF LookFacts
    <3>. QED BY <2>0, <3>2, <3>3 DEF PortsKept, Scanned, HoldsPorts
  <2>2. ASSUME job[c].left = {}, Goto(c, "alloc"),
               Job1(c, [job[c] EXCEPT !.at = job[c].name, !.status = "none", !.rec = FirstPort])
        PROVE  PortsKept(c, p, f)
    <3>1. /\ p = "alloc" /\ f.name = job[c].name /\ f.occ = job[c].occ /\ f.at = f.name
      BY <1>0, <2>2 DEF ClientsTyped, Job, Goto, Job1
    <3>2. ScanFacts(p, f)
      BY <1>0, <2>0, <2>2, <3>1 DEF Scanned, ScanFacts, Looking, Chosen, TryPcs, KillPcs, ClearPcs
    <3>3. LookFacts(p, f)
      BY <3>1 DEF LookFacts, Looking
    <3>. QED BY <2>0, <3>2, <3>3 DEF PortsKept, Scanned, HoldsPorts
  <2>. QED BY <2>1, <2>2, <2>3, Zenon
<1>2. CASE Tally(c)
  <2>1. pc[c] = "tally" /\ UNCHANGED portsLock /\ HoldsPorts(pc[c], job[c])
    BY <1>2 DEF Tally, locks, HoldsPorts
  <2>2. CASE job[c].status = "unreadable"
    <3>1. p = "unlock"
      BY <1>0, <1>2, <2>2 DEF Tally, Goto, ClientsTyped
    <3>. QED BY <2>1, <3>1 DEF PortsKept, Scanned, ScanFacts, LookFacts, Looking, Chosen, TryPcs, KillPcs,
                InspectPcs, ClearPcs
  <2>3. CASE job[c].status # "unreadable"
    <3>1. /\ p = "scan" /\ f.name = job[c].name /\ f.left = job[c].left
          /\ f.occ = IF Occupies(job[c].rec, job[c].status)
                     THEN job[c].occ \cup {job[c].rec.port} ELSE job[c].occ
      BY <1>0, <1>2, <2>3 DEF Tally, Goto, Job1, ClientsTyped, Job
    <3>2. Looking(pc[c], job[c])
      BY <1>0, <2>1 DEF Scanned, ScanFacts, Looking
    <3>3. Cleared(job[c].at, f.occ)
      <4>1. /\ job[c].rec = Current(job[c].at)
            /\ job[c].status = "dead" => ~Live(job[c].rec)
        BY <1>0, <2>1, <2>3, <3>2 DEF Scanned, LookFacts
      <4>2. CASE job[c].rec = NoRec
        BY <4>1, <4>2 DEF Cleared, Live
      <4>3. CASE job[c].rec # NoRec
        BY <3>1, <4>1, <4>3 DEF Cleared, Occupies, Reclaimable
      <4>. QED BY <4>2, <4>3
    <3>4. \A m \in Names \ {job[c].name} :
              m \notin job[c].left /\ m # job[c].at => Cleared(m, job[c].occ)
      BY <1>0, <3>2 DEF Scanned, ScanFacts
    <3>5. \A m \in Names \ {f.name} : m \notin f.left => Cleared(m, f.occ)
      BY <3>1, <3>3, <3>4 DEF Cleared
    <3>. QED BY <2>1, <3>1, <3>5 DEF PortsKept, Scanned, ScanFacts, LookFacts, Looking,
                Chosen, TryPcs, KillPcs, InspectPcs, ClearPcs
  <2>. QED BY <2>2, <2>3
<1>3. CASE Alloc(c)
  <2>1. pc[c] = "alloc" /\ UNCHANGED portsLock /\ HoldsPorts(pc[c], job[c])
    BY <1>3 DEF Alloc, locks, HoldsPorts
  <2>2. \A m \in Names \ {job[c].name} : Cleared(m, job[c].occ)
    BY <1>0, <2>1 DEF Scanned, ScanFacts
  <2>3. \/ p = "alloc" /\ f.name = job[c].name /\ f.occ = job[c].occ
        \/ /\ p \in {"clearSession", "prep"} /\ f.name = job[c].name
           /\ f.rec.port = job[c].rec.port /\ f.rec.port \notin job[c].occ
    BY <1>0, <1>3 DEF Alloc, Goto, Job1, ClientsTyped, Job
  <2>4. ScanFacts(p, f)
    <3>1. CASE p = "alloc"
      BY <2>2, <2>3, <3>1 DEF ScanFacts, Looking, Chosen, TryPcs, KillPcs, InspectPcs, ClearPcs
    <3>2. CASE p # "alloc"
      <4>1. \A m \in Names \ {f.name} : Distinct(m, f.rec.port)
        BY <2>2, <2>3, <3>2 DEF Cleared, Distinct
      <4>. QED BY <2>3, <3>2, <4>1 DEF ScanFacts, Looking, InspectPcs
    <3>. QED BY <3>1, <3>2
  <2>5. LookFacts(p, f)
    BY <2>3 DEF LookFacts, Looking, InspectPcs
  <2>. QED BY <2>1, <2>4, <2>5 DEF PortsKept, Scanned
<1>. QED BY <1>1, <1>2, <1>3 DEF Allocation

\* An inspection finds a Session dead only when it cannot be live.
LEMMA PortsInspection ==
    ASSUME TypeInv, FileInv, PortInv, NEW c \in Clients, Inspection(c),
           NEW p, p = pc'[c], NEW f, f = job'[c]
    PROVE  PortsKept(c, p, f)
<1>0. /\ pc[c] \in PCs /\ job[c] \in Job /\ JobOK(pc[c], job[c]) /\ ClientsTyped
      /\ Scanned(pc[c], job[c])
  BY DEF TypeInv, TypeOK, ClientsTyped, JobsOK, PortInv
<1>1. CASE Read(c)
  <2>. DEFINE r == Current(job[c].at)
  <2>0. pc[c] = "read" /\ UNCHANGED portsLock
    BY <1>1 DEF Read, locks
  <2>1. /\ p \in {"tree", "decide", "tally"} /\ (p = "tally" => job[c].at # job[c].name)
        /\ \/ p # "tree" /\ r = NoRec /\ f = [job[c] EXCEPT !.status = "not-found"]
           \/ p # "tree" /\ r # NoRec /\ f = [job[c] EXCEPT !.status = "unreadable"]
           \/ p = "tree" /\ r # NoRec /\ f = [job[c] EXCEPT !.rec = r, !.rootM = RootMatches(r)]
    BY <1>1, <1>0 DEF Read, Goto, Job1, Inspected, ClientsTyped
  <2>. HIDE DEF r
  <2>2. /\ f.name = job[c].name /\ f.at = job[c].at /\ f.left = job[c].left /\ f.occ = job[c].occ
        /\ \/ p # "tree" /\ f.rec = job[c].rec /\ (f.status = "unreadable" \/ (f.status = "not-found" /\ r = NoRec))
           \/ p = "tree" /\ r # NoRec /\ f.rec = r /\ f.rootM = RootMatches(r)
    <3>1. CASE p = "tree"
      BY <2>1, <1>0, <3>1 DEF Job
    <3>2. CASE p # "tree" /\ r = NoRec
      BY <2>1, <1>0, <3>2 DEF Job
    <3>3. CASE p # "tree" /\ r # NoRec
      <4>1. f = [job[c] EXCEPT !.status = "unreadable"]
        BY <2>1, <3>3
      <4>. QED BY <1>0, <3>3, <4>1 DEF Job
    <3>. QED BY <3>1, <3>2, <3>3
  <2>3. HoldsPorts(p, f) => HoldsPorts(pc[c], job[c])
    BY <2>0, <2>1, <2>2 DEF HoldsPorts, InspectPcs, TryPcs, ClearPcs, KillPcs
  <2>4. Looking(p, f) => Looking(pc[c], job[c])
    BY <2>0, <2>2 DEF Looking, InspectPcs
  <2>5. ScanFacts(p, f)
    BY <1>0, <2>1, <2>2, <2>4 DEF Scanned, ScanFacts, Chosen, TryPcs, KillPcs, ClearPcs
  <2>6. LookFacts(p, f)
    BY <1>0, <2>0, <2>1, <2>2, <2>4 DEF Scanned, LookFacts, r
  <2>. QED BY <2>0, <2>3, <2>5, <2>6 DEF PortsKept, Scanned
<1>2. CASE Tree(c)
  <2>. DEFINE k == Classify(job[c].rec, marker[job[c].at] = job[c].rec.launch, job[c].rootM)
  <2>0. pc[c] = "tree" /\ UNCHANGED portsLock
    BY <1>2 DEF Tree, locks
  <2>1. /\ p \in {"wire", "decide", "tally"} /\ (p = "tally" => job[c].at # job[c].name)
        /\ p # "wire" => k # "wire"
        /\ f = [job[c] EXCEPT !.rootM = FALSE, !.status = IF k = "wire" THEN "none" ELSE k]
    BY <1>2, <1>0 DEF Tree, Goto, Job1, Inspected, ClientsTyped
  <2>. HIDE DEF k
  <2>2. /\ f.name = job[c].name /\ f.at = job[c].at /\ f.left = job[c].left /\ f.occ = job[c].occ
        /\ f.rec = job[c].rec /\ (p # "wire" => f.status = k)
    BY <2>1, <1>0 DEF Job
  <2>3. HoldsPorts(p, f) => HoldsPorts(pc[c], job[c])
    BY <2>0, <2>1, <2>2 DEF HoldsPorts, InspectPcs, TryPcs, ClearPcs, KillPcs
  <2>4. Looking(p, f) => Looking(pc[c], job[c])
    BY <2>0, <2>2 DEF Looking, InspectPcs
  <2>5. ScanFacts(p, f)
    BY <1>0, <2>1, <2>2, <2>4 DEF Scanned, ScanFacts, Chosen, TryPcs, KillPcs, ClearPcs
  <2>6. ASSUME Looking(pc[c], job[c]), k = "dead" PROVE ~Live(job[c].rec)
    <3>1. job[c].rec = Current(job[c].at) /\ job[c].rec # NoRec /\ (~job[c].rootM => ~RootMatches(job[c].rec))
      BY <1>0, <2>0, <2>6 DEF Scanned, LookFacts
    <3>2. job[c].at \in Names
      BY <1>0, <2>0 DEF JobOK
    <3>3. marker[job[c].at] = job[c].rec.launch
      BY <3>1, <3>2 DEF FileInv, Agrees, Current
    <3>. QED BY <2>6, <3>1, <3>3 DEF k, Classify, Live
  <2>7. LookFacts(p, f)
    BY <1>0, <2>0, <2>1, <2>2, <2>4, <2>6 DEF Scanned, LookFacts
  <2>. QED BY <2>0, <2>3, <2>5, <2>7 DEF PortsKept, Scanned
<1>3. CASE LockWire(c)
  BY <1>3, <1>0 DEF LockWire, PortsKept, Goto, ClientsTyped, Scanned, ScanFacts, LookFacts, Looking, Chosen, HoldsPorts, JobOK, InspectPcs, TryPcs, ClearPcs, KillPcs, locks
<1>4. CASE Probe(c)
  <2>0. pc[c] = "probe" /\ UNCHANGED portsLock
    BY <1>4 DEF Probe
  <2>1. /\ p \in {"decide", "tally"} /\ (p = "tally" => job[c].at # job[c].name)
        /\ f.name = job[c].name /\ f.at = job[c].at /\ f.left = job[c].left /\ f.occ = job[c].occ
        /\ f.rec = job[c].rec /\ f.status \in {"healthy", "unhealthy"}
    BY <1>4, <1>0 DEF Probe, Goto, Job1, Inspected, ClientsTyped, Job
  <2>3. HoldsPorts(p, f) => HoldsPorts(pc[c], job[c])
    BY <2>0, <2>1 DEF HoldsPorts, InspectPcs, TryPcs, ClearPcs, KillPcs
  <2>4. Looking(p, f) => Looking(pc[c], job[c])
    BY <2>0, <2>1 DEF Looking, InspectPcs
  <2>5. ScanFacts(p, f)
    BY <1>0, <2>1, <2>4 DEF Scanned, ScanFacts, Chosen, TryPcs, KillPcs, ClearPcs
  <2>6. LookFacts(p, f)
    BY <1>0, <2>0, <2>1, <2>4 DEF Scanned, LookFacts
  <2>. QED BY <2>0, <2>3, <2>5, <2>6 DEF PortsKept, Scanned
<1>. QED BY <1>1, <1>2, <1>3, <1>4 DEF Inspection

\* A crash or an interruption ends the scan.
LEMMA PortsFault ==
    ASSUME TypeInv, FileInv, PortInv, NEW c \in Clients, ClientFault(c),
           NEW p, p = pc'[c], NEW f, f = job'[c]
    PROVE  Scanned(p, f) /\ (HoldsPorts(p, f) => HoldsPorts(pc[c], job[c]))
<1>0. /\ pc[c] \in PCs /\ job[c] \in Job /\ JobOK(pc[c], job[c]) /\ ClientsTyped
      /\ Scanned(pc[c], job[c])
  BY DEF TypeInv, TypeOK, ClientsTyped, JobsOK, PortInv
<1>1. CASE Crash(c)
  BY <1>1, <1>0 DEF Crash, PortsKept, Goto, ClientsTyped, Scanned, ScanFacts, LookFacts, Looking, Chosen, HoldsPorts, JobOK, InspectPcs, TryPcs, ClearPcs, KillPcs, locks, Job1, NoJob
<1>2. CASE Interrupt(c)
  BY <1>2, <1>0 DEF Interrupt, PortsKept, Goto, ClientsTyped, Scanned, ScanFacts, LookFacts, Looking, Chosen, HoldsPorts, JobOK, InspectPcs, TryPcs, ClearPcs, KillPcs, locks, AfterInterrupt
<1>. QED BY <1>1, <1>2 DEF ClientFault

\* Locks and decisions: only two of them concern the ports lock.
LEMMA PortsControl ==
    ASSUME TypeInv, FileInv, PortInv, NEW c \in Clients, Control(c), ~LockPorts(c), ~UnlockPorts(c),
           NEW p, p = pc'[c], NEW f, f = job'[c]
    PROVE  PortsKept(c, p, f)
<1>0. /\ pc[c] \in PCs /\ job[c] \in Job /\ JobOK(pc[c], job[c]) /\ ClientsTyped
      /\ Scanned(pc[c], job[c])
  BY DEF TypeInv, TypeOK, ClientsTyped, JobsOK, PortInv
<1>1. CASE LockName(c)
  BY <1>1, <1>0 DEF LockName, PortsKept, Goto, ClientsTyped, Scanned, ScanFacts, LookFacts, Looking, Chosen, HoldsPorts, JobOK, InspectPcs, TryPcs, ClearPcs, KillPcs, locks
<1>2. CASE Fence(c)
  BY <1>2, <1>0 DEF Fence, PortsKept, Goto, ClientsTyped, Scanned, ScanFacts, LookFacts, Looking, Chosen, HoldsPorts, JobOK, InspectPcs, TryPcs, ClearPcs, KillPcs, locks
<1>3. CASE Decide(c)
  BY <1>3, <1>0 DEF Decide, PortsKept, Goto, ClientsTyped, Scanned, ScanFacts, LookFacts, Looking, Chosen, HoldsPorts, JobOK, InspectPcs, TryPcs, ClearPcs, KillPcs, locks, Job1, Job, Verdicts
<1>4. CASE Call(c)
  BY <1>4, <1>0 DEF Call, PortsKept, Goto, ClientsTyped, Scanned, ScanFacts, LookFacts, Looking, Chosen, HoldsPorts, JobOK, InspectPcs, TryPcs, ClearPcs, KillPcs, locks
<1>5. CASE Reply(c)
  BY <1>5, <1>0 DEF Reply, PortsKept, Goto, ClientsTyped, Scanned, ScanFacts, LookFacts, Looking, Chosen, HoldsPorts, JobOK, InspectPcs, TryPcs, ClearPcs, KillPcs, locks
<1>6. CASE UnlockName(c)
  BY <1>6, <1>0 DEF UnlockName, PortsKept, Goto, ClientsTyped, Scanned, ScanFacts, LookFacts, Looking, Chosen, HoldsPorts, JobOK, InspectPcs, TryPcs, ClearPcs, KillPcs, locks, Job1, NoJob
<1>. QED BY <1>1, <1>2, <1>3, <1>4, <1>5, <1>6 DEF Control

\* Records and reports that a step of c removes; it writes none
Sheds(c) ==
    \A n \in Names : /\ session'[n] \in {session[n], NoRec}
                    /\ launching'[n] \in {launching[n], NoRec}
                    /\ boot'[n] \in {boot[n], NoBoot}

\* Where a start has its provisional record on disk
WrittenPcs == {"open", "await"} \cup NamedPcs

\* An inspection writes no record and is no part of a launch.
LEMMA ShedsInspection ==
    ASSUME TypeInv, NEW c \in Clients, Inspection(c)
    PROVE  Sheds(c) /\ pc'[c] \notin WrittenPcs
<1>0. pc[c] \in PCs /\ ClientsTyped /\ FilesTyped
  BY DEF TypeInv, TypeOK, ClientsTyped
<1>1. CASE Read(c)
  BY <1>1, <1>0 DEF Read, Sheds, WrittenPcs, NamedPcs, Goto, ClientsTyped, FilesTyped, files, KillPcs, ClearPcs, TryPcs, InspectPcs, Inspected
<1>2. CASE Tree(c)
  BY <1>2, <1>0 DEF Tree, Sheds, WrittenPcs, NamedPcs, Goto, ClientsTyped, FilesTyped, files, KillPcs, ClearPcs, TryPcs, InspectPcs, Inspected
<1>3. CASE LockWire(c)
  BY <1>3, <1>0 DEF LockWire, Sheds, WrittenPcs, NamedPcs, Goto, ClientsTyped, FilesTyped, files, KillPcs, ClearPcs, TryPcs, InspectPcs
<1>4. CASE Probe(c)
  BY <1>4, <1>0 DEF Probe, Sheds, WrittenPcs, NamedPcs, Goto, ClientsTyped, FilesTyped, files, KillPcs, ClearPcs, TryPcs, InspectPcs, Inspected
<1>. QED BY <1>1, <1>2, <1>3, <1>4 DEF Inspection

\* Nor is the allocation of a port.
LEMMA ShedsAllocation ==
    ASSUME TypeInv, NEW c \in Clients, Allocation(c)
    PROVE  Sheds(c) /\ pc'[c] \notin WrittenPcs
<1>0. pc[c] \in PCs /\ ClientsTyped /\ FilesTyped
  BY DEF TypeInv, TypeOK, ClientsTyped
<1>1. CASE Scan(c)
  <2>1. UNCHANGED files /\ (Goto(c, "read") \/ Goto(c, "alloc"))
    BY <1>1, Zenon DEF Scan
  <2>. QED BY <1>0, <2>1 DEF Sheds, WrittenPcs, NamedPcs, Goto, ClientsTyped, FilesTyped, files
<1>2. CASE Tally(c)
  BY <1>2, <1>0 DEF Tally, Sheds, WrittenPcs, NamedPcs, Goto, ClientsTyped, FilesTyped, files, KillPcs, ClearPcs, TryPcs, InspectPcs
<1>3. CASE Alloc(c)
  BY <1>3, <1>0 DEF Alloc, Sheds, WrittenPcs, NamedPcs, Goto, ClientsTyped, FilesTyped, files, KillPcs, ClearPcs, TryPcs, InspectPcs
<1>. QED BY <1>1, <1>2, <1>3 DEF Allocation

\* A removal only removes.
LEMMA ShedsRemoval ==
    ASSUME TypeInv, NEW c \in Clients, Removal(c)
    PROVE  Sheds(c) /\ pc'[c] \notin WrittenPcs
<1>0. pc[c] \in PCs /\ ClientsTyped /\ FilesTyped
  BY DEF TypeInv, TypeOK, ClientsTyped
<1>1. CASE ClearSession(c)
  BY <1>1, <1>0 DEF ClearSession, Sheds, WrittenPcs, NamedPcs, Goto, ClientsTyped, FilesTyped, files, KillPcs, ClearPcs, TryPcs, InspectPcs
<1>2. CASE ClearLaunching(c)
  BY <1>2, <1>0 DEF ClearLaunching, Sheds, WrittenPcs, NamedPcs, Goto, ClientsTyped, FilesTyped, files, KillPcs, ClearPcs, TryPcs, InspectPcs
<1>3. CASE ClearMarker(c)
  BY <1>3, <1>0 DEF ClearMarker, Sheds, WrittenPcs, NamedPcs, Goto, ClientsTyped, FilesTyped, files, KillPcs, ClearPcs, TryPcs, InspectPcs
<1>4. CASE ClearBoot(c)
  BY <1>4, <1>0 DEF ClearBoot, Sheds, WrittenPcs, NamedPcs, Goto, ClientsTyped, FilesTyped, files, KillPcs, ClearPcs, TryPcs, InspectPcs, Removed, DropHandshake
<1>. QED BY <1>1, <1>2, <1>3, <1>4 DEF Removal

\* A termination writes no record.
LEMMA ShedsTerminate ==
    ASSUME TypeInv, NEW c \in Clients, Terminate(c)
    PROVE  Sheds(c) /\ pc'[c] \notin WrittenPcs
<1>0. pc[c] \in PCs /\ ClientsTyped /\ FilesTyped
  BY DEF TypeInv, TypeOK, ClientsTyped
<1>1. CASE TermAbsent(c)
  BY <1>1, <1>0 DEF TermAbsent, Sheds, WrittenPcs, NamedPcs, Goto, ClientsTyped, FilesTyped, files, KillPcs, ClearPcs, TryPcs, InspectPcs
<1>2. CASE TermSignal(c)
  BY <1>2, <1>0 DEF TermSignal, Sheds, WrittenPcs, NamedPcs, Goto, ClientsTyped, FilesTyped, files, KillPcs, ClearPcs, TryPcs, InspectPcs
<1>3. CASE Kill(c)
  BY <1>3, <1>0 DEF Kill, Sheds, WrittenPcs, NamedPcs, Goto, ClientsTyped, FilesTyped, files, KillPcs, ClearPcs, TryPcs, InspectPcs
<1>4. CASE KillSurvived(c)
  BY <1>4, <1>0 DEF KillSurvived, Sheds, WrittenPcs, NamedPcs, Goto, ClientsTyped, FilesTyped, files, KillPcs, ClearPcs, TryPcs, InspectPcs
<1>. QED BY <1>1, <1>2, <1>3, <1>4 DEF Terminate

\* Locks and decisions write no record.
LEMMA ShedsControl ==
    ASSUME TypeInv, NEW c \in Clients, Control(c)
    PROVE  Sheds(c) /\ pc'[c] \notin WrittenPcs
<1>0. pc[c] \in PCs /\ ClientsTyped /\ FilesTyped
  BY DEF TypeInv, TypeOK, ClientsTyped
<1>1. CASE LockName(c)
  BY <1>1, <1>0 DEF LockName, Sheds, WrittenPcs, NamedPcs, Goto, ClientsTyped, FilesTyped, files, KillPcs, ClearPcs, TryPcs, InspectPcs
<1>2. CASE Fence(c)
  BY <1>2, <1>0 DEF Fence, Sheds, WrittenPcs, NamedPcs, Goto, ClientsTyped, FilesTyped, files, KillPcs, ClearPcs, TryPcs, InspectPcs
<1>3. CASE Decide(c)
  BY <1>3, <1>0 DEF Decide, Sheds, WrittenPcs, NamedPcs, Goto, ClientsTyped, FilesTyped, files, KillPcs, ClearPcs, TryPcs, InspectPcs, Verdicts
<1>4. CASE LockPorts(c)
  BY <1>4, <1>0 DEF LockPorts, Sheds, WrittenPcs, NamedPcs, Goto, ClientsTyped, FilesTyped, files, KillPcs, ClearPcs, TryPcs, InspectPcs
<1>5. CASE Call(c)
  BY <1>5, <1>0 DEF Call, Sheds, WrittenPcs, NamedPcs, Goto, ClientsTyped, FilesTyped, files, KillPcs, ClearPcs, TryPcs, InspectPcs
<1>6. CASE Reply(c)
  BY <1>6, <1>0 DEF Reply, Sheds, WrittenPcs, NamedPcs, Goto, ClientsTyped, FilesTyped, files, KillPcs, ClearPcs, TryPcs, InspectPcs
<1>7. CASE UnlockPorts(c)
  BY <1>7, <1>0 DEF UnlockPorts, Sheds, WrittenPcs, NamedPcs, Goto, ClientsTyped, FilesTyped, files, KillPcs, ClearPcs, TryPcs, InspectPcs
<1>8. CASE UnlockName(c)
  BY <1>8, <1>0 DEF UnlockName, Sheds, WrittenPcs, NamedPcs, Goto, ClientsTyped, FilesTyped, files, KillPcs, ClearPcs, TryPcs, InspectPcs
<1>. QED BY <1>1, <1>2, <1>3, <1>4, <1>5, <1>6, <1>7, <1>8 DEF Control

\* Nor does a crash or an interruption.
LEMMA ShedsClientFault ==
    ASSUME TypeInv, NEW c \in Clients, ClientFault(c)
    PROVE  Sheds(c) /\ pc'[c] \notin WrittenPcs
<1>0. pc[c] \in PCs /\ ClientsTyped /\ FilesTyped
  BY DEF TypeInv, TypeOK, ClientsTyped
<1>1. CASE Crash(c)
  BY <1>1, <1>0 DEF Crash, Sheds, WrittenPcs, NamedPcs, Goto, ClientsTyped, FilesTyped, files, KillPcs, ClearPcs, TryPcs, InspectPcs
<1>2. CASE Interrupt(c)
  BY <1>2, <1>0 DEF Interrupt, Sheds, WrittenPcs, NamedPcs, Goto, ClientsTyped, FilesTyped, files, KillPcs, ClearPcs, TryPcs, InspectPcs, AfterInterrupt
<1>. QED BY <1>1, <1>2 DEF ClientFault

\* A launch writes a record in two of its steps only, and between them keeps the
\* port it recorded and, once it has one, a Blender that was started.
LEMMA ShedsLaunch ==
    ASSUME TypeInv, BornInv, NEW c \in Clients, Launch(c), ~Provisional(c), ~RecordSession(c),
           OwnFacts(pc[c], job[c], launching[job[c].name])
    PROVE  /\ Sheds(c)
           /\ pc'[c] \in NamedPcs => root[job'[c].rec.blender] # "none"
           /\ OwnFacts(pc'[c], job'[c], launching'[job'[c].name])
<1>0. /\ pc[c] \in PCs /\ job[c] \in Job /\ JobOK(pc[c], job[c]) /\ ClientsTyped /\ FilesTyped
      /\ pc[c] \in NamedPcs => root[job[c].rec.blender] # "none"
  BY DEF TypeInv, TypeOK, ClientsTyped, JobsOK, BornInv
<1>1. CASE Prep(c)
  BY <1>1, <1>0 DEF Prep, Sheds, OwnFacts, NamedPcs, Goto, ClientsTyped, FilesTyped, files, TryPcs, ClearPcs, KillPcs, JobOK, DropHandshake, Job1, Job
<1>2. CASE Spawn(c)
  BY <1>2, <1>0 DEF Spawn, Sheds, OwnFacts, NamedPcs, Goto, ClientsTyped, FilesTyped, files, TryPcs, ClearPcs, KillPcs, JobOK
<1>3. CASE Identify(c)
  BY <1>3, <1>0 DEF Identify, Sheds, OwnFacts, NamedPcs, Goto, ClientsTyped, FilesTyped, files, TryPcs, ClearPcs, KillPcs, JobOK
<1>4. CASE Mark(c)
  BY <1>4, <1>0 DEF Mark, Sheds, OwnFacts, NamedPcs, Goto, ClientsTyped, FilesTyped, files, TryPcs, ClearPcs, KillPcs, JobOK
<1>5. CASE OpenGate(c)
  BY <1>5, <1>0 DEF OpenGate, Sheds, OwnFacts, NamedPcs, Goto, ClientsTyped, FilesTyped, files, TryPcs, ClearPcs, KillPcs, JobOK
<1>6. CASE AwaitPid(c)
  <2>. DEFINE n == job[c].name
  <2>1. /\ pc[c] = "await" /\ boot[n].is = "pid" /\ UNCHANGED files /\ pc'[c] = "blender"
    BY <1>6, <1>0 DEF AwaitPid, Goto, ClientsTyped
  <2>2. /\ job'[c].rec.blender = boot[n].blender /\ job'[c].rec.port = job[c].rec.port
        /\ job'[c].name = n
    BY <1>6, <1>0 DEF AwaitPid, Job1, Job, Record, ClientsTyped
  <2>3. n \in Names
    BY <1>0, <2>1 DEF JobOK
  <2>4. root[boot[n].blender] # "none"
    BY <2>1, <2>3 DEF BornInv
  <2>. QED BY <2>1, <2>2, <2>3, <2>4 DEF Sheds, NamedPcs, OwnFacts, files
<1>7. CASE AwaitFails(c)
  BY <1>7, <1>0 DEF AwaitFails, Sheds, OwnFacts, NamedPcs, Goto, ClientsTyped, FilesTyped, files, TryPcs, ClearPcs, KillPcs, JobOK
<1>8. CASE BlenderIdentity(c)
  BY <1>8, <1>0 DEF BlenderIdentity, Sheds, OwnFacts, NamedPcs, Goto, ClientsTyped, FilesTyped, files, TryPcs, ClearPcs, KillPcs, JobOK
<1>9. CASE Promote(c)
  BY <1>9, <1>0 DEF Promote, Sheds, OwnFacts, NamedPcs, Goto, ClientsTyped, FilesTyped, files, TryPcs, ClearPcs, KillPcs, JobOK
<1>10. CASE Finally(c)
  BY <1>10, <1>0 DEF Finally, Sheds, OwnFacts, NamedPcs, Goto, ClientsTyped, FilesTyped, files, TryPcs, ClearPcs, KillPcs, JobOK, DropHandshake
<1>. QED BY <1>1, <1>2, <1>3, <1>4, <1>5, <1>6, <1>7, <1>8, <1>9, <1>10 DEF Launch

\* Only the holder of the ports lock writes or removes records.
LEMMA Writers ==
    ASSUME TypeInv, NEW c \in Clients, ClientStep(c) \/ ClientFault(c), ~HoldsPorts(pc[c], job[c])
    PROVE  UNCHANGED <<session, launching>>
<1>1. CASE Control(c)
  BY <1>1 DEF Control, LockName, Fence, Decide, LockPorts, Call, Reply, UnlockPorts, UnlockName, files
<1>2. CASE Inspection(c)
  BY <1>2 DEF Inspection, Read, Tree, LockWire, Probe, files
<1>3. CASE Allocation(c)
  BY <1>3, Zenon DEF Allocation, Scan, Tally, Alloc, files
<1>4. CASE Removal(c)
  BY <1>4 DEF Removal, ClearSession, ClearLaunching, ClearMarker, ClearBoot, HoldsPorts, ClearPcs
<1>5. CASE Launch(c)
  BY <1>5 DEF Launch, Prep, Spawn, Identify, Mark, Provisional, OpenGate, AwaitPid, AwaitFails,
     BlenderIdentity, RecordSession, Promote, Finally, HoldsPorts, TryPcs, files
<1>6. CASE Terminate(c)
  BY <1>6 DEF Terminate, TermAbsent, TermSignal, Kill, KillSurvived, files
<1>7. CASE ClientFault(c)
  BY <1>7 DEF ClientFault, Crash, Interrupt, files
<1>. QED BY <1>1, <1>2, <1>3, <1>4, <1>5, <1>6, <1>7 DEF ClientStep

\* The ports lock stays with its holder.
LEMMA PortsLocksClient ==
    ASSUME TypeInv, FileInv, PortInv, NEW c \in Clients, ClientStep(c) \/ ClientFault(c)
    PROVE  PortsLocks' /\ Scanned(pc'[c], job'[c])
<1>0. /\ Moves(c) /\ PortsLocks /\ ClientsTyped /\ JobOK(pc[c], job[c])
      /\ portsLock \in Clients \cup {Free}
  BY MovesControl, MovesInspection, MovesAllocation, MovesRemoval, MovesLaunch, MovesTerminate,
     MovesClientFault DEF ClientStep, PortInv, TypeInv, TypeOK, LocksTyped, JobsOK
<1>1. ASSUME UNCHANGED portsLock, HoldsPorts(pc'[c], job'[c]) => HoldsPorts(pc[c], job[c])
      PROVE  PortsLocks'
  BY <1>0, <1>1 DEF PortsLocks, Moves
<1>2. PICK p : p = pc'[c]
  OBVIOUS
<1>3. PICK f : f = job'[c]
  OBVIOUS
<1>4. CASE Inspection(c) \/ Allocation(c) \/ Removal(c) \/ Launch(c) \/ Terminate(c)
  <2>1. PortsKept(c, p, f)
    BY <1>2, <1>3, <1>4, PortsInspection, PortsAllocation, PortsRemoval, PortsLaunch, PortsTerminate
  <2>. QED BY <1>1, <1>2, <1>3, <2>1 DEF PortsKept
<1>5. CASE LockPorts(c)
  <2>1. portsLock = Free /\ portsLock' = c
    BY <1>5 DEF LockPorts
  <2>2. PortsLocks'
    BY <1>0, <2>1, NullAssumption DEF PortsLocks, Moves
  <2>3. \/ p = "scan" /\ f.left = Names \ {f.name}
        \/ p \in {"term", "clearSession"} /\ f.op # "start" /\ ~f.fresh
    <3>1. ~job[c].fresh
      BY <1>0, <1>5 DEF LockPorts, TypeInv, JobsOK, JobOK, FreshPcs, TryPcs, ClearPcs, KillPcs
    <3>. QED BY <1>0, <1>2, <1>3, <1>5, <3>1 DEF LockPorts, Goto, Job1, ClientsTyped, Job
  <2>4. Scanned(p, f)
    BY <2>3 DEF Scanned, ScanFacts, LookFacts, Looking, Chosen, TryPcs, KillPcs, InspectPcs, ClearPcs
  <2>. QED BY <1>2, <1>3, <2>2, <2>4
<1>6. CASE UnlockPorts(c)
  <2>1. portsLock = c /\ portsLock' = Free /\ pc[c] = "unlock" /\ UNCHANGED <<pc, job>>
    BY <1>6 DEF UnlockPorts
  <2>2. PortsLocks'
    BY <1>0, <2>1 DEF PortsLocks, HoldsPorts, TryPcs, ClearPcs, KillPcs, InspectPcs
  <2>. QED BY <2>1, <2>2 DEF Scanned, ScanFacts, LookFacts, Looking, Chosen, TryPcs, KillPcs, InspectPcs, ClearPcs
<1>7. CASE Control(c) /\ ~LockPorts(c) /\ ~UnlockPorts(c)
  <2>1. PortsKept(c, p, f)
    BY <1>2, <1>3, <1>7, PortsControl
  <2>. QED BY <1>1, <1>2, <1>3, <2>1 DEF PortsKept
<1>8. CASE ClientFault(c)
  <2>1. Scanned(p, f) /\ (HoldsPorts(p, f) => HoldsPorts(pc[c], job[c]))
    BY <1>2, <1>3, <1>8, PortsFault
  <2>2. CASE Interrupt(c)
    BY <1>1, <1>2, <1>3, <2>1, <2>2 DEF Interrupt, locks
  <2>3. CASE Crash(c)
    <3>1. pc'[c] = "idle" /\ portsLock' = IF portsLock = c THEN Free ELSE portsLock
      BY <1>0, <2>3 DEF Crash, Goto, ClientsTyped
    <3>2. PortsLocks'
      BY <1>0, <3>1 DEF PortsLocks, Moves, HoldsPorts, TryPcs, ClearPcs, KillPcs, InspectPcs
    <3>. QED BY <1>2, <1>3, <2>1, <3>2
  <2>. QED BY <1>8, <2>2, <2>3 DEF ClientFault
<1>. QED BY <1>4, <1>5, <1>6, <1>7, <1>8 DEF ClientStep

\* What every client has found out stays true under a step of one of them.
LEMMA ScannedClient ==
    ASSUME TypeInv, TypeInv', FileInv, PortInv, Fades, NEW c \in Clients,
           ClientStep(c) \/ ClientFault(c), NEW d \in Clients
    PROVE  Scanned(pc[d], job[d])'
<1>0. Moves(c) /\ BornInv /\ PortsLocks
  BY MovesControl, MovesInspection, MovesAllocation, MovesRemoval, MovesLaunch, MovesTerminate,
     MovesClientFault DEF ClientStep, PortInv
<1>1. PICK p : p = pc'[d]
  OBVIOUS
<1>2. PICK f : f = job'[d]
  OBVIOUS
<1>3. CASE ~HoldsPorts(p, f)
  BY <1>1, <1>2, <1>3 DEF HoldsPorts, Scanned, ScanFacts, LookFacts, Looking, Chosen, KillPcs, TryPcs
<1>4. CASE HoldsPorts(p, f)
  <2>1. p # "idle"
    BY <1>4 DEF HoldsPorts, TryPcs, ClearPcs, KillPcs, InspectPcs
  <2>2. f.at \in Names
    BY <1>1, <1>2, <2>1 DEF TypeInv, JobsOK, JobOK
  <2>3. Scanned(p, f) /\ \A m \in Names \ {f.name} : session'[m] = session[m] /\ launching'[m] = launching[m]
    <3>1. CASE d = c
      <4>1. Scanned(p, f)
        BY <1>1, <1>2, <3>1, PortsLocksClient
      <4>2. f.name = job[c].name
        BY <1>0, <1>1, <1>2, <2>1, <3>1 DEF Moves, SameErrand
      <4>. QED BY <1>0, <4>1, <4>2 DEF Moves
    <3>2. CASE d # c
      <4>1. p = pc[d] /\ f = job[d]
        BY <1>0, <1>1, <1>2, <3>2 DEF Moves
      <4>2. ~HoldsPorts(pc[c], job[c])
        BY <1>0, <1>4, <3>2, <4>1 DEF PortsLocks
      <4>. QED BY <4>1, <4>2, Writers DEF PortInv
    <3>. QED BY <3>1, <3>2
  <2>4. Scanned(p, f)'
    BY <1>0, <2>2, <2>3, ScanTo
  <2>. QED BY <1>1, <1>2, <2>4
<1>. QED BY <1>3, <1>4

\* Records that are born, and reports of Blenders that were started, stay so.
LEMMA BornKept ==
    ASSUME TypeInv', Fades,
           \A n \in Names : Born(session'[n]) /\ Born(launching'[n]),
           \A n \in Names : boot'[n].is = "pid" => root[boot'[n].blender] # "none",
           \A d \in Clients : pc'[d] \in NamedPcs => root[job'[d].rec.blender] # "none"
    PROVE  BornInv'
<1>1. ASSUME NEW n \in Names PROVE Born(session[n])' /\ Born(launching[n])'
  <2>1. PICK r : r = session'[n]
    OBVIOUS
  <2>2. PICK q : q = launching'[n]
    OBVIOUS
  <2>3. /\ r # NoRec => r.launch \in Launches /\ r.blender \in Launches \cup {0}
        /\ q # NoRec => q.launch \in Launches /\ q.blender \in Launches \cup {0}
    BY <2>1, <2>2 DEF TypeInv, TypeOK, FilesTyped, FinalRecord, ProvisionalRecord
  <2>4. Born(r)' /\ Born(q)'
    BY <2>1, <2>2, <2>3, RecordFades
  <2>. QED BY <2>1, <2>2, <2>4
<1>2. ASSUME NEW l \in Launches, root[l] # "none" PROVE root'[l] # "none"
  BY <1>2 DEF Fades
<1>3. \A n \in Names : boot'[n].is = "pid" => boot'[n].blender \in Launches
  <2>1. \A n \in Names : boot'[n] \in Boot
    BY DEF TypeInv, TypeOK, FilesTyped
  <2>. QED BY <2>1 DEF Boot
<1>4. \A d \in Clients : pc'[d] \in NamedPcs => job'[d].rec.blender \in Launches
  BY DEF TypeInv, JobsOK, JobOK, NamedPcs
<1>. QED BY <1>1, <1>2, <1>3, <1>4 DEF BornInv

\* What is left to show when a Session only loses records: it stays the same
\* launch on the same port, or is no more.
LEMMA ShedFades ==
    ASSUME TypeInv, FileInv, PortInv, Fades, NEW c, Sheds(c), NEW n \in Names, Live(Current(n))'
    PROVE  Live(Current(n)) /\ Current(n)'.port = Current(n).port
<1>1. PICK r : r = Current(n)'
  OBVIOUS
<1>2. r # NoRec /\ Live(r)'
  BY <1>1 DEF Live
<1>3. \/ r = Current(n)
      \/ session[n] # NoRec /\ r = launching[n]
  BY <1>1, <1>2 DEF Sheds, Current
<1>4. CASE r = Current(n)
  BY <1>1, <1>2, <1>4, RecordTyped, CurrentBorn, RecordFades DEF PortInv
<1>5. CASE session[n] # NoRec /\ r = launching[n]
  <2>1. Current(n) = session[n] /\ r.port = session[n].port /\ r.launch = session[n].launch
    BY <1>2, <1>5 DEF Current, PortInv, SamePort, FileInv, Agrees
  <2>2. r.launch \in Launches /\ r.blender = 0
    BY <1>2, <1>5, RecordTyped
  <2>3. Born(r)
    BY <1>5 DEF PortInv, BornInv
  <2>4. Live(r)
    BY <1>2, <2>2, <2>3, RecordFades
  <2>5. r.blender # r.launch
    BY <2>2 DEF Launches
  <2>6. SupAlive(session[n].launch)
    BY <2>1, <2>2, <2>4, <2>5 DEF Live, TreeExists, RootMatches
  <2>7. Live(session[n])
    BY <1>5, <2>6 DEF Live, TreeExists
  <2>. QED BY <1>1, <2>1, <2>7
<1>. QED BY <1>3, <1>4, <1>5

\* When no Session comes to life, live Sessions keep their ports apart.
LEMMA UniqueKept ==
    ASSUME UniqueLivePorts,
           \A n \in Names : Live(Current(n))' =>
               Live(Current(n)) /\ Current(n)'.port = Current(n).port
    PROVE  UniqueLivePorts'
BY DEF UniqueLivePorts

\* When one does, nobody else may have its port.
LEMMA UniqueGained ==
    ASSUME TypeInv, BornInv, Fades, UniqueLivePorts, NEW n \in Names, NEW q,
           Current(n)'.port = q, \A m \in Names \ {n} : Distinct(m, q),
           \A m \in Names \ {n} : session'[m] = session[m] /\ launching'[m] = launching[m]
    PROVE  UniqueLivePorts'
<1>1. \A m \in Names \ {n} : /\ Current(m)' = Current(m)
                             /\ Live(Current(m))' => Live(Current(m))
  BY CurrentFades
<1>2. \A m \in Names \ {n} : Live(Current(m))' => Current(m)'.port # q
  BY <1>1 DEF Distinct
<1>. QED BY <1>1, <1>2 DEF UniqueLivePorts

\* A step of one client keeps to itself what another knows of its own record.
LEMMA OwnOthers ==
    ASSUME TypeInv, FileInv, PortInv, NEW c \in Clients, Moves(c), NEW d \in Clients \ {c},
           pc[c] # "lock" \/ UNCHANGED launching, pc'[d] # "idle"
    PROVE  OwnFacts(pc'[d], job'[d], launching'[job'[d].name])
<1>1. pc'[d] = pc[d] /\ job'[d] = job[d] /\ OwnFacts(pc[d], job[d], launching[job[d].name])
  BY DEF Moves, PortInv
<1>2. CASE pc[d] = "lock"
  BY <1>1, <1>2 DEF OwnFacts
<1>3. CASE pc[d] # "lock"
  <2>1. launching'[job[d].name] = launching[job[d].name]
    <3>1. CASE UNCHANGED launching
      BY <3>1
    <3>2. CASE pc[c] # "lock"
      <4>1. job[d].name # job[c].name
        BY <1>1, <1>3, <3>2, NamesDiffer DEF FileInv, Moves
      <4>2. job[d].name \in Names
        BY <1>1 DEF TypeInv, JobsOK, JobOK
      <4>. QED BY <4>1, <4>2 DEF Moves
    <3>. QED BY <3>1, <3>2
  <2>. QED BY <1>1, <2>1
<1>. QED BY <1>2, <1>3

\* The last facts about ports, under a client's step that writes no record.
LEMMA PortSheds ==
    ASSUME TypeInv, TypeInv', FileInv, PortInv, Fades, NEW c \in Clients, Moves(c), Sheds(c),
           pc'[c] \in NamedPcs => root[job'[c].rec.blender] # "none"
    PROVE  BornInv' /\ (\A n \in Names : SamePort(n)') /\ UniqueLivePorts'
<1>1. \A n \in Names : Born(session'[n]) /\ Born(launching'[n])
  BY DEF Sheds, PortInv, BornInv, Born
<1>2. \A n \in Names : boot'[n].is = "pid" => root[boot'[n].blender] # "none"
  BY DEF Sheds, PortInv, BornInv, NoBoot
<1>3. \A d \in Clients : pc'[d] \in NamedPcs => root[job'[d].rec.blender] # "none"
  BY DEF Moves, PortInv, BornInv
<1>4. BornInv'
  BY <1>1, <1>2, <1>3, BornKept
<1>5. \A n \in Names : SamePort(n)'
  BY DEF Sheds, PortInv, SamePort
<1>6. UniqueLivePorts'
  BY ShedFades, UniqueKept DEF PortInv
<1>. QED BY <1>4, <1>5, <1>6

\* ... and under the two that write one.
LEMMA PortRecords ==
    ASSUME TypeInv, TypeInv', FileInv, ProcInv, PortInv, Fades, NEW c \in Clients,
           Provisional(c) \/ RecordSession(c)
    PROVE  /\ BornInv' /\ (\A n \in Names : SamePort(n)') /\ UniqueLivePorts'
           /\ OwnFacts(pc'[c], job'[c], launching'[job'[c].name])
<1>n. PICK n : n = job[c].name
  OBVIOUS
<1>r. PICK r : r = job[c].rec
  OBVIOUS
<1>0. /\ pc[c] \in {"provisional", "record"} /\ n \in Names /\ job[c].fresh /\ job[c].op = "start"
      /\ ClientsTyped /\ FilesTyped /\ r \in Record /\ r.launch = job[c].sid
      /\ r.launch \in Launches
  BY <1>n, <1>r DEF TypeInv, TypeOK, ClientsTyped, JobsOK, JobOK, Provisional, RecordSession, TryPcs, Job
<1>1. sup[r.launch] # "unborn" /\ r # NoRec
  BY <1>n, <1>r, <1>0 DEF ProcInv, Minted, TryPcs, NoRec, Launches
<1>2. Moves(c) /\ UNCHANGED <<boot, job>>
  BY MovesLaunch DEF Launch, Provisional, RecordSession
<1>3. \A m \in Names \ {n} : session'[m] = session[m] /\ launching'[m] = launching[m]
  BY <1>n, <1>r, <1>2 DEF Moves
<1>4. \A m \in Names \ {n} : Distinct(m, r.port)
  BY <1>n, <1>r, <1>0 DEF PortInv, Scanned, ScanFacts, Chosen, TryPcs, KillPcs
<1>5. CASE Provisional(c)
  <2>1. /\ launching'[n] = r /\ session' = session /\ r.blender = 0 /\ pc[c] = "provisional"
        /\ pc'[c] = "open"
    BY <1>n, <1>r, <1>0, <1>5 DEF Provisional, TypeInv, JobsOK, JobOK, FilesTyped, Goto, ClientsTyped
  <2>2. session[n] = NoRec
    BY <1>n, <1>r, <1>0, <2>1 DEF FileInv, Knows, Facts, MarkFacts
  <2>3. Born(r)
    BY <1>n, <1>r, <1>1, <2>1 DEF Born
  <2>4. \A m \in Names : Born(session'[m]) /\ Born(launching'[m])
    BY <1>n, <1>r, <1>3, <2>1, <2>3 DEF PortInv, BornInv
  <2>5. BornInv'
    <3>1. \A d \in Clients : pc'[d] \in NamedPcs => root[job'[d].rec.blender] # "none"
      BY <1>n, <1>r, <1>2, <2>1 DEF Moves, NamedPcs, PortInv, BornInv
    <3>2. \A m \in Names : boot'[m].is = "pid" => root[boot'[m].blender] # "none"
      BY <1>n, <1>r, <1>2 DEF PortInv, BornInv
    <3>. QED BY <1>n, <1>r, <2>4, <3>1, <3>2, BornKept
  <2>6. \A m \in Names : SamePort(m)'
    BY <1>n, <1>r, <1>3, <2>1, <2>2 DEF PortInv, SamePort
  <2>7. Current(n)'.port = r.port
    BY <1>n, <1>r, <2>1, <2>2 DEF Current
  <2>8. UniqueLivePorts'
    BY <1>n, <1>r, <1>0, <1>3, <1>4, <2>7, UniqueGained DEF PortInv
  <2>. QED BY <1>n, <1>r, <1>2, <2>1, <2>5, <2>6, <2>8 DEF OwnFacts
<1>6. CASE RecordSession(c)
  <2>1. /\ session'[n] = r /\ launching' = launching /\ pc[c] = "record" /\ pc'[c] = "promote"
    BY <1>n, <1>r, <1>0, <1>6 DEF RecordSession, FilesTyped, Goto, ClientsTyped
  <2>2. root[r.blender] # "none" /\ launching[n].port = r.port
    BY <1>n, <1>r, <1>0, <2>1 DEF PortInv, BornInv, NamedPcs, OwnFacts
  <2>3. Born(r)
    BY <1>n, <1>r, <1>1, <2>2 DEF Born
  <2>4. \A m \in Names : Born(session'[m]) /\ Born(launching'[m])
    BY <1>n, <1>r, <1>3, <2>1, <2>3 DEF PortInv, BornInv
  <2>5. BornInv'
    <3>1. \A d \in Clients : pc'[d] \in NamedPcs => root[job'[d].rec.blender] # "none"
      BY <1>n, <1>r, <1>2, <2>1, <2>2 DEF Moves, PortInv, BornInv
    <3>2. \A m \in Names : boot'[m].is = "pid" => root[boot'[m].blender] # "none"
      BY <1>n, <1>r, <1>2 DEF PortInv, BornInv
    <3>. QED BY <1>n, <1>r, <2>4, <3>1, <3>2, BornKept
  <2>6. \A m \in Names : SamePort(m)'
    BY <1>n, <1>r, <1>3, <2>1, <2>2 DEF PortInv, SamePort
  <2>7. Current(n)'.port = r.port
    BY <1>n, <1>r, <1>1, <2>1 DEF Current
  <2>8. UniqueLivePorts'
    BY <1>n, <1>r, <1>0, <1>3, <1>4, <2>7, UniqueGained DEF PortInv
  <2>. QED BY <1>n, <1>r, <1>2, <2>1, <2>5, <2>6, <2>8 DEF OwnFacts
<1>. QED BY <1>5, <1>6

\* A client's step keeps the ports of live Sessions apart.
LEMMA PortClient ==
    ASSUME TypeInv, TypeInv', FileInv, ProcInv, PortInv, Fades, NEW c \in Clients,
           ClientStep(c) \/ ClientFault(c)
    PROVE  PortInv'
<1>1. Moves(c)
  BY MovesControl, MovesInspection, MovesAllocation, MovesRemoval, MovesLaunch, MovesTerminate,
     MovesClientFault DEF ClientStep
<1>2. PortsLocks'
  BY PortsLocksClient
<1>3. \A d \in Clients : Scanned(pc[d], job[d])'
  BY ScannedClient
<1>4. pc[c] # "lock" \/ UNCHANGED launching
  BY Writers DEF HoldsPorts, TryPcs, ClearPcs, KillPcs, InspectPcs
<1>5. /\ BornInv' /\ (\A n \in Names : SamePort(n)') /\ UniqueLivePorts'
      /\ pc'[c] # "idle" => OwnFacts(pc'[c], job'[c], launching'[job'[c].name])
  <2>1. CASE Launch(c) /\ ~Provisional(c) /\ ~RecordSession(c)
    <3>1. BornInv /\ OwnFacts(pc[c], job[c], launching[job[c].name])
      BY <1>1 DEF PortInv, Moves
    <3>. QED BY <1>1, <2>1, <3>1, ShedsLaunch, PortSheds
  <2>2. CASE Provisional(c) \/ RecordSession(c)
    BY <2>2, PortRecords
  <2>3. CASE ~Launch(c)
    <3>1. Sheds(c) /\ pc'[c] \notin WrittenPcs
      BY <2>3, ShedsInspection, ShedsAllocation, ShedsRemoval, ShedsTerminate, ShedsControl,
         ShedsClientFault DEF ClientStep
    <3>. QED BY <1>1, <3>1, PortSheds DEF WrittenPcs, NamedPcs, OwnFacts
  <2>. QED BY <2>1, <2>2, <2>3
<1>6. \A d \in Clients : pc'[d] # "idle" => OwnFacts(pc'[d], job'[d], launching'[job'[d].name])
  BY <1>1, <1>4, <1>5, OwnOthers
<1>. QED BY <1>2, <1>3, <1>5, <1>6 DEF PortInv

\* A step that writes no record, of a client that only begins or of no client.
LEMMA PortUnrelated ==
    ASSUME TypeInv, TypeInv', PortInv, Fades, UNCHANGED <<session, launching, portsLock>>,
           \A n \in Names : boot'[n].is = "pid" => root[boot'[n].blender] # "none",
           \A d \in Clients : pc'[d] = "lock" \/ (pc'[d] = pc[d] /\ job'[d] = job[d])
    PROVE  PortInv'
<1>1. PortsLocks'
  BY DEF PortInv, PortsLocks, HoldsPorts, TryPcs, ClearPcs, KillPcs, InspectPcs
<1>2. BornInv'
  <2>1. \A n \in Names : Born(session'[n]) /\ Born(launching'[n])
    BY DEF PortInv, BornInv
  <2>2. \A d \in Clients : pc'[d] \in NamedPcs => root[job'[d].rec.blender] # "none"
    BY DEF PortInv, BornInv, NamedPcs
  <2>. QED BY <2>1, <2>2, BornKept
<1>3. \A n \in Names : SamePort(n)'
  BY DEF PortInv, SamePort
<1>4. \A d \in Clients : pc'[d] # "idle" => OwnFacts(pc'[d], job'[d], launching'[job'[d].name])
  BY DEF PortInv, OwnFacts
<1>5. UniqueLivePorts'
  <2>1. \A n \in Names : Current(n)' = Current(n) /\ (Live(Current(n))' => Live(Current(n)))
    BY CurrentFades DEF PortInv
  <2>. QED BY <2>1, UniqueKept DEF PortInv
<1>6. ASSUME NEW d \in Clients PROVE Scanned(pc[d], job[d])'
  <2>1. PICK p : p = pc'[d]
    OBVIOUS
  <2>2. PICK f : f = job'[d]
    OBVIOUS
  <2>3. CASE p \in {"idle", "lock"}
    BY <2>1, <2>2, <2>3 DEF Scanned, ScanFacts, LookFacts, Looking, Chosen, TryPcs, KillPcs, InspectPcs, ClearPcs
  <2>4. CASE p \notin {"idle", "lock"}
    <3>1. Scanned(p, f)
      BY <2>1, <2>2, <2>4 DEF PortInv
    <3>2. f.at \in Names
      BY <2>1, <2>2, <2>4 DEF TypeInv, JobsOK, JobOK
    <3>3. Scanned(p, f)'
      BY <3>1, <3>2, ScanTo DEF PortInv
    <3>. QED BY <2>1, <2>2, <3>3
  <2>. QED BY <2>3, <2>4
<1>. QED BY <1>1, <1>2, <1>3, <1>4, <1>5, <1>6 DEF PortInv

\* A new operation writes nothing.
LEMMA PortBegin ==
    ASSUME TypeInv, TypeInv', PortInv, Fades, NEW c \in Clients, Begin(c)
    PROVE  PortInv'
<1>1. \E f : Accept(c, f)
  <2>1. ASSUME NEW n \in Names, BeginFenced(c, n) PROVE \E f : Accept(c, f)
    BY <2>1 DEF BeginFenced
  <2>2. ASSUME NEW n \in Names, BeginStart(c, n) \/ BeginStatus(c, n) PROVE \E f : Accept(c, f)
    BY <2>2 DEF BeginStart, BeginStatus
  <2>. QED BY <2>1, <2>2 DEF Begin
<1>2. /\ UNCHANGED <<session, launching, boot, portsLock>>
      /\ \A d \in Clients : pc'[d] = "lock" \/ (pc'[d] = pc[d] /\ job'[d] = job[d])
  BY <1>1 DEF Accept, Goto, Job1, files, locks, TypeInv, TypeOK, ClientsTyped
<1>. QED BY <1>2, PortUnrelated DEF PortInv, BornInv

\* A supervisor reports only a Blender it has started.
LEMMA PortProcess ==
    ASSUME TypeInv, TypeInv', ProcInv, PortInv, Fades, NEW l \in Launches,
           SupStep(l) \/ BlenderStep(l) \/ SupKilled(l)
    PROVE  PortInv'
<1>1. UNCHANGED <<session, launching, portsLock, pc, job>>
  BY DEF SupStep, SupSeesGate, SupExpires, SupTakesGate, SupSpawns, SupCannotSpawn, SupReports,
     SupCannotReport, BlenderStep, RootBinds, RootExits, HelperStarts, HelperEnds, SupKilled,
     files, locks
<1>2. \A n \in Names : boot'[n].is = "pid" => root[boot'[n].blender] # "none"
  <2>0. /\ boot \in [Names -> Boot] /\ Coupled(l)
        /\ \A n \in Names : boot[n].is = "pid" => root[boot[n].blender] # "none"
    BY DEF TypeInv, TypeOK, FilesTyped, ProcInv, PortInv, BornInv
  <2>1. CASE SupTakesGate(l)
    BY <2>0, <2>1 DEF SupTakesGate
  <2>2. CASE SupCannotSpawn(l)
    BY <2>0, <2>2 DEF SupCannotSpawn
  <2>3. CASE SupReports(l)
    BY <2>0, <2>3 DEF SupReports, Coupled
  <2>4. CASE ~SupTakesGate(l) /\ ~SupCannotSpawn(l) /\ ~SupReports(l)
    <3>1. UNCHANGED boot
      BY <2>4 DEF SupStep, SupSeesGate, SupExpires, SupSpawns, SupCannotReport, BlenderStep,
         RootBinds, RootExits, HelperStarts, HelperEnds, SupKilled, files
    <3>. QED BY <2>0, <3>1
  <2>. QED BY <2>1, <2>2, <2>3, <2>4
<1>. QED BY <1>1, <1>2, PortUnrelated

\* Every step keeps the ports of live Sessions apart.
LEMMA PortStep ==
    TypeInv /\ TypeInv' /\ FileInv /\ ProcInv /\ PortInv /\ [Next]_vars => PortInv'
<1>. SUFFICES ASSUME TypeInv, TypeInv', FileInv, ProcInv, PortInv, [Next]_vars PROVE PortInv'
  OBVIOUS
<1>0. Fades
  BY ProcStep
<1>1. ASSUME NEW c \in Clients, Begin(c) \/ ClientStep(c) \/ ClientFault(c) PROVE PortInv'
  BY <1>0, <1>1, PortBegin, PortClient
<1>2. ASSUME NEW l \in Launches, SupStep(l) \/ BlenderStep(l) \/ SupKilled(l) PROVE PortInv'
  BY <1>0, <1>2, PortProcess
<1>3. ASSUME UNCHANGED <<files, locks, pc, job>> PROVE PortInv'
  BY <1>0, <1>3, PortUnrelated DEF files, locks, PortInv, BornInv
<1>4. ASSUME NEW p \in BasePort..MaxPort, ForeignBinds(p) PROVE PortInv'
  BY <1>3, <1>4 DEF ForeignBinds
<1>5. CASE Quiet \/ UNCHANGED vars
  BY <1>3, <1>5 DEF Quiet, vars
<1>. QED BY <1>1, <1>2, <1>4, <1>5 DEF Next, FaultStep

\* Two Sessions that may be alive never share a port: what the scan found out
\* about the others is still true when the start records its own.
THEOREM PortsCorrect == Spec => []UniqueLivePorts
<1>1. PortInv => UniqueLivePorts
  BY DEF PortInv
<1>2. ProcInv /\ TypeInv /\ [Next]_vars => ProcInv'
  BY ProcStep
<1>. QED BY TypeInit, TypeStep, FileInit, FileStep, ProcInit, <1>2, PortInit, PortStep, <1>1,
            PTL DEF Spec

=============================================================================
