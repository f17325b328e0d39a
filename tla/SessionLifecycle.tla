-------------------------- MODULE SessionLifecycle --------------------------
(***************************************************************************)
(* The Session lifecycle of blendersessiond on POSIX: concurrent clients   *)
(* (one per CLI process) that start, inspect, call and stop named          *)
(* Sessions over one state directory, the detached supervisors and the     *)
(* Blender processes they launch, and the loopback ports those bind.       *)
(*                                                                         *)
(* Sources: sessions.py, processes.py, posix_launcher.py, locking.py.      *)
(*                                                                         *)
(* One start mints one session id, one owner token and one supervisor      *)
(* (sessions.py:474-513); a launch number stands for all three, and for    *)
(* the process group the supervisor leads.  A process identity (pid plus   *)
(* start time) is never reused, so process_matches is liveness.            *)
(***************************************************************************)
EXTENDS Naturals

CONSTANTS
    Clients,    \* CLI processes; each runs one operation at a time
    Names,      \* Session Names
    BasePort,   \* first MCP port tried (_base_mcp_port)
    MaxPort,    \* last port a record may carry (65535 in the code)
    MaxLaunch,  \* bound: start operations in a behaviour
    MaxOps,     \* bound: operations of all kinds in a behaviour
    Faults,     \* kinds of fault that may happen, a subset of FaultKinds
    MaxFaults,  \* bound: faults in a behaviour
    Free,       \* the holder of a lock nobody holds
    NoName      \* no Session Name

FaultKinds ==
    { "crash",      \* a client dies; the kernel drops its flocks
      "interrupt",  \* a step of _launch_and_record's try block raises
      "supkill",    \* a supervisor is killed from outside
      "unkillable", \* a process group survives SIGKILL
      "helper",     \* Blender starts a child process, which may outlive it
      "foreign" }   \* a process of somebody else's binds a Session port

ASSUME PortAssumption   == BasePort \in Nat /\ MaxPort \in Nat
ASSUME BoundAssumption  == MaxLaunch \in Nat /\ MaxOps \in Nat /\ MaxFaults \in Nat
ASSUME FaultAssumption  == Faults \subseteq FaultKinds
ASSUME NullAssumption   == Free \notin Clients /\ NoName \notin Names

Launches == 1..MaxLaunch

VARIABLES
    \* the files of each Session Name's directory
    session,    \* session.json: a Record, or NoRec
    launching,  \* launching.json: a Record, or NoRec
    marker,     \* ownership.json: the launch whose token it holds, 0 if absent
    gate,       \* does .posix-launch.gate exist?
    boot,       \* .launch-bootstrap.json
    \* advisory locks
    nameLock, wireLock,  \* per Session Name
    portsLock,           \* one per state root
    \* processes
    sup,        \* per launch: the supervisor
    root,       \* per launch: the Blender the supervisor started
    helpers,    \* launches whose group has further live members
    plan,       \* per launch: the name and port the supervisor was given
    foreign,    \* ports bound by processes blendersessiond never launched
    \* clients
    pc,         \* where in its operation each client is
    job,        \* what it works on
    \* bounds
    starts, ops, faults

files  == <<session, launching, marker, gate, boot>>
locks  == <<nameLock, wireLock, portsLock>>
procs  == <<sup, root, helpers, plan, foreign>>
bounds == <<starts, ops, faults>>
vars   == <<files, locks, procs, pc, job, bounds>>

-----------------------------------------------------------------------------
(* Types *)

\* A Session record.  blender = 0 is the provisional record of a launch in
\* progress, whose pid is the supervisor's; otherwise pid is the Blender
\* started by supervisor number `blender`.
Record == [launch : 0..MaxLaunch, blender : 0..MaxLaunch, port : Nat]
NoRec  == [launch |-> 0, blender |-> 0, port |-> 0]
FinalRecord       == [launch : Launches, blender : Launches, port : Nat]
ProvisionalRecord == [launch : Launches, blender : {0}, port : Nat]

\* The bootstrap file: absent, or the supervisor's latest report
Boot   == [is : {"absent", "launching", "error"}, blender : {0}]
              \cup [is : {"pid"}, blender : Launches]
NoBoot == [is |-> "absent", blender |-> 0]

SupStates  == {"unborn", "waiting", "sawGate", "opened", "spawned", "anchor", "gone"}
RootStates == {"none", "up", "serving", "mute", "gone"}
Statuses   == {"none", "not-found", "unreadable", "dead", "unmarked", "starting",
               "headless", "healthy", "unhealthy"}

InspectPcs == {"read", "tree", "wire", "probe"}
TryPcs     == {"identify", "mark", "provisional", "open", "await", "blender",
               "remark", "record", "promote"}
ClearPcs   == {"clearSession", "clearLaunching", "clearMarker", "clearBoot"}
KillPcs    == {"term", "kill"}
PCs        == {"idle", "lock", "fence", "decide", "ports", "scan", "tally", "alloc",
               "prep", "spawn", "finally", "unlock", "callWire", "call", "reply"}
                 \cup InspectPcs \cup TryPcs \cup ClearPcs \cup KillPcs

Job == [op : {"none", "start", "status", "call", "stop"},
        name : Names \cup {NoName},
        sid : 0..MaxLaunch,      \* start: the launch it mints; call, stop: the expected id
        at : Names \cup {NoName},\* the name under inspection
        rec : Record,            \* the record read, or being written
        rootM : BOOLEAN,         \* process_matches, as read first
        status : Statuses,       \* the inspection's result
        reclaim : BOOLEAN,
        fresh : BOOLEAN,         \* start: rec is this operation's own launch
        left : SUBSET Names,     \* names still to be scanned for ports
        occ : SUBSET Nat]        \* occupied ports

NoJob == [op |-> "none", name |-> NoName, sid |-> 0, at |-> NoName, rec |-> NoRec,
          rootM |-> FALSE, status |-> "none", reclaim |-> FALSE, fresh |-> FALSE,
          left |-> {}, occ |-> {}]

FilesTyped ==
    /\ session \in [Names -> FinalRecord \cup {NoRec}]
    /\ launching \in [Names -> ProvisionalRecord \cup {NoRec}]
    /\ marker \in [Names -> 0..MaxLaunch]
    /\ gate \in [Names -> BOOLEAN]
    /\ boot \in [Names -> Boot]

LocksTyped ==
    /\ nameLock \in [Names -> Clients \cup {Free}]
    /\ wireLock \in [Names -> Clients \cup {Free}]
    /\ portsLock \in Clients \cup {Free}

ProcsTyped ==
    /\ sup \in [Launches -> SupStates]
    /\ root \in [Launches -> RootStates]
    /\ helpers \subseteq Launches
    /\ plan \in [Launches -> [name : Names \cup {NoName}, port : Nat]]
    /\ foreign \subseteq Nat

ClientsTyped == pc \in [Clients -> PCs] /\ job \in [Clients -> Job]

BoundsTyped == starts \in 0..MaxLaunch /\ ops \in 0..MaxOps /\ faults \in 0..MaxFaults

\* Besides the types of the state: session.json only ever holds the final
\* record of a launch and launching.json only its provisional one, so that an
\* inspection can tell from the pid it reads whether a launch is in progress.
TypeOK == FilesTyped /\ LocksTyped /\ ProcsTyped /\ ClientsTyped /\ BoundsTyped

Init ==
    /\ session = [n \in Names |-> NoRec] /\ launching = [n \in Names |-> NoRec]
    /\ marker = [n \in Names |-> 0]
    /\ gate = [n \in Names |-> FALSE]
    /\ boot = [n \in Names |-> NoBoot]
    /\ nameLock = [n \in Names |-> Free] /\ wireLock = [n \in Names |-> Free]
    /\ portsLock = Free
    /\ sup = [l \in Launches |-> "unborn"]
    /\ root = [l \in Launches |-> "none"]
    /\ helpers = {}
    /\ plan = [l \in Launches |-> [name |-> NoName, port |-> 0]]
    /\ foreign = {}
    /\ pc = [c \in Clients |-> "idle"]
    /\ job = [c \in Clients |-> NoJob]
    /\ starts = 0 /\ ops = 0 /\ faults = 0

-----------------------------------------------------------------------------
(* Processes and records: what an inspection can ask *)

SupAlive(l)  == sup[l] \notin {"unborn", "gone"}
RootAlive(l) == root[l] \in {"up", "serving", "mute"}

\* process_matches(record.pid, record.process_start_time)
RootMatches(r) == IF r.blender = 0 THEN SupAlive(r.launch) ELSE RootAlive(r.blender)

\* owned_tree_exists: the controller, or the recorded pid in its group
TreeExistsRootOnly(r) == RootMatches(r)  \* mutant: the anchor is not asked
TreeExists(r) ==
    \/ SupAlive(r.launch)
    \/ r.blender = r.launch /\ RootAlive(r.blender)

\* _process_group_exists: any live member of the group
GroupAlive(l) == SupAlive(l) \/ RootAlive(l) \/ l \in helpers

\* Somebody accepts connections on port p.
OwnServers(p) == {l \in Launches : root[l] = "serving" /\ plan[l].port = p}
Answers(p)    == p \in foreign \/ OwnServers(p) # {}

\* The record an inspection reads: session.json, else launching.json
Current(n) == IF session[n] # NoRec THEN session[n] ELSE launching[n]

\* _read_record refuses a port outside the valid range
Readable(r) == r.port <= MaxPort

Stoppable(st)   == st \in {"starting", "headless", "healthy", "unhealthy"}
Reclaimable(st) == st = "dead"

\* The outcome of _inspect_unlocked before the socket; "wire" goes on to probe.
\* Name and token mismatches share an outcome: no code path writes a record
\* under another name.
Classify(r, marked, rootM) ==
    CASE ~marked        -> IF TreeExists(r) THEN "unmarked" ELSE "dead"
      [] marked /\ r.blender = 0 /\ TreeExists(r) -> "starting"
      [] marked /\ ~(r.blender = 0 /\ TreeExists(r)) /\ ~rootM ->
             IF TreeExists(r) THEN "headless" ELSE "dead"
      [] OTHER          -> "wire"

-----------------------------------------------------------------------------
(* Clients: locks and inspection *)

Goto(c, p) == pc' = [pc EXCEPT ![c] = p]
Job1(c, f) == job' = [job EXCEPT ![c] = f]

\* A client begins an operation
Accept(c, f) ==
    /\ pc[c] = "idle" /\ ops < MaxOps
    /\ ops' = ops + 1
    /\ Job1(c, f) /\ Goto(c, "lock")
    /\ UNCHANGED <<files, locks, procs, faults>>

BeginStart(c, n) ==
    /\ starts < MaxLaunch
    /\ starts' = starts + 1
    /\ Accept(c, [NoJob EXCEPT !.op = "start", !.name = n, !.at = n, !.sid = starts + 1])

BeginStatus(c, n) ==
    /\ UNCHANGED starts
    /\ Accept(c, [NoJob EXCEPT !.op = "status", !.name = n, !.at = n])

\* call and stop expect the id of some launch made so far
BeginFenced(c, n) ==
    /\ UNCHANGED starts
    /\ \E o \in {"call", "stop"}, l \in Launches :
          /\ plan[l].name # NoName
          /\ Accept(c, [NoJob EXCEPT !.op = o, !.name = n, !.at = n, !.sid = l])

Begin(c) == \E n \in Names : BeginStart(c, n) \/ BeginStatus(c, n) \/ BeginFenced(c, n)

LockName(c) ==
    LET n == job[c].name IN
    /\ pc[c] = "lock" /\ nameLock[n] = Free
    /\ nameLock' = [nameLock EXCEPT ![n] = c]
    /\ Goto(c, IF job[c].op \in {"call", "stop"} THEN "fence" ELSE "read")
    /\ UNCHANGED <<files, wireLock, portsLock, procs, job, bounds>>

\* _require_current_session_identity: an unreadable record passes
FencePassesByName(r, id) == TRUE  \* mutant: the name alone authorizes
FencePasses(r, id) == r = NoRec \/ ~Readable(r) \/ r.launch = id

Fence(c) ==
    /\ pc[c] = "fence"
    /\ Goto(c, IF FencePasses(Current(job[c].name), job[c].sid) THEN "read" ELSE "unlock")
    /\ UNCHANGED <<files, locks, procs, job, bounds>>

\* Where an inspection returns to: the operation, or the port scan
Inspected(c) == IF job[c].at = job[c].name THEN "decide" ELSE "tally"

\* _inspect_unlocked reads the files, then asks whether the root matches
Read(c) ==
    LET r == Current(job[c].at) IN
    /\ pc[c] = "read"
    /\ IF r = NoRec \/ ~Readable(r)
       THEN /\ Job1(c, [job[c] EXCEPT !.status = IF r = NoRec THEN "not-found" ELSE "unreadable"])
            /\ Goto(c, Inspected(c))
       ELSE /\ Job1(c, [job[c] EXCEPT !.rec = r, !.rootM = RootMatches(r)])
            /\ Goto(c, "tree")
    /\ UNCHANGED <<files, locks, procs, bounds>>

\* ... then whether the tree exists, and classifies.  The code reads the marker
\* with the record, a little earlier: its writers hold the name lock and the
\* ports lock, the inspecting client holds one of the two, so nothing changes
\* in between.
Tree(c) ==
    LET j == job[c]
        k == Classify(j.rec, marker[j.at] = j.rec.launch, j.rootM)
    IN
    /\ pc[c] = "tree"
    /\ Job1(c, [j EXCEPT !.rootM = FALSE, !.status = IF k = "wire" THEN "none" ELSE k])
    /\ Goto(c, IF k = "wire" THEN "wire" ELSE Inspected(c))
    /\ UNCHANGED <<files, locks, procs, bounds>>

LockWire(c) ==
    LET n == job[c].at IN
    /\ pc[c] \in {"wire", "callWire"} /\ wireLock[n] = Free
    /\ wireLock' = [wireLock EXCEPT ![n] = c]
    /\ Goto(c, IF pc[c] = "wire" THEN "probe" ELSE "call")
    /\ UNCHANGED <<files, nameLock, portsLock, procs, job, bounds>>

\* probe_addon under the wire lock; a listener too busy to answer in time is
\* reported as unhealthy
Probe(c) ==
    LET j == job[c] IN
    /\ pc[c] = "probe"
    /\ \E st \in {"healthy", "unhealthy"} :
        /\ st = "healthy" => Answers(j.rec.port)
        /\ Job1(c, [j EXCEPT !.status = st])
    /\ wireLock' = [wireLock EXCEPT ![j.at] = Free]
    /\ Goto(c, Inspected(c))
    /\ UNCHANGED <<files, nameLock, portsLock, procs, bounds>>

-----------------------------------------------------------------------------
(* What each operation does with the inspection of its own name *)

\* mutant: a start takes over a Session whose Blender is gone
VerdictsRestart(op, st) ==
    IF op = "start" /\ st \in {"not-found", "dead", "headless"} THEN {"ports", "unlock"}
    ELSE IF op = "stop" /\ (Stoppable(st) \/ Reclaimable(st)) THEN {"ports"}
    ELSE IF op = "call" /\ st = "healthy" THEN {"callWire"} ELSE {"unlock"}

\* start, stop and call on the inspection's status; a start may also find no
\* usable Blender (discover_blender) and fail
Verdicts(op, st) ==
    CASE op = "start" /\ st \in {"not-found", "dead"} -> {"ports", "unlock"}
      [] op = "stop" /\ (Stoppable(st) \/ Reclaimable(st)) -> {"ports"}
      [] op = "call" /\ st = "healthy" -> {"callWire"}
      [] OTHER -> {"unlock"}

Decide(c) ==
    LET j == job[c] IN
    /\ pc[c] = "decide"
    /\ \E p \in Verdicts(j.op, j.status) : Goto(c, p)
    /\ Job1(c, [j EXCEPT !.reclaim = j.op = "start" /\ Reclaimable(j.status)])
    /\ UNCHANGED <<files, locks, procs, bounds>>

LockPorts(c) ==
    LET j == job[c] IN
    /\ pc[c] = "ports" /\ portsLock = Free
    /\ portsLock' = c
    /\ \/ /\ j.op = "start"
          /\ Job1(c, [j EXCEPT !.left = Names \ {j.name}])
          /\ Goto(c, "scan")
       \/ /\ j.op # "start"
          /\ Job1(c, j)
          /\ Goto(c, IF Stoppable(j.status) THEN "term" ELSE "clearSession")
    /\ UNCHANGED <<files, nameLock, wireLock, procs, bounds>>

\* call_session connects, sends, and waits for the answer or its timeout
Call(c) ==
    /\ pc[c] = "call"
    /\ Goto(c, "reply")
    /\ UNCHANGED <<files, locks, procs, job, bounds>>

Reply(c) ==
    /\ pc[c] = "reply"
    /\ wireLock' = [wireLock EXCEPT ![job[c].at] = Free]
    /\ Goto(c, "unlock")
    /\ UNCHANGED <<files, nameLock, portsLock, procs, job, bounds>>

\* Leaving the with blocks: the ports lock first, then the name lock
UnlockPorts(c) ==
    /\ pc[c] = "unlock" /\ portsLock = c
    /\ portsLock' = Free
    /\ UNCHANGED <<files, nameLock, wireLock, procs, pc, job, bounds>>

UnlockName(c) ==
    /\ pc[c] = "unlock" /\ portsLock # c
    /\ nameLock' = [nameLock EXCEPT ![job[c].name] = Free]
    /\ Goto(c, "idle") /\ Job1(c, NoJob)
    /\ UNCHANGED <<files, wireLock, portsLock, procs, bounds>>

-----------------------------------------------------------------------------
(* Port allocation: every other Session is inspected, without its name lock *)

FirstPort == [launch |-> 0, blender |-> 0, port |-> BasePort]

\* mutant: the scan wants the other Session's name lock too
ScanLockingNames(c) ==
    LET j == job[c] IN
    /\ pc[c] = "scan"
    /\ \/ \E m \in j.left :
            /\ nameLock[m] = Free
            /\ Job1(c, [j EXCEPT !.left = @ \ {m}, !.at = m, !.rec = NoRec, !.status = "none"])
            /\ Goto(c, "read")
       \/ /\ j.left = {}
          /\ Job1(c, [j EXCEPT !.at = j.name, !.status = "none", !.rec = FirstPort])
          /\ Goto(c, "alloc")
    /\ UNCHANGED <<files, locks, procs, bounds>>

Scan(c) ==
    LET j == job[c] IN
    /\ pc[c] = "scan"
    /\ \/ \E m \in j.left :
            /\ Job1(c, [j EXCEPT !.left = @ \ {m}, !.at = m, !.rec = NoRec, !.status = "none"])
            /\ Goto(c, "read")
       \/ /\ j.left = {}
          /\ Job1(c, [j EXCEPT !.at = j.name, !.status = "none", !.rec = FirstPort])
          /\ Goto(c, "alloc")
    /\ UNCHANGED <<files, locks, procs, bounds>>

\* A port stays occupied while its record is healthy or cannot be reclaimed
OccupiesIfHealthy(r, st) == r # NoRec /\ st = "healthy"  \* mutant
Occupies(r, st) == r # NoRec /\ (st = "healthy" \/ ~Reclaimable(st))

Tally(c) ==
    LET j == job[c] IN
    /\ pc[c] = "tally"
    /\ Job1(c, [j EXCEPT !.occ = IF Occupies(j.rec, j.status) THEN @ \cup {j.rec.port} ELSE @])
    /\ Goto(c, IF j.status = "unreadable" THEN "unlock" ELSE "scan")
    /\ UNCHANGED <<files, locks, procs, bounds>>

\* while port in occupied: port += 1, with no upper limit
Alloc(c) ==
    LET j == job[c] IN
    /\ pc[c] = "alloc"
    /\ \/ /\ j.rec.port \in j.occ
          /\ Job1(c, [j EXCEPT !.rec.port = @ + 1])
          /\ Goto(c, "alloc")
       \/ /\ j.rec.port \notin j.occ
          /\ Job1(c, [j EXCEPT !.occ = {}])
          /\ Goto(c, IF j.reclaim THEN "clearSession" ELSE "prep")
    /\ UNCHANGED <<files, locks, procs, bounds>>

-----------------------------------------------------------------------------
(* _remove_record_files, one unlink after the other *)

\* Where the removal returns to: a stop is over, a failed launch goes to its
\* finally block, a reclaiming start goes on to launch
Removed(j) == IF j.op = "stop" THEN "unlock" ELSE IF j.fresh THEN "finally" ELSE "prep"

\* mutant: the marker goes before the record
ClearMarkerFirst(c) ==
    LET n == job[c].name IN
    /\ pc[c] = "clearSession"
    /\ marker' = [marker EXCEPT ![n] = 0]
    /\ Goto(c, "clearLaunching")
    /\ UNCHANGED <<session, launching, gate, boot, locks, procs, job, bounds>>

ClearSession(c) ==
    LET n == job[c].name IN
    /\ pc[c] = "clearSession"
    /\ session' = [session EXCEPT ![n] = NoRec]
    /\ Goto(c, "clearLaunching")
    /\ UNCHANGED <<launching, marker, gate, boot, locks, procs, job, bounds>>

ClearLaunching(c) ==
    LET n == job[c].name IN
    /\ pc[c] = "clearLaunching"
    /\ launching' = [launching EXCEPT ![n] = NoRec]
    /\ Goto(c, "clearMarker")
    /\ UNCHANGED <<session, marker, gate, boot, locks, procs, job, bounds>>

ClearMarker(c) ==
    LET n == job[c].name IN
    /\ pc[c] = "clearMarker"
    /\ marker' = [marker EXCEPT ![n] = 0]
    /\ Goto(c, "clearBoot")
    /\ UNCHANGED <<session, launching, gate, boot, locks, procs, job, bounds>>

DropHandshake(n) ==
    /\ gate' = [gate EXCEPT ![n] = FALSE]
    /\ boot' = [boot EXCEPT ![n] = NoBoot]

ClearBoot(c) ==
    /\ pc[c] = "clearBoot"
    /\ DropHandshake(job[c].name)
    /\ Goto(c, Removed(job[c]))
    /\ UNCHANGED <<session, launching, marker, locks, procs, job, bounds>>

-----------------------------------------------------------------------------
(* _launch_and_record *)

\* Clear the handshake files; the launch gets its id, token and environment
Prep(c) ==
    LET j == job[c] IN
    /\ pc[c] = "prep"
    /\ DropHandshake(j.name)
    /\ plan' = [plan EXCEPT ![j.sid] = [name |-> j.name, port |-> j.rec.port]]
    /\ Job1(c, [j EXCEPT !.fresh = TRUE, !.rec.launch = j.sid])
    /\ Goto(c, "spawn")
    /\ UNCHANGED <<session, launching, marker, locks, sup, root, helpers, foreign, bounds>>

\* mutant: the gate is open before the record is written
SpawnUngated(c) ==
    /\ pc[c] = "spawn"
    /\ sup' = [sup EXCEPT ![job[c].sid] = "sawGate"]
    /\ Goto(c, "identify")
    /\ UNCHANGED <<files, locks, root, helpers, plan, foreign, job, bounds>>

\* spawn_detached
Spawn(c) ==
    /\ pc[c] = "spawn"
    /\ sup' = [sup EXCEPT ![job[c].sid] = "waiting"]
    /\ Goto(c, "identify")
    /\ UNCHANGED <<files, locks, root, helpers, plan, foreign, job, bounds>>

\* mutant: a start that is slow to identify its supervisor forgets it
IdentifyForgets(c) ==
    /\ pc[c] = "identify"
    /\ \E p \in {"mark", "clearSession"} : Goto(c, p)
    /\ UNCHANGED <<files, locks, procs, job, bounds>>

\* wait_for_process_start_time(controller_pid): without an identity the except
\* block terminates nothing
Identify(c) ==
    /\ pc[c] = "identify"
    /\ Goto(c, IF SupAlive(job[c].sid) THEN "mark" ELSE "clearSession")
    /\ UNCHANGED <<files, locks, procs, job, bounds>>

\* ownership.json, before and again after the handshake
Mark(c) ==
    /\ pc[c] \in {"mark", "remark"}
    /\ marker' = [marker EXCEPT ![job[c].name] = job[c].sid]
    /\ Goto(c, IF pc[c] = "mark" THEN "provisional" ELSE "record")
    /\ UNCHANGED <<session, launching, gate, boot, locks, procs, job, bounds>>

Provisional(c) ==
    /\ pc[c] = "provisional"
    /\ launching' = [launching EXCEPT ![job[c].name] = job[c].rec]
    /\ Goto(c, "open")
    /\ UNCHANGED <<session, marker, gate, boot, locks, procs, job, bounds>>

\* finish_posix_start touches the gate ...
OpenGate(c) ==
    /\ pc[c] = "open"
    /\ gate' = [gate EXCEPT ![job[c].name] = TRUE]
    /\ Goto(c, "await")
    /\ UNCHANGED <<session, launching, marker, boot, locks, procs, job, bounds>>

\* ... and polls the bootstrap file: a pid ends the wait, as do an error, the
\* supervisor gone with nothing to read, and the 15 second deadline
AwaitPid(c) ==
    LET b == boot[job[c].name] IN
    /\ pc[c] = "await" /\ b.is = "pid"
    /\ Job1(c, [job[c] EXCEPT !.rec.blender = b.blender])
    /\ Goto(c, "blender")
    /\ UNCHANGED <<files, locks, procs, bounds>>

\* mutant: a launch that timed out is forgotten, not terminated
AwaitForgets(c) ==
    /\ pc[c] = "await"
    /\ Goto(c, "clearSession")
    /\ UNCHANGED <<files, locks, procs, job, bounds>>

AwaitFails(c) ==
    /\ pc[c] = "await"
    /\ Goto(c, "term")
    /\ UNCHANGED <<files, locks, procs, job, bounds>>

\* wait_for_process_start_time(process_pid)
BlenderIdentity(c) ==
    /\ pc[c] = "blender"
    /\ Goto(c, IF RootAlive(job[c].rec.blender) THEN "remark" ELSE "term")
    /\ UNCHANGED <<files, locks, procs, job, bounds>>

\* mutant: session.json receives the provisional record
RecordProvisional(c) ==
    /\ pc[c] = "record"
    /\ session' = [session EXCEPT ![job[c].name] = [job[c].rec EXCEPT !.blender = 0]]
    /\ Goto(c, "promote")
    /\ UNCHANGED <<launching, marker, gate, boot, locks, procs, job, bounds>>

RecordSession(c) ==
    /\ pc[c] = "record"
    /\ session' = [session EXCEPT ![job[c].name] = job[c].rec]
    /\ Goto(c, "promote")
    /\ UNCHANGED <<launching, marker, gate, boot, locks, procs, job, bounds>>

Promote(c) ==
    /\ pc[c] = "promote"
    /\ launching' = [launching EXCEPT ![job[c].name] = NoRec]
    /\ Goto(c, "finally")
    /\ UNCHANGED <<session, marker, gate, boot, locks, procs, job, bounds>>

Finally(c) ==
    /\ pc[c] = "finally"
    /\ DropHandshake(job[c].name)
    /\ Goto(c, "unlock")
    /\ UNCHANGED <<session, launching, marker, locks, procs, job, bounds>>

-----------------------------------------------------------------------------
(* terminate_owned_tree, for a stop and for a failed launch *)

\* Neither the controller nor a recorded root in its group: nothing is signalled
TermAbsent(c) ==
    /\ pc[c] = "term" /\ ~TreeExists(job[c].rec)
    /\ Goto(c, "clearSession")
    /\ UNCHANGED <<files, locks, procs, job, bounds>>

\* The members of group l that `linger` names stay; everything else dies
Signal(l, linger) ==
    /\ sup' = [sup EXCEPT ![l] = IF SupAlive(l) THEN "gone" ELSE @]
    /\ root' = [root EXCEPT ![l] = IF RootAlive(l) /\ "root" \notin linger THEN "gone" ELSE @]
    /\ helpers' = IF "helpers" \in linger THEN helpers ELSE helpers \ {l}

\* SIGTERM: Blender and its children may be slow to go, the supervisor is not
TermSignal(c) ==
    /\ pc[c] = "term" /\ TreeExists(job[c].rec)
    /\ \E linger \in SUBSET {"root", "helpers"} : Signal(job[c].rec.launch, linger)
    /\ Goto(c, "kill")
    /\ UNCHANGED <<files, locks, plan, foreign, job, bounds>>

\* mutant: no SIGKILL after the SIGTERM
KillNothing(c) ==
    /\ pc[c] = "kill"
    /\ Goto(c, "clearSession")
    /\ UNCHANGED <<files, locks, procs, job, bounds>>

\* SIGKILL to what is left after 5 seconds
Kill(c) ==
    /\ pc[c] = "kill"
    /\ Signal(job[c].rec.launch, {})
    /\ Goto(c, "clearSession")
    /\ UNCHANGED <<files, locks, plan, foreign, job, bounds>>

\* The group survives: RuntimeError, and the records stay
KillSurvived(c) ==
    /\ pc[c] = "kill" /\ GroupAlive(job[c].rec.launch)
    /\ "unkillable" \in Faults /\ faults < MaxFaults
    /\ faults' = faults + 1
    /\ Goto(c, IF job[c].fresh THEN "finally" ELSE "unlock")
    /\ UNCHANGED <<files, locks, procs, job, starts, ops>>

-----------------------------------------------------------------------------
(* posix_launcher.main: the supervisor of launch l *)

\* gate.exists() and gate.unlink(missing_ok=True) are two steps, and the path
\* belongs to the Session Name, not to the launch
SupSeesGate(l) ==
    /\ sup[l] = "waiting" /\ gate[plan[l].name]
    /\ sup' = [sup EXCEPT ![l] = "sawGate"]
    /\ UNCHANGED <<files, locks, root, helpers, plan, foreign, pc, job, bounds>>

SupExpires(l) ==
    /\ sup[l] = "waiting"
    /\ sup' = [sup EXCEPT ![l] = "gone"]
    /\ UNCHANGED <<files, locks, root, helpers, plan, foreign, pc, job, bounds>>

SupTakesGate(l) ==
    LET n == plan[l].name IN
    /\ sup[l] = "sawGate"
    /\ gate' = [gate EXCEPT ![n] = FALSE]
    /\ \/ /\ boot' = [boot EXCEPT ![n] = [is |-> "launching", blender |-> 0]]
          /\ sup' = [sup EXCEPT ![l] = "opened"]
       \/ /\ sup' = [sup EXCEPT ![l] = "gone"]   \* the write failed
          /\ UNCHANGED boot
    /\ UNCHANGED <<session, launching, marker, locks, root, helpers, plan, foreign, pc, job, bounds>>

SupSpawns(l) ==
    /\ sup[l] = "opened"
    /\ sup' = [sup EXCEPT ![l] = "spawned"]
    /\ root' = [root EXCEPT ![l] = "up"]
    /\ UNCHANGED <<files, locks, helpers, plan, foreign, pc, job, bounds>>

SupCannotSpawn(l) ==
    /\ sup[l] = "opened"
    /\ sup' = [sup EXCEPT ![l] = "gone"]
    /\ boot' = [boot EXCEPT ![plan[l].name] = [is |-> "error", blender |-> 0]]
    /\ UNCHANGED <<session, launching, marker, gate, locks, root, helpers, plan, foreign, pc, job, bounds>>

\* The supervisor reports Blender's pid and stays, anchoring the group; if the
\* report cannot be written it kills its own group
SupReports(l) ==
    /\ sup[l] = "spawned"
    /\ sup' = [sup EXCEPT ![l] = "anchor"]
    /\ boot' = [boot EXCEPT ![plan[l].name] = [is |-> "pid", blender |-> l]]
    /\ UNCHANGED <<session, launching, marker, gate, locks, root, helpers, plan, foreign, pc, job, bounds>>

SupCannotReport(l) ==
    /\ sup[l] = "spawned"
    /\ Signal(l, {})
    /\ UNCHANGED <<files, locks, plan, foreign, pc, job, bounds>>

SupStep(l) ==
    \/ SupSeesGate(l) \/ SupExpires(l) \/ SupTakesGate(l)
    \/ SupSpawns(l) \/ SupCannotSpawn(l) \/ SupReports(l) \/ SupCannotReport(l)

-----------------------------------------------------------------------------
(* Blender and its addon *)

\* BlenderMCPServer.start binds once: a taken or invalid port leaves it mute
RootBinds(l) ==
    LET p == plan[l].port IN
    /\ root[l] = "up"
    /\ root' = [root EXCEPT ![l] = IF Answers(p) \/ p > MaxPort THEN "mute" ELSE "serving"]
    /\ UNCHANGED <<files, locks, sup, helpers, plan, foreign, pc, job, bounds>>

RootExits(l) ==
    /\ RootAlive(l)
    /\ root' = [root EXCEPT ![l] = "gone"]
    /\ UNCHANGED <<files, locks, sup, helpers, plan, foreign, pc, job, bounds>>

Fault(kind) == kind \in Faults /\ faults < MaxFaults /\ faults' = faults + 1

HelperStarts(l) ==
    /\ Fault("helper")
    /\ RootAlive(l) /\ l \notin helpers
    /\ helpers' = helpers \cup {l}
    /\ UNCHANGED <<files, locks, sup, root, plan, foreign, pc, job, starts, ops>>

HelperEnds(l) ==
    /\ l \in helpers
    /\ helpers' = helpers \ {l}
    /\ UNCHANGED <<files, locks, sup, root, plan, foreign, pc, job, bounds>>

-----------------------------------------------------------------------------
(* Faults *)

Crash(c) ==
    /\ Fault("crash")
    /\ pc[c] # "idle"
    /\ nameLock' = [n \in Names |-> IF nameLock[n] = c THEN Free ELSE nameLock[n]]
    /\ wireLock' = [n \in Names |-> IF wireLock[n] = c THEN Free ELSE wireLock[n]]
    /\ portsLock' = IF portsLock = c THEN Free ELSE portsLock
    /\ Goto(c, "idle") /\ Job1(c, NoJob)
    /\ UNCHANGED <<files, procs, starts, ops>>

\* An exception (Ctrl-C, OSError) inside the try block of _launch_and_record:
\* the except block terminates the tree only once the controller's start time
\* is known; a second exception, inside it, leaves for the finally block
AfterInterrupt(p) ==
    CASE p \in {"spawn", "identify"}  -> "clearSession"
      [] p \in TryPcs \ {"identify"}  -> "term"
      [] p \in KillPcs \cup ClearPcs  -> "finally"

Interrupt(c) ==
    /\ Fault("interrupt")
    /\ job[c].fresh /\ pc[c] \in {"spawn"} \cup TryPcs \cup KillPcs \cup ClearPcs
    /\ Goto(c, AfterInterrupt(pc[c]))
    /\ UNCHANGED <<files, locks, procs, job, starts, ops>>

SupKilled(l) ==
    /\ Fault("supkill")
    /\ SupAlive(l)
    /\ sup' = [sup EXCEPT ![l] = "gone"]
    /\ UNCHANGED <<files, locks, root, helpers, plan, foreign, pc, job, starts, ops>>

ForeignBinds(p) ==
    /\ Fault("foreign")
    /\ ~Answers(p)
    /\ foreign' = foreign \cup {p}
    /\ UNCHANGED <<files, locks, sup, root, helpers, plan, pc, job, starts, ops>>

-----------------------------------------------------------------------------
(* The system *)

Control(c)    == \/ LockName(c) \/ Fence(c) \/ Decide(c) \/ LockPorts(c) \/ Call(c)
                 \/ Reply(c) \/ UnlockPorts(c) \/ UnlockName(c)
Inspection(c) == Read(c) \/ Tree(c) \/ LockWire(c) \/ Probe(c)
Allocation(c) == Scan(c) \/ Tally(c) \/ Alloc(c)
Removal(c)    == ClearSession(c) \/ ClearLaunching(c) \/ ClearMarker(c) \/ ClearBoot(c)
Launch(c)     == \/ Prep(c) \/ Spawn(c) \/ Identify(c) \/ Mark(c) \/ Provisional(c)
                 \/ OpenGate(c) \/ AwaitPid(c) \/ AwaitFails(c) \/ BlenderIdentity(c)
                 \/ RecordSession(c) \/ Promote(c) \/ Finally(c)
Terminate(c)  == TermAbsent(c) \/ TermSignal(c) \/ Kill(c) \/ KillSurvived(c)

\* A step of an operation that has begun
ClientStep(c) ==
    Control(c) \/ Inspection(c) \/ Allocation(c) \/ Removal(c) \/ Launch(c) \/ Terminate(c)

BlenderStep(l) == RootBinds(l) \/ RootExits(l) \/ HelperStarts(l) \/ HelperEnds(l)

ClientFault(c) == Crash(c) \/ Interrupt(c)

FaultStep ==
    \/ \E c \in Clients : ClientFault(c)
    \/ \E l \in Launches : SupKilled(l)
    \/ \E p \in BasePort..MaxPort : ForeignBinds(p)

\* All operations are spent: the behaviour may end
Quiet ==
    /\ ops = MaxOps /\ \A c \in Clients : pc[c] = "idle"
    /\ UNCHANGED vars

Next ==
    \/ \E c \in Clients : Begin(c) \/ ClientStep(c)
    \/ \E l \in Launches : SupStep(l) \/ BlenderStep(l)
    \/ FaultStep
    \/ Quiet

Spec == Init /\ [][Next]_vars

\* Every client that has begun keeps running: the OS schedules it, and each
\* wait of the code other than a lock has a deadline.
FairSpec == Spec /\ \A c \in Clients : WF_vars(ClientStep(c))

-----------------------------------------------------------------------------
(* Properties *)

\* The record's processes can still be alive and hold its port
Live(r) == r # NoRec /\ (TreeExists(r) \/ RootMatches(r))

\* Two Sessions that may both be alive never share an MCP port: _allocate_port
\* scans the other records without their name locks, while their owners start,
\* stop and die, and only .ports.lock keeps what it saw true until it records.
UniqueLivePorts ==
    \A m, n \in Names :
        m # n /\ Live(Current(m)) /\ Live(Current(n)) => Current(m).port # Current(n).port

\* A crash between any two file operations of a launch, stop or reclaim never
\* leaves a record without its Ownership marker: such a record of a live tree
\* could neither be stopped nor reclaimed (sessions.py:644-661).
RecordMarked ==
    \A n \in Names : Current(n) # NoRec => marker[n] = Current(n).launch

\* ADR 0003: a call or a stop that passed the identity fence acts on the
\* Session the caller named, and that Session is not replaced while it acts.
FencedActor ==
    \A c \in Clients :
        LET j == job[c] IN
        pc[c] \in {"callWire", "call", "reply"} \cup KillPcs /\ ~j.fresh =>
            j.rec.launch = j.sid /\ Current(j.name) = j.rec

\* When stop has terminated a Session and goes on to forget its record, the
\* recorded Blender and every other member of its group are gone
\* ("Session process tree is gone", sessions.py:409).
StopMeansGone ==
    \A c \in Clients :
        pc[c] = "clearSession" /\ job[c].op = "stop" /\ Stoppable(job[c].status) =>
            ~GroupAlive(job[c].rec.launch) /\ ~RootMatches(job[c].rec)

\* A live process group is always somebody's: recorded under a name, or in the
\* hands of the start that made it (CONTEXT.md, Ownership).
InHand(l) == \E c \in Clients : job[c].fresh /\ job[c].sid = l
NoOrphans ==
    \A l \in Launches : GroupAlive(l) => InHand(l) \/ \E n \in Names : Current(n).launch = l

\* One Session Name never has two live trees: a start reclaims or refuses.
SingleTree ==
    \A k, l \in Launches :
        GroupAlive(k) /\ GroupAlive(l) /\ plan[k].name = plan[l].name => k = l

\* posix_launcher "waits for durable Session state": Blender is started only
\* while the record of the very launch that started it is on disk.
DurableBeforeLaunch ==
    [][\A l \in Launches :
         root[l] = "none" /\ root'[l] = "up" => Current(plan[l].name).launch = l]_vars

\* An inspection that finds a Session healthy was answered by the Blender in
\* its record (CONTEXT.md, Health: "its MCP addon socket answers").
OwnAnswer(r) == \E l \in OwnServers(r.port) : l = r.blender
HealthIsOwn ==
    [][\A c \in Clients :
         pc[c] = "probe" /\ job'[c].status = "healthy" => OwnAnswer(job[c].rec)]_vars

\* A call reaches the Blender of the Session it was fenced for, or nobody: the
\* port is not taken over between the inspection and the connection.
CallReachesOwn ==
    [][\A c \in Clients :
         pc[c] = "call" /\ pc'[c] = "reply" /\ Answers(job[c].rec.port) =>
            OwnAnswer(job[c].rec)]_vars

\* What start writes, the next command can read: a port past the valid range
\* makes the record unreadable (sessions.py:818-819), so that the Session can
\* be neither stopped nor reclaimed and no other Session can be started.
RecordReadable == \A n \in Names : Readable(Current(n))

\* Every operation ends, whoever holds the locks it needs, also when holders
\* crash: the lock order name, ports, wire admits no cycle.
OperationsEnd == \A c \in Clients : pc[c] # "idle" ~> pc[c] = "idle"

-----------------------------------------------------------------------------
(* The registry of Sessions that all this implements, while no client dies *)

Entered(n) ==
    IF Current(n) = NoRec THEN [launch |-> 0, port |-> 0, phase |-> "none"]
    ELSE [launch |-> Current(n).launch, port |-> Current(n).port,
          phase |-> IF session[n] # NoRec THEN "ready" ELSE "starting"]

\* A launch that has a supervisor is somebody's to record, recorded, or spent.
Unrecorded(l) == \E c \in Clients : pc[c] \in {"identify", "mark", "provisional"} /\ job[c].sid = l
Spent == {l \in Launches : /\ sup[l] # "unborn" /\ ~Unrecorded(l)
                           /\ \A n \in Names : Current(n).launch # l}

LifeOf(l) ==
    IF sup[l] # "unborn" /\ ~GroupAlive(l) THEN "over"
    ELSE IF root[l] = "none" THEN "none" ELSE "up"

Registry == INSTANCE SessionRegistry WITH
    registry <- [n \in Names |-> Entered(n)], spent <- Spent,
    life <- [l \in Launches |-> LifeOf(l)]

\* Clients, supervisors and Blenders together keep what the registry promises:
\* one Session to a name, one name and one life to a launch, no port shared, no
\* Session forgotten while a process of it is left.
ImplementsRegistry == Registry!RegistrySpec
=============================================================================
