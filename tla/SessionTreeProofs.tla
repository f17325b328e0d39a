-------------------------- MODULE SessionTreeProofs --------------------------
(***************************************************************************)
(* Proofs about the process trees of SessionLifecycle, for any number of   *)
(* clients and names and any bounds, as long as no client is killed or     *)
(* interrupted between two steps, no supervisor is killed from outside,    *)
(* and SIGKILL kills.                                                      *)
(***************************************************************************)
EXTENDS SessionLifecycleProofs

\* The faults that leave a group without its supervisor or without its start
Violent == {"crash", "interrupt", "supkill", "unkillable"}

\* None of them happens
Calm == Faults \cap Violent = {}

\* No supervisor of a launch for name n is alive.
Empty(n) == \A l \in Launches : plan[l].name = n => ~SupAlive(l)

\* Where a start has a supervisor that no record names yet
UnrecordedPcs == {"identify", "mark", "provisional"}

\* A live supervisor's launch is the one recorded under its name, or about to be.
Named(l) ==
    SupAlive(l) =>
        /\ plan[l].name \in Names
        /\ \/ Current(plan[l].name).launch = l
           \/ \E c \in Clients : pc[c] \in UnrecordedPcs /\ job[c].sid = l

\* A supervisor that has started Blender or may go on to do so is recorded.
Passed(l) == SupAlive(l) /\ (sup[l] = "waiting" => gate[plan[l].name])
Ready(l) == Passed(l) => Current(plan[l].name).launch = l

\* A group outlives its supervisor only while a client is about to kill it.
Residue(l) ==
    GroupAlive(l) /\ ~SupAlive(l) => \E c \in Clients : pc[c] = "kill" /\ job[c].rec.launch = l

\* Nobody but Blender starts helpers.
Helped(l) == l \in helpers => root[l] # "none"

\* What the proofs need of a launch
LaunchCalm(l) == Named(l) /\ Ready(l) /\ Residue(l) /\ Helped(l)

\* A record names its own Blender, and its launch was made for its name and port.
OwnBlender(r) == r.blender \in {0, r.launch}
Placed(r, n)  ==
    OwnBlender(r) /\ (r # NoRec => plan[r.launch].name = n /\ plan[r.launch].port = r.port)
NameCalm(n)   == Placed(session[n], n) /\ Placed(launching[n], n)

\* Where a client with job j knows that its name has no live supervisor
Over(p, j) ==
    \/ p \in ClearPcs \cup {"prep", "spawn", "kill"}
    \/ p = "ports" /\ ~Stoppable(j.status)
    \/ p = "decide" /\ j.status \in {"not-found", "dead"}
    \/ Choosing(p, j)  /\ j.op = "start"

\* What a client at p with job j knows of the processes of its name n.
HandFacts(p, j, n) ==
    /\ Over(p, j) => Empty(n)
    /\ p \in {"spawn", "open"} \cup UnrecordedPcs => ~gate[n]
    /\ p \in {"tree", "wire", "probe"} /\ j.at = n => j.rec = Current(n)
    /\ p \in {"spawn"} \cup TryPcs /\ boot[n].is = "pid" => boot[n].blender = j.sid
    /\ p \in {"open", "await", "blender", "remark", "record"} =>
          session[n] = NoRec /\ launching[n].launch = j.sid
    /\ p = "promote" => session[n].launch = j.sid
    /\ p = "term" => Current(n).launch = j.rec.launch
    /\ p \in KillPcs \cup {"clearSession"} /\ (j.fresh \/ j.op = "stop") =>
          plan[j.rec.launch].name = n /\ j.rec.launch # 0 /\ sup[j.rec.launch] # "unborn"
    /\ j.fresh => plan[j.sid].name = n /\ plan[j.sid].port = j.rec.port

\* What client c knows while it holds the lock of its name
ClientCalm(c) ==
    /\ OwnBlender(job[c].rec)
    /\ pc[c] \notin {"idle", "lock"} => HandFacts(pc[c], job[c], job[c].name)

\* The inductive invariant, beside Ground
CalmInv ==
    /\ \A l \in Launches : LaunchCalm(l)
    /\ \A n \in Names : NameCalm(n)
    /\ \A c \in Clients : ClientCalm(c)

\* The invariants of SessionLifecycleProofs that the proofs start from
Ground == TypeInv /\ FileInv /\ ProcInv /\ BornInv

-----------------------------------------------------------------------------
(* What a client's step leaves alone *)

\* A client writes the handshake files of its own name only, makes one launch,
\* and supervisors are born of it and die of it, but do not go on.
Local(c) ==
    /\ \A m \in Names \ {job[c].name} : gate'[m] = gate[m] /\ boot'[m] = boot[m]
    /\ \A l \in Launches :
          plan'[l] = plan[l] \/ (pc[c] = "prep" /\ l = job[c].sid /\ plan'[l].name = job[c].name)
    /\ \A l \in Launches :
          sup'[l] = sup[l] \/ ~SupAlive(l)' \/ (pc[c] = "spawn" /\ l = job[c].sid)

\* What a client in its operation knows.
LEMMA Hand ==
    ASSUME Ground, CalmInv, NEW c \in Clients, pc[c] \notin {"idle", "lock"}
    PROVE  /\ HandFacts(pc[c], job[c], job[c].name) /\ OwnBlender(job[c].rec)
           /\ Facts(pc[c], job[c], session[job[c].name], launching[job[c].name], marker[job[c].name])
           /\ JobOK(pc[c], job[c]) /\ job[c] \in Job /\ job[c].name \in Names
<1>1. HandFacts(pc[c], job[c], job[c].name) /\ OwnBlender(job[c].rec)
  BY DEF CalmInv, ClientCalm
<1>2. Facts(pc[c], job[c], session[job[c].name], launching[job[c].name], marker[job[c].name])
  BY DEF Ground, FileInv, Knows
<1>3. JobOK(pc[c], job[c]) /\ job[c] \in Job
  BY DEF Ground, TypeInv, TypeOK, ClientsTyped, JobsOK
<1>4. job[c].name \in Names
  BY <1>3 DEF JobOK
<1>. QED BY <1>1, <1>2, <1>3, <1>4

\* A client whose start has no record yet works on the name its launch was made for.
LEMMA UnrecordedName ==
    ASSUME Ground, CalmInv, NEW c \in Clients, pc[c] \in UnrecordedPcs
    PROVE  /\ pc[c] \notin {"idle", "lock"} /\ job[c].fresh /\ job[c].sid \in Launches
           /\ plan[job[c].sid].name = job[c].name
<1>1. pc[c] \notin {"idle", "lock"} /\ pc[c] \in TryPcs
  BY DEF UnrecordedPcs, TryPcs
<1>2. HandFacts(pc[c], job[c], job[c].name) /\ JobOK(pc[c], job[c])
  BY <1>1, Hand
<1>3. job[c].fresh
  BY <1>1, <1>2 DEF JobOK
<1>. QED BY <1>1, <1>2, <1>3 DEF JobOK, HandFacts

\* A live supervisor of a client's name is recorded, or its start's own.
LEMMA Mine ==
    ASSUME Ground, CalmInv, NEW c \in Clients, pc[c] \notin {"idle", "lock"},
           NEW l \in Launches, SupAlive(l), plan[l].name = job[c].name
    PROVE  \/ Current(job[c].name).launch = l
           \/ pc[c] \in UnrecordedPcs /\ job[c].sid = l
<1>1. SUFFICES ASSUME Current(job[c].name).launch # l
               PROVE  pc[c] \in UnrecordedPcs /\ job[c].sid = l
  OBVIOUS
<1>2. PICK d \in Clients : pc[d] \in UnrecordedPcs /\ job[d].sid = l
  BY <1>1 DEF CalmInv, LaunchCalm, Named
<1>3. pc[d] \notin {"idle", "lock"} /\ job[d].name = job[c].name
  BY <1>2, UnrecordedName
<1>4. d = c
  BY <1>3, NamesDiffer DEF Ground, FileInv
<1>. QED BY <1>2, <1>4

\* A name without live supervisors stays so under the steps of others,
LEMMA StaysEmpty ==
    ASSUME Ground, CalmInv, NEW c \in Clients, Local(c), pc[c] # "idle", NEW m, Empty(m),
           m # job[c].name \/ pc[c] \notin {"prep", "spawn"}
    PROVE  Empty(m)'
<1>. SUFFICES ASSUME NEW l \in Launches, plan'[l].name = m, SupAlive(l)' PROVE FALSE
  BY DEF Empty
<1>1. CASE m # job[c].name
  <2>1. plan[l].name = m
    BY <1>1 DEF Local
  <2>2. ~SupAlive(l)
    BY <2>1 DEF Empty
  <2>3. pc[c] = "spawn" /\ l = job[c].sid
    BY <2>2 DEF Local, SupAlive
  <2>4. plan[l].name = job[c].name
    BY <2>3, Hand DEF JobOK, HandFacts
  <2>. QED BY <1>1, <2>1, <2>4
<1>2. CASE pc[c] \notin {"prep", "spawn"}
  BY <1>2 DEF Local, Empty, SupAlive
<1>. QED BY <1>1, <1>2

\* and so do the facts about launches that have been made.
LEMMA PlanKept ==
    ASSUME Ground, NEW c \in Clients, pc[c] # "idle", Local(c), NEW l \in Launches, sup[l] # "unborn"
    PROVE  plan'[l] = plan[l]
<1>1. SUFFICES ASSUME pc[c] = "prep", l = job[c].sid PROVE FALSE
  BY DEF Local
<1>2. JobOK(pc[c], job[c])
  BY DEF Ground, TypeInv, JobsOK
<1>3. Unmade(pc[c], job[c])
  BY <1>1, <1>2 DEF Unmade, JobOK, FreshPcs, TryPcs, ClearPcs, KillPcs
<1>. QED BY <1>1, <1>3 DEF Ground, ProcInv, Minted

\* What a client at p with job j knows of its name n stays true when the files
\* of n and the launches it knows of are left alone.
LEMMA HandKept ==
    ASSUME NEW p, NEW j, NEW n, HandFacts(p, j, n),
           session'[n] = session[n], launching'[n] = launching[n],
           gate'[n] = gate[n], boot'[n] = boot[n],
           Empty(n) => Empty(n)',
           p \in KillPcs \cup {"clearSession"} /\ (j.fresh \/ j.op = "stop") =>
               plan'[j.rec.launch] = plan[j.rec.launch] /\ sup'[j.rec.launch] # "unborn",
           j.fresh => plan'[j.sid] = plan[j.sid]
    PROVE  HandFacts(p, j, n)'
<1>1. Current(n)' = Current(n)
  BY DEF Current
<1>. QED BY <1>1 DEF HandFacts

\* What a client at p with job j knows of its name holds in the next state.
LEMMA ClientCalmTo ==
    ASSUME NEW d, NEW p, NEW j, NEW n, pc'[d] = p, job'[d] = j, n = j.name, OwnBlender(j.rec),
           p \notin {"idle", "lock"} => HandFacts(p, j, n)'
    PROVE  ClientCalm(d)'
BY DEF ClientCalm, HandFacts, OwnBlender

\* A client's step disturbs neither what another client knows of the processes
\* nor the records of another name.
LEMMA OthersCalm ==
    ASSUME Ground, CalmInv, Fades, NEW c \in Clients, Moves(c), Local(c),
           pc[c] # "lock" \/ UNCHANGED <<files, procs>>
    PROVE  /\ \A d \in Clients \ {c} : ClientCalm(d)'
           /\ \A n \in Names \ {job[c].name} : NameCalm(n)'
<1>0. pc[c] # "idle"
  BY DEF Moves
<1>1. ASSUME NEW d \in Clients \ {c} PROVE ClientCalm(d)'
  <2>1. PICK p : p = pc[d]
    OBVIOUS
  <2>2. PICK j : j = job[d]
    OBVIOUS
  <2>3. pc'[d] = p /\ job'[d] = j
    BY <2>1, <2>2 DEF Moves
  <2>4. OwnBlender(j.rec)
    BY <2>2 DEF CalmInv, ClientCalm
  <2>5. ASSUME p \notin {"idle", "lock"} PROVE HandFacts(p, j, j.name)'
    <3>n. PICK n : n = j.name
      OBVIOUS
    <3>1. /\ HandFacts(p, j, n) /\ JobOK(p, j) /\ j \in Job /\ n \in Names
          /\ Facts(p, j, session[n], launching[n], marker[n])
      BY <3>n, <2>1, <2>2, <2>5, Hand
    <3>2. n # job[c].name \/ UNCHANGED <<files, procs>>
      BY <1>0, <3>n, <2>1, <2>2, <2>5, NamesDiffer DEF Ground, FileInv
    <3>3. session'[n] = session[n] /\ launching'[n] = launching[n] /\ gate'[n] = gate[n] /\ boot'[n] = boot[n]
      BY <3>1, <3>2 DEF Moves, Local, files
    <3>4. Empty(n) => Empty(n)'
      <4>1. CASE n # job[c].name
        BY <1>0, <4>1, StaysEmpty
      <4>2. CASE UNCHANGED <<files, procs>>
        BY <4>2 DEF Empty, SupAlive, procs
      <4>. QED BY <3>2, <4>1, <4>2
    <3>6. ASSUME p \in KillPcs \cup {"clearSession"}, j.fresh \/ j.op = "stop"
          PROVE  plan'[j.rec.launch] = plan[j.rec.launch] /\ sup'[j.rec.launch] # "unborn"
      <4>1. sup[j.rec.launch] # "unborn" /\ j.rec.launch # 0
        BY <3>1, <3>6 DEF HandFacts
      <4>2. j.rec.launch \in Launches
        BY <3>1, <4>1, BoundAssumption DEF Job, Record, Launches
      <4>. QED BY <1>0, <4>1, <4>2, PlanKept DEF Fades
    <3>7. ASSUME j.fresh PROVE plan'[j.sid] = plan[j.sid]
      <4>1. j.op = "start" /\ j.sid \in Launches
        BY <3>1, <3>7 DEF JobOK
      <4>2. ~(pc[c] = "prep" /\ j.sid = job[c].sid)
        <5>1. pc[c] = "prep" => job[c].op = "start"
          BY DEF Ground, TypeInv, JobsOK, JobOK
        <5>. QED BY <2>2, <4>1, <5>1 DEF Ground, ProcInv, Minted
      <4>. QED BY <4>1, <4>2 DEF Local
    <3>. QED BY <3>n, <3>1, <3>3, <3>4, <3>6, <3>7, HandKept
  <2>. QED BY <2>3, <2>4, <2>5, ClientCalmTo
<1>2. ASSUME NEW n \in Names \ {job[c].name} PROVE NameCalm(n)'
  <2>1. session'[n] = session[n] /\ launching'[n] = launching[n]
    BY DEF Moves
  <2>2. session[n] # NoRec => plan'[session[n].launch] = plan[session[n].launch]
    BY <1>0, PlanKept, RecordTyped DEF Ground, BornInv, Born
  <2>3. launching[n] # NoRec => plan'[launching[n].launch] = plan[launching[n].launch]
    BY <1>0, PlanKept, RecordTyped DEF Ground, BornInv, Born
  <2>. QED BY <2>1, <2>2, <2>3 DEF CalmInv, NameCalm, Placed, OwnBlender
<1>. QED BY <1>1, <1>2

\* A step that leaves the processes alone keeps them in the hands of the clients
\* and the records, if the client's name has no live supervisor, or the launch
\* it has recorded and its gate stay as they are.
LEMMA LaunchesKept ==
    ASSUME Ground, CalmInv, NEW c \in Clients, Moves(c), Local(c), UNCHANGED procs,
           pc[c] # "kill", pc[c] # "lock" \/ UNCHANGED files, NEW n, n = job[c].name,
           \/ Empty(n)
           \/ /\ Current(n)'.launch = Current(n).launch /\ (gate'[n] => gate[n])
              /\ pc[c] \in UnrecordedPcs => pc'[c] \in UnrecordedPcs \/ ~SupAlive(job[c].sid)
    PROVE  \A l \in Launches : LaunchCalm(l)'
<1>. SUFFICES ASSUME NEW l \in Launches PROVE LaunchCalm(l)'
  OBVIOUS
<1>0. LaunchCalm(l) /\ UNCHANGED <<sup, root, helpers, plan>>
  BY DEF CalmInv, procs
<1>1. ASSUME NEW m \in Names, m = plan[l].name, SupAlive(l)
      PROVE  Current(m)'.launch = Current(m).launch /\ (gate'[m] => gate[m])
  <2>1. CASE m # n
    BY <1>1, <2>1 DEF Moves, Local, Current
  <2>2. CASE m = n
    <3>1. ~Empty(n)
      BY <1>1, <2>2 DEF Empty
    <3>. QED BY <2>2, <3>1
  <2>. QED BY <2>1, <2>2
<1>2. Named(l)'
  <2>. SUFFICES ASSUME SupAlive(l)
                PROVE  /\ plan[l].name \in Names
                       /\ \/ Current(plan[l].name)'.launch = l
                          \/ \E d \in Clients : pc'[d] \in UnrecordedPcs /\ job'[d].sid = l
    BY <1>0 DEF Named, SupAlive
  <2>1. plan[l].name \in Names
    BY <1>0 DEF LaunchCalm, Named
  <2>2. CASE Current(plan[l].name).launch = l
    BY <1>0, <1>1, <2>1, <2>2
  <2>3. ASSUME NEW d \in Clients, pc[d] \in UnrecordedPcs, job[d].sid = l
        PROVE  pc'[d] \in UnrecordedPcs /\ job'[d].sid = l
    <3>1. CASE d # c
      BY <2>3, <3>1 DEF Moves
    <3>2. CASE d = c
      <4>1. plan[l].name = n
        BY <2>3, <3>2, UnrecordedName
      <4>2. pc'[c] \in UnrecordedPcs
        BY <2>3, <3>2, <4>1 DEF Empty
      <4>. QED BY <2>3, <3>2, <4>2 DEF Moves, SameErrand, UnrecordedPcs
    <3>. QED BY <3>1, <3>2
  <2>. QED BY <1>0, <2>1, <2>2, <2>3 DEF LaunchCalm, Named
<1>3. Ready(l)'
  <2>. SUFFICES ASSUME Passed(l)' PROVE Current(plan[l].name)'.launch = l
    BY <1>0 DEF Ready
  <2>1. SupAlive(l)
    BY <1>0 DEF Passed, SupAlive
  <2>2. plan[l].name \in Names
    BY <1>0, <2>1 DEF LaunchCalm, Named
  <2>3. Passed(l)
    BY <1>0, <1>1, <2>1, <2>2 DEF Passed
  <2>. QED BY <1>0, <1>1, <2>1, <2>2, <2>3 DEF LaunchCalm, Ready
<1>4. Residue(l)'
  BY <1>0 DEF LaunchCalm, Residue, GroupAlive, SupAlive, RootAlive, Moves
<1>5. Helped(l)'
  BY <1>0 DEF LaunchCalm, Helped
<1>. QED BY <1>2, <1>3, <1>4, <1>5 DEF LaunchCalm

-----------------------------------------------------------------------------
(* Clients that leave files and processes alone *)

\* Such a step keeps everything but what the client itself knows.
LEMMA QuietCalm ==
    ASSUME Ground, CalmInv, Fades, NEW c \in Clients, Moves(c), UNCHANGED <<files, procs>>,
           pc[c] # "kill",
           pc[c] \in UnrecordedPcs => pc'[c] \in UnrecordedPcs \/ ~SupAlive(job[c].sid),
           ClientCalm(c)'
    PROVE  CalmInv'
<1>1. Local(c)
  BY DEF Local, files, procs
<1>2. /\ \A d \in Clients \ {c} : ClientCalm(d)'
      /\ \A m \in Names \ {job[c].name} : NameCalm(m)'
  BY <1>1, OthersCalm
<1>3. PICK n : n = job[c].name
  OBVIOUS
<1>4. n \in Names => NameCalm(n)'
  BY DEF files, procs, CalmInv, NameCalm, Placed, OwnBlender
<1>5. Current(n)' = Current(n) /\ (gate'[n] => gate[n])
  BY DEF files, Current
<1>6. \A l \in Launches : LaunchCalm(l)'
  BY <1>1, <1>3, <1>5, LaunchesKept
<1>. QED BY <1>2, <1>3, <1>4, <1>6 DEF CalmInv

\* What such a client, at p with job f after the step, has to know.
LEMMA QuietTo ==
    ASSUME Ground, NEW c \in Clients, NEW p, NEW f, Goto(c, p), Job1(c, f), UNCHANGED <<files, procs>>,
           NEW n, n = f.name, OwnBlender(f.rec), p \notin {"idle", "lock"} => HandFacts(p, f, n)
    PROVE  ClientCalm(c)'
<1>1. pc'[c] = p /\ job'[c] = f
  BY DEF Goto, Job1, Ground, TypeInv, TypeOK, ClientsTyped
<1>2. HandFacts(p, f, n) => HandFacts(p, f, n)'
  <2>1. Empty(n)' = Empty(n)
    BY DEF Empty, SupAlive, procs
  <2>2. Current(n)' = Current(n)
    BY DEF Current, files
  <2>. QED BY <2>1, <2>2 DEF HandFacts, files, procs
<1>. QED BY <1>1, <1>2, ClientCalmTo

\* The same for one that keeps its job.
LEMMA QuietSame ==
    ASSUME Ground, CalmInv, NEW c \in Clients, NEW p, Goto(c, p), UNCHANGED <<files, procs, job>>,
           NEW n, n = job[c].name, p \notin {"idle", "lock"} => HandFacts(p, job[c], n)
    PROVE  ClientCalm(c)'
<1>1. Job1(c, job[c])
  BY DEF Job1, Ground, TypeInv, TypeOK, ClientsTyped
<1>2. OwnBlender(job[c].rec)
  BY DEF CalmInv, ClientCalm
<1>. QED BY <1>1, <1>2, QuietTo

\* Locks, decisions and calls.
LEMMA ControlCalm ==
    ASSUME Ground, CalmInv, Fades, NEW c \in Clients, Control(c)
    PROVE  CalmInv'
<1>0. /\ Moves(c) /\ UNCHANGED <<files, procs>> /\ pc[c] # "kill" /\ pc[c] \notin UnrecordedPcs
      /\ JobOK(pc[c], job[c]) /\ job[c] \in Job /\ pc[c] \in PCs /\ OwnBlender(job[c].rec)
  BY MovesControl DEF Control, LockName, Fence, Decide, LockPorts, Call, Reply, UnlockPorts,
     UnlockName, UnrecordedPcs, Ground, TypeInv, TypeOK, ClientsTyped, JobsOK, CalmInv, ClientCalm
<1>n. PICK n : n = job[c].name
  OBVIOUS
<1>h. /\ pc[c] \notin {"idle", "lock"} =>
            /\ HandFacts(pc[c], job[c], n)
            /\ Facts(pc[c], job[c], session[n], launching[n], marker[n])
            /\ n \in Names
  BY <1>n, Hand
<1>1. CASE LockName(c)
  <2>. DEFINE p == IF job[c].op \in {"call", "stop"} THEN "fence" ELSE "read"
  <2>1. Goto(c, p) /\ UNCHANGED job
    BY <1>1 DEF LockName
  <2>2. HandFacts(p, job[c], n)
    BY <1>0, <1>1, <1>n
       DEF LockName, HandFacts, Over, Choosing, JobOK, FreshPcs, TryPcs, ClearPcs, KillPcs, InspectPcs, UnrecordedPcs
  <2>. QED BY <1>0, <1>n, <2>1, <2>2, QuietSame, QuietCalm
<1>2. CASE Fence(c) \/ Call(c) \/ Reply(c)
  <2>1. PICK p \in {"read", "unlock", "reply"} : Goto(c, p) /\ UNCHANGED job
    BY <1>2 DEF Fence, Call, Reply
  <2>2. pc[c] \in {"fence", "call", "reply"}
    BY <1>2 DEF Fence, Call, Reply
  <2>3. HandFacts(p, job[c], n)
    BY <1>0, <1>h, <2>1, <2>2
       DEF HandFacts, Over, Choosing, JobOK, FreshPcs, TryPcs, ClearPcs, KillPcs, InspectPcs, UnrecordedPcs
  <2>. QED BY <1>0, <1>n, <2>1, <2>3, QuietSame, QuietCalm
<1>3. CASE Decide(c)
  <2>. DEFINE f == [job[c] EXCEPT !.reclaim = job[c].op = "start" /\ Reclaimable(job[c].status)]
  <2>1. PICK p \in Verdicts(job[c].op, job[c].status) : Goto(c, p) /\ Job1(c, f)
    BY <1>3 DEF Decide
  <2>2. /\ f.name = n /\ f.rec = job[c].rec /\ f.op = job[c].op /\ f.status = job[c].status
        /\ f.fresh = job[c].fresh /\ f.sid = job[c].sid /\ f.at = job[c].at
    BY <1>0, <1>n DEF Job
  <2>. HIDE DEF f
  <2>3. pc[c] = "decide" /\ job[c].fresh = FALSE
    BY <1>0, <1>3 DEF Decide, JobOK, FreshPcs, TryPcs, ClearPcs, KillPcs, Job
  <2>4. CASE p = "ports"
    <3>1. job[c].status \in {"not-found", "dead"} \/ Stoppable(job[c].status)
      BY <2>1, <2>4 DEF Verdicts, Reclaimable
    <3>2. job[c].op = "start" => job[c].status \in {"not-found", "dead"}
      BY <2>1, <2>4 DEF Verdicts, Reclaimable
    <3>3. HandFacts(p, f, n)
      BY <1>h, <2>2, <2>3, <2>4, <3>1, <3>2
         DEF HandFacts, Over, Choosing, TryPcs, ClearPcs, KillPcs, InspectPcs, UnrecordedPcs
    <3>. QED BY <1>0, <1>n, <2>1, <2>2, <3>3, QuietTo, QuietCalm
  <2>5. CASE p # "ports"
    <3>1. p \in {"unlock", "callWire"}
      BY <2>1, <2>5 DEF Verdicts
    <3>2. HandFacts(p, f, n)
      BY <2>2, <2>3, <3>1
         DEF HandFacts, Over, Choosing, TryPcs, ClearPcs, KillPcs, InspectPcs, UnrecordedPcs
    <3>. QED BY <1>0, <1>n, <2>1, <2>2, <3>2, QuietTo, QuietCalm
  <2>. QED BY <2>4, <2>5
<1>4. CASE LockPorts(c)
  <2>1. pc[c] = "ports" /\ job[c].fresh = FALSE /\ n \in Names /\ HandFacts("ports", job[c], n)
    BY <1>0, <1>4, <1>h DEF LockPorts, JobOK, FreshPcs, TryPcs, ClearPcs, KillPcs, Job
  <2>2. CASE job[c].op = "start"
    <3>. DEFINE f == [job[c] EXCEPT !.left = Names \ {job[c].name}]
    <3>1. Goto(c, "scan") /\ Job1(c, f)
      BY <1>4, <2>2 DEF LockPorts
    <3>2. f.name = n /\ f.rec = job[c].rec /\ f.fresh = FALSE /\ f.op = "start"
      BY <1>0, <1>n, <2>1, <2>2 DEF Job
    <3>. HIDE DEF f
    <3>3. HandFacts("scan", f, n)
      BY <2>1, <2>2, <3>2
         DEF HandFacts, Over, Choosing, TryPcs, ClearPcs, KillPcs, InspectPcs, UnrecordedPcs
    <3>. QED BY <1>0, <1>n, <3>1, <3>2, <3>3, QuietTo, QuietCalm
  <2>3. CASE job[c].op # "start"
    <3>. DEFINE p == IF Stoppable(job[c].status) THEN "term" ELSE "clearSession"
    <3>1. Goto(c, p) /\ Job1(c, job[c]) /\ job[c].op = "stop"
      BY <1>0, <1>4, <2>1, <2>3 DEF LockPorts, JobOK
    <3>2. /\ job[c].rec = Current(n) /\ job[c].rec # NoRec
      BY <1>h, <2>1, <3>1 DEF Facts, FenceFacts, Holding, Current
    <3>3. /\ job[c].rec.launch \in Launches /\ plan[job[c].rec.launch].name = n
          /\ sup[job[c].rec.launch] # "unborn"
      BY <2>1, <3>2, RecordTyped, CurrentBorn DEF CalmInv, NameCalm, Placed, Current, Ground, Born
    <3>4. job[c].rec.launch # 0
      BY <3>3 DEF Launches
    <3>5. HandFacts(p, job[c], n)
      BY <2>1, <2>3, <3>2, <3>3, <3>4
         DEF HandFacts, Over, Choosing, TryPcs, ClearPcs, KillPcs, InspectPcs, UnrecordedPcs
    <3>. HIDE DEF p
    <3>. QED BY <1>0, <1>n, <3>1, <3>5, QuietTo, QuietCalm
  <2>. QED BY <2>2, <2>3
<1>5. CASE UnlockPorts(c)
  <2>1. pc'[c] = pc[c] /\ job'[c] = job[c] /\ pc[c] = "unlock"
    BY <1>5 DEF UnlockPorts
  <2>2. Goto(c, "unlock") /\ UNCHANGED job
    BY <1>5 DEF UnlockPorts, Goto, Ground, TypeInv, TypeOK, ClientsTyped
  <2>. QED BY <1>0, <1>h, <1>n, <2>1, <2>2, QuietSame, QuietCalm
<1>6. CASE UnlockName(c)
  <2>1. Goto(c, "idle") /\ Job1(c, NoJob)
    BY <1>6 DEF UnlockName
  <2>2. OwnBlender(NoJob.rec)
    BY DEF NoJob, NoRec, OwnBlender
  <2>. QED BY <1>0, <2>1, <2>2, QuietTo, QuietCalm
<1>. QED BY <1>1, <1>2, <1>3, <1>4, <1>5, <1>6 DEF Control

\* An inspection that finds its Session dead has found its supervisor gone.
LEMMA DeadIsEmpty ==
    ASSUME Ground, CalmInv, NEW c \in Clients, pc[c] \in InspectPcs \cup {"term"},
           NEW n, n = job[c].name, ~SupAlive(job[c].rec.launch),
           Current(n).launch = job[c].rec.launch
    PROVE  Empty(n)
<1>. SUFFICES ASSUME NEW l \in Launches, plan[l].name = n, SupAlive(l) PROVE FALSE
  BY DEF Empty
<1>1. pc[c] \notin {"idle", "lock"} /\ pc[c] \notin UnrecordedPcs
  BY DEF InspectPcs, UnrecordedPcs
<1>. QED BY <1>1, Mine

\* Inspections.
LEMMA InspectionCalm ==
    ASSUME Ground, CalmInv, Fades, NEW c \in Clients, Inspection(c)
    PROVE  CalmInv'
<1>0. /\ Moves(c) /\ UNCHANGED <<files, procs>> /\ pc[c] # "kill" /\ pc[c] \notin UnrecordedPcs
      /\ JobOK(pc[c], job[c]) /\ job[c] \in Job /\ pc[c] \in PCs /\ OwnBlender(job[c].rec)
      /\ pc[c] \in {"read", "tree", "wire", "callWire", "probe"}
  BY MovesInspection DEF Inspection, Read, Tree, LockWire, Probe, UnrecordedPcs,
     Ground, TypeInv, TypeOK, ClientsTyped, JobsOK, CalmInv, ClientCalm
<1>n. PICK n : n = job[c].name
  OBVIOUS
<1>h. /\ HandFacts(pc[c], job[c], n)
      /\ Facts(pc[c], job[c], session[n], launching[n], marker[n])
      /\ n \in Names /\ job[c].fresh = FALSE /\ job[c].at \in Names
  BY <1>0, <1>n, Hand DEF JobOK, FreshPcs, TryPcs, ClearPcs, KillPcs, Job
<1>1. CASE Read(c)
  <2>. DEFINE r == Current(job[c].at)
              k == RootMatches(r)
              st == IF r = NoRec THEN "not-found" ELSE "unreadable"
  <2>1. pc[c] = "read"
    BY <1>1 DEF Read
  <2>2. OwnBlender(r)
    BY <1>h DEF CalmInv, NameCalm, Placed, Current
  <2>3. CASE r = NoRec \/ ~Readable(r)
    <3>. DEFINE f == [job[c] EXCEPT !.status = st]
    <3>1. PICK p : p = (IF job[c].at = n THEN "decide" ELSE "tally")
      OBVIOUS
    <3>2. Goto(c, p) /\ Job1(c, f)
      BY <1>1, <1>n, <2>3, <3>1 DEF Read, Inspected
    <3>3. f.name = n /\ f.rec = job[c].rec /\ f.op = job[c].op /\ f.at = job[c].at /\ f.fresh = FALSE /\ f.status = st
      BY <1>0, <1>h, <1>n DEF Job
    <3>4. p = "decide" => st = "unreadable" \/ (job[c].at = n /\ r = NoRec)
      BY <3>1
    <3>5. r = NoRec /\ job[c].at = n => Empty(n)
      <4>. SUFFICES ASSUME Current(n) = NoRec, NEW l \in Launches, plan[l].name = n, SupAlive(l) PROVE FALSE
        BY DEF Empty
      <4>1. Current(n).launch = l
        BY <1>0, <1>n, <2>1, Mine
      <4>. QED BY <4>1 DEF NoRec, Launches
    <3>6. p = "tally" /\ job[c].op = "start" => Choosing("read", job[c])
      BY <1>n, <3>1 DEF Choosing, InspectPcs
    <3>. HIDE DEF f, r
    <3>7. HandFacts(p, f, n)
      BY <1>h, <2>1, <3>1, <3>3, <3>4, <3>5, <3>6
         DEF HandFacts, Over, Choosing, TryPcs, ClearPcs, KillPcs, InspectPcs, UnrecordedPcs
    <3>. QED BY <1>0, <1>n, <3>2, <3>3, <3>7, QuietTo, QuietCalm
  <2>4. CASE ~(r = NoRec \/ ~Readable(r))
    <3>. DEFINE f == [job[c] EXCEPT !.rec = r, !.rootM = k]
    <3>1. Goto(c, "tree") /\ Job1(c, f)
      BY <1>1, <2>4 DEF Read
    <3>2. f.name = n /\ f.rec = r /\ f.op = job[c].op /\ f.at = job[c].at /\ f.fresh = FALSE
      BY <1>0, <1>h, <1>n DEF Job
    <3>3. job[c].at = n => r = Current(n)
      OBVIOUS
    <3>. HIDE DEF f, r
    <3>4. HandFacts("tree", f, n)
      BY <1>n, <1>h, <2>1, <3>2, <3>3
         DEF HandFacts, Over, Choosing, TryPcs, ClearPcs, KillPcs, InspectPcs, UnrecordedPcs
    <3>. QED BY <1>0, <1>n, <2>2, <3>1, <3>2, <3>4, QuietTo, QuietCalm
  <2>. QED BY <2>3, <2>4
<1>2. CASE Tree(c)
  <2>. DEFINE k == Classify(job[c].rec, marker[job[c].at] = job[c].rec.launch, job[c].rootM)
              st == IF k = "wire" THEN "none" ELSE k
              f == [job[c] EXCEPT !.rootM = FALSE, !.status = st]
  <2>1. PICK p : p = (IF k = "wire" THEN "wire" ELSE IF job[c].at = n THEN "decide" ELSE "tally")
    OBVIOUS
  <2>2. Goto(c, p) /\ Job1(c, f) /\ pc[c] = "tree"
    BY <1>2, <1>n, <2>1 DEF Tree, Inspected
  <2>3. k # "not-found" /\ (k = "dead" => ~SupAlive(job[c].rec.launch))
    BY DEF Classify, TreeExists
  <2>4. f.name = n /\ f.rec = job[c].rec /\ f.op = job[c].op /\ f.at = job[c].at /\ f.fresh = FALSE /\ f.status = st
    BY <1>0, <1>h, <1>n DEF Job
  <2>5. k = "dead" /\ job[c].at = n => Empty(n)
    <3>. SUFFICES ASSUME k = "dead", job[c].at = n PROVE Empty(n)
      OBVIOUS
    <3>1. job[c].rec = Current(n) /\ ~SupAlive(job[c].rec.launch) /\ pc[c] \in InspectPcs
      BY <1>h, <2>2, <2>3 DEF HandFacts, InspectPcs
    <3>. QED BY <1>n, <3>1, DeadIsEmpty
  <2>6. p = "decide" => job[c].at = n /\ st = k
    BY <2>1
  <2>. HIDE DEF f, k
  <2>7. HandFacts(p, f, n)
    BY <1>n, <1>h, <2>1, <2>2, <2>3, <2>4, <2>5, <2>6
       DEF HandFacts, Over, Choosing, TryPcs, ClearPcs, KillPcs, InspectPcs, UnrecordedPcs
  <2>. QED BY <1>0, <1>n, <2>2, <2>4, <2>7, QuietTo, QuietCalm
<1>3. CASE LockWire(c)
  <2>1. PICK p \in {"probe", "call"} : Goto(c, p) /\ (p = "probe" => pc[c] = "wire") /\ UNCHANGED job
    BY <1>3 DEF LockWire
  <2>2. HandFacts(p, job[c], n)
    BY <1>0, <1>h, <2>1
       DEF HandFacts, Over, Choosing, TryPcs, ClearPcs, KillPcs, InspectPcs, UnrecordedPcs
  <2>. QED BY <1>0, <1>n, <2>1, <2>2, QuietSame, QuietCalm
<1>4. CASE Probe(c)
  <2>1. PICK st \in {"healthy", "unhealthy"} : Job1(c, [job[c] EXCEPT !.status = st])
    BY <1>4 DEF Probe
  <2>. DEFINE f == [job[c] EXCEPT !.status = st]
  <2>2. PICK p : p = (IF job[c].at = n THEN "decide" ELSE "tally")
    OBVIOUS
  <2>3. Goto(c, p) /\ Job1(c, f) /\ pc[c] = "probe"
    BY <1>4, <1>n, <2>1, <2>2 DEF Probe, Inspected
  <2>4. f.name = n /\ f.rec = job[c].rec /\ f.op = job[c].op /\ f.at = job[c].at /\ f.fresh = FALSE /\ f.status = st
    BY <1>0, <1>h, <1>n DEF Job
  <2>. HIDE DEF f
  <2>5. HandFacts(p, f, n)
    BY <1>n, <1>h, <2>1, <2>2, <2>3, <2>4
       DEF HandFacts, Over, Choosing, TryPcs, ClearPcs, KillPcs, InspectPcs, UnrecordedPcs
  <2>. QED BY <1>0, <1>n, <2>3, <2>4, <2>5, QuietTo, QuietCalm
<1>. QED BY <1>1, <1>2, <1>3, <1>4 DEF Inspection

\* Port scans.
LEMMA AllocationCalm ==
    ASSUME Ground, CalmInv, Fades, NEW c \in Clients, Allocation(c)
    PROVE  CalmInv'
<1>0. /\ Moves(c) /\ UNCHANGED <<files, procs>> /\ pc[c] # "kill" /\ pc[c] \notin UnrecordedPcs
      /\ JobOK(pc[c], job[c]) /\ job[c] \in Job /\ OwnBlender(job[c].rec)
      /\ pc[c] \in {"scan", "tally", "alloc"}
  BY MovesAllocation DEF Allocation, Scan, Tally, Alloc, UnrecordedPcs,
     Ground, TypeInv, TypeOK, ClientsTyped, JobsOK, CalmInv, ClientCalm
<1>n. PICK n : n = job[c].name
  OBVIOUS
<1>h. /\ HandFacts(pc[c], job[c], n) /\ n \in Names /\ job[c].fresh = FALSE /\ job[c].op = "start"
  BY <1>0, <1>n, Hand DEF JobOK, FreshPcs, TryPcs, ClearPcs, KillPcs, Job
<1>e. Empty(n)
  BY <1>0, <1>h DEF HandFacts, Over, Choosing
\* Whatever the start does next, its name has no live supervisor.
<1>t. ASSUME NEW p \in {"read", "alloc", "unlock", "scan", "clearSession", "prep"}, NEW f, Goto(c, p), Job1(c, f),
             f.name = n, f.op = "start", f.fresh = FALSE, OwnBlender(f.rec)
      PROVE  CalmInv'
  <2>1. HandFacts(p, f, n)
    BY <1>e, <1>t
       DEF HandFacts, Over, Choosing, TryPcs, ClearPcs, KillPcs, InspectPcs, UnrecordedPcs
  <2>. QED BY <1>0, <1>n, <1>t, <2>1, QuietTo, QuietCalm
<1>1. CASE Scan(c)
  <2>1. ASSUME NEW m \in job[c].left, Goto(c, "read"),
               Job1(c, [job[c] EXCEPT !.left = @ \ {m}, !.at = m, !.rec = NoRec, !.status = "none"])
        PROVE  CalmInv'
    <3>. DEFINE f == [job[c] EXCEPT !.left = @ \ {m}, !.at = m, !.rec = NoRec, !.status = "none"]
    <3>1. f.name = n /\ f.op = "start" /\ f.fresh = FALSE /\ OwnBlender(f.rec)
      BY <1>0, <1>h, <1>n DEF Job, OwnBlender, NoRec
    <3>. QED BY <1>t, <2>1, <3>1
  <2>2. ASSUME Goto(c, "alloc"),
               Job1(c, [job[c] EXCEPT !.at = job[c].name, !.status = "none", !.rec = FirstPort])
        PROVE  CalmInv'
    <3>. DEFINE f == [job[c] EXCEPT !.at = job[c].name, !.status = "none", !.rec = FirstPort]
    <3>1. f.name = n /\ f.op = "start" /\ f.fresh = FALSE /\ OwnBlender(f.rec)
      BY <1>0, <1>h, <1>n DEF Job, OwnBlender, FirstPort
    <3>. QED BY <1>t, <2>2, <3>1
  <2>. QED BY <1>1, <2>1, <2>2 DEF Scan
<1>2. CASE Tally(c)
  <2>. DEFINE o == IF Occupies(job[c].rec, job[c].status) THEN job[c].occ \cup {job[c].rec.port} ELSE job[c].occ
              f == [job[c] EXCEPT !.occ = o]
  <2>1. Job1(c, f) /\ (Goto(c, "unlock") \/ Goto(c, "scan"))
    BY <1>2 DEF Tally
  <2>2. f.name = n /\ f.op = "start" /\ f.fresh = FALSE /\ f.rec = job[c].rec
    BY <1>0, <1>h, <1>n DEF Job
  <2>. QED BY <1>0, <1>t, <2>1, <2>2
<1>3. CASE Alloc(c)
  <2>1. CASE job[c].rec.port \in job[c].occ
    <3>. DEFINE f == [job[c] EXCEPT !.rec.port = @ + 1]
    <3>1. Goto(c, "alloc") /\ Job1(c, f)
      BY <1>3, <2>1 DEF Alloc
    <3>2. f.name = n /\ f.op = "start" /\ f.fresh = FALSE /\ OwnBlender(f.rec)
      BY <1>0, <1>h, <1>n DEF Job, Record, OwnBlender
    <3>. QED BY <1>t, <3>1, <3>2
  <2>2. CASE job[c].rec.port \notin job[c].occ
    <3>. DEFINE f == [job[c] EXCEPT !.occ = {}]
    <3>1. Job1(c, f) /\ (Goto(c, "clearSession") \/ Goto(c, "prep"))
      BY <1>3, <2>2 DEF Alloc
    <3>2. f.name = n /\ f.op = "start" /\ f.fresh = FALSE /\ f.rec = job[c].rec
      BY <1>0, <1>h, <1>n DEF Job
    <3>. QED BY <1>0, <1>t, <3>1, <3>2
  <2>. QED BY <2>1, <2>2
<1>. QED BY <1>1, <1>2, <1>3 DEF Allocation

-----------------------------------------------------------------------------
(* Clients that write the files of their name *)

\* What remains to be shown of a step that does not only read.
LEMMA OwnCalm ==
    ASSUME Ground, CalmInv, Fades, NEW c \in Clients, Moves(c), Local(c), pc[c] # "lock",
           NEW n, n = job[c].name, \A l \in Launches : LaunchCalm(l)', NameCalm(n)', ClientCalm(c)'
    PROVE  CalmInv'
BY OthersCalm DEF CalmInv

\* What a client, at p with job f after the step, has to know.
LEMMA OwnTo ==
    ASSUME Ground, NEW c \in Clients, NEW p, NEW f, Goto(c, p), Job1(c, f),
           NEW n, n = f.name, OwnBlender(f.rec), HandFacts(p, f, n)'
    PROVE  ClientCalm(c)'
<1>1. pc'[c] = p /\ job'[c] = f
  BY DEF Goto, Job1, Ground, TypeInv, TypeOK, ClientsTyped
<1>. QED BY <1>1, ClientCalmTo

\* The same for one that keeps its job.
LEMMA OwnSame ==
    ASSUME Ground, CalmInv, NEW c \in Clients, NEW p, Goto(c, p), UNCHANGED job,
           NEW n, n = job[c].name, NEW j, j = job[c], HandFacts(p, j, n)'
    PROVE  ClientCalm(c)'
<1>1. Job1(c, j)
  BY DEF Job1, Ground, TypeInv, TypeOK, ClientsTyped
<1>2. OwnBlender(j.rec)
  BY DEF CalmInv, ClientCalm
<1>. QED BY <1>1, <1>2, OwnTo

\* Removals.
LEMMA RemovalCalm ==
    ASSUME Ground, CalmInv, Fades, NEW c \in Clients, Removal(c)
    PROVE  CalmInv'
<1>n. PICK n : n = job[c].name
  OBVIOUS
<1>j. PICK j : j = job[c]
  OBVIOUS
<1>0. /\ Moves(c) /\ UNCHANGED <<procs, job>> /\ pc[c] \in ClearPcs
  <2>1. Moves(c)
    BY MovesRemoval DEF Ground
  <2>2. CASE ClearSession(c)
    BY <2>1, <2>2 DEF ClearSession, ClearPcs
  <2>3. CASE ClearLaunching(c)
    BY <2>1, <2>3 DEF ClearLaunching, ClearPcs
  <2>4. CASE ClearMarker(c)
    BY <2>1, <2>4 DEF ClearMarker, ClearPcs
  <2>5. CASE ClearBoot(c)
    BY <2>1, <2>5 DEF ClearBoot, ClearPcs
  <2>. QED BY <2>2, <2>3, <2>4, <2>5 DEF Removal
<1>1. pc[c] \notin {"idle", "lock", "kill"}
  BY <1>0 DEF ClearPcs
<1>h. HandFacts(pc[c], j, n) /\ n \in Names /\ Empty(n)
  BY <1>0, <1>1, <1>n, <1>j, Hand DEF HandFacts, Over
<1>2. PICK p : Goto(c, p) /\ p \in {"clearLaunching", "clearMarker", "clearBoot", "unlock", "finally", "prep"}
  BY DEF Removal, ClearSession, ClearLaunching, ClearMarker, ClearBoot, Removed
<1>3. /\ session'[n] \in {session[n], NoRec} /\ launching'[n] \in {launching[n], NoRec}
      /\ \A m \in Names \ {n} : gate'[m] = gate[m] /\ boot'[m] = boot[m]
  BY <1>h, <1>n DEF Removal, ClearSession, ClearLaunching, ClearMarker, ClearBoot, DropHandshake,
     Ground, TypeInv, TypeOK, FilesTyped
<1>4. Local(c)
  BY <1>0, <1>3, <1>n DEF Local, procs
<1>5. \A l \in Launches : LaunchCalm(l)'
  BY <1>0, <1>1, <1>4, <1>h, <1>n, LaunchesKept
<1>6. NameCalm(n)'
  BY <1>0, <1>3, <1>h DEF CalmInv, NameCalm, Placed, OwnBlender, NoRec, procs
<1>7. Empty(n)'
  BY <1>0, <1>h DEF Empty, SupAlive, procs
<1>8. HandFacts(p, j, n)'
  BY <1>0, <1>2, <1>7, <1>h DEF HandFacts, TryPcs, KillPcs, UnrecordedPcs, procs
<1>9. ClientCalm(c)'
  BY <1>0, <1>2, <1>8, <1>n, <1>j, OwnSame
<1>. QED BY <1>0, <1>1, <1>4, <1>5, <1>6, <1>9, <1>n, OwnCalm

-----------------------------------------------------------------------------
(* Launches *)

\* What a start knows of its launch once it has been made.
LEMMA FreshHand ==
    ASSUME Ground, CalmInv, NEW c \in Clients, pc[c] \in {"spawn", "finally"} \cup TryPcs
    PROVE  /\ job[c].fresh /\ job[c].op = "start" /\ job[c].sid \in Launches /\ job[c].sid # 0
           /\ job[c].rec.launch = job[c].sid /\ job[c].rec # NoRec
           /\ plan[job[c].sid].name = job[c].name /\ job[c].name \in Names
           /\ plan[job[c].sid].port = job[c].rec.port
           /\ pc[c] \in TryPcs => sup[job[c].sid] # "unborn"
           /\ pc[c] \notin {"idle", "lock", "prep", "kill"}
<1>1. pc[c] \notin {"idle", "lock", "prep", "kill"}
  BY DEF TryPcs
<1>2. HandFacts(pc[c], job[c], job[c].name) /\ JobOK(pc[c], job[c]) /\ job[c].name \in Names
  BY <1>1, Hand
<1>3. job[c].fresh
  BY <1>2 DEF JobOK
<1>4. job[c].op = "start" /\ job[c].sid \in Launches /\ job[c].rec.launch = job[c].sid
  BY <1>2, <1>3 DEF JobOK
<1>5. job[c].sid # 0 /\ job[c].rec # NoRec
  BY <1>4 DEF Launches, NoRec
<1>6. pc[c] \in TryPcs => sup[job[c].sid] # "unborn"
  BY DEF Ground, ProcInv, Minted
<1>. QED BY <1>1, <1>2, <1>3, <1>4, <1>5, <1>6 DEF HandFacts

\* The handshake files are cleared and the launch is made; nothing of it lives yet.
LEMMA PrepCalm ==
    ASSUME Ground, CalmInv, Fades, NEW c \in Clients, Prep(c)
    PROVE  CalmInv'
<1>n. PICK n : n = job[c].name
  OBVIOUS
<1>s. PICK s : s = job[c].sid
  OBVIOUS
<1>0. /\ Moves(c) /\ pc[c] = "prep" /\ UNCHANGED <<session, launching, sup, root, helpers>>
      /\ JobOK(pc[c], job[c]) /\ job[c] \in Job
      /\ boot \in [Names -> Boot] /\ gate \in [Names -> BOOLEAN]
      /\ plan \in [Launches -> [name : Names \cup {NoName}, port : Nat]]
  BY MovesLaunch
     DEF Launch, Prep, Ground, TypeInv, TypeOK, FilesTyped, ProcsTyped, ClientsTyped, JobsOK
<1>h. n \in Names /\ Empty(n) /\ job[c].op = "start" /\ s \in Launches /\ job[c].rec.blender = 0
  BY <1>0, <1>n, <1>s, Hand DEF HandFacts, Over, JobOK
<1>f. job[c].fresh = FALSE
  BY <1>0 DEF JobOK, FreshPcs, TryPcs, ClearPcs, KillPcs, Job
<1>1. sup[s] = "unborn" /\ root[s] = "none" /\ s \notin helpers
  <2>1. sup[s] = "unborn"
    BY <1>h, <1>f, <1>s DEF Ground, ProcInv, Minted, Unmade
  <2>2. root[s] = "none"
    BY <1>h, <2>1 DEF Ground, ProcInv, Coupled
  <2>. QED BY <1>h, <2>1, <2>2 DEF CalmInv, LaunchCalm, Helped
<1>2. /\ plan' = [plan EXCEPT ![s] = [name |-> n, port |-> job[c].rec.port]]
      /\ gate' = [gate EXCEPT ![n] = FALSE] /\ boot' = [boot EXCEPT ![n] = NoBoot]
  BY <1>n, <1>s DEF Prep, DropHandshake
<1>3. /\ \A l \in Launches \ {s} : plan'[l] = plan[l]
      /\ plan'[s].name = n /\ plan'[s].port = job[c].rec.port /\ gate'[n] = FALSE /\ boot'[n] = NoBoot
      /\ \A m \in Names \ {n} : gate'[m] = gate[m] /\ boot'[m] = boot[m]
  BY <1>0, <1>2, <1>h
<1>4. Local(c)
  BY <1>0, <1>3, <1>n, <1>s DEF Local
<1>5. ASSUME NEW l \in Launches PROVE LaunchCalm(l)'
  <2>1. CASE l = s
    BY <1>0, <1>1, <2>1
       DEF LaunchCalm, Named, Ready, Passed, Residue, Helped, GroupAlive, SupAlive, RootAlive
  <2>2. CASE l # s
    <3>1. LaunchCalm(l) /\ plan'[l] = plan[l]
      BY <1>3, <2>2 DEF CalmInv
    <3>2. \A d \in Clients : pc[d] \in UnrecordedPcs \cup {"kill"} => pc'[d] = pc[d] /\ job'[d] = job[d]
      BY <1>0 DEF Moves, UnrecordedPcs
    <3>3. SupAlive(l) => plan[l].name # n
      BY <1>h DEF Empty
    <3>4. Named(l)'
      BY <1>0, <3>1, <3>2 DEF LaunchCalm, Named, SupAlive, Current
    <3>5. Ready(l)'
      BY <1>0, <1>3, <3>1, <3>3 DEF LaunchCalm, Named, Ready, Passed, SupAlive, Current
    <3>6. Residue(l)' /\ Helped(l)'
      BY <1>0, <3>1, <3>2 DEF LaunchCalm, Residue, Helped, GroupAlive, SupAlive, RootAlive
    <3>. QED BY <3>4, <3>5, <3>6 DEF LaunchCalm
  <2>. QED BY <2>1, <2>2
<1>6. NameCalm(n)'
  <2>1. session[n] # NoRec => session[n].launch \in Launches \ {s}
    BY <1>1, <1>h, RecordTyped DEF Ground, BornInv, Born
  <2>2. launching[n] # NoRec => launching[n].launch \in Launches \ {s}
    BY <1>1, <1>h, RecordTyped DEF Ground, BornInv, Born
  <2>. QED BY <1>0, <1>3, <1>h, <2>1, <2>2 DEF CalmInv, NameCalm, Placed, OwnBlender
<1>7. PICK f : f = [job[c] EXCEPT !.fresh = TRUE, !.rec.launch = job[c].sid]
  OBVIOUS
<1>8. /\ Goto(c, "spawn") /\ Job1(c, f) /\ f.name = n /\ f.sid = s /\ f.at = job[c].at
      /\ f.rec.port = job[c].rec.port /\ OwnBlender(f.rec)
  BY <1>0, <1>7, <1>h, <1>n, <1>s DEF Prep, Job, Record, OwnBlender
<1>9. Empty(n)'
  <2>. SUFFICES ASSUME NEW l \in Launches, plan'[l].name = n, SupAlive(l)' PROVE FALSE
    BY DEF Empty
  <2>1. l # s
    BY <1>0, <1>1 DEF SupAlive
  <2>. QED BY <1>0, <1>3, <1>h, <2>1 DEF Empty, SupAlive
<1>10. HandFacts("spawn", f, n)'
  BY <1>3, <1>8, <1>9 DEF HandFacts, TryPcs, KillPcs, NoBoot
<1>11. ClientCalm(c)'
  BY <1>8, <1>10, OwnTo
<1>. QED BY <1>0, <1>4, <1>5, <1>6, <1>11, <1>n, OwnCalm

\* The supervisor is born in the hands of its start, before a closed gate.
LEMMA SpawnCalm ==
    ASSUME Ground, CalmInv, Fades, NEW c \in Clients, Spawn(c)
    PROVE  CalmInv'
<1>n. PICK n : n = job[c].name
  OBVIOUS
<1>s. PICK s : s = job[c].sid
  OBVIOUS
<1>j. PICK j : j = job[c]
  OBVIOUS
<1>0. /\ Moves(c) /\ pc[c] = "spawn" /\ UNCHANGED <<files, root, helpers, plan, job>>
      /\ sup' = [sup EXCEPT ![s] = "waiting"] /\ sup \in [Launches -> SupStates]
      /\ Goto(c, "identify") /\ pc'[c] = "identify"
  BY <1>s, MovesLaunch DEF Launch, Spawn, Goto, Ground, TypeInv, TypeOK, ProcsTyped, ClientsTyped
<1>h. /\ s \in Launches /\ plan[s].name = n /\ n \in Names /\ HandFacts("spawn", j, n)
      /\ Empty(n) /\ j.sid = s /\ ~gate[n]
  <2>1. HandFacts("spawn", j, n)
    BY <1>0, <1>n, <1>j, Hand
  <2>. QED BY <1>0, <1>n, <1>s, <1>j, <2>1, FreshHand DEF HandFacts, Over
<1>1. sup'[s] = "waiting" /\ \A l \in Launches \ {s} : sup'[l] = sup[l]
  BY <1>0, <1>h
<1>2. Local(c)
  BY <1>0, <1>1, <1>s DEF Local, files
<1>3. ASSUME NEW l \in Launches PROVE LaunchCalm(l)'
  <2>1. CASE l = s
    <3>1. Named(l)'
      BY <1>0, <1>h, <1>s, <2>1 DEF Named, UnrecordedPcs
    <3>2. Ready(l)'
      BY <1>0, <1>1, <1>h, <2>1 DEF Ready, Passed, files
    <3>3. Residue(l)'
      BY <1>1, <2>1 DEF Residue, SupAlive
    <3>4. Helped(l)'
      BY <1>0 DEF CalmInv, LaunchCalm, Helped
    <3>. QED BY <3>1, <3>2, <3>3, <3>4 DEF LaunchCalm
  <2>2. CASE l # s
    <3>1. LaunchCalm(l) /\ sup'[l] = sup[l]
      BY <1>1, <2>2 DEF CalmInv
    <3>2. \A d \in Clients : pc[d] \in UnrecordedPcs \cup {"kill"} => pc'[d] = pc[d] /\ job'[d] = job[d]
      BY <1>0 DEF Moves, UnrecordedPcs
    <3>. QED BY <1>0, <3>1, <3>2 DEF LaunchCalm, Named, Ready, Passed, Residue, Helped, GroupAlive, SupAlive, RootAlive, Current, files
  <2>. QED BY <2>1, <2>2
<1>4. NameCalm(n)'
  BY <1>0, <1>h DEF CalmInv, NameCalm, Placed, OwnBlender, files
<1>5. HandFacts("identify", j, n)'
  BY <1>0, <1>h
     DEF HandFacts, Over, Choosing, ClearPcs, InspectPcs, UnrecordedPcs, TryPcs, KillPcs, files
<1>6. ClientCalm(c)'
  BY <1>0, <1>5, <1>n, <1>j, OwnSame
<1>. QED BY <1>0, <1>2, <1>3, <1>4, <1>6, <1>n, OwnCalm

\* A start that records its launch, waits for its Blender, or gives it up.
LEMMA LaunchCalmKept ==
    ASSUME Ground, CalmInv, Fades, NEW c \in Clients, Launch(c)
    PROVE  CalmInv'
<1>n. PICK n : n = job[c].name
  OBVIOUS
<1>s. PICK s : s = job[c].sid
  OBVIOUS
<1>j. PICK j : j = job[c]
  OBVIOUS
<1>m. Moves(c) /\ job[c] \in Job
  BY MovesLaunch DEF Ground, TypeInv, TypeOK, ClientsTyped
<1>t. FilesTyped
  BY DEF Ground, TypeInv, TypeOK
<1>a. CASE Prep(c) \/ Spawn(c)
  BY <1>a, PrepCalm, SpawnCalm
<1>b. SUFFICES ASSUME ~Prep(c), ~Spawn(c) PROVE CalmInv'
  BY <1>a
<1>0. pc[c] \in {"finally"} \cup TryPcs /\ UNCHANGED procs
  BY <1>b DEF Launch, Identify, Mark, Provisional, OpenGate, AwaitPid, AwaitFails, BlenderIdentity,
     RecordSession, Promote, Finally, TryPcs
<1>h. /\ j.fresh /\ j.op = "start" /\ s \in Launches /\ s # 0 /\ j.rec.launch = s /\ j.sid = s
      /\ j.rec # NoRec /\ plan[s].name = n /\ plan[s].port = j.rec.port /\ n \in Names
      /\ pc[c] \in TryPcs => sup[s] # "unborn"
      /\ HandFacts(pc[c], j, n) /\ Facts(pc[c], j, session[n], launching[n], marker[n])
      /\ OwnBlender(j.rec) /\ JobOK(pc[c], j)
  BY <1>0, <1>n, <1>s, <1>j, FreshHand, Hand
<1>p. pc[c] \notin {"idle", "lock", "prep", "kill"}
  BY <1>0 DEF TryPcs
\* A step that keeps the recorded launch, the gate and the processes.
<1>k. ASSUME UNCHANGED <<gate, boot>>, Current(n)'.launch = Current(n).launch,
             pc[c] \in UnrecordedPcs => pc'[c] \in UnrecordedPcs
      PROVE  Local(c) /\ \A l \in Launches : LaunchCalm(l)'
  <2>1. Local(c)
    BY <1>0, <1>k DEF Local, procs
  <2>. QED BY <1>0, <1>k, <1>m, <1>n, <1>p, <2>1, LaunchesKept
<1>1. CASE Identify(c)
  <2>1. PICK p : p = IF SupAlive(s) THEN "mark" ELSE "clearSession"
    OBVIOUS
  <2>2. pc[c] = "identify" /\ Goto(c, p) /\ pc'[c] = p /\ UNCHANGED <<files, procs, job>>
    BY <1>1, <1>s, <2>1 DEF Identify, Goto, Ground, TypeInv, TypeOK, ClientsTyped
  <2>3. ASSUME ~SupAlive(s) PROVE Empty(n)
    <3>. SUFFICES ASSUME NEW l \in Launches, plan[l].name = n, SupAlive(l) PROVE FALSE
      BY DEF Empty
    <3>1. Current(n) = NoRec
      BY <1>h, <2>2 DEF Facts, MarkFacts, Current
    <3>2. Current(n).launch # l
      BY <3>1 DEF NoRec, Launches
    <3>. QED BY <1>n, <1>s, <1>p, <2>3, <3>2, Mine
  <2>4. HandFacts(p, j, n)
    BY <1>h, <2>1, <2>2, <2>3
       DEF HandFacts, Over, Choosing, ClearPcs, InspectPcs, UnrecordedPcs, TryPcs, KillPcs
  <2>5. pc'[c] \in UnrecordedPcs \/ ~SupAlive(s)
    BY <2>1, <2>2 DEF UnrecordedPcs
  <2>6. ClientCalm(c)'
    BY <1>n, <1>j, <2>2, <2>4, QuietSame
  <2>. QED BY <1>m, <1>s, <1>p, <2>2, <2>5, <2>6, QuietCalm
<1>2. CASE Mark(c)
  <2>1. PICK p : p = IF pc[c] = "mark" THEN "provisional" ELSE "record"
    OBVIOUS
  <2>2. /\ pc[c] \in {"mark", "remark"} /\ Goto(c, p) /\ pc'[c] = p
        /\ UNCHANGED <<session, launching, gate, boot, procs, job>>
    BY <1>2, <2>1 DEF Mark, Goto, Ground, TypeInv, TypeOK, ClientsTyped
  <2>3. HandFacts(p, j, n)'
    BY <1>h, <2>1, <2>2
       DEF HandFacts, Over, Choosing, ClearPcs, InspectPcs, UnrecordedPcs, TryPcs, KillPcs, procs
  <2>4. ClientCalm(c)'
    BY <1>n, <1>j, <2>2, <2>3, OwnSame
  <2>5. NameCalm(n)'
    BY <1>h, <2>2 DEF CalmInv, NameCalm, Placed, OwnBlender, procs
  <2>6. Local(c) /\ \A l \in Launches : LaunchCalm(l)'
    <3>1. Current(n)' = Current(n)
      BY <2>2 DEF Current
    <3>. QED BY <1>k, <2>1, <2>2, <3>1 DEF UnrecordedPcs
  <2>. QED BY <1>m, <1>n, <1>p, <2>4, <2>5, <2>6, OwnCalm
<1>3. CASE Provisional(c)
  <2>1. /\ pc[c] = "provisional" /\ Goto(c, "open") /\ pc'[c] = "open"
        /\ UNCHANGED <<session, gate, boot, procs, job>> /\ launching' = [launching EXCEPT ![n] = j.rec]
    BY <1>3, <1>n, <1>j DEF Provisional, Goto, Ground, TypeInv, TypeOK, ClientsTyped
  <2>2. launching'[n] = j.rec /\ session[n] = NoRec /\ launching[n] = NoRec /\ ~gate[n]
    BY <1>h, <1>t, <2>1 DEF FilesTyped, Facts, MarkFacts, HandFacts, UnrecordedPcs
  <2>3. Current(n) = NoRec /\ Current(n)'.launch = s
    BY <1>h, <2>1, <2>2 DEF Current
  <2>4. Local(c)
    BY <2>1 DEF Local, procs
  <2>5. ASSUME NEW l \in Launches PROVE LaunchCalm(l)'
    <3>0. LaunchCalm(l) /\ UNCHANGED <<sup, root, helpers, plan>>
      BY <2>1 DEF CalmInv, procs
    <3>1. CASE SupAlive(l) /\ plan[l].name = n
      <4>1. Current(n).launch # l
        BY <2>3 DEF NoRec, Launches
      <4>2. l = s
        BY <1>n, <1>s, <1>p, <3>1, <4>1, Mine
      <4>3. Named(l)'
        BY <1>h, <2>3, <3>0, <3>1, <4>2 DEF Named
      <4>4. Ready(l)'
        BY <2>3, <3>0, <3>1, <4>2 DEF Ready
      <4>5. Residue(l)' /\ Helped(l)'
        BY <3>0, <3>1 DEF LaunchCalm, Residue, Helped, SupAlive
      <4>. QED BY <4>3, <4>4, <4>5 DEF LaunchCalm
    <3>2. CASE ~SupAlive(l)
      <4>1. Residue(l)'
        BY <1>m, <1>p, <3>0 DEF LaunchCalm, Residue, GroupAlive, SupAlive, RootAlive, Moves
      <4>. QED BY <3>0, <3>2, <4>1 DEF LaunchCalm, Named, Ready, Passed, Helped, SupAlive
    <3>3. CASE SupAlive(l) /\ plan[l].name # n
      <4>1. plan[l].name \in Names
        BY <3>0, <3>3 DEF LaunchCalm, Named
      <4>2. Current(plan[l].name)' = Current(plan[l].name)
        BY <1>m, <1>n, <3>0, <3>3, <4>1 DEF Moves, Current
      <4>3. \A d \in Clients : pc[d] \in UnrecordedPcs /\ job[d].sid = l => d # c
        BY <1>h, <1>s, <3>3
      <4>4. Named(l)'
        BY <1>m, <3>0, <3>3, <4>2, <4>3 DEF LaunchCalm, Named, Moves
      <4>5. Ready(l)'
        BY <2>1, <3>0, <4>2 DEF LaunchCalm, Ready, Passed, SupAlive
      <4>6. Residue(l)' /\ Helped(l)'
        BY <3>0, <3>3 DEF LaunchCalm, Residue, Helped, SupAlive
      <4>. QED BY <4>4, <4>5, <4>6 DEF LaunchCalm
    <3>. QED BY <3>1, <3>2, <3>3
  <2>6. NameCalm(n)'
    BY <1>h, <2>1, <2>2 DEF CalmInv, NameCalm, Placed, OwnBlender, procs, NoRec
  <2>7. HandFacts("open", j, n)'
    BY <1>h, <2>1, <2>2
       DEF HandFacts, Over, Choosing, ClearPcs, InspectPcs, UnrecordedPcs, TryPcs, KillPcs, procs
  <2>8. ClientCalm(c)'
    BY <1>n, <1>j, <2>1, <2>7, OwnSame
  <2>. QED BY <1>m, <1>n, <1>p, <2>4, <2>5, <2>6, <2>8, OwnCalm
<1>4. CASE OpenGate(c)
  <2>1. /\ pc[c] = "open" /\ Goto(c, "await") /\ pc'[c] = "await"
        /\ UNCHANGED <<session, launching, boot, procs, job>> /\ gate' = [gate EXCEPT ![n] = TRUE]
    BY <1>4, <1>n DEF OpenGate, Goto, Ground, TypeInv, TypeOK, ClientsTyped
  <2>2. \A m \in Names \ {n} : gate'[m] = gate[m]
    BY <1>t, <1>h, <2>1 DEF FilesTyped
  <2>3. Local(c)
    BY <1>n, <2>1, <2>2 DEF Local, procs
  <2>4. ASSUME NEW l \in Launches PROVE LaunchCalm(l)'
    <3>0. LaunchCalm(l) /\ UNCHANGED <<sup, root, helpers, plan>>
      BY <2>1 DEF CalmInv, procs
    <3>1. \A d \in Clients : pc[d] \in UnrecordedPcs \cup {"kill"} => pc'[d] = pc[d] /\ job'[d] = job[d]
      BY <1>m, <2>1 DEF Moves, UnrecordedPcs
    <3>2. Named(l)' /\ Residue(l)' /\ Helped(l)'
      BY <2>1, <3>0, <3>1
         DEF LaunchCalm, Named, Residue, Helped, GroupAlive, SupAlive, RootAlive, Current
    <3>3. Ready(l)'
      <4>1. SUFFICES ASSUME Passed(l)' PROVE Current(plan[l].name).launch = l
        BY <2>1, <3>0 DEF Ready, Current
      <4>2. SupAlive(l)
        BY <3>0, <4>1 DEF Passed, SupAlive
      <4>3. CASE plan[l].name = n
        BY <1>n, <1>p, <2>1, <4>2, <4>3, Mine DEF UnrecordedPcs
      <4>4. CASE plan[l].name # n
        <5>1. plan[l].name \in Names
          BY <3>0, <4>2 DEF LaunchCalm, Named
        <5>. QED BY <2>2, <3>0, <4>1, <4>4, <5>1 DEF LaunchCalm, Ready, Passed, SupAlive
      <4>. QED BY <4>3, <4>4
    <3>. QED BY <3>2, <3>3 DEF LaunchCalm
  <2>5. NameCalm(n)'
    BY <1>h, <2>1 DEF CalmInv, NameCalm, Placed, OwnBlender, procs
  <2>6. HandFacts("await", j, n)'
    BY <1>h, <2>1
       DEF HandFacts, Over, Choosing, ClearPcs, InspectPcs, UnrecordedPcs, TryPcs, KillPcs, procs
  <2>7. ClientCalm(c)'
    BY <1>n, <1>j, <2>1, <2>6, OwnSame
  <2>. QED BY <1>m, <1>n, <1>p, <2>3, <2>4, <2>5, <2>7, OwnCalm
<1>5. CASE AwaitPid(c)
  <2>. DEFINE f == [job[c] EXCEPT !.rec.blender = boot[n].blender]
  <2>1. /\ pc[c] = "await" /\ boot[n].is = "pid" /\ Goto(c, "blender") /\ Job1(c, f)
        /\ UNCHANGED <<files, procs>>
    BY <1>5, <1>n DEF AwaitPid
  <2>2. boot[n].blender = s
    BY <1>h, <2>1 DEF HandFacts, TryPcs
  <2>3. /\ f.name = n /\ f.sid = s /\ f.fresh /\ f.op = "start" /\ f.rec.launch = s /\ f.at = j.at
        /\ OwnBlender(f.rec) /\ f.rec.port = j.rec.port
    BY <1>m, <1>h, <1>n, <1>j, <2>2 DEF Job, Record, OwnBlender
  <2>. HIDE DEF f
  <2>4. HandFacts("blender", f, n)
    BY <1>h, <2>1, <2>3
       DEF HandFacts, Over, Choosing, ClearPcs, InspectPcs, UnrecordedPcs, TryPcs, KillPcs
  <2>5. ClientCalm(c)'
    BY <2>1, <2>3, <2>4, QuietTo
  <2>. QED BY <1>m, <1>p, <2>1, <2>5, QuietCalm DEF UnrecordedPcs
<1>6. CASE AwaitFails(c) \/ BlenderIdentity(c)
  <2>1. PICK p \in {"term", "remark"} : Goto(c, p) /\ UNCHANGED <<files, procs, job>>
    BY <1>6 DEF AwaitFails, BlenderIdentity
  <2>2. pc[c] \in {"await", "blender"}
    BY <1>6 DEF AwaitFails, BlenderIdentity
  <2>3. Current(n).launch = s
    BY <1>h, <2>2 DEF HandFacts, Current
  <2>4. HandFacts(p, j, n)
    BY <1>h, <2>1, <2>2, <2>3
       DEF HandFacts, Over, Choosing, ClearPcs, InspectPcs, UnrecordedPcs, TryPcs, KillPcs
  <2>5. ClientCalm(c)'
    BY <1>n, <1>j, <2>1, <2>4, QuietSame
  <2>. QED BY <1>m, <1>p, <2>1, <2>2, <2>5, QuietCalm DEF UnrecordedPcs
<1>7. CASE RecordSession(c)
  <2>1. /\ pc[c] = "record" /\ Goto(c, "promote") /\ pc'[c] = "promote"
        /\ UNCHANGED <<launching, gate, boot, procs, job>> /\ session' = [session EXCEPT ![n] = j.rec]
    BY <1>7, <1>n, <1>j DEF RecordSession, Goto, Ground, TypeInv, TypeOK, ClientsTyped
  <2>2. session'[n] = j.rec
    BY <1>h, <1>t, <2>1 DEF FilesTyped
  <2>3. Current(n).launch = s /\ Current(n)'.launch = s
    BY <1>h, <2>1, <2>2 DEF HandFacts, Current
  <2>4. Local(c) /\ \A l \in Launches : LaunchCalm(l)'
    BY <1>k, <2>1, <2>3 DEF UnrecordedPcs
  <2>5. NameCalm(n)'
    BY <1>h, <2>1, <2>2 DEF CalmInv, NameCalm, Placed, OwnBlender, procs
  <2>6. HandFacts("promote", j, n)'
    BY <1>h, <2>1, <2>2
       DEF HandFacts, Over, Choosing, ClearPcs, InspectPcs, UnrecordedPcs, TryPcs, KillPcs, procs
  <2>7. ClientCalm(c)'
    BY <1>n, <1>j, <2>1, <2>6, OwnSame
  <2>. QED BY <1>m, <1>n, <1>p, <2>4, <2>5, <2>7, OwnCalm
<1>8. CASE Promote(c)
  <2>1. /\ pc[c] = "promote" /\ Goto(c, "finally") /\ pc'[c] = "finally"
        /\ UNCHANGED <<session, gate, boot, procs, job>> /\ launching' = [launching EXCEPT ![n] = NoRec]
    BY <1>8, <1>n DEF Promote, Goto, Ground, TypeInv, TypeOK, ClientsTyped
  <2>2. launching'[n] = NoRec
    BY <1>h, <1>t, <2>1 DEF FilesTyped
  <2>3. session[n] # NoRec
    BY <1>h, <2>1 DEF HandFacts, NoRec
  <2>4. Current(n)' = Current(n)
    BY <2>1, <2>3 DEF Current
  <2>5. Local(c) /\ \A l \in Launches : LaunchCalm(l)'
    BY <1>k, <2>1, <2>4 DEF UnrecordedPcs
  <2>6. NameCalm(n)'
    BY <1>h, <2>1, <2>2 DEF CalmInv, NameCalm, Placed, OwnBlender, procs, NoRec
  <2>7. HandFacts("finally", j, n)'
    BY <1>h, <2>1
       DEF HandFacts, Over, Choosing, ClearPcs, InspectPcs, UnrecordedPcs, TryPcs, KillPcs, procs
  <2>8. ClientCalm(c)'
    BY <1>n, <1>j, <2>1, <2>7, OwnSame
  <2>. QED BY <1>m, <1>n, <1>p, <2>5, <2>6, <2>8, OwnCalm
<1>9. CASE Finally(c)
  <2>1. /\ pc[c] = "finally" /\ Goto(c, "unlock")
        /\ UNCHANGED <<session, launching, procs, job>>
        /\ gate' = [gate EXCEPT ![n] = FALSE] /\ boot' = [boot EXCEPT ![n] = NoBoot]
    BY <1>9, <1>n DEF Finally, DropHandshake
  <2>2. /\ ~gate'[n]
        /\ \A m \in Names \ {n} : gate'[m] = gate[m] /\ boot'[m] = boot[m]
    BY <1>t, <1>h, <2>1 DEF FilesTyped
  <2>3. Local(c)
    BY <1>n, <2>1, <2>2 DEF Local, procs
  <2>4. Current(n)' = Current(n)
    BY <2>1 DEF Current
  <2>5. \A l \in Launches : LaunchCalm(l)'
    BY <1>m, <1>n, <1>p, <2>1, <2>2, <2>3, <2>4, LaunchesKept DEF UnrecordedPcs
  <2>6. NameCalm(n)'
    BY <1>h, <2>1 DEF CalmInv, NameCalm, Placed, OwnBlender, procs
  <2>7. HandFacts("unlock", j, n)'
    BY <1>h, <2>1
       DEF HandFacts, Over, Choosing, ClearPcs, InspectPcs, UnrecordedPcs, TryPcs, KillPcs, procs
  <2>8. ClientCalm(c)'
    BY <1>n, <1>j, <2>1, <2>7, OwnSame
  <2>. QED BY <1>m, <1>n, <1>p, <2>3, <2>5, <2>6, <2>8, OwnCalm
<1>. QED BY <1>b, <1>1, <1>2, <1>3, <1>4, <1>5, <1>6, <1>7, <1>8, <1>9 DEF Launch

-----------------------------------------------------------------------------
(* Terminations *)

\* What a client that terminates a tree knows of it.
LEMMA KillHand ==
    ASSUME Ground, CalmInv, NEW c \in Clients, pc[c] \in KillPcs
    PROVE  /\ pc[c] \notin {"idle", "lock"} \cup UnrecordedPcs
           /\ job[c].fresh \/ job[c].op = "stop"
           /\ job[c].rec.launch \in Launches /\ plan[job[c].rec.launch].name = job[c].name
           /\ job[c].name \in Names /\ HandFacts(pc[c], job[c], job[c].name)
<1>1. pc[c] \notin {"idle", "lock"} \cup UnrecordedPcs
  BY DEF KillPcs, UnrecordedPcs
<1>2. HandFacts(pc[c], job[c], job[c].name) /\ JobOK(pc[c], job[c]) /\ job[c] \in Job /\ job[c].name \in Names
  BY <1>1, Hand
<1>3. job[c].fresh \/ job[c].op = "stop"
  BY <1>2 DEF JobOK
<1>4. job[c].rec.launch # 0 /\ plan[job[c].rec.launch].name = job[c].name
  BY <1>2, <1>3 DEF HandFacts
<1>5. job[c].rec.launch \in Launches
  BY <1>2, <1>4, BoundAssumption DEF Job, Record, Launches
<1>. QED BY <1>1, <1>2, <1>3, <1>4, <1>5

\* The effect of a signal on the processes.
LEMMA SignalEffect ==
    ASSUME Ground, NEW g \in Launches, NEW linger, Signal(g, linger)
    PROVE  /\ ~SupAlive(g)' /\ (linger = {} => ~GroupAlive(g)')
           /\ \A l \in Launches \ {g} : sup'[l] = sup[l] /\ root'[l] = root[l]
           /\ \A l \in Launches \ {g} : l \in helpers' <=> l \in helpers
           /\ helpers' \subseteq helpers
<1>1. sup \in [Launches -> SupStates] /\ root \in [Launches -> RootStates]
  BY DEF Ground, TypeInv, TypeOK, ProcsTyped
<1>2. sup' = [sup EXCEPT ![g] = IF SupAlive(g) THEN "gone" ELSE @]
  BY DEF Signal
<1>3. root' = [root EXCEPT ![g] = IF RootAlive(g) /\ "root" \notin linger THEN "gone" ELSE @]
  BY DEF Signal
<1>4. helpers' = IF "helpers" \in linger THEN helpers ELSE helpers \ {g}
  BY DEF Signal
<1>5. ~SupAlive(g)'
  BY <1>1, <1>2 DEF SupAlive
<1>6. linger = {} => ~RootAlive(g)'
  BY <1>1, <1>3 DEF RootAlive
<1>. QED BY <1>1, <1>2, <1>3, <1>4, <1>5, <1>6 DEF GroupAlive

\* A client's signal ends the supervisor of its name; the rest of the group is
\* gone, or is the client's to kill.
LEMMA SignalCalm ==
    ASSUME Ground, CalmInv, Fades, NEW c \in Clients, TermSignal(c) \/ Kill(c)
    PROVE  CalmInv'
<1>n. PICK n : n = job[c].name
  OBVIOUS
<1>j. PICK j : j = job[c]
  OBVIOUS
<1>g. PICK g : g = job[c].rec.launch
  OBVIOUS
<1>0. /\ Moves(c) /\ pc[c] \in KillPcs /\ UNCHANGED <<files, plan, job>>
  BY MovesTerminate DEF Terminate, TermSignal, Kill, KillPcs, Ground
<1>1. /\ pc[c] \notin {"idle", "lock"} \cup UnrecordedPcs
      /\ j.fresh \/ j.op = "stop"
      /\ g \in Launches /\ plan[g].name = n /\ n \in Names /\ HandFacts(pc[c], j, n)
  BY <1>0, <1>n, <1>j, <1>g, KillHand
<1>2. PICK linger : Signal(g, linger) /\ (pc[c] = "kill" => linger = {})
  BY <1>g DEF TermSignal, Kill
<1>3. /\ ~SupAlive(g)' /\ (linger = {} => ~GroupAlive(g)')
      /\ \A l \in Launches \ {g} : sup'[l] = sup[l] /\ root'[l] = root[l]
      /\ \A l \in Launches \ {g} : l \in helpers' <=> l \in helpers
      /\ helpers' \subseteq helpers
  BY <1>1, <1>2, SignalEffect
<1>4. PICK p : Goto(c, p) /\ pc'[c] = p /\ p = IF pc[c] = "term" THEN "kill" ELSE "clearSession"
  BY DEF TermSignal, Kill, Goto, Ground, TypeInv, TypeOK, ClientsTyped
<1>5. Local(c)
  BY <1>0, <1>3 DEF Local, files
<1>6. ASSUME NEW l \in Launches PROVE LaunchCalm(l)'
  <2>0. LaunchCalm(l)
    BY DEF CalmInv
  <2>1. \A d \in Clients \ {c} : pc'[d] = pc[d] /\ job'[d] = job[d]
    BY <1>0 DEF Moves
  <2>2. CASE l = g
    <3>1. Named(l)' /\ Ready(l)'
      BY <1>3, <2>2 DEF Named, Ready, Passed, SupAlive
    <3>2. Residue(l)'
      <4>1. CASE pc[c] = "term"
        BY <1>0, <1>4, <1>g, <2>2, <4>1 DEF Residue
      <4>2. CASE pc[c] = "kill"
        BY <1>2, <1>3, <2>2, <4>2 DEF Residue
      <4>. QED BY <1>0, <4>1, <4>2 DEF KillPcs
    <3>3. Helped(l)'
      BY <1>3, <2>0 DEF LaunchCalm, Helped, Fades
    <3>. QED BY <3>1, <3>2, <3>3 DEF LaunchCalm
  <2>3. CASE l # g
    <3>1. sup'[l] = sup[l] /\ root'[l] = root[l] /\ (l \in helpers' <=> l \in helpers)
      BY <1>3, <2>3
    <3>2. Named(l)'
      BY <1>0, <1>1, <2>0, <2>1, <3>1 DEF LaunchCalm, Named, SupAlive, Current, files
    <3>3. Ready(l)'
      BY <1>0, <2>0, <3>1 DEF LaunchCalm, Ready, Passed, SupAlive, Current, files
    <3>4. Residue(l)'
      BY <1>g, <2>0, <2>1, <2>3, <3>1 DEF LaunchCalm, Residue, GroupAlive, SupAlive, RootAlive
    <3>5. Helped(l)'
      BY <2>0, <3>1 DEF LaunchCalm, Helped
    <3>. QED BY <3>2, <3>3, <3>4, <3>5 DEF LaunchCalm
  <2>. QED BY <2>2, <2>3
<1>7. NameCalm(n)'
  BY <1>0, <1>1 DEF CalmInv, NameCalm, Placed, OwnBlender, files
<1>8. Empty(n)'
  <2>. SUFFICES ASSUME NEW l \in Launches, plan[l].name = n, SupAlive(l)' PROVE FALSE
    BY <1>0 DEF Empty
  <2>1. l # g
    BY <1>3
  <2>2. SupAlive(l)
    BY <1>3, <2>1 DEF SupAlive
  <2>3. pc[c] = "term"
    BY <1>0, <1>1, <2>2 DEF KillPcs, HandFacts, Over, Empty
  <2>4. Current(n).launch = g
    BY <1>1, <1>g, <1>j, <2>3 DEF HandFacts
  <2>. QED BY <1>1, <1>n, <2>1, <2>2, <2>4, Mine
<1>9. HandFacts(p, j, n)'
  <2>1. sup[g] # "unborn" => sup'[g] # "unborn"
    BY <1>1 DEF Fades
  <2>. QED BY <1>0, <1>1, <1>4, <1>8, <1>g, <1>j, <2>1 DEF HandFacts, Over, Choosing, ClearPcs, InspectPcs, UnrecordedPcs, TryPcs, KillPcs, files
<1>10. ClientCalm(c)'
  BY <1>0, <1>4, <1>9, <1>n, <1>j, OwnSame
<1>. QED BY <1>0, <1>1, <1>5, <1>6, <1>7, <1>10, <1>n, OwnCalm

\* Terminations, by a SIGKILL that kills.
LEMMA TerminateCalm ==
    ASSUME Calm, Ground, CalmInv, Fades, NEW c \in Clients, Terminate(c)
    PROVE  CalmInv'
<1>1. CASE TermAbsent(c)
  <2>n. PICK n : n = job[c].name
    OBVIOUS
  <2>j. PICK j : j = job[c]
    OBVIOUS
  <2>1. /\ Moves(c) /\ pc[c] = "term" /\ Goto(c, "clearSession") /\ UNCHANGED <<files, procs, job>>
        /\ ~SupAlive(j.rec.launch)
    BY <1>1, <2>j, MovesTerminate DEF Terminate, TermAbsent, TreeExists, Ground
  <2>2. HandFacts("term", j, n) /\ pc[c] \in KillPcs
    BY <2>1, <2>n, <2>j, KillHand DEF KillPcs
  <2>3. Empty(n)
    BY <2>1, <2>2, <2>n, <2>j, DeadIsEmpty DEF HandFacts
  <2>4. HandFacts("clearSession", j, n)
    BY <2>2, <2>3
       DEF HandFacts, Over, Choosing, ClearPcs, InspectPcs, UnrecordedPcs, TryPcs, KillPcs
  <2>5. ClientCalm(c)'
    BY <2>1, <2>4, <2>n, <2>j, QuietSame
  <2>. QED BY <2>1, <2>5, QuietCalm DEF UnrecordedPcs
<1>2. CASE KillSurvived(c)
  BY <1>2 DEF KillSurvived, Calm, Violent
<1>. QED BY <1>1, <1>2, SignalCalm DEF Terminate

-----------------------------------------------------------------------------
(* Supervisors and Blenders *)

\* A supervisor reports its Blender to its own start.
LEMMA ReportOwn ==
    ASSUME Ground, CalmInv, NEW c \in Clients, pc[c] \in {"spawn"} \cup TryPcs,
           NEW l \in Launches, SupAlive(l), plan[l].name = job[c].name
    PROVE  job[c].sid = l
<1>n. PICK n : n = job[c].name
  OBVIOUS
<1>1. pc[c] \notin {"idle", "lock"} /\ job[c].sid # 0 /\ n \in Names
  BY <1>n, FreshHand DEF TryPcs
<1>2. HandFacts(pc[c], job[c], n) /\ Facts(pc[c], job[c], session[n], launching[n], marker[n])
  BY <1>1, <1>n, Hand
<1>3. l # 0 /\ (Current(n).launch = l \/ job[c].sid = l)
  BY <1>1, <1>n, Mine DEF Launches
<1>4. CASE pc[c] = "spawn"
  BY <1>2, <1>4, <1>n DEF HandFacts, Over, Empty
<1>5. CASE pc[c] \in UnrecordedPcs
  BY <1>2, <1>3, <1>5 DEF Facts, MarkFacts, Current, UnrecordedPcs, NoRec
<1>6. CASE pc[c] \in TryPcs \ UnrecordedPcs
  BY <1>1, <1>2, <1>3, <1>6 DEF HandFacts, Current, UnrecordedPcs, TryPcs, NoRec
<1>. QED BY <1>4, <1>5, <1>6

\* A process that goes on keeps the invariant if it comes closer to Blender only
\* where its launch is recorded, and leaves nothing of its group behind.
LEMMA ProcessTo ==
    ASSUME Ground, CalmInv, Fades, NEW l \in Launches,
           UNCHANGED <<session, launching, plan, pc, job>>,
           \A k \in Launches \ {l} : sup'[k] = sup[k] /\ root'[k] = root[k] /\ (k \in helpers' <=> k \in helpers),
           \A m \in Names : gate'[m] => gate[m],
           \A m \in Names : boot'[m].is = "pid" =>
               \/ boot'[m] = boot[m]
               \/ SupAlive(l) /\ m = plan[l].name /\ boot'[m].blender = l,
           SupAlive(l)' => SupAlive(l), Passed(l)' => Passed(l),
           GroupAlive(l)' /\ ~SupAlive(l)' => GroupAlive(l) /\ ~SupAlive(l), Helped(l)'
    PROVE  CalmInv'
<1>1. \A k \in Launches : SupAlive(k)' => SupAlive(k)
  BY DEF SupAlive
<1>2. ASSUME NEW k \in Launches PROVE LaunchCalm(k)'
  <2>0. LaunchCalm(k)
    BY DEF CalmInv
  <2>1. Named(k)'
    BY <1>1, <2>0 DEF LaunchCalm, Named, Current
  <2>2. Passed(k)' => Passed(k)
    <3>1. CASE k = l
      BY <3>1
    <3>2. CASE k # l
      <4>1. SupAlive(k) => plan[k].name \in Names
        BY <2>0 DEF LaunchCalm, Named
      <4>. QED BY <3>2, <4>1 DEF Passed, SupAlive
    <3>. QED BY <3>1, <3>2
  <2>3. Ready(k)'
    BY <2>0, <2>2 DEF LaunchCalm, Ready, Current
  <2>4. Residue(k)'
    <3>1. GroupAlive(k)' /\ ~SupAlive(k)' => GroupAlive(k) /\ ~SupAlive(k)
      BY DEF GroupAlive, SupAlive, RootAlive
    <3>. QED BY <2>0, <3>1 DEF LaunchCalm, Residue
  <2>5. Helped(k)'
    BY <2>0 DEF LaunchCalm, Helped
  <2>. QED BY <2>1, <2>3, <2>4, <2>5 DEF LaunchCalm
<1>3. \A n \in Names : NameCalm(n)'
  BY DEF CalmInv, NameCalm, Placed, OwnBlender
<1>4. ASSUME NEW d \in Clients PROVE ClientCalm(d)'
  <2>1. PICK p : p = pc[d]
    OBVIOUS
  <2>2. PICK j : j = job[d]
    OBVIOUS
  <2>n. PICK n : n = j.name
    OBVIOUS
  <2>3. OwnBlender(j.rec)
    BY <2>2 DEF CalmInv, ClientCalm
  <2>4. ASSUME p \notin {"idle", "lock"} PROVE HandFacts(p, j, n)'
    <3>1. HandFacts(p, j, n) /\ n \in Names /\ j \in Job
      BY <2>1, <2>2, <2>n, <2>4, Hand
    <3>2. Empty(n) => Empty(n)'
      BY <1>1 DEF Empty
    <3>3. ASSUME p \in {"spawn"} \cup TryPcs, boot'[n].is = "pid" PROVE boot'[n].blender = j.sid
      <4>1. CASE boot'[n] = boot[n]
        BY <3>1, <3>3, <4>1 DEF HandFacts
      <4>2. CASE boot'[n] # boot[n]
        BY <2>1, <2>2, <2>n, <3>1, <3>3, <4>2, ReportOwn
      <4>. QED BY <4>1, <4>2
    <3>4. ASSUME p \in KillPcs \cup {"clearSession"}, j.fresh \/ j.op = "stop"
          PROVE  sup'[j.rec.launch] # "unborn"
      <4>1. sup[j.rec.launch] # "unborn" /\ j.rec.launch # 0
        BY <3>1, <3>4 DEF HandFacts
      <4>2. j.rec.launch \in Launches
        BY <3>1, <4>1, BoundAssumption DEF Job, Record, Launches
      <4>. QED BY <4>1, <4>2 DEF Fades
    <3>5. Current(n)' = Current(n) /\ (gate'[n] => gate[n])
      BY <3>1 DEF Current
    <3>. QED BY <3>1, <3>2, <3>3, <3>4, <3>5 DEF HandFacts
  <2>. QED BY <2>1, <2>2, <2>n, <2>3, <2>4, ClientCalmTo
<1>. QED BY <1>2, <1>3, <1>4 DEF CalmInv

\* Every step of a supervisor or a Blender does so.
LEMMA ProcessCalm ==
    ASSUME Ground, CalmInv, Fades, NEW l \in Launches, SupStep(l) \/ BlenderStep(l)
    PROVE  CalmInv'
<1>n. PICK n : n = plan[l].name
  OBVIOUS
<1>0. /\ sup \in [Launches -> SupStates] /\ root \in [Launches -> RootStates] /\ Coupled(l)
      /\ gate \in [Names -> BOOLEAN] /\ boot \in [Names -> Boot]
      /\ Helped(l) /\ UNCHANGED <<session, launching, plan, pc, job>>
  BY DEF Ground, TypeInv, TypeOK, FilesTyped, ProcsTyped, ProcInv, CalmInv, LaunchCalm,
     SupStep, SupSeesGate, SupExpires, SupTakesGate, SupSpawns, SupCannotSpawn, SupReports,
     SupCannotReport, BlenderStep, RootBinds, RootExits, HelperStarts, HelperEnds, files
<1>1. CASE SupSeesGate(l)
  <2>1. UNCHANGED <<gate, boot, root, helpers>> /\ sup[l] = "waiting" /\ gate[n] /\ sup' = [sup EXCEPT ![l] = "sawGate"]
    BY <1>1, <1>n DEF SupSeesGate, files
  <2>. QED BY <1>0, <1>n, <2>1, ProcessTo DEF Passed, SupAlive, GroupAlive, RootAlive, Helped
<1>2. CASE SupExpires(l)
  <2>1. UNCHANGED <<gate, boot, root, helpers>> /\ sup[l] = "waiting" /\ sup' = [sup EXCEPT ![l] = "gone"]
    BY <1>2 DEF SupExpires, files
  <2>. QED BY <1>0, <2>1, ProcessTo DEF Passed, SupAlive, GroupAlive, RootAlive, Helped, Coupled
<1>3. CASE SupTakesGate(l)
  <2>1. /\ UNCHANGED <<root, helpers>> /\ sup[l] = "sawGate" /\ gate' = [gate EXCEPT ![n] = FALSE]
        /\ \/ boot' = [boot EXCEPT ![n] = [is |-> "launching", blender |-> 0]] /\ sup' = [sup EXCEPT ![l] = "opened"]
           \/ boot' = boot /\ sup' = [sup EXCEPT ![l] = "gone"]
    BY <1>3, <1>n DEF SupTakesGate
  <2>2. /\ \A m \in Names : gate'[m] => gate[m]
        /\ \A m \in Names : boot'[m].is = "pid" => boot'[m] = boot[m]
    BY <1>0, <2>1
  <2>. QED BY <1>0, <2>1, <2>2, ProcessTo DEF Passed, SupAlive, GroupAlive, RootAlive, Helped, Coupled
<1>4. CASE SupSpawns(l)
  <2>1. /\ UNCHANGED <<gate, boot, helpers>> /\ sup[l] = "opened" /\ sup' = [sup EXCEPT ![l] = "spawned"]
        /\ root' = [root EXCEPT ![l] = "up"]
    BY <1>4 DEF SupSpawns, files
  <2>. QED BY <1>0, <2>1, ProcessTo DEF Passed, SupAlive, GroupAlive, RootAlive, Helped
<1>5. CASE SupCannotSpawn(l)
  <2>1. /\ UNCHANGED <<gate, root, helpers>> /\ sup[l] = "opened" /\ sup' = [sup EXCEPT ![l] = "gone"]
        /\ boot' = [boot EXCEPT ![n] = [is |-> "error", blender |-> 0]]
    BY <1>5, <1>n DEF SupCannotSpawn
  <2>2. \A m \in Names : boot'[m].is = "pid" => boot'[m] = boot[m]
    BY <1>0, <2>1
  <2>. QED BY <1>0, <2>1, <2>2, ProcessTo DEF Passed, SupAlive, GroupAlive, RootAlive, Helped, Coupled
<1>6. CASE SupReports(l)
  <2>1. /\ UNCHANGED <<gate, root, helpers>> /\ sup[l] = "spawned" /\ sup' = [sup EXCEPT ![l] = "anchor"]
        /\ boot' = [boot EXCEPT ![n] = [is |-> "pid", blender |-> l]]
    BY <1>6, <1>n DEF SupReports
  <2>2. \A m \in Names : boot'[m] = boot[m] \/ (m = n /\ boot'[m].blender = l)
    BY <1>0, <2>1
  <2>. QED BY <1>0, <1>n, <2>1, <2>2, ProcessTo DEF Passed, SupAlive, GroupAlive, RootAlive, Helped
<1>7. CASE SupCannotReport(l)
  <2>1. Signal(l, {}) /\ UNCHANGED <<gate, boot>>
    BY <1>7 DEF SupCannotReport, files
  <2>2. /\ ~SupAlive(l)' /\ ~GroupAlive(l)'
        /\ \A k \in Launches \ {l} : sup'[k] = sup[k] /\ root'[k] = root[k] /\ (k \in helpers' <=> k \in helpers)
        /\ helpers' \subseteq helpers
    BY <2>1, SignalEffect
  <2>3. Helped(l)'
    BY <1>0, <2>2 DEF Helped, Fades
  <2>4. ~Passed(l)'
    BY <2>2 DEF Passed, SupAlive
  <2>. QED BY <1>0, <2>1, <2>2, <2>3, <2>4, ProcessTo
<1>8. CASE RootBinds(l) \/ RootExits(l)
  <2>1. UNCHANGED <<gate, boot, sup, helpers>> /\ RootAlive(l) /\ \E r \in {"mute", "serving", "gone"} : root' = [root EXCEPT ![l] = r]
    BY <1>8 DEF RootBinds, RootExits, RootAlive, files
  <2>. QED BY <1>0, <2>1, ProcessTo DEF Passed, SupAlive, GroupAlive, RootAlive, Helped
<1>9. CASE HelperStarts(l) \/ HelperEnds(l)
  <2>1. /\ UNCHANGED <<gate, boot, sup, root>> /\ GroupAlive(l)
        /\ \/ RootAlive(l) /\ helpers' = helpers \cup {l}
           \/ helpers' = helpers \ {l}
    BY <1>9 DEF HelperStarts, HelperEnds, GroupAlive, files
  <2>. QED BY <1>0, <2>1, ProcessTo DEF Passed, SupAlive, GroupAlive, RootAlive, Helped
<1>. QED BY <1>1, <1>2, <1>3, <1>4, <1>5, <1>6, <1>7, <1>8, <1>9 DEF SupStep, BlenderStep

-----------------------------------------------------------------------------
(* Theorems *)

\* A step that changes neither files nor processes, of a client that only begins
\* or of no client.
LEMMA StillCalm ==
    ASSUME Ground, CalmInv, UNCHANGED <<session, launching, gate, boot, sup, root, helpers, plan>>,
           \A d \in Clients :
              \/ pc'[d] = pc[d] /\ job'[d] = job[d]
              \/ pc[d] = "idle" /\ pc'[d] = "lock" /\ OwnBlender(job'[d].rec)
    PROVE  CalmInv'
<1>1. \A d \in Clients : pc[d] \in UnrecordedPcs \cup {"kill"} => pc'[d] = pc[d] /\ job'[d] = job[d]
  BY DEF UnrecordedPcs
<1>2. ASSUME NEW l \in Launches PROVE LaunchCalm(l)'
  <2>0. LaunchCalm(l)
    BY DEF CalmInv
  <2>1. Named(l)'
    BY <1>1, <2>0 DEF LaunchCalm, Named, SupAlive, Current
  <2>2. Ready(l)'
    BY <2>0 DEF LaunchCalm, Ready, Passed, SupAlive, Current
  <2>3. Residue(l)'
    BY <1>1, <2>0 DEF LaunchCalm, Residue, GroupAlive, SupAlive, RootAlive
  <2>4. Helped(l)'
    BY <2>0 DEF LaunchCalm, Helped
  <2>. QED BY <2>1, <2>2, <2>3, <2>4 DEF LaunchCalm
<1>3. \A n \in Names : NameCalm(n)'
  BY DEF CalmInv, NameCalm, Placed, OwnBlender
<1>4. ASSUME NEW d \in Clients PROVE ClientCalm(d)'
  <2>1. PICK p : p = pc[d]
    OBVIOUS
  <2>2. PICK j : j = job[d]
    OBVIOUS
  <2>3. CASE pc'[d] = p /\ job'[d] = j
    <3>1. OwnBlender(j.rec) /\ (p \notin {"idle", "lock"} => HandFacts(p, j, j.name))
      BY <2>1, <2>2 DEF CalmInv, ClientCalm
    <3>2. Empty(j.name)' = Empty(j.name) /\ Current(j.name)' = Current(j.name)
      BY DEF Empty, SupAlive, Current
    <3>3. HandFacts(p, j, j.name) => HandFacts(p, j, j.name)'
      BY <3>2 DEF HandFacts
    <3>. QED BY <2>3, <3>1, <3>3, ClientCalmTo
  <2>4. CASE pc'[d] = "lock" /\ OwnBlender(job'[d].rec)
    BY <2>4 DEF ClientCalm, OwnBlender
  <2>. QED BY <2>1, <2>2, <2>3, <2>4
<1>. QED BY <1>2, <1>3, <1>4 DEF CalmInv

\* A new operation has nothing in its hands.
LEMMA BeginCalm ==
    ASSUME Ground, CalmInv, NEW c \in Clients, Begin(c)
    PROVE  CalmInv'
<1>1. ASSUME NEW f, Accept(c, f), OwnBlender(f.rec) PROVE CalmInv'
  <2>1. /\ UNCHANGED <<session, launching, gate, boot, sup, root, helpers, plan>>
        /\ pc[c] = "idle" /\ pc'[c] = "lock" /\ job'[c] = f
        /\ \A d \in Clients \ {c} : pc'[d] = pc[d] /\ job'[d] = job[d]
    BY <1>1 DEF Accept, Goto, Job1, files, procs, Ground, TypeInv, TypeOK, ClientsTyped
  <2>. QED BY <1>1, <2>1, StillCalm
<1>2. OwnBlender(NoJob.rec)
  BY DEF OwnBlender, NoJob, NoRec
<1>3. ASSUME NEW n \in Names, BeginStart(c, n) PROVE CalmInv'
  <2>. DEFINE f == [NoJob EXCEPT !.op = "start", !.name = n, !.at = n, !.sid = starts + 1]
  <2>1. Accept(c, f) /\ f.rec = NoJob.rec
    BY <1>3 DEF BeginStart, NoJob
  <2>. QED BY <1>1, <1>2, <2>1
<1>4. ASSUME NEW n \in Names, BeginStatus(c, n) PROVE CalmInv'
  <2>. DEFINE f == [NoJob EXCEPT !.op = "status", !.name = n, !.at = n]
  <2>1. Accept(c, f) /\ f.rec = NoJob.rec
    BY <1>4 DEF BeginStatus, NoJob
  <2>. QED BY <1>1, <1>2, <2>1
<1>5. ASSUME NEW n \in Names, BeginFenced(c, n) PROVE CalmInv'
  <2>1. PICK o \in {"call", "stop"}, l \in Launches :
            Accept(c, [NoJob EXCEPT !.op = o, !.name = n, !.at = n, !.sid = l])
    BY <1>5 DEF BeginFenced
  <2>. DEFINE f == [NoJob EXCEPT !.op = o, !.name = n, !.at = n, !.sid = l]
  <2>2. f.rec = NoJob.rec
    BY DEF NoJob
  <2>. QED BY <1>1, <1>2, <2>1, <2>2
<1>. QED BY <1>3, <1>4, <1>5 DEF Begin

\* Initially nothing lives.
LEMMA CalmInit == Init => CalmInv
<1>. SUFFICES ASSUME Init PROVE CalmInv
  OBVIOUS
<1>1. \A l \in Launches : LaunchCalm(l)
  BY DEF Init, LaunchCalm, Named, Ready, Passed, Residue, Helped, GroupAlive, SupAlive, RootAlive
<1>2. \A n \in Names : NameCalm(n)
  BY DEF Init, NameCalm, Placed, OwnBlender, NoRec
<1>3. \A c \in Clients : ClientCalm(c)
  BY DEF Init, ClientCalm, OwnBlender, NoJob, NoRec
<1>. QED BY <1>1, <1>2, <1>3 DEF CalmInv

\* Every step of a calm system keeps its process trees in hand.
LEMMA CalmStep == Calm /\ Ground /\ CalmInv /\ [Next]_vars => CalmInv'
<1>. SUFFICES ASSUME Calm, Ground, CalmInv, [Next]_vars PROVE CalmInv'
  OBVIOUS
<1>0. Fades
  BY ProcStep DEF Ground
<1>1. ASSUME NEW c \in Clients, Begin(c) \/ ClientStep(c) PROVE CalmInv'
  BY <1>0, <1>1, BeginCalm, ControlCalm, InspectionCalm, AllocationCalm, RemovalCalm,
     LaunchCalmKept, TerminateCalm DEF ClientStep
<1>2. ASSUME NEW l \in Launches, SupStep(l) \/ BlenderStep(l) PROVE CalmInv'
  BY <1>0, <1>2, ProcessCalm
<1>3. ASSUME FaultStep PROVE CalmInv'
  <2>1. \A c \in Clients : ~ClientFault(c)
    BY DEF ClientFault, Crash, Interrupt, Fault, Calm, Violent
  <2>2. \A l \in Launches : ~SupKilled(l)
    BY DEF SupKilled, Fault, Calm, Violent
  <2>3. ASSUME NEW p \in BasePort..MaxPort, ForeignBinds(p) PROVE CalmInv'
    BY <2>3, StillCalm DEF ForeignBinds, files
  <2>. QED BY <1>3, <2>1, <2>2, <2>3 DEF FaultStep
<1>4. CASE Quiet \/ UNCHANGED vars
  BY <1>4, StillCalm DEF Quiet, vars, files, procs
<1>. QED BY <1>1, <1>2, <1>3, <1>4 DEF Next

\* In a calm system the process trees stay in the hands of clients and records.
THEOREM TreesInHand == ASSUME Calm PROVE Spec => [](Ground /\ CalmInv)
<1>1. Init => TypeInv /\ FileInv /\ ProcInv /\ PortInv /\ CalmInv
  BY TypeInit, FileInit, ProcInit, PortInit, CalmInit
<1>2. TypeInv /\ FileInv /\ ProcInv /\ PortInv /\ CalmInv /\ [Next]_vars
          => (TypeInv /\ FileInv /\ ProcInv /\ PortInv /\ CalmInv)'
  BY TypeStep, FileStep, ProcStep, PortStep, CalmStep DEF Ground, PortInv
<1>3. TypeInv /\ FileInv /\ ProcInv /\ PortInv /\ CalmInv => Ground /\ CalmInv
  BY DEF Ground, PortInv
<1>. QED BY <1>1, <1>2, <1>3, PTL DEF Spec

\* What is left of a group without a supervisor is in the hands of its killer.
LEMMA Killer ==
    ASSUME Ground, CalmInv, NEW l \in Launches, GroupAlive(l), ~SupAlive(l)
    PROVE  \E c \in Clients :
              /\ pc[c] = "kill" /\ job[c].rec.launch = l /\ job[c].name = plan[l].name
              /\ Empty(plan[l].name)
<1>1. PICK c \in Clients : pc[c] = "kill" /\ job[c].rec.launch = l
  BY DEF CalmInv, LaunchCalm, Residue
<1>2. plan[l].name = job[c].name /\ HandFacts("kill", job[c], job[c].name)
  BY <1>1, KillHand DEF KillPcs
<1>. QED BY <1>1, <1>2 DEF HandFacts, Over

\* One Session Name never has two live process trees.
THEOREM TreesAreSingle == ASSUME Calm PROVE Spec => []SingleTree
<1>1. Ground /\ CalmInv => SingleTree
  <2>. SUFFICES ASSUME Ground, CalmInv, NEW k \in Launches, NEW l \in Launches,
                       GroupAlive(k), GroupAlive(l), plan[k].name = plan[l].name
                PROVE  k = l
    BY DEF SingleTree
  <2>1. ASSUME ~SupAlive(k) \/ ~SupAlive(l) PROVE k = l
    <3>1. Empty(plan[k].name)
      BY <2>1, Killer
    <3>2. ~SupAlive(k) /\ ~SupAlive(l)
      BY <3>1 DEF Empty
    <3>3. PICK c \in Clients : pc[c] = "kill" /\ job[c].rec.launch = k /\ job[c].name = plan[k].name
      BY <3>2, Killer
    <3>4. PICK d \in Clients : pc[d] = "kill" /\ job[d].rec.launch = l /\ job[d].name = plan[l].name
      BY <3>2, Killer
    <3>5. c = d
      BY <3>3, <3>4, NamesDiffer DEF Ground, FileInv
    <3>. QED BY <3>3, <3>4, <3>5
  <2>2. ASSUME SupAlive(k), SupAlive(l), NEW c \in Clients, pc[c] \in UnrecordedPcs,
               job[c].sid = k \/ job[c].sid = l
        PROVE  k = l
    <3>1. job[c].name = plan[k].name /\ pc[c] \notin {"idle", "lock"} /\ job[c].name \in Names
      BY <2>2, UnrecordedName, Hand
    <3>2. Facts(pc[c], job[c], session[job[c].name], launching[job[c].name], marker[job[c].name])
      BY <3>1, Hand
    <3>3. Current(job[c].name).launch \notin Launches
      BY <2>2, <3>2 DEF Facts, MarkFacts, Current, UnrecordedPcs, NoRec, Launches
    <3>. QED BY <2>2, <3>1, <3>3, Mine
  <2>3. SupAlive(k) => \/ Current(plan[k].name).launch = k
                       \/ \E c \in Clients : pc[c] \in UnrecordedPcs /\ job[c].sid = k
    BY DEF CalmInv, LaunchCalm, Named
  <2>4. SupAlive(l) => \/ Current(plan[l].name).launch = l
                       \/ \E c \in Clients : pc[c] \in UnrecordedPcs /\ job[c].sid = l
    BY DEF CalmInv, LaunchCalm, Named
  <2>. QED BY <2>1, <2>2, <2>3, <2>4
<1>. QED BY TreesInHand, <1>1, PTL

\* Every live process group is recorded, or in the hands of the start that made it.
THEOREM TreesAreOwned == ASSUME Calm PROVE Spec => []NoOrphans
<1>1. Ground /\ CalmInv => NoOrphans
  <2>. SUFFICES ASSUME Ground, CalmInv, NEW l \in Launches, GroupAlive(l)
                PROVE  InHand(l) \/ \E n \in Names : Current(n).launch = l
    BY DEF NoOrphans
  <2>1. CASE SupAlive(l)
    <3>1. plan[l].name \in Names
      BY <2>1 DEF CalmInv, LaunchCalm, Named
    <3>2. \/ Current(plan[l].name).launch = l
          \/ \E c \in Clients : pc[c] \in UnrecordedPcs /\ job[c].sid = l
      BY <2>1 DEF CalmInv, LaunchCalm, Named
    <3>. QED BY <3>1, <3>2, UnrecordedName DEF InHand
  <2>2. CASE ~SupAlive(l)
    <3>1. PICK c \in Clients : pc[c] = "kill" /\ job[c].rec.launch = l
      BY <2>2, Killer
    <3>2. /\ JobOK(pc[c], job[c]) /\ job[c].name \in Names
          /\ Facts(pc[c], job[c], session[job[c].name], launching[job[c].name], marker[job[c].name])
      BY <3>1, Hand
    <3>3. CASE job[c].fresh
      BY <3>1, <3>2, <3>3 DEF JobOK, InHand
    <3>4. CASE job[c].op = "stop"
      BY <3>1, <3>2, <3>4 DEF Facts, FenceFacts, Holding, KillPcs, Current
    <3>. QED BY <3>1, <3>2, <3>3, <3>4 DEF JobOK, KillPcs
  <2>. QED BY <2>1, <2>2
<1>. QED BY TreesInHand, <1>1, PTL

\* A stop that goes on to forget a Session it found alive has ended its whole
\* process group.
THEOREM StopsAreComplete == ASSUME Calm PROVE Spec => []StopMeansGone
<1>1. Ground /\ CalmInv => StopMeansGone
  <2>. SUFFICES ASSUME Ground, CalmInv, NEW c \in Clients, pc[c] = "clearSession", job[c].op = "stop"
                PROVE  ~GroupAlive(job[c].rec.launch) /\ ~RootMatches(job[c].rec)
    BY DEF StopMeansGone
  <2>1. PICK g : g = job[c].rec.launch
    OBVIOUS
  <2>2. HandFacts("clearSession", job[c], job[c].name) /\ OwnBlender(job[c].rec) /\ job[c] \in Job
    BY Hand
  <2>3. g # 0 /\ plan[g].name = job[c].name /\ Empty(job[c].name)
    BY <2>1, <2>2 DEF HandFacts, Over, ClearPcs
  <2>4. g \in Launches
    BY <2>1, <2>2, <2>3, BoundAssumption DEF Job, Record, Launches
  <2>5. ~SupAlive(g)
    BY <2>3, <2>4 DEF Empty
  <2>6. ~GroupAlive(g)
    <3>1. \A d \in Clients : pc[d] = "kill" => job[d].name # job[c].name
      BY NamesDiffer DEF Ground, FileInv
    <3>. QED BY <2>3, <2>4, <2>5, <3>1, Killer
  <2>7. ~RootMatches(job[c].rec)
    BY <2>1, <2>2, <2>3, <2>5, <2>6 DEF OwnBlender, RootMatches, GroupAlive
  <2>. QED BY <2>1, <2>6, <2>7
<1>. QED BY TreesInHand, <1>1, PTL

\* Only a supervisor that has passed its gate starts Blender.
LEMMA BlenderStarts ==
    ASSUME Ground, [Next]_vars, NEW l \in Launches, root[l] = "none", root'[l] = "up"
    PROVE  sup[l] = "opened"
<1>0. root \in [Launches -> RootStates]
  BY DEF Ground, TypeInv, TypeOK, ProcsTyped
<1>1. ASSUME NEW g, NEW linger, Signal(g, linger) PROVE FALSE
  BY <1>0, <1>1 DEF Signal
<1>2. ASSUME NEW c \in Clients, ClientStep(c) \/ ClientFault(c) PROVE FALSE
  <2>1. CASE Spawn(c)
    BY <2>1 DEF Spawn
  <2>2. CASE TermSignal(c) \/ Kill(c)
    BY <1>1, <2>2 DEF TermSignal, Kill
  <2>3. CASE ~(Spawn(c) \/ TermSignal(c) \/ Kill(c))
    <3>1. Bystander(c)
      BY <1>2, <2>3, BystanderControl, BystanderInspection, BystanderAllocation, BystanderRemoval,
         BystanderLaunch, BystanderTerminate, BystanderClientFault DEF ClientStep, Ground
    <3>. QED BY <3>1 DEF Bystander
  <2>. QED BY <2>1, <2>2, <2>3
<1>3. ASSUME NEW c \in Clients, Begin(c) PROVE FALSE
  BY <1>3 DEF Begin, BeginStart, BeginStatus, BeginFenced, Accept, procs
<1>4. ASSUME NEW k \in Launches, SupStep(k) \/ BlenderStep(k) \/ SupKilled(k) PROVE sup[l] = "opened"
  <2>1. CASE SupSpawns(k)
    BY <1>0, <2>1 DEF SupSpawns
  <2>2. CASE SupCannotReport(k)
    BY <1>1, <2>2 DEF SupCannotReport
  <2>3. CASE RootBinds(k) \/ RootExits(k)
    BY <1>0, <2>3 DEF RootBinds, RootExits
  <2>4. CASE UNCHANGED root
    BY <2>4
  <2>. QED BY <1>4, <2>1, <2>2, <2>3, <2>4
       DEF SupStep, SupSeesGate, SupExpires, SupTakesGate, SupCannotSpawn, SupReports,
           BlenderStep, HelperStarts, HelperEnds, SupKilled
<1>5. ASSUME NEW p \in BasePort..MaxPort, ForeignBinds(p) PROVE FALSE
  BY <1>5 DEF ForeignBinds
<1>6. ~(Quiet \/ UNCHANGED vars)
  BY DEF Quiet, vars, procs
<1>. QED BY <1>2, <1>3, <1>4, <1>5, <1>6 DEF Next, FaultStep

\* Blender is started only while the record of the launch that starts it is on disk.
THEOREM RecordsAreFirst == ASSUME Calm PROVE Spec => DurableBeforeLaunch
<1>1. Ground /\ CalmInv /\ [Next]_vars =>
        [\A l \in Launches :
           root[l] = "none" /\ root'[l] = "up" => Current(plan[l].name).launch = l]_vars
  <2>. SUFFICES ASSUME Ground, CalmInv, [Next]_vars, NEW l \in Launches, root[l] = "none", root'[l] = "up"
                PROVE  Current(plan[l].name).launch = l
    OBVIOUS
  <2>1. Ready(l) /\ Passed(l)
    BY BlenderStarts DEF CalmInv, LaunchCalm, Passed, SupAlive
  <2>. QED BY <2>1 DEF Ready
<1>. QED BY TreesInHand, <1>1, PTL DEF Spec, DurableBeforeLaunch
=============================================================================
