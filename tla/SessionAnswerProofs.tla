------------------------- MODULE SessionAnswerProofs -------------------------
(***************************************************************************)
(* Who answers on the port of a Session: proofs about SessionLifecycle,    *)
(* for any number of clients and names and any bounds, in a system that is *)
(* Calm (see SessionTreeProofs).                                           *)
(***************************************************************************)
EXTENDS SessionTreeProofs

\* Where a start has written launching.json and not yet removed it, and where a
\* client removes the records of a name
ProgressPcs == WrittenPcs \cup KillPcs \cup {"clearSession", "clearLaunching"}

\* A start in progress
Progressing(p, j) == p \in ProgressPcs /\ j.fresh

\* Where a client has signalled the tree of a Session and still has its record
EndPcs == {"kill", "clearSession"}

\* Only a start in progress has a launching.json, and a recorded Session keeps
\* the supervisor that anchors its group until somebody ends it.
Settled(n) ==
    /\ launching[n] # NoRec => \E c \in Clients : Progressing(pc[c], job[c]) /\ job[c].name = n
    /\ session[n] # NoRec => \/ sup[session[n].launch] = "anchor"
                             \/ \E c \in Clients : pc[c] \in EndPcs /\ job[c].name = n

\* Where a start has, or may read, the pid of its Blender
Told(c) ==
    \/ pc[c] \in NamedPcs
    \/ pc[c] \in {"spawn"} \cup TryPcs /\ boot[job[c].name].is = "pid"

\* The supervisor that reported a pid stays, and an inspection that goes on to
\* the socket has no result yet.
Anchored(c) == Told(c) => sup[job[c].sid] = "anchor"
Unasked(c)  == pc[c] \in {"wire", "probe"} => job[c].status = "none"

\* A start that gives its launch up has not recorded it for good.
Unconfirmed(c) ==
    pc[c] \in KillPcs \cup {"clearSession"} /\ job[c].fresh => session[job[c].name] = NoRec

\* The inductive invariant, beside Ground, PortInv and CalmInv
AnswerInv ==
    /\ \A n \in Names : Settled(n)
    /\ \A c \in Clients : Anchored(c) /\ Unasked(c) /\ Unconfirmed(c)

-----------------------------------------------------------------------------
(* What a client's step does to the Session of its name *)

\* A step ends an anchor only to end the Session of the client's own name,
KeepsAnchors(c) ==
    \A l \in Launches : sup[l] = "anchor" =>
        sup'[l] = "anchor" \/ (pc'[c] \in EndPcs /\ plan[l].name = job[c].name)

\* leaves a launching.json only to a client still in progress,
KeepsProgress(c) ==
    LET n == job[c].name IN
    launching'[n] # NoRec =>
        \/ Progressing(pc'[c], job'[c])
        \/ launching[n] # NoRec /\ ~Progressing(pc[c], job[c])

\* and a session.json only with an anchor, or to a client still ending it.
KeepsSession(c) ==
    LET n == job[c].name IN
    session'[n] # NoRec =>
        \/ pc'[c] \in EndPcs \/ sup'[session'[n].launch] = "anchor"
        \/ session'[n] = session[n] /\ pc[c] \notin EndPcs

\* Reports of other names, and all of them while the client waits for its name,
\* stay as they are.
KeepsReports(c) ==
    /\ \A m \in Names \ {job[c].name} : boot'[m] = boot[m]
    /\ pc[c] = "lock" => UNCHANGED <<files, procs>>

Course(c) ==
    /\ KeepsAnchors(c) /\ KeepsProgress(c) /\ KeepsSession(c) /\ KeepsReports(c)
    /\ Anchored(c)' /\ Unasked(c)' /\ Unconfirmed(c)'

\* Such a step keeps the invariant.
LEMMA CourseKeeps ==
    ASSUME Ground, CalmInv, AnswerInv, NEW c \in Clients, Moves(c), Course(c)
    PROVE  AnswerInv'
<1>1. ASSUME NEW n \in Names PROVE Settled(n)'
  <2>1. ASSUME launching'[n] # NoRec
        PROVE  \E d \in Clients : Progressing(pc'[d], job'[d]) /\ job'[d].name = n
    <3>1. CASE n = job[c].name /\ Progressing(pc'[c], job'[c])
      <4>1. job'[c].name = n
        BY <3>1 DEF Moves, SameErrand, Progressing, ProgressPcs, WrittenPcs, NamedPcs, KillPcs
      <4>. QED BY <3>1, <4>1
    <3>2. CASE ~(n = job[c].name /\ Progressing(pc'[c], job'[c]))
      <4>1. launching[n] # NoRec /\ (n = job[c].name => ~Progressing(pc[c], job[c]))
        BY <2>1, <3>2 DEF Moves, Course, KeepsProgress
      <4>2. PICK d \in Clients : Progressing(pc[d], job[d]) /\ job[d].name = n
        BY <4>1 DEF AnswerInv, Settled
      <4>3. d # c
        BY <4>1, <4>2
      <4>. QED BY <4>2, <4>3 DEF Moves
    <3>. QED BY <3>1, <3>2
  <2>2. ASSUME session'[n] # NoRec, sup'[session'[n].launch] # "anchor"
        PROVE  \E d \in Clients : pc'[d] \in EndPcs /\ job'[d].name = n
    <3>1. CASE n = job[c].name /\ pc'[c] \in EndPcs
      <4>1. job'[c].name = n
        BY <3>1 DEF Moves, SameErrand, EndPcs
      <4>. QED BY <3>1, <4>1
    <3>2. CASE ~(n = job[c].name /\ pc'[c] \in EndPcs)
      <4>1. session'[n] = session[n] /\ (n = job[c].name => pc[c] \notin EndPcs)
        BY <2>2, <3>2 DEF Moves, Course, KeepsSession
      <4>2. session[n].launch \in Launches /\ plan[session[n].launch].name = n
        BY <2>2, <4>1, RecordTyped DEF Ground, CalmInv, NameCalm, Placed
      <4>3. sup[session[n].launch] # "anchor"
        BY <2>2, <3>2, <4>1, <4>2 DEF Course, KeepsAnchors
      <4>4. PICK d \in Clients : pc[d] \in EndPcs /\ job[d].name = n
        BY <2>2, <4>1, <4>3 DEF AnswerInv, Settled
      <4>5. d # c
        BY <4>1, <4>4
      <4>. QED BY <4>4, <4>5 DEF Moves
    <3>. QED BY <3>1, <3>2
  <2>. QED BY <2>1, <2>2 DEF Settled
<1>2. ASSUME NEW d \in Clients PROVE Anchored(d)' /\ Unasked(d)' /\ Unconfirmed(d)'
  <2>1. CASE d = c
    BY <2>1 DEF Course
  <2>2. CASE d # c
    <3>0. pc'[d] = pc[d] /\ job'[d] = job[d] /\ Anchored(d) /\ Unasked(d) /\ Unconfirmed(d)
      BY <2>2 DEF Moves, AnswerInv
    <3>1. ASSUME Told(d)' PROVE sup'[job[d].sid] = "anchor"
      <4>1. pc[d] \in {"spawn"} \cup TryPcs /\ pc[d] \notin {"idle", "lock"}
        BY <3>0, <3>1 DEF Told, NamedPcs, TryPcs
      <4>2. job[d].sid \in Launches /\ plan[job[d].sid].name = job[d].name /\ job[d].name \in Names
        BY <4>1, FreshHand
      <4>3. CASE pc[c] = "lock"
        <5>1. boot' = boot /\ sup' = sup
          BY <4>3 DEF Course, KeepsReports, files, procs
        <5>. QED BY <3>0, <3>1, <5>1 DEF Told, Anchored
      <4>4. CASE pc[c] # "lock"
        <5>1. job[d].name # job[c].name
          BY <2>2, <4>1, <4>4, NamesDiffer DEF Ground, FileInv, Moves
        <5>2. boot'[job[d].name] = boot[job[d].name]
          BY <4>2, <5>1 DEF Course, KeepsReports
        <5>3. sup[job[d].sid] = "anchor"
          BY <3>0, <3>1, <5>2 DEF Told, Anchored
        <5>. QED BY <4>2, <5>1, <5>3 DEF Course, KeepsAnchors
      <4>. QED BY <4>3, <4>4
    <3>2. Unconfirmed(d)'
      <4>. SUFFICES ASSUME pc[d] \in KillPcs \cup {"clearSession"}, job[d].fresh
                    PROVE  session'[job[d].name] = NoRec
        BY <3>0 DEF Unconfirmed
      <4>1. session[job[d].name] = NoRec
        BY <3>0 DEF Unconfirmed
      <4>2. CASE pc[c] = "lock"
        BY <4>1, <4>2 DEF Course, KeepsReports, files
      <4>3. CASE pc[c] # "lock"
        <5>1. job[d].name # job[c].name
          BY <2>2, <4>3, NamesDiffer DEF Ground, FileInv, Moves, KillPcs
        <5>2. job[d].name \in Names
          BY DEF Ground, TypeInv, JobsOK, JobOK, KillPcs
        <5>. QED BY <4>1, <5>1, <5>2 DEF Moves
      <4>. QED BY <4>2, <4>3
    <3>. QED BY <3>0, <3>1, <3>2 DEF Anchored, Unasked
  <2>. QED BY <2>1, <2>2
<1>. QED BY <1>1, <1>2 DEF AnswerInv

\* A step that only removes, and signals nobody, keeps to its course if the
\* client leaves no record of its name behind and learns of no Blender.
LEMMA CourseSheds ==
    ASSUME TypeInv, AnswerInv, NEW c \in Clients, Moves(c), Sheds(c), UNCHANGED sup,
           NEW n, n = job[c].name, n \in Names,
           session'[n] # NoRec /\ pc[c] \in EndPcs => pc'[c] \in EndPcs,
           launching'[n] # NoRec /\ Progressing(pc[c], job[c]) => Progressing(pc'[c], job'[c]),
           KeepsReports(c),
           Told(c)' => Told(c) /\ SameErrand(job'[c], job[c]),
           Unasked(c)', Unconfirmed(c)'
    PROVE  Course(c)
<1>1. KeepsAnchors(c)
  BY DEF KeepsAnchors
<1>2. KeepsProgress(c)
  BY DEF KeepsProgress, Sheds
<1>3. KeepsSession(c)
  BY DEF KeepsSession, Sheds
<1>4. Anchored(c)'
  <2>. SUFFICES ASSUME Told(c)' PROVE sup'[job'[c].sid] = "anchor"
    BY DEF Anchored
  <2>1. Told(c) /\ job'[c].sid = job[c].sid
    BY DEF SameErrand
  <2>. QED BY <2>1 DEF AnswerInv, Anchored
<1>. QED BY <1>1, <1>2, <1>3, <1>4 DEF Course

\* Locks, decisions and calls.
LEMMA CourseControl ==
    ASSUME Ground, CalmInv, AnswerInv, NEW c \in Clients, Control(c)
    PROVE  Course(c)
<1>1. Moves(c) /\ Sheds(c) /\ UNCHANGED sup /\ job[c].name \in Names
  <2>1. job[c].name \in Names
    BY DEF Control, LockName, Fence, Decide, LockPorts, Call, Reply, UnlockPorts, UnlockName,
       Ground, TypeInv, JobsOK, JobOK
  <2>. QED BY <2>1, MovesControl, ShedsControl, BystanderControl DEF Ground, Bystander
<1>2. KeepsReports(c)
  BY DEF KeepsReports, Control, LockName, Fence, Decide, LockPorts, Call, Reply, UnlockPorts,
     UnlockName, files, procs
<1>3. pc[c] \notin ProgressPcs \cup EndPcs
  BY DEF Control, LockName, Fence, Decide, LockPorts, Call, Reply, UnlockPorts, UnlockName,
     ProgressPcs, EndPcs, WrittenPcs, NamedPcs, KillPcs
<1>4. pc'[c] \notin {"spawn", "wire", "probe"} \cup TryPcs
  BY DEF Control, LockName, Fence, Decide, LockPorts, Call, Reply, UnlockPorts, UnlockName,
     Verdicts, Goto, TryPcs, Ground, TypeInv, TypeOK, ClientsTyped
<1>5. ~Told(c)' /\ Unasked(c)'
  BY <1>4 DEF Told, Unasked, NamedPcs, TryPcs
<1>6. Unconfirmed(c)'
  <2>1. CASE LockPorts(c)
    <3>1. job[c].fresh = FALSE /\ job'[c].fresh = job[c].fresh
      BY <2>1 DEF LockPorts, Job1, JobOK, FreshPcs, TryPcs, ClearPcs, KillPcs, Job,
         Ground, TypeInv, TypeOK, ClientsTyped, JobsOK
    <3>. QED BY <3>1 DEF Unconfirmed
  <2>2. CASE ~LockPorts(c)
    <3>1. pc'[c] \notin KillPcs \cup {"clearSession"}
      BY <2>2 DEF Control, LockName, Fence, Decide, Call, Reply, UnlockPorts, UnlockName,
         Verdicts, Goto, KillPcs, Ground, TypeInv, TypeOK, ClientsTyped
    <3>. QED BY <3>1 DEF Unconfirmed
  <2>. QED BY <2>1, <2>2
<1>. QED BY <1>1, <1>2, <1>3, <1>5, <1>6, CourseSheds DEF Ground, Progressing

\* Inspections.
LEMMA CourseInspection ==
    ASSUME Ground, CalmInv, AnswerInv, NEW c \in Clients, Inspection(c)
    PROVE  Course(c)
<1>1. Moves(c) /\ Sheds(c) /\ UNCHANGED sup /\ job[c].name \in Names
  <2>1. job[c].name \in Names
    BY DEF Inspection, Read, Tree, LockWire, Probe, Ground, TypeInv, JobsOK, JobOK
  <2>. QED BY <2>1, MovesInspection, ShedsInspection, BystanderInspection DEF Ground, Bystander
<1>2. KeepsReports(c)
  BY DEF KeepsReports, Inspection, Read, Tree, LockWire, Probe, files, procs
<1>3. pc[c] \notin ProgressPcs \cup EndPcs
  BY DEF Inspection, Read, Tree, LockWire, Probe, ProgressPcs, EndPcs, WrittenPcs, NamedPcs, KillPcs
<1>4. pc'[c] \notin {"spawn", "clearSession"} \cup TryPcs \cup KillPcs
  BY DEF Inspection, Read, Tree, LockWire, Probe, Inspected, Goto, TryPcs, KillPcs, Ground,
     TypeInv, TypeOK, ClientsTyped
<1>5. ~Told(c)' /\ Unconfirmed(c)'
  BY <1>4 DEF Told, NamedPcs, TryPcs, Unconfirmed
<1>6. Unasked(c)'
  <2>1. CASE Read(c) \/ Probe(c)
    BY <2>1 DEF Read, Probe, Inspected, Goto, Unasked, Ground, TypeInv, TypeOK, ClientsTyped
  <2>2. CASE Tree(c)
    <3>. PICK k : k = Classify(job[c].rec, marker[job[c].at] = job[c].rec.launch, job[c].rootM)
      OBVIOUS
    <3>1. /\ pc'[c] = IF k = "wire" THEN "wire" ELSE Inspected(c)
          /\ job'[c].status = IF k = "wire" THEN "none" ELSE k
      BY <2>2 DEF Tree, Goto, Job1, Ground, TypeInv, TypeOK, ClientsTyped, Job
    <3>. QED BY <3>1 DEF Unasked, Inspected
  <2>3. CASE LockWire(c)
    BY <2>3 DEF LockWire, Goto, Unasked, AnswerInv, Ground, TypeInv, TypeOK, ClientsTyped
  <2>. QED BY <2>1, <2>2, <2>3 DEF Inspection
<1>. QED BY <1>1, <1>2, <1>3, <1>5, <1>6, CourseSheds DEF Ground, Progressing

\* Port scans.
LEMMA CourseAllocation ==
    ASSUME Ground, CalmInv, AnswerInv, NEW c \in Clients, Allocation(c)
    PROVE  Course(c)
<1>1. Moves(c) /\ Sheds(c) /\ UNCHANGED sup /\ job[c].name \in Names
  <2>1. job[c].name \in Names
    BY DEF Allocation, Scan, Tally, Alloc, Ground, TypeInv, JobsOK, JobOK
  <2>. QED BY <2>1, MovesAllocation, ShedsAllocation, BystanderAllocation DEF Ground, Bystander
<1>2. KeepsReports(c)
  BY DEF KeepsReports, Allocation, Scan, Tally, Alloc, files, procs
<1>3. pc[c] \notin ProgressPcs \cup EndPcs
  BY DEF Allocation, Scan, Tally, Alloc, ProgressPcs, EndPcs, WrittenPcs, NamedPcs, KillPcs
<1>4. pc'[c] \notin {"spawn", "wire", "probe"} \cup TryPcs
  BY DEF Allocation, Scan, Tally, Alloc, Goto, TryPcs, Ground, TypeInv, TypeOK, ClientsTyped
<1>5. ~Told(c)' /\ Unasked(c)'
  BY <1>4 DEF Told, Unasked, NamedPcs, TryPcs
<1>6. Unconfirmed(c)'
  <2>1. job[c].fresh = FALSE
    BY DEF Allocation, Scan, Tally, Alloc, JobOK, FreshPcs, TryPcs, ClearPcs, KillPcs, Job,
       Ground, TypeInv, TypeOK, ClientsTyped, JobsOK
  <2>2. job'[c].fresh = job[c].fresh
    BY DEF Allocation, Scan, Tally, Alloc, Job1, Job, Ground, TypeInv, TypeOK, ClientsTyped
  <2>. QED BY <2>1, <2>2 DEF Unconfirmed
<1>. QED BY <1>1, <1>2, <1>3, <1>5, <1>6, CourseSheds DEF Ground, Progressing

\* Removals.
LEMMA CourseRemoval ==
    ASSUME Ground, CalmInv, AnswerInv, NEW c \in Clients, Removal(c)
    PROVE  Course(c)
<1>n. PICK n : n = job[c].name
  OBVIOUS
<1>1. Moves(c) /\ Sheds(c) /\ UNCHANGED sup /\ n \in Names
  <2>1. n \in Names
    BY <1>n DEF Removal, ClearSession, ClearLaunching, ClearMarker, ClearBoot, Ground, TypeInv, JobsOK, JobOK
  <2>. QED BY <2>1, MovesRemoval, ShedsRemoval, BystanderRemoval DEF Ground, Bystander
<1>t. FilesTyped /\ pc \in [Clients -> PCs]
  BY DEF Ground, TypeInv, TypeOK, ClientsTyped
<1>2. KeepsReports(c)
  BY <1>t DEF KeepsReports, Removal, ClearSession, ClearLaunching, ClearMarker, ClearBoot, DropHandshake,
     FilesTyped
<1>3. /\ session'[n] # NoRec /\ pc[c] \in EndPcs => pc'[c] \in EndPcs
      /\ launching'[n] # NoRec /\ Progressing(pc[c], job[c]) => Progressing(pc'[c], job'[c])
      /\ pc'[c] \notin {"spawn", "wire", "probe", "clearSession"} \cup TryPcs \cup KillPcs
  <2>1. CASE ClearSession(c)
    BY <1>t, <1>1, <1>n, <2>1 DEF ClearSession, Goto, EndPcs, Progressing, ProgressPcs, FilesTyped, TryPcs,
       KillPcs
  <2>2. CASE ClearLaunching(c)
    BY <1>t, <1>1, <1>n, <2>2 DEF ClearLaunching, Goto, EndPcs, Progressing, ProgressPcs, FilesTyped, TryPcs,
       KillPcs
  <2>3. CASE ClearMarker(c)
    BY <1>t, <2>3 DEF ClearMarker, Goto, EndPcs, Progressing, ProgressPcs, WrittenPcs, NamedPcs,
       KillPcs, TryPcs
  <2>4. CASE ClearBoot(c)
    BY <1>t, <2>4 DEF ClearBoot, Goto, Removed, EndPcs, Progressing, ProgressPcs, WrittenPcs, NamedPcs,
       KillPcs, TryPcs
  <2>. QED BY <2>1, <2>2, <2>3, <2>4 DEF Removal
<1>4. ~Told(c)' /\ Unasked(c)' /\ Unconfirmed(c)'
  BY <1>3 DEF Told, Unasked, NamedPcs, TryPcs, Unconfirmed
<1>. QED BY <1>n, <1>1, <1>2, <1>3, <1>4, CourseSheds DEF Ground

\* A start on its way to its Blender.
LEMMA CourseLaunch ==
    ASSUME Ground, PortInv, CalmInv, AnswerInv, NEW c \in Clients, Launch(c)
    PROVE  Course(c)
<1>n. PICK n : n = job[c].name
  OBVIOUS
<1>t. FilesTyped /\ pc \in [Clients -> PCs] /\ job \in [Clients -> Job]
  BY DEF Ground, TypeInv, TypeOK, ClientsTyped
<1>1. Moves(c) /\ n \in Names /\ pc[c] \in {"prep", "spawn", "finally"} \cup TryPcs
  <2>1. pc[c] \in {"prep", "spawn", "finally"} \cup TryPcs
    BY DEF Launch, Prep, Spawn, Identify, Mark, Provisional, OpenGate, AwaitPid, AwaitFails,
       BlenderIdentity, RecordSession, Promote, Finally, TryPcs
  <2>2. n \in Names
    BY <1>n, <2>1 DEF Ground, TypeInv, JobsOK, JobOK, TryPcs
  <2>. QED BY <2>1, <2>2, MovesLaunch DEF Ground
<1>2. KeepsReports(c)
  <2>1. pc[c] # "lock"
    BY <1>1 DEF TryPcs
  <2>2. UNCHANGED boot \/ boot' = [boot EXCEPT ![n] = NoBoot]
    BY <1>n DEF Launch, Prep, Spawn, Identify, Mark, Provisional, OpenGate, AwaitPid,
       AwaitFails, BlenderIdentity, RecordSession, Promote, Finally, DropHandshake, files
  <2>. QED BY <1>n, <1>t, <2>1, <2>2 DEF KeepsReports, FilesTyped
<1>3. Unasked(c)'
  <2>1. pc'[c] \notin {"wire", "probe"}
    BY <1>t DEF Launch, Prep, Spawn, Identify, Mark, Provisional, OpenGate, AwaitPid, AwaitFails,
       BlenderIdentity, RecordSession, Promote, Finally, Goto
  <2>. QED BY <2>1 DEF Unasked
<1>u. Unconfirmed(c)'
  <2>1. CASE Identify(c) \/ AwaitFails(c) \/ BlenderIdentity(c)
    <3>1. pc[c] \in {"identify", "await", "blender"} /\ UNCHANGED <<session, job>>
      BY <2>1 DEF Identify, AwaitFails, BlenderIdentity, files
    <3>2. session[n] = NoRec
      BY <1>n, <3>1, Hand DEF Facts, MarkFacts, HandFacts
    <3>. QED BY <1>n, <3>1, <3>2 DEF Unconfirmed
  <2>2. CASE ~Identify(c) /\ ~AwaitFails(c) /\ ~BlenderIdentity(c)
    <3>1. pc'[c] \notin KillPcs \cup {"clearSession"}
      BY <1>t, <2>2 DEF Launch, Prep, Spawn, Mark, Provisional, OpenGate, AwaitPid, RecordSession,
         Promote, Finally, Goto, KillPcs
    <3>. QED BY <3>1 DEF Unconfirmed
  <2>. QED BY <2>1, <2>2
<1>4. pc[c] \notin EndPcs
  BY <1>1 DEF EndPcs, TryPcs
<1>5. CASE Spawn(c)
  <2>1. /\ pc[c] = "spawn" /\ pc'[c] = "identify" /\ UNCHANGED <<files, job>>
        /\ \A l \in Launches \ {job[c].sid} : sup'[l] = sup[l]
    BY <1>5, <1>t DEF Spawn, Goto, Ground, TypeInv, TypeOK, ProcsTyped
  <2>2. job[c].sid \in Launches /\ sup[job[c].sid] = "unborn"
    BY <2>1, FreshHand DEF Ground, ProcInv, Minted, Unmade
  <2>3. KeepsAnchors(c)
    BY <2>1, <2>2 DEF KeepsAnchors
  <2>4. pc[c] \notin ProgressPcs
    BY <2>1 DEF ProgressPcs, WrittenPcs, NamedPcs, KillPcs
  <2>5. KeepsProgress(c) /\ KeepsSession(c)
    BY <1>4, <2>1, <2>4 DEF KeepsProgress, KeepsSession, Progressing, files
  <2>6. ~Told(c)
    BY <2>2 DEF AnswerInv, Anchored
  <2>7. ~Told(c)'
    BY <2>1, <2>6 DEF Told, TryPcs, NamedPcs, files
  <2>. QED BY <1>2, <1>3, <1>u, <2>3, <2>5, <2>7 DEF Course, Anchored
<1>6. SUFFICES ASSUME ~Spawn(c) PROVE Course(c)
  BY <1>5
<1>7. UNCHANGED sup
  BY <1>6, BystanderLaunch DEF Ground, Bystander
<1>8. CASE Provisional(c) \/ RecordSession(c)
  <2>1. /\ pc[c] \in {"provisional", "record"} /\ UNCHANGED <<boot, job>>
        /\ pc'[c] = IF pc[c] = "record" THEN "promote" ELSE "open"
    BY <1>8, <1>t DEF Provisional, RecordSession, Goto
  <2>2. Told(c)' => Told(c)
    BY <2>1 DEF Told, TryPcs, NamedPcs
  <2>3. Anchored(c)'
    BY <1>7, <2>1, <2>2 DEF AnswerInv, Anchored
  <2>4. KeepsAnchors(c)
    BY <1>7 DEF KeepsAnchors
  <2>5. KeepsProgress(c)
    <3>1. job[c].fresh
      BY <2>1, FreshHand DEF TryPcs
    <3>. QED BY <2>1, <3>1 DEF KeepsProgress, Progressing, ProgressPcs, WrittenPcs, NamedPcs
  <2>6. KeepsSession(c)
    <3>1. CASE Provisional(c)
      BY <1>4, <3>1 DEF KeepsSession, Provisional
    <3>2. CASE RecordSession(c)
      <4>1. pc[c] = "record" /\ session'[n] = job[c].rec
        BY <1>1, <1>n, <1>t, <3>2 DEF RecordSession, FilesTyped
      <4>2. job[c].rec.launch = job[c].sid /\ Told(c)
        BY <4>1, FreshHand DEF TryPcs, Told, NamedPcs
      <4>. QED BY <1>7, <1>n, <4>1, <4>2 DEF KeepsSession, AnswerInv, Anchored
    <3>. QED BY <1>8, <3>1, <3>2
  <2>. QED BY <1>2, <1>3, <1>u, <2>3, <2>4, <2>5, <2>6 DEF Course
<1>9. CASE ~Provisional(c) /\ ~RecordSession(c)
  <2>1. Sheds(c)
    BY <1>1, <1>9, <1>n, ShedsLaunch DEF Ground, PortInv, TryPcs
  <2>2. launching'[n] # NoRec /\ Progressing(pc[c], job[c]) => Progressing(pc'[c], job'[c])
    <3>. SUFFICES ASSUME Progressing(pc[c], job[c]), ~Progressing(pc'[c], job'[c])
                  PROVE  launching'[n] = NoRec
      OBVIOUS
    <3>0. job'[c].fresh
      <4>1. UNCHANGED job \/ Prep(c) \/ AwaitPid(c)
        BY DEF Launch, Spawn, Identify, Mark, Provisional, OpenGate, AwaitFails, BlenderIdentity,
           RecordSession, Promote, Finally
      <4>. QED BY <1>t, <4>1 DEF Prep, AwaitPid, Job1, Job, Progressing
    <3>p. pc[c] \in ProgressPcs /\ pc'[c] \notin ProgressPcs
      BY <3>0 DEF Progressing
    <3>1. Promote(c)
      BY <1>6, <1>9, <1>t, <3>p DEF Launch, Prep, Identify, Mark, OpenGate, AwaitPid, AwaitFails,
         BlenderIdentity, Finally, Goto, ProgressPcs, WrittenPcs, NamedPcs, KillPcs
    <3>. QED BY <1>1, <1>n, <1>t, <3>1 DEF Promote, FilesTyped
  <2>3. Told(c)' => Told(c) /\ SameErrand(job'[c], job[c])
    <3>1. CASE Prep(c)
      <4>1. pc'[c] = "spawn" /\ boot'[n] = NoBoot /\ job'[c].name = n
        BY <1>1, <1>n, <1>t, <3>1 DEF Prep, DropHandshake, Goto, Job1, FilesTyped, Job
      <4>. QED BY <4>1 DEF Told, NamedPcs, NoBoot
    <3>2. CASE Finally(c) \/ AwaitFails(c)
      BY <1>t, <3>2 DEF Finally, AwaitFails, Goto, Told, NamedPcs, TryPcs
    <3>3. CASE Identify(c) \/ Mark(c) \/ OpenGate(c) \/ BlenderIdentity(c) \/ Promote(c)
      <4>1. UNCHANGED <<boot, job>>
        BY <3>3 DEF Identify, Mark, OpenGate, BlenderIdentity, Promote, files
      <4>2. pc'[c] \in NamedPcs => pc[c] \in NamedPcs
        BY <1>t, <3>3 DEF Identify, Mark, OpenGate, BlenderIdentity, Promote, Goto, NamedPcs
      <4>3. pc[c] \in TryPcs
        BY <3>3 DEF Identify, Mark, OpenGate, BlenderIdentity, Promote, TryPcs
      <4>. QED BY <4>1, <4>2, <4>3 DEF Told, SameErrand
    <3>4. CASE AwaitPid(c)
      <4>1. Told(c)
        BY <3>4 DEF AwaitPid, Told, TryPcs
      <4>2. SameErrand(job'[c], job[c])
        BY <1>t, <3>4 DEF AwaitPid, Job1, SameErrand, Job
      <4>. QED BY <4>1, <4>2
    <3>. QED BY <1>6, <1>9, <3>1, <3>2, <3>3, <3>4 DEF Launch
  <2>. QED BY <1>1, <1>2, <1>3, <1>4, <1>7, <1>n, <1>u, <2>1, <2>2, <2>3, CourseSheds DEF Ground
<1>. QED BY <1>8, <1>9

\* Terminations, by a SIGKILL that kills.
LEMMA CourseTerminate ==
    ASSUME Calm, Ground, CalmInv, AnswerInv, NEW c \in Clients, Terminate(c)
    PROVE  Course(c)
<1>n. PICK n : n = job[c].name
  OBVIOUS
<1>t. FilesTyped /\ pc \in [Clients -> PCs] /\ job \in [Clients -> Job]
  BY DEF Ground, TypeInv, TypeOK, ClientsTyped
<1>0. ~KillSurvived(c)
  BY DEF KillSurvived, Calm, Violent
<1>1. Moves(c) /\ Sheds(c) /\ pc[c] \in KillPcs /\ UNCHANGED <<files, job>>
  <2>1. pc[c] \in KillPcs /\ UNCHANGED <<files, job>>
    BY <1>0 DEF Terminate, TermAbsent, TermSignal, Kill, KillPcs
  <2>. QED BY <2>1, MovesTerminate, ShedsTerminate DEF Ground
<1>2. KeepsReports(c)
  BY <1>1 DEF KeepsReports, files, KillPcs
<1>3. /\ pc'[c] = IF TermSignal(c) THEN "kill" ELSE "clearSession"
      /\ pc'[c] \in EndPcs \cap ProgressPcs
  BY <1>0, <1>t DEF Terminate, TermAbsent, TermSignal, Kill, Goto, EndPcs, ProgressPcs, KillPcs
<1>4. ~Told(c)' /\ Unasked(c)'
  BY <1>3 DEF Told, Unasked, NamedPcs, TryPcs, EndPcs
<1>5. KeepsAnchors(c)
  <2>1. CASE TermAbsent(c)
    BY <2>1 DEF TermAbsent, KeepsAnchors, procs
  <2>2. CASE TermSignal(c) \/ Kill(c)
    <3>1. job[c].rec.launch \in Launches /\ plan[job[c].rec.launch].name = n
      BY <1>1, <1>n, KillHand
    <3>2. \E linger : Signal(job[c].rec.launch, linger)
      BY <2>2 DEF TermSignal, Kill
    <3>3. \A l \in Launches \ {job[c].rec.launch} : sup'[l] = sup[l]
      BY <3>1, <3>2, SignalEffect
    <3>. QED BY <1>3, <1>n, <3>1, <3>3 DEF KeepsAnchors
  <2>. QED BY <1>0, <2>1, <2>2 DEF Terminate
<1>6. KeepsProgress(c) /\ KeepsSession(c)
  BY <1>1, <1>3 DEF KeepsProgress, KeepsSession, Progressing, files
<1>7. Unconfirmed(c)'
  BY <1>1 DEF AnswerInv, Unconfirmed, files
<1>. QED BY <1>2, <1>4, <1>5, <1>6, <1>7 DEF Course, Anchored

-----------------------------------------------------------------------------
(* Every step of a calm system *)

\* A step of a client that only begins, or of a supervisor or a Blender: no
\* anchor goes, and who reports a Blender's pid is one.
LEMMA AnswerProcess ==
    ASSUME Ground, CalmInv, AnswerInv, UNCHANGED <<session, launching>>,
           \A l \in Launches : sup[l] = "anchor" => sup'[l] = "anchor",
           \A n \in Names : boot'[n].is = "pid" =>
               \/ boot'[n] = boot[n]
               \/ \E l \in Launches : SupAlive(l) /\ plan[l].name = n /\ sup'[l] = "anchor",
           \A d \in Clients :
              \/ pc'[d] = pc[d] /\ job'[d] = job[d]
              \/ pc[d] = "idle" /\ pc'[d] = "lock"
    PROVE  AnswerInv'
<1>0. \A d \in Clients : Progressing(pc[d], job[d]) \/ pc[d] \in EndPcs
                            => pc'[d] = pc[d] /\ job'[d] = job[d]
  BY DEF Progressing, ProgressPcs, EndPcs, WrittenPcs, NamedPcs, KillPcs
<1>1. ASSUME NEW n \in Names PROVE Settled(n)'
  <2>1. session[n] # NoRec => session[n].launch \in Launches
    BY RecordTyped DEF Ground
  <2>. QED BY <1>0, <2>1 DEF AnswerInv, Settled
<1>2. ASSUME NEW d \in Clients PROVE Anchored(d)' /\ Unasked(d)' /\ Unconfirmed(d)'
  <2>1. CASE pc'[d] = "lock"
    BY <2>1 DEF Anchored, Unasked, Unconfirmed, Told, NamedPcs, TryPcs, KillPcs
  <2>2. CASE pc'[d] = pc[d] /\ job'[d] = job[d]
    <3>1. ASSUME Told(d)' PROVE sup'[job[d].sid] = "anchor"
      <4>1. pc[d] \in {"spawn"} \cup TryPcs
        BY <2>2, <3>1 DEF Told, NamedPcs, TryPcs
      <4>2. job[d].sid \in Launches /\ job[d].name \in Names
        BY <4>1, FreshHand
      <4>3. CASE Told(d)
        BY <4>2, <4>3 DEF AnswerInv, Anchored
      <4>4. CASE ~Told(d)
        <5>1. boot'[job[d].name].is = "pid" /\ boot'[job[d].name] # boot[job[d].name]
          BY <2>2, <3>1, <4>4 DEF Told
        <5>2. PICK l \in Launches : SupAlive(l) /\ plan[l].name = job[d].name /\ sup'[l] = "anchor"
          BY <4>2, <5>1
        <5>. QED BY <4>1, <5>2, ReportOwn
      <4>. QED BY <4>3, <4>4
    <3>2. Unasked(d)' /\ Unconfirmed(d)'
      BY <2>2 DEF AnswerInv, Unasked, Unconfirmed
    <3>. QED BY <2>2, <3>1, <3>2 DEF Anchored
  <2>. QED BY <2>1, <2>2
<1>. QED BY <1>1, <1>2 DEF AnswerInv

\* A supervisor that anchors its group has nothing left to do.
LEMMA AnswerSup ==
    ASSUME Ground, CalmInv, AnswerInv, NEW l \in Launches, SupStep(l) \/ BlenderStep(l)
    PROVE  AnswerInv'
<1>t. sup \in [Launches -> SupStates] /\ FilesTyped
  BY DEF Ground, TypeInv, TypeOK, ProcsTyped
<1>1. UNCHANGED <<session, launching, pc, job>>
  BY DEF SupStep, SupSeesGate, SupExpires, SupTakesGate, SupSpawns, SupCannotSpawn, SupReports,
     SupCannotReport, BlenderStep, RootBinds, RootExits, HelperStarts, HelperEnds, files
<1>2. ASSUME NEW k \in Launches, sup[k] = "anchor" PROVE sup'[k] = "anchor"
  <2>1. CASE BlenderStep(l)
    BY <1>2, <2>1 DEF BlenderStep, RootBinds, RootExits, HelperStarts, HelperEnds
  <2>2. CASE SupStep(l)
    <3>1. sup[l] # "anchor"
      BY <2>2 DEF SupStep, SupSeesGate, SupExpires, SupTakesGate, SupSpawns, SupCannotSpawn,
         SupReports, SupCannotReport
    <3>2. \E v : sup' = [sup EXCEPT ![l] = v]
      BY <2>2 DEF SupStep, SupSeesGate, SupExpires, SupTakesGate, SupSpawns, SupCannotSpawn,
         SupReports, SupCannotReport, Signal
    <3>. QED BY <1>t, <1>2, <3>1, <3>2
  <2>. QED BY <2>1, <2>2
<1>3. ASSUME NEW n \in Names, boot'[n].is = "pid", boot'[n] # boot[n]
      PROVE  SupAlive(l) /\ plan[l].name = n /\ sup'[l] = "anchor"
  <2>1. \/ SupReports(l)
        \/ \E b \in {"launching", "error"} :
              boot' = [boot EXCEPT ![plan[l].name] = [is |-> b, blender |-> 0]]
    BY <1>3 DEF SupStep, SupSeesGate, SupExpires, SupTakesGate, SupSpawns, SupCannotSpawn, SupReports,
       SupCannotReport, BlenderStep, RootBinds, RootExits, HelperStarts, HelperEnds, files
  <2>2. SupReports(l)
    BY <1>t, <1>3, <2>1 DEF FilesTyped
  <2>. QED BY <1>t, <1>3, <2>2 DEF SupReports, SupAlive, FilesTyped
<1>. QED BY <1>1, <1>2, <1>3, AnswerProcess

\* Initially there is no Session.
LEMMA AnswerInit == Init => AnswerInv
<1>. SUFFICES ASSUME Init PROVE AnswerInv
  OBVIOUS
<1>. QED BY DEF Init, AnswerInv, Settled, Anchored, Unasked, Unconfirmed, Told, NamedPcs, TryPcs, KillPcs

\* Every step of a calm system keeps what is known of its anchors.
LEMMA AnswerStep == Calm /\ Ground /\ PortInv /\ CalmInv /\ AnswerInv /\ [Next]_vars => AnswerInv'
<1>. SUFFICES ASSUME Calm, Ground, PortInv, CalmInv, AnswerInv, [Next]_vars PROVE AnswerInv'
  OBVIOUS
<1>1. ASSUME NEW c \in Clients, ClientStep(c) PROVE AnswerInv'
  <2>1. Moves(c)
    BY <1>1, MovesControl, MovesInspection, MovesAllocation, MovesRemoval, MovesLaunch, MovesTerminate
       DEF ClientStep, Ground
  <2>2. Course(c)
    BY <1>1, CourseControl, CourseInspection, CourseAllocation, CourseRemoval, CourseLaunch,
       CourseTerminate DEF ClientStep
  <2>. QED BY <2>1, <2>2, CourseKeeps
<1>2. ASSUME NEW c \in Clients, Begin(c) PROVE AnswerInv'
  <2>1. \E f : Accept(c, f)
    BY <1>2 DEF Begin, BeginStart, BeginStatus, BeginFenced
  <2>2. /\ UNCHANGED <<session, launching, boot, sup>> /\ pc[c] = "idle" /\ pc'[c] = "lock"
        /\ \A d \in Clients \ {c} : pc'[d] = pc[d] /\ job'[d] = job[d]
    BY <2>1 DEF Accept, Goto, Job1, files, procs, Ground, TypeInv, TypeOK, ClientsTyped
  <2>. QED BY <2>2, AnswerProcess
<1>3. ASSUME NEW l \in Launches, SupStep(l) \/ BlenderStep(l) PROVE AnswerInv'
  BY <1>3, AnswerSup
<1>4. ASSUME FaultStep PROVE AnswerInv'
  <2>1. \E p \in BasePort..MaxPort : ForeignBinds(p)
    BY <1>4 DEF FaultStep, ClientFault, Crash, Interrupt, SupKilled, Fault, Calm, Violent
  <2>2. UNCHANGED <<session, launching, boot, sup, pc, job>>
    BY <2>1 DEF ForeignBinds, files
  <2>. QED BY <2>2, AnswerProcess
<1>5. CASE UNCHANGED vars
  <2>1. UNCHANGED <<session, launching, boot, sup, pc, job>>
    BY <1>5 DEF vars, files, procs
  <2>. QED BY <2>1, AnswerProcess
<1>. QED BY <1>1, <1>2, <1>3, <1>4, <1>5 DEF Next, Quiet

\* In a calm system the supervisor of a recorded Session stays until a client
\* ends it, and launching.json is there only while its start is in progress.
THEOREM AnchorsStay ==
    ASSUME Calm PROVE Spec => [](Ground /\ PortInv /\ CalmInv /\ AnswerInv)
<1>1. Init => TypeInv /\ FileInv /\ ProcInv /\ PortInv /\ CalmInv /\ AnswerInv
  BY TypeInit, FileInit, ProcInit, PortInit, CalmInit, AnswerInit
<1>2. TypeInv /\ FileInv /\ ProcInv /\ PortInv /\ CalmInv /\ AnswerInv /\ [Next]_vars
          => (TypeInv /\ FileInv /\ ProcInv /\ PortInv /\ CalmInv /\ AnswerInv)'
  BY TypeStep, FileStep, ProcStep, PortStep, CalmStep, AnswerStep DEF Ground, PortInv
<1>3. TypeInv /\ FileInv /\ ProcInv /\ PortInv /\ CalmInv /\ AnswerInv
          => Ground /\ PortInv /\ CalmInv /\ AnswerInv
  BY DEF Ground, PortInv
<1>. QED BY <1>1, <1>2, <1>3, PTL DEF Spec

-----------------------------------------------------------------------------
(* Who answers *)

\* Where a client asks the addon of the Session it inspects, or calls it
AskPcs == {"probe", "call"}

\* Nobody launches or ends a Session that another client asks: it would hold the
\* name lock, or else the ports lock, of the asking client.
LEMMA NobodyEnds ==
    ASSUME Ground, PortInv, NEW c \in Clients, pc[c] \in AskPcs,
           NEW d \in Clients, pc[d] \in ProgressPcs \cup EndPcs
    PROVE  job[d].name # job[c].at
<1>0. c # d /\ pc[c] \notin {"idle", "lock"} /\ pc[d] \notin {"idle", "lock"}
  BY DEF AskPcs, ProgressPcs, EndPcs, WrittenPcs, NamedPcs, KillPcs
<1>1. CASE job[c].at = job[c].name
  BY <1>0, <1>1, NamesDiffer DEF Ground, FileInv
<1>2. CASE job[c].at # job[c].name
  <2>1. pc[c] = "probe"
    BY <1>2 DEF AskPcs, Ground, TypeInv, JobsOK, JobOK
  <2>2. HoldsPorts(pc[c], job[c])
    BY <1>2, <2>1 DEF HoldsPorts, InspectPcs
  <2>3. HoldsPorts(pc[d], job[d])
    BY DEF HoldsPorts, ProgressPcs, EndPcs, WrittenPcs, NamedPcs, KillPcs, TryPcs, ClearPcs
  <2>. QED BY <1>0, <2>2, <2>3 DEF PortInv, PortsLocks
<1>. QED BY <1>1, <1>2

\* The record a client asks by is the Session's own, and its supervisor lives.
LEMMA AskedIsLive ==
    ASSUME Ground, PortInv, CalmInv, AnswerInv, NEW c \in Clients, pc[c] \in AskPcs,
           NEW n, n = job[c].at, NEW r, r = job[c].rec
    PROVE  /\ n \in Names /\ r = Current(n) /\ Live(r)
           /\ r.launch \in Launches /\ r.blender = r.launch
<1>1. n \in Names /\ r.launch \in Launches
  BY DEF AskPcs, RecPcs, Ground, TypeInv, JobsOK, JobOK
<1>2. r # NoRec
  BY <1>1 DEF NoRec, Launches
<1>3. r = Current(n)
  <2>1. CASE n = job[c].name /\ pc[c] = "probe"
    BY <2>1, Hand DEF HandFacts
  <2>2. CASE n # job[c].name
    <3>1. Looking(pc[c], job[c]) /\ pc[c] = "probe"
      BY <2>2 DEF Looking, AskPcs, InspectPcs, Ground, TypeInv, JobsOK, JobOK
    <3>. QED BY <3>1 DEF PortInv, Scanned, LookFacts
  <2>3. CASE pc[c] = "call"
    <3>1. Facts("call", job[c], session[job[c].name], launching[job[c].name], marker[job[c].name])
      BY <2>3, Hand
    <3>2. n = job[c].name
      BY <2>3 DEF Ground, TypeInv, JobsOK, JobOK
    <3>. QED BY <3>1, <3>2 DEF Facts, FenceFacts, Holding, Current
  <2>. QED BY <2>1, <2>2, <2>3 DEF AskPcs
<1>4. launching[n] = NoRec
  BY <1>1, NobodyEnds DEF AnswerInv, Settled, Progressing
<1>5. session[n] = r /\ session[n] # NoRec
  BY <1>2, <1>3, <1>4 DEF Current
<1>6. sup[r.launch] = "anchor"
  BY <1>1, <1>5, NobodyEnds DEF AnswerInv, Settled
<1>7. r.blender = r.launch
  <2>1. r.blender \in Launches /\ OwnBlender(r)
    BY <1>1, <1>5, RecordTyped DEF Ground, CalmInv, NameCalm, Placed
  <2>. QED BY <2>1 DEF OwnBlender, Launches
<1>. QED BY <1>1, <1>2, <1>3, <1>6, <1>7 DEF Live, TreeExists, SupAlive

\* Whoever of our Blenders serves the port of that record is the Session's own:
\* another Session on the port would be alive, or the launch of a start that is
\* just being killed; both would have kept away from the port.
LEMMA ServerIsOwn ==
    ASSUME Ground, PortInv, CalmInv, AnswerInv, NEW c \in Clients, pc[c] \in AskPcs,
           NEW r, r = job[c].rec, NEW l \in OwnServers(r.port)
    PROVE  l = r.blender
<1>n. PICK n : n = job[c].at
  OBVIOUS
<1>m. PICK m : m = plan[l].name
  OBVIOUS
<1>1. n \in Names /\ r = Current(n) /\ Live(r) /\ r.launch \in Launches /\ r.blender = r.launch
  BY <1>n, AskedIsLive
<1>2. l \in Launches /\ root[l] = "serving" /\ plan[l].port = r.port /\ l # 0
  BY DEF OwnServers, Launches
<1>3. CASE SupAlive(l)
  <2>1. m \in Names /\ sup[l] # "waiting"
    BY <1>2, <1>3, <1>m DEF CalmInv, LaunchCalm, Named, Ground, ProcInv, Coupled
  <2>2. Current(m).launch = l
    BY <1>2, <1>3, <1>m, <2>1 DEF CalmInv, LaunchCalm, Ready, Passed
  <2>3. Current(m) # NoRec /\ Current(m).port = r.port
    <3>1. Current(m) # NoRec
      BY <1>2, <2>2 DEF NoRec
    <3>2. Placed(Current(m), m)
      BY <2>1 DEF CalmInv, NameCalm, Current
    <3>. QED BY <1>2, <2>2, <3>1, <3>2 DEF Placed
  <2>4. Live(Current(m))
    BY <1>3, <2>2, <2>3 DEF Live, TreeExists
  <2>5. m = n
    BY <1>1, <2>1, <2>3, <2>4 DEF PortInv, UniqueLivePorts
  <2>. QED BY <1>1, <2>2, <2>5
<1>4. CASE ~SupAlive(l)
  <2>1. PICK d \in Clients : pc[d] = "kill" /\ job[d].rec.launch = l /\ job[d].name = m
    BY <1>2, <1>4, <1>m, Killer DEF GroupAlive, RootAlive
  <2>2. m \in Names /\ m # n /\ (job[d].fresh \/ job[d].op = "stop")
    BY <1>n, <2>1, KillHand, NobodyEnds DEF EndPcs, KillPcs
  <2>3. CASE job[d].fresh
    <3>1. job[d].sid = l
      BY <2>1, <2>3 DEF Ground, TypeInv, JobsOK, JobOK
    <3>2. plan[l].port = job[d].rec.port
      BY <2>1, <2>3, <3>1, Hand DEF HandFacts
    <3>3. Distinct(n, job[d].rec.port)
      BY <1>1, <2>1, <2>2, <2>3 DEF PortInv, Scanned, ScanFacts, Chosen, KillPcs
    <3>. QED BY <1>1, <1>2, <3>2, <3>3 DEF Distinct
  <2>4. CASE ~job[d].fresh
    <3>1. job[d].rec = Current(m) /\ Current(m) # NoRec
      BY <2>1, <2>2, <2>4, Hand DEF Facts, FenceFacts, Holding, KillPcs, Current
    <3>2. launching[m] = NoRec
      <4>. SUFFICES ASSUME launching[m] # NoRec PROVE FALSE
        OBVIOUS
      <4>1. PICK e \in Clients : Progressing(pc[e], job[e]) /\ job[e].name = m
        BY <2>2 DEF AnswerInv, Settled
      <4>2. e # d /\ pc[e] \notin {"idle", "lock"}
        BY <2>4, <4>1 DEF Progressing, ProgressPcs, WrittenPcs, NamedPcs, KillPcs
      <4>. QED BY <2>1, <4>1, <4>2, NamesDiffer DEF Ground, FileInv
    <3>3. session[m] = Current(m) /\ session[m].launch = l
      BY <2>1, <3>1, <3>2 DEF Current
    <3>4. session[m].blender = l /\ session[m].port = r.port
      <4>1. session[m].blender \in Launches /\ Placed(session[m], m)
        BY <2>2, <3>1, <3>3, RecordTyped DEF Ground, CalmInv, NameCalm
      <4>. QED BY <1>2, <3>1, <3>3, <4>1 DEF Placed, OwnBlender, Launches
    <3>5. Live(Current(m))
      BY <1>2, <3>1, <3>3, <3>4 DEF Live, TreeExists, RootAlive
    <3>. QED BY <1>1, <2>2, <3>3, <3>4, <3>5 DEF PortInv, UniqueLivePorts
  <2>. QED BY <2>3, <2>4
<1>. QED BY <1>3, <1>4

-----------------------------------------------------------------------------
(* Theorems *)

\* No Blender of blendersessiond but the Session's own serves the port that a
\* client asks at, whatever strangers do.
OnlyOwnServes ==
    \A c \in Clients : pc[c] \in AskPcs => OwnServers(job[c].rec.port) \subseteq {job[c].rec.blender}

\* In a calm system a client that asks a Session for its health, or calls it,
\* never connects to the Blender of another Session, nor to one that is left of
\* a launch given up (probe_addon, call_session).
THEOREM ServersAreOwn == ASSUME Calm PROVE Spec => []OnlyOwnServes
<1>1. Ground /\ PortInv /\ CalmInv /\ AnswerInv => OnlyOwnServes
  BY ServerIsOwn DEF OnlyOwnServes
<1>. QED BY <1>1, AnchorsStay, PTL

\* Without strangers, no port is theirs.
LEMMA NoStrangers == ASSUME "foreign" \notin Faults PROVE Spec => [](foreign = {})
<1>1. Init => foreign = {}
  BY DEF Init
<1>2. foreign = {} /\ [Next]_vars => (foreign = {})'
  <2>. SUFFICES ASSUME [Next]_vars PROVE foreign' = foreign
    OBVIOUS
  <2>1. ASSUME NEW c \in Clients, Begin(c) PROVE UNCHANGED foreign
    BY <2>1 DEF Begin, BeginStart, BeginStatus, BeginFenced, Accept, procs
  <2>2. ASSUME NEW c \in Clients, ClientStep(c) PROVE UNCHANGED foreign
    <3>1. CASE Control(c)
      BY <3>1 DEF Control, LockName, Fence, Decide, LockPorts, Call, Reply, UnlockPorts, UnlockName, procs
    <3>2. CASE Inspection(c) \/ Allocation(c)
      BY <3>2 DEF Inspection, Read, Tree, LockWire, Probe, Allocation, Scan, Tally, Alloc, procs
    <3>3. CASE Removal(c)
      BY <3>3 DEF Removal, ClearSession, ClearLaunching, ClearMarker, ClearBoot, procs
    <3>4. CASE Launch(c)
      BY <3>4 DEF Launch, Prep, Spawn, Identify, Mark, Provisional, OpenGate, AwaitPid, AwaitFails,
         BlenderIdentity, RecordSession, Promote, Finally, procs
    <3>5. CASE Terminate(c)
      BY <3>5 DEF Terminate, TermAbsent, TermSignal, Kill, KillSurvived, procs
    <3>. QED BY <2>2, <3>1, <3>2, <3>3, <3>4, <3>5 DEF ClientStep
  <2>3. ASSUME NEW l \in Launches, SupStep(l) \/ BlenderStep(l) PROVE UNCHANGED foreign
    BY <2>3 DEF SupStep, SupSeesGate, SupExpires, SupTakesGate, SupSpawns, SupCannotSpawn, SupReports,
       SupCannotReport, BlenderStep, RootBinds, RootExits, HelperStarts, HelperEnds
  <2>4. ASSUME FaultStep PROVE UNCHANGED foreign
    BY <2>4 DEF FaultStep, ClientFault, Crash, Interrupt, SupKilled, ForeignBinds, Fault, procs
  <2>5. CASE UNCHANGED vars
    BY <2>5 DEF vars, procs
  <2>. QED BY <2>1, <2>2, <2>3, <2>4, <2>5 DEF Next, Quiet
<1>. QED BY <1>1, <1>2, PTL DEF Spec

\* Somebody who answers a client is the Session's own Blender.
LEMMA AnswerIsOwn ==
    ASSUME Ground, PortInv, CalmInv, AnswerInv, foreign = {}, NEW c \in Clients, pc[c] \in AskPcs,
           Answers(job[c].rec.port)
    PROVE  OwnAnswer(job[c].rec)
<1>1. PICK l \in OwnServers(job[c].rec.port) : TRUE
  BY DEF Answers
<1>. QED BY <1>1, ServerIsOwn DEF OwnAnswer

\* Only the answer to its probe makes a client find a Session healthy.
LEMMA HealthIsAnswer ==
    ASSUME Calm, Ground, AnswerInv, [Next]_vars, NEW c \in Clients,
           pc[c] = "probe", job'[c].status = "healthy"
    PROVE  Answers(job[c].rec.port)
<1>t. pc \in [Clients -> PCs] /\ job \in [Clients -> Job]
  BY DEF Ground, TypeInv, TypeOK, ClientsTyped
<1>0. job'[c] # job[c]
  BY DEF AnswerInv, Unasked
<1>1. ASSUME NEW d \in Clients, ClientStep(d) PROVE Answers(job[c].rec.port)
  <2>1. Moves(d)
    BY <1>1, MovesControl, MovesInspection, MovesAllocation, MovesRemoval, MovesLaunch, MovesTerminate
       DEF ClientStep, Ground
  <2>2. d = c
    BY <1>0, <2>1 DEF Moves
  <2>3. ~Control(c) /\ ~Allocation(c) /\ ~Removal(c)
    BY DEF Control, LockName, Fence, Decide, LockPorts, Call, Reply, UnlockPorts, UnlockName,
       Allocation, Scan, Tally, Alloc, Removal, ClearSession, ClearLaunching, ClearMarker, ClearBoot
  <2>4. ~Launch(c) /\ ~Terminate(c)
    BY DEF Launch, Prep, Spawn, Identify, Mark, Provisional, OpenGate, AwaitPid, AwaitFails,
       BlenderIdentity, RecordSession, Promote, Finally, Terminate, TermAbsent, TermSignal, Kill,
       KillSurvived
  <2>5. Probe(c)
    BY <1>1, <2>2, <2>3, <2>4 DEF ClientStep, Inspection, Read, Tree, LockWire
  <2>. QED BY <1>t, <2>5 DEF Probe, Job1, Job
<1>2. ASSUME NEW d \in Clients, Begin(d) PROVE FALSE
  <2>1. pc[d] = "idle" /\ \E f : Job1(d, f)
    BY <1>2 DEF Begin, BeginStart, BeginStatus, BeginFenced, Accept
  <2>. QED BY <1>0, <1>t, <2>1 DEF Job1
<1>3. ASSUME NEW l \in Launches, SupStep(l) \/ BlenderStep(l) PROVE FALSE
  BY <1>0, <1>3 DEF SupStep, SupSeesGate, SupExpires, SupTakesGate, SupSpawns, SupCannotSpawn,
     SupReports, SupCannotReport, BlenderStep, RootBinds, RootExits, HelperStarts, HelperEnds
<1>4. ASSUME FaultStep PROVE FALSE
  BY <1>0, <1>4 DEF FaultStep, ClientFault, Crash, Interrupt, SupKilled, ForeignBinds, Fault, Calm, Violent
<1>5. CASE UNCHANGED vars
  BY <1>0, <1>5 DEF vars
<1>. QED BY <1>1, <1>2, <1>3, <1>4, <1>5 DEF Next, Quiet

\* A client that finds a Session healthy was answered by the Blender in its
\* record, as long as no process of a stranger binds a Session port.
THEOREM HealthIsTrue == ASSUME Calm, "foreign" \notin Faults PROVE Spec => HealthIsOwn
<1>1. Ground /\ PortInv /\ CalmInv /\ AnswerInv /\ foreign = {} /\ [Next]_vars =>
          \A c \in Clients : pc[c] = "probe" /\ job'[c].status = "healthy" => OwnAnswer(job[c].rec)
  BY HealthIsAnswer, AnswerIsOwn DEF AskPcs
<1>2. Spec => []((Ground /\ PortInv /\ CalmInv /\ AnswerInv) /\ foreign = {}) /\ [][Next]_vars
  BY AnchorsStay, NoStrangers, PTL DEF Spec
<1>. QED BY <1>1, <1>2, PTL DEF HealthIsOwn

\* A call reaches the Blender of the Session it was fenced for, or nobody, as
\* long as no process of a stranger binds a Session port.
THEOREM CallsReachOwn == ASSUME Calm, "foreign" \notin Faults PROVE Spec => CallReachesOwn
<1>1. Ground /\ PortInv /\ CalmInv /\ AnswerInv /\ foreign = {} /\ [Next]_vars =>
          \A c \in Clients :
             pc[c] = "call" /\ pc'[c] = "reply" /\ Answers(job[c].rec.port) => OwnAnswer(job[c].rec)
  BY AnswerIsOwn DEF AskPcs
<1>2. Spec => []((Ground /\ PortInv /\ CalmInv /\ AnswerInv) /\ foreign = {}) /\ [][Next]_vars
  BY AnchorsStay, NoStrangers, PTL DEF Spec
<1>. QED BY <1>1, <1>2, PTL DEF CallReachesOwn
=============================================================================
