------------------------- MODULE ProcessTreeProofs -------------------------
(***************************************************************************)
(* Proofs about ProcessTree, for any pids, bounds of the clock and faults.  *)
(***************************************************************************)
EXTENDS ProcessTree, TLAPS

\* What the kernel's clock says of two times
Leq(t, u) == t.boot < u.boot \/ (t.boot = u.boot /\ t.tick <= u.tick)

\* A pid's process is the last one that got it, and that was in the past.
ClockInv ==
    \A p \in Pids : Leq(given[p], now) /\ (proc[p] # Nobody => proc[p].start = given[p])

\* The Session's processes have one group, and no process of others is in it.
GroupInv ==
    /\ \A p \in Pids : Ours(p) => pc # "start" /\ proc[p].group = arg.ctrl
    /\ \A p, q \in Pids : Ours(p) /\ proc[q].kind = "stranger" => proc[q].group # arg.ctrl
    /\ \A p \in Pids : proc[p].kind = "anchor" =>
          /\ p = arg.ctrl
          /\ IF arg.ctrlStart = NoTime THEN pc = "identify" \/ ~proc[p].alive
                                       ELSE proc[p].start = arg.ctrlStart

\* A pid that still was given out last when the record says is the process recorded:
\* the supervisor,
CtrlKnown ==
    arg.ctrlStart # NoTime =>
        /\ arg.ctrl \in Pids /\ pc \notin {"start", "identify"}
        /\ Leq(arg.ctrlStart, given[arg.ctrl])
        /\ given[arg.ctrl] = arg.ctrlStart /\ proc[arg.ctrl] # Nobody => proc[arg.ctrl].kind = "anchor"

\* and one of the Session's, or a process of another group that got the pid of
\* a Blender gone before it was recorded.
RootKnown(r) ==
    r.root # NoPid /\ r.rootStart # NoTime =>
        /\ Leq(r.rootStart, given[r.root])
        /\ given[r.root] = r.rootStart /\ proc[r.root] # Nobody =>
              Ours(r.root) \/ proc[r.root].group # r.ctrl

RecordInv ==
    /\ rec # NoRecord => /\ rec.ctrl = arg.ctrl /\ rec.ctrlStart = arg.ctrlStart
                         /\ RootKnown(rec)
    /\ pc \in {"controller", "root", "group"} => RootKnown(arg)
    /\ pc \notin {"start", "identify", "idle"} => arg.ctrlStart # NoTime
    /\ pc \in {"start", "identify"} => rec = NoRecord /\ arg.root = NoPid

\* During the start its supervisor is there, dead or alive.
StartInv ==
    pc \in StartPoints =>
        /\ arg.ctrl \in Pids /\ proc[arg.ctrl].kind = "anchor"
        /\ rec.root = rec.ctrl /\ arg.root = NoPid

\* Once a command has found the tree, nobody else is in its group.
Sole == \A q \in Pids : proc[q].kind = "stranger" => proc[q].group # arg.ctrl
SoleInv ==
    /\ pc \in {"term", "poll", "kill"} => Sole
    /\ pc = "group" => Sole \/ arg.root \notin Members(arg.ctrl)

IInv ==
    /\ TypeOK /\ ClockInv /\ GroupInv /\ CtrlKnown /\ RecordInv /\ StartInv /\ SoleInv
    /\ StrangersUntouched

-----------------------------------------------------------------------------
(* What a step does to a pid                                               *)

\* A pid gets a process.
Born(p) ==
    /\ proc[p] = Nobody /\ Members(p) = {}
    /\ given[p] # now /\ given'[p] = now /\ now' = now
    /\ ~(pc \in Committed /\ p \in {arg.ctrl, arg.root})
    /\ proc'[p] \in Processes /\ proc'[p].start = now /\ proc'[p].alive
    /\ \/ proc'[p].kind = "anchor" /\ proc'[p].group = p /\ pc = "start" /\ pc' # "start" /\ arg'.ctrl = p
       \/ /\ proc'[p].kind = "root" /\ child = NoPid /\ child' = p
          /\ \E a \in Pids : proc[a].kind = "anchor" /\ proc[a].alive /\ proc'[p].group = a
       \/ /\ proc'[p].kind = "helper" /\ "helper" \in Faults
          /\ \E q \in Pids : proc[q].kind = "root" /\ proc[q].alive /\ proc'[p].group = proc[q].group
       \/ /\ proc'[p].kind = "stranger"
          /\ \/ proc'[p].group = p
             \/ \E q \in Pids : proc[q].kind = "stranger" /\ proc'[p].group = proc[q].group

\* A pid keeps its process, which may die, or loses it.
Kept(p) ==
    /\ given'[p] = given[p]
    /\ \/ proc'[p] = proc[p]
       \/ proc[p] # Nobody /\ proc'[p] = [proc[p] EXCEPT !.alive = FALSE]
       \/ proc'[p] = Nobody /\ (proc[p].kind = "anchor" => pc' = "idle" \/ rec.root # rec.ctrl)

Frame ==
    /\ \A p \in Pids : Kept(p) \/ Born(p)
    /\ \A p, q \in Pids : Born(p) /\ q # p => proc'[q] = proc[q]
    /\ \/ now' = now
       \/ now.tick < MaxTick /\ now' = [now EXCEPT !.tick = @ + 1]
       \/ now.boot < MaxBoot /\ now' = [boot |-> now.boot + 1, tick |-> 0]

\* Only the environment acts, and the machine stays up.
Apart == UNCHANGED <<rec, command, struck>>

LEMMA ForkFrame ==
    ASSUME TypeOK, NEW p \in Pids, NEW kind \in Kinds, NEW g \in Pids,
           Fork(p, kind, g), now' = now,
           \/ kind = "anchor" /\ g = p /\ pc = "start" /\ pc' # "start" /\ arg'.ctrl = p
           \/ /\ kind = "root" /\ child = NoPid /\ child' = p
              /\ proc[g].kind = "anchor" /\ proc[g].alive
           \/ /\ kind = "helper" /\ "helper" \in Faults
              /\ \E q \in Pids : proc[q].kind = "root" /\ proc[q].alive /\ g = proc[q].group
           \/ kind = "stranger" /\ (g = p \/ \E q \in Pids : proc[q].kind = "stranger" /\ g = proc[q].group)
    PROVE  Frame
<1>1. /\ proc' = [proc EXCEPT ![p] = [kind |-> kind, start |-> now, group |-> g, alive |-> TRUE]]
      /\ given' = [given EXCEPT ![p] = now] /\ Available(p)
  BY DEF Fork
<1>2. proc'[p] = [kind |-> kind, start |-> now, group |-> g, alive |-> TRUE] /\ given'[p] = now
  BY <1>1 DEF TypeOK
<1>3. \A q \in Pids : q # p => proc'[q] = proc[q] /\ given'[q] = given[q]
  BY <1>1 DEF TypeOK
<1>4. Born(p)
  <2>1. proc'[p] \in Processes
    BY <1>2 DEF TypeOK, Processes
  <2>2. ~(pc \in Committed /\ p \in {arg.ctrl, arg.root})
    BY <1>1 DEF Available
  <2>. QED BY <1>1, <1>2, <2>1, <2>2 DEF Born, Available
<1>5. \A q \in Pids : q # p => Kept(q)
  BY <1>3 DEF Kept
<1>6. \A q \in Pids : q # p => ~Born(q)
  <2>1. ASSUME NEW q \in Pids, q # p, Born(q) PROVE FALSE
    <3>1. proc'[q] = Nobody /\ proc'[q].alive
      BY <2>1, <1>3 DEF Born
    <3>. QED BY <3>1 DEF Nobody
  <2>. QED BY <2>1
<1>7. \A r, q \in Pids : Born(r) /\ q # r => proc'[q] = proc[q]
  BY <1>3, <1>6
<1>. QED BY <1>4, <1>5, <1>7 DEF Frame

\* A step that forks nothing.
LEMMA QuietFrame ==
    ASSUME TypeOK, \A p \in Pids : Kept(p),
           \/ now' = now
           \/ now.tick < MaxTick /\ now' = [now EXCEPT !.tick = @ + 1]
           \/ now.boot < MaxBoot /\ now' = [boot |-> now.boot + 1, tick |-> 0]
    PROVE  Frame
<1>1. ASSUME NEW p \in Pids, Born(p) PROVE FALSE
  <2>1. proc[p] = Nobody /\ proc'[p].alive
    BY <1>1 DEF Born
  <2>2. proc'[p] = Nobody
    BY <2>1 DEF Kept, Nobody
  <2>. QED BY <2>1, <2>2 DEF Nobody
<1>. QED BY <1>1 DEF Frame

LEMMA StrikeKeeps ==
    ASSUME TypeOK, NEW P, \A p \in P : p \in Pids /\ proc[p].alive, Strike(P), given' = given
    PROVE  \A p \in Pids : Kept(p)
<1>1. ASSUME NEW p \in Pids PROVE Kept(p)
  <2>1. proc'[p] = IF p \in P THEN [proc[p] EXCEPT !.alive = FALSE] ELSE proc[p]
    BY DEF Strike
  <2>2. p \in P => proc[p] # Nobody
    BY DEF Nobody
  <2>. QED BY <2>1, <2>2 DEF Kept
<1>. QED BY <1>1

\* Every step is one of these.
LEMMA Frames == ASSUME TypeOK, Next PROVE Frame
<1>1. ASSUME NEW p \in Pids, Spawn(p) PROVE Frame
  <2>1. arg'.ctrl = p
    BY <1>1 DEF Spawn, TypeOK, Args
  <2>. QED BY <1>1, <2>1, ForkFrame DEF Spawn, Kinds
<1>2. ASSUME NEW p \in Pids, RootForks(p) PROVE Frame
  <2>1. PICK a \in Pids : proc[a].kind = "anchor" /\ proc[a].alive /\ Fork(p, "root", a)
    BY <1>2 DEF RootForks
  <2>. QED BY <1>2, <2>1, ForkFrame DEF RootForks, Kinds
<1>3. ASSUME NEW p \in Pids, HelperForks(p) PROVE Frame
  <2>1. PICK q \in Pids : proc[q].kind = "root" /\ proc[q].alive /\ Fork(p, "helper", proc[q].group)
    BY <1>3 DEF HelperForks
  <2>2. proc[q].group \in Pids
    BY <2>1 DEF TypeOK, Processes, Nobody
  <2>. QED BY <1>3, <2>1, <2>2, ForkFrame DEF HelperForks, Kinds
<1>4. ASSUME NEW p \in Pids, StrangerForks(p) PROVE Frame
  <2>1. PICK g \in {p} \cup {proc[q].group : q \in {s \in Pids : proc[s].kind = "stranger"}} :
            Fork(p, "stranger", g)
    BY <1>4 DEF StrangerForks
  <2>2. g = p \/ \E q \in Pids : proc[q].kind = "stranger" /\ g = proc[q].group
    BY <2>1
  <2>3. g \in Pids
    BY <2>2 DEF TypeOK, Processes, Nobody
  <2>. QED BY <1>4, <2>1, <2>2, <2>3, ForkFrame DEF StrangerForks, Kinds
<1>5. ASSUME NEW p \in Pids, Exits(p) PROVE Frame
  BY <1>5, StrikeKeeps, QuietFrame DEF Exits
<1>6. ASSUME NEW p \in Pids, Reap(p) PROVE Frame
  <2>1. \A q \in Pids : Kept(q)
    BY <1>6 DEF Reap, Kept, TypeOK, command
  <2>. QED BY <1>6, <2>1, QuietFrame DEF Reap
<1>7. CASE Tick
  BY <1>7, QuietFrame DEF Tick, Kept, kernel
<1>8. CASE Reboot
  <2>1. \A q \in Pids : Kept(q)
    BY <1>8 DEF Reboot, Kept
  <2>. QED BY <1>8, <2>1, QuietFrame DEF Reboot
<1>9. CASE Term \/ Kill
  <2>1. given' = given /\ now' = now
    BY <1>9 DEF Term, Kill
  <2>2. CASE UNCHANGED proc
    BY <2>1, <2>2, QuietFrame DEF Kept
  <2>3. ASSUME NEW P \in SUBSET Living(arg.ctrl), Signal(P) PROVE Frame
    <3>1. \A p \in P : p \in Pids /\ proc[p].alive
      BY DEF Living, Members
    <3>. QED BY <2>1, <2>3, <3>1, StrikeKeeps, QuietFrame DEF Signal
  <2>. QED BY <1>9, <2>2, <2>3 DEF Term, Kill
<1>10. CASE UNCHANGED <<kernel, now>>
  BY <1>10, QuietFrame DEF Kept, kernel
<1>11. CASE \/ Identify \/ Await \/ AwaitFails \/ IdentifyRoot \/ Reidentify
            \/ (\E o \in {"exists", "terminate"} : Begin(o))
            \/ AskController \/ AskRoot \/ AskGroup \/ Poll \/ Drain
  BY <1>10, <1>11 DEF Identify, Await, AwaitFails, IdentifyRoot, Reidentify, Begin, AskController,
     AskRoot, AskGroup, Poll, Drain
<1>. QED BY <1>1, <1>2, <1>3, <1>4, <1>5, <1>6, <1>7, <1>8, <1>9, <1>11 DEF Next, Command, Environment

-----------------------------------------------------------------------------
(* Types                                                                   *)

LEMMA TypeInit == Init => TypeOK
<1>. SUFFICES ASSUME Init PROVE TypeOK
  OBVIOUS
<1>1. NoRecord \in Args
  BY DEF NoRecord, Args
<1>2. [boot |-> 0, tick |-> 0] \in Times /\ [boot |-> 0, tick |-> 1] \in Times
  BY ClockBounds DEF Times
<1>. QED BY <1>1, <1>2 DEF Init, TypeOK, Points

LEMMA ForkTypes ==
    ASSUME TypeOK, NEW p \in Pids, NEW kind \in Kinds, NEW g \in Pids, Fork(p, kind, g)
    PROVE  proc' \in [Pids -> Processes \cup {Nobody}] /\ given' \in [Pids -> Times]
<1>1. [kind |-> kind, start |-> now, group |-> g, alive |-> TRUE] \in Processes
  BY DEF TypeOK, Processes
<1>. QED BY <1>1 DEF Fork, TypeOK

LEMMA StrikeTypes ==
    ASSUME TypeOK, NEW P, \A p \in P : p \in Pids /\ proc[p].alive, Strike(P)
    PROVE  proc' \in [Pids -> Processes \cup {Nobody}]
<1>1. ASSUME NEW p \in P PROVE [proc[p] EXCEPT !.alive = FALSE] \in Processes
  <2>1. proc[p] \in Processes
    BY <1>1 DEF TypeOK, Nobody
  <2>. QED BY <2>1 DEF Processes
<1>. QED BY <1>1 DEF Strike, TypeOK

LEMMA GroupTypes == ASSUME TypeOK, NEW p \in Pids, proc[p].kind \in Kinds PROVE proc[p].group \in Pids
BY DEF TypeOK, Processes, Nobody, Kinds

LEMMA LivingTypes == ASSUME TypeOK, NEW g PROVE {proc[p].kind : p \in Living(g)} \subseteq Kinds
BY DEF TypeOK, Processes, Living, Members

\* A command returns, goes on, or takes its arguments.
LEMMA SettleTypes ==
    ASSUME TypeOK, NEW v \in {"present", "absent", "gone", "survived"}, Settle(v)
    PROVE  /\ pc' \in Points /\ verdict' \in {"present", "absent", "gone", "survived"}
           /\ rec' \in Records \cup {NoRecord} /\ op' = op /\ arg' = arg
BY DEF Settle, TypeOK, Points

LEMMA TypeStep == ASSUME TypeOK, CtrlKnown, RecordInv, [Next]_vars PROVE TypeOK'
<1>. USE DEF kernel
<1>1. ASSUME NEW p \in Pids, Spawn(p) PROVE TypeOK'
  <2>1. proc' \in [Pids -> Processes \cup {Nobody}] /\ given' \in [Pids -> Times]
    BY <1>1, ForkTypes DEF Spawn, Kinds
  <2>2. arg' \in Args /\ pc' \in Points
    BY <1>1 DEF Spawn, TypeOK, Args, Points, StartPoints
  <2>. QED BY <1>1, <2>1, <2>2 DEF Spawn, TypeOK
<1>2. ASSUME NEW p \in Pids, RootForks(p) \/ HelperForks(p) \/ StrangerForks(p) PROVE TypeOK'
  <2>1. \E kind \in Kinds, g \in Pids : Fork(p, kind, g)
    <3>1. CASE RootForks(p)
      BY <3>1 DEF RootForks, Kinds
    <3>2. CASE HelperForks(p)
      BY <3>2, GroupTypes DEF HelperForks, Kinds
    <3>3. CASE StrangerForks(p)
      BY <3>3, GroupTypes DEF StrangerForks, Kinds
    <3>. QED BY <1>2, <3>1, <3>2, <3>3
  <2>2. proc' \in [Pids -> Processes \cup {Nobody}] /\ given' \in [Pids -> Times]
    BY <2>1, ForkTypes
  <2>3. child' \in Pids \cup {NoPid} /\ UNCHANGED <<now, rec, command, struck, early>>
    BY <1>2 DEF RootForks, HelperForks, StrangerForks, TypeOK
  <2>. QED BY <2>2, <2>3 DEF TypeOK, command
<1>3. ASSUME NEW p \in Pids, Exits(p) PROVE TypeOK'
  BY <1>3, StrikeTypes DEF Exits, TypeOK, command
<1>4. ASSUME NEW p \in Pids, Reap(p) PROVE TypeOK'
  BY <1>4 DEF Reap, TypeOK, command
<1>5. CASE Tick
  <2>1. now' \in Times
    BY <1>5, ClockBounds DEF Tick, Times, TypeOK
  <2>. QED BY <1>5, <2>1 DEF Tick, TypeOK, command
<1>6. CASE Reboot
  <2>1. now' \in Times
    BY <1>6, ClockBounds DEF Reboot, Times, TypeOK
  <2>. QED BY <1>6, <2>1 DEF Reboot, TypeOK, Points
<1>7. CASE Identify
  <2>1. Alive(arg.ctrl) => StartTime(arg.ctrl) \in Times /\ arg.ctrl \in Pids
    BY DEF Alive, StartTime, TypeOK, Processes, Nobody
  <2>2. Alive(arg.ctrl) => arg' \in Args /\ rec' \in Records
    BY <1>7, <2>1 DEF Identify, TypeOK, Args, Records
  <2>. QED BY <1>7, <2>2 DEF Identify, TypeOK, Points, StartPoints
<1>8. CASE Await
  BY <1>8 DEF Await, TypeOK, Points, StartPoints
<1>9. CASE AwaitFails
  BY <1>9 DEF AwaitFails, Abandon, TypeOK, Points
<1>10. CASE IdentifyRoot
  <2>1. Alive(child) => StartTime(child) \in Times /\ child \in Pids
    BY DEF Alive, StartTime, TypeOK, Processes, Nobody
  <2>2. arg.ctrl \in Pids /\ arg.ctrlStart \in Times
    BY <1>10 DEF IdentifyRoot, RecordInv, CtrlKnown, TypeOK, Args
  <2>3. Alive(child) => rec' \in Records
    BY <1>10, <2>1, <2>2 DEF IdentifyRoot, TypeOK, Args, Records
  <2>. QED BY <1>10, <2>3 DEF IdentifyRoot, TypeOK, Points, StartPoints
<1>11. CASE Reidentify
  <2>1. StartTime(child) \in Times \cup {NoTime}
    BY DEF Alive, StartTime, TypeOK, Processes, Nobody
  <2>. QED BY <1>11, <2>1 DEF Reidentify, Abandon, TypeOK, Points, Args
<1>12. ASSUME NEW o \in {"exists", "terminate"}, Begin(o) PROVE TypeOK'
  <2>1. arg' \in Args
    BY <1>12 DEF Begin, TypeOK, Records, Args
  <2>. QED BY <1>12, <2>1 DEF Begin, TypeOK, Points
<1>13. CASE AskController \/ AskRoot \/ AskGroup \/ Poll \/ Drain
  <2>1. UNCHANGED <<proc, given, now, child, struck, early>>
    BY <1>13 DEF AskController, AskRoot, AskGroup, Poll, Drain
  <2>2. \/ \E v \in {"present", "absent", "gone", "survived"} : Settle(v)
        \/ \E q \in {"root", "group", "term", "kill"} : Proceed(q)
    BY <1>13 DEF AskController, AskRoot, AskGroup, Poll, Drain, Found, NotFound
  <2>. QED BY <2>1, <2>2, SettleTypes DEF TypeOK, Proceed, Points, TermPoints
<1>14. CASE Term \/ Kill
  <2>1. \/ UNCHANGED <<proc, struck>> /\ Settle("gone")
        \/ /\ \E q \in {"poll", "drain"} : Proceed(q)
           /\ \E dying \in SUBSET Living(arg.ctrl) : Signal(dying)
    BY <1>14 DEF Term, Kill
  <2>2. proc' \in [Pids -> Processes \cup {Nobody}] /\ struck' \subseteq Kinds
    <3>1. ASSUME NEW dying \in SUBSET Living(arg.ctrl), Signal(dying)
          PROVE  proc' \in [Pids -> Processes \cup {Nobody}] /\ struck' \subseteq Kinds
      <4>1. \A p \in dying : p \in Pids /\ proc[p].alive
        BY DEF Living, Members
      <4>2. proc' \in [Pids -> Processes \cup {Nobody}]
        BY <3>1, <4>1, StrikeTypes DEF Signal
      <4>. QED BY <3>1, <4>2, LivingTypes DEF Signal, TypeOK
    <3>. QED BY <2>1, <3>1 DEF TypeOK
  <2>3. UNCHANGED <<given, now, child, early>>
    BY <1>14 DEF Term, Kill
  <2>. QED BY <2>1, <2>2, <2>3, SettleTypes DEF TypeOK, Proceed, Points, TermPoints
<1>15. CASE UNCHANGED vars
  BY <1>15 DEF vars, command, TypeOK
<1>. QED BY <1>1, <1>2, <1>3, <1>4, <1>5, <1>6, <1>7, <1>8, <1>9, <1>10, <1>11, <1>12, <1>13, <1>14, <1>15
         DEF Next, Command, Environment

-----------------------------------------------------------------------------
(* The clock, the groups and the identities                                *)

LEMMA InvInit == Init => IInv
<1>. SUFFICES ASSUME Init PROVE IInv
  OBVIOUS
<1>1. /\ TypeOK /\ proc = [p \in Pids |-> Nobody] /\ arg = NoRecord /\ rec = NoRecord /\ pc = "start"
      /\ struck = {} /\ given = [p \in Pids |-> [boot |-> 0, tick |-> 0]] /\ now = [boot |-> 0, tick |-> 1]
  BY TypeInit DEF Init
<1>2. ClockInv
  <2>1. ASSUME NEW p \in Pids PROVE proc[p] = Nobody /\ given[p].boot = 0 /\ given[p].tick = 0
    BY <1>1
  <2>2. now.boot = 0 /\ now.tick = 1
    BY <1>1
  <2>3. ASSUME NEW p \in Pids PROVE Leq(given[p], now)
    BY <2>1, <2>2 DEF Leq
  <2>. QED BY <2>1, <2>3 DEF ClockInv
<1>3. GroupInv
  BY <1>1 DEF GroupInv, Ours, Nobody
<1>4. CtrlKnown /\ RecordInv /\ StartInv /\ SoleInv /\ StrangersUntouched
  BY <1>1 DEF CtrlKnown, RecordInv, StartInv, SoleInv, StrangersUntouched, NoRecord, StartPoints
<1>. QED BY <1>1, <1>2, <1>3, <1>4 DEF IInv

\* Between two times there is none that is both.
LEMMA Later ==
    ASSUME NEW t \in Times, NEW u \in Times, NEW v \in Times, Leq(t, u), Leq(u, v)
    PROVE  Leq(t, v) /\ (t = v => u = v)
BY ClockBounds DEF Leq, Times

LEMMA ClockStep == ASSUME TypeOK, TypeOK', ClockInv, Frame PROVE ClockInv'
<1>1. Leq(now, now')
  BY ClockBounds DEF Frame, Leq, TypeOK, Times
<1>2. ASSUME NEW p \in Pids PROVE Leq(given[p], now)' /\ (proc[p] # Nobody => proc[p].start = given[p])'
  <2>1. CASE Kept(p)
    <3>1. given'[p] = given[p] /\ Leq(given[p], now') 
      <4>1. given[p] \in Times /\ now \in Times /\ now' \in Times /\ Leq(given[p], now)
        BY DEF TypeOK, ClockInv
      <4>2. Leq(given[p], now')
        BY <1>1, <4>1, Later
      <4>. QED BY <2>1, <4>2 DEF Kept
    <3>2. proc'[p] # Nobody => proc'[p].start = given[p]
      BY <2>1 DEF Kept, ClockInv, TypeOK, Processes
    <3>. QED BY <3>1, <3>2 DEF Leq
  <2>2. CASE Born(p)
    BY <2>2, ClockBounds DEF Born, Leq, TypeOK, Times
  <2>. QED BY <2>1, <2>2 DEF Frame
<1>. QED BY <1>2 DEF ClockInv

\* A time at which a pid was given out before is not the time at which it is
\* given out again.
LEMMA Newer ==
    ASSUME TypeOK, ClockInv, NEW p \in Pids, Born(p), NEW t \in Times, Leq(t, given[p])
    PROVE  given'[p] # t /\ Leq(t, given'[p])
<1>1. given[p] \in Times /\ now \in Times /\ Leq(given[p], now)
  BY DEF TypeOK, ClockInv
<1>. QED BY <1>1, Later DEF Born

\* What a step may change of what a command knows of its supervisor.
Unidentified ==
    \/ pc' = "identify"
    \/ (\A p \in Pids : proc'[p] = Nobody)
    \/ ~Alive(arg.ctrl) /\ UNCHANGED proc
Identified ==
    /\ pc = "identify" /\ pc' # "identify" /\ Alive(arg.ctrl) /\ UNCHANGED kernel
    /\ arg'.ctrlStart = proc[arg.ctrl].start
Onward ==
    /\ arg'.ctrl = arg.ctrl
    /\ (pc' = "start") = (pc = "start")
    /\ pc' = "identify" => pc = "identify"
    /\ Identified \/ (arg'.ctrlStart = arg.ctrlStart /\ (pc = "identify" => Unidentified))
Course == (\E p \in Pids : Spawn(p)) \/ Onward

LEMMA Courses == ASSUME TypeOK, RecordInv, Next PROVE Course
<1>1. CASE Identify
  <2>1. UNCHANGED kernel /\ pc' \in {"await", "idle"} /\ pc = "identify"
    BY <1>1 DEF Identify
  <2>2. Alive(arg.ctrl) => arg'.ctrlStart = proc[arg.ctrl].start /\ arg'.ctrl = arg.ctrl
    BY <1>1 DEF Identify, StartTime, TypeOK, Args
  <2>3. ~Alive(arg.ctrl) => arg' = arg
    BY <1>1 DEF Identify
  <2>. QED BY <2>1, <2>2, <2>3 DEF Course, Onward, Identified, Unidentified, kernel
<1>2. CASE Reidentify
  BY <1>2 DEF Reidentify, Abandon, Course, Onward, Identified, Unidentified, TypeOK, Args
<1>3. ASSUME NEW o \in {"exists", "terminate"}, Begin(o) PROVE Course
  BY <1>3 DEF Begin, RecordInv, Course, Onward, Identified, Unidentified
<1>4. CASE Await \/ AwaitFails \/ IdentifyRoot
  BY <1>4 DEF Await, AwaitFails, Abandon, IdentifyRoot, Course, Onward, Identified, Unidentified
<1>5. CASE AskController \/ AskRoot \/ AskGroup \/ Term \/ Poll \/ Kill \/ Drain
  <2>1. pc \notin {"start", "identify"} /\ arg' = arg /\ pc' \notin {"start", "identify"}
    BY <1>5 DEF AskController, AskRoot, AskGroup, Term, Poll, Kill, Drain, Found, NotFound, Settle, Proceed
  <2>. QED BY <2>1 DEF Course, Onward, Identified, Unidentified
<1>6. CASE Reboot
  <2>1. pc # "start" /\ pc' = "idle" /\ arg' = arg /\ proc' = [p \in Pids |-> Nobody]
    BY <1>6 DEF Reboot
  <2>2. \A p \in Pids : proc'[p] = Nobody
    BY <2>1
  <2>3. pc = "identify" => \A p \in Pids : proc'[p] = Nobody
    BY <2>2
  <2>4. arg'.ctrl = arg.ctrl /\ arg'.ctrlStart = arg.ctrlStart /\ pc' # "start" /\ pc' # "identify"
    BY <2>1
  <2>. QED BY <2>1, <2>3, <2>4 DEF Course, Onward, Identified, Unidentified
<1>7. CASE UNCHANGED command
  BY <1>7 DEF command, Course, Onward, Identified, Unidentified
<1>. QED BY <1>1, <1>2, <1>3, <1>4, <1>5, <1>6, <1>7
         DEF Next, Command, Environment, Course, Onward, Identified, Unidentified, RootForks, HelperForks, StrangerForks, Exits, Reap, Tick

LEMMA GroupStep ==
    ASSUME TypeOK, TypeOK', GroupInv, CtrlKnown, StartInv, Frame, Course
    PROVE  GroupInv'
<1>1. ASSUME NEW p \in Pids, Ours(p)' PROVE pc' # "start" /\ proc'[p].group = arg'.ctrl
  <2>1. CASE Kept(p)
    <3>1. Ours(p) /\ proc'[p].group = proc[p].group
      BY <1>1, <2>1 DEF Kept, Ours, Nobody, TypeOK, Processes
    <3>. QED BY <3>1 DEF GroupInv, Course, Onward, Identified, Unidentified, Spawn
  <2>2. CASE Born(p)
    <3>1. CASE proc'[p].kind = "anchor"
      BY <2>2, <3>1 DEF Born
    <3>2. CASE \E a \in Pids : proc[a].kind = "anchor" /\ proc'[p].group = a
      BY <3>2 DEF GroupInv, Course, Onward, Identified, Unidentified, Spawn, Ours
    <3>3. CASE \E q \in Pids : proc[q].kind = "root" /\ proc'[p].group = proc[q].group
      BY <3>3 DEF GroupInv, Course, Onward, Identified, Unidentified, Spawn, Ours
    <3>. QED BY <1>1, <2>2, <3>1, <3>2, <3>3 DEF Born, Ours
  <2>. QED BY <2>1, <2>2 DEF Frame
<1>2. ASSUME NEW p \in Pids, NEW q \in Pids, Ours(p)', proc'[q].kind = "stranger"
      PROVE  proc'[q].group # arg'.ctrl
  <2>0. p # q /\ ~(Born(p) /\ Born(q))
    <3>1. p # q
      BY <1>2 DEF Ours
    <3>2. ASSUME Born(p), Born(q) PROVE FALSE
      <4>1. proc'[q] = proc[q]
        BY <3>1, <3>2 DEF Frame
      <4>2. proc[q] = Nobody /\ proc'[q].alive
        BY <3>2 DEF Born
      <4>. QED BY <4>1, <4>2 DEF Nobody
    <3>. QED BY <3>1, <3>2
  <2>1. CASE Kept(p) /\ Kept(q)
    <3>1. Ours(p) /\ proc[q].kind = "stranger" /\ proc'[q].group = proc[q].group
      BY <1>2, <2>1 DEF Kept, Ours, Nobody, TypeOK, Processes
    <3>. QED BY <3>1 DEF GroupInv, Course, Onward, Identified, Unidentified, Spawn
  <2>2. CASE Born(p)
    <3>1. proc'[q] = proc[q] /\ proc[q] # Nobody /\ proc[q].kind = "stranger"
      BY <1>2, <2>0, <2>2 DEF Frame, Nobody
    <3>2. CASE proc'[p].kind = "anchor"
      BY <2>2, <3>1, <3>2 DEF Born, Members
    <3>3. ASSUME NEW a \in Pids, Ours(a) PROVE proc[q].group # arg'.ctrl
      BY <3>1, <3>3 DEF GroupInv, Course, Onward, Identified, Unidentified, Spawn
    <3>. QED BY <1>2, <2>2, <3>1, <3>2, <3>3 DEF Born, Ours
  <2>3. CASE Born(q)
    <3>1. Ours(p) /\ proc[p].group = arg.ctrl /\ arg'.ctrl = arg.ctrl /\ proc[p] # Nobody
      BY <1>2, <2>0, <2>3 DEF Frame, Ours, GroupInv, Course, Onward, Identified, Unidentified, Spawn, Nobody
    <3>2. q # arg.ctrl
      BY <2>3, <3>1 DEF Born, Members
    <3>. QED BY <1>2, <2>3, <3>1, <3>2 DEF Born, GroupInv
  <2>. QED BY <2>0, <2>1, <2>2, <2>3 DEF Frame
<1>3. ASSUME NEW p \in Pids, proc'[p].kind = "anchor"
      PROVE  /\ p = arg'.ctrl
             /\ IF arg'.ctrlStart = NoTime THEN pc' = "identify" \/ ~proc'[p].alive
                                           ELSE proc'[p].start = arg'.ctrlStart
  <2>1. CASE Kept(p)
    <3>1. /\ proc[p].kind = "anchor" /\ proc'[p].start = proc[p].start
          /\ proc[p] # Nobody /\ proc'[p] # Nobody /\ (proc'[p].alive => proc[p].alive)
      BY <1>3, <2>1 DEF Kept, Nobody, TypeOK, Processes
    <3>2. /\ p = arg.ctrl /\ pc # "start"
          /\ IF arg.ctrlStart = NoTime THEN pc = "identify" \/ ~proc[p].alive
                                       ELSE proc[p].start = arg.ctrlStart
      BY <3>1 DEF GroupInv, Ours
    <3>3. arg'.ctrl = arg.ctrl
      BY <3>2 DEF Course, Onward, Identified, Unidentified, Spawn
    <3>4. CASE pc # "identify"
      <4>1. arg'.ctrlStart = arg.ctrlStart
        BY <3>2, <3>4 DEF Course, Onward, Identified, Unidentified, Spawn
      <4>. QED BY <3>1, <3>2, <3>3, <3>4, <4>1
    <3>5. CASE pc = "identify"
      <4>1. arg.ctrlStart = NoTime
        BY <3>5 DEF CtrlKnown
      <4>2. CASE arg'.ctrlStart = arg.ctrlStart
        <5>1. \/ pc' = "identify"
              \/ (\A q \in Pids : proc'[q] = Nobody)
              \/ ~Alive(arg.ctrl) /\ UNCHANGED proc
              \/ Alive(arg.ctrl) /\ arg.ctrlStart = proc[arg.ctrl].start
          BY <3>5, <4>2 DEF Course, Onward, Identified, Unidentified, Spawn
        <5>2. proc[p].start # NoTime
          BY <3>1, ClockBounds DEF TypeOK, Processes, Times, NoTime
        <5>. QED BY <3>1, <3>2, <3>3, <4>1, <4>2, <5>1, <5>2 DEF Alive
      <4>3. CASE arg'.ctrlStart = proc[arg.ctrl].start
        <5>1. proc[p].start # NoTime
          BY <3>1, ClockBounds DEF TypeOK, Processes, Times, NoTime
        <5>. QED BY <3>1, <3>2, <3>3, <4>3, <5>1
      <4>. QED BY <3>5, <4>2, <4>3 DEF Course, Onward, Identified, Unidentified, Spawn
    <3>. QED BY <3>4, <3>5
  <2>2. CASE Born(p)
    <3>1. pc = "start" /\ arg'.ctrl = p /\ pc' # "start"
      BY <1>3, <2>2 DEF Born
    <3>2. pc' = "identify" /\ arg'.ctrlStart = arg.ctrlStart
      BY <3>1 DEF Course, Onward, Identified, Unidentified, Spawn, TypeOK, Args
    <3>3. arg.ctrlStart = NoTime
      BY <3>1 DEF CtrlKnown
    <3>. QED BY <3>1, <3>2, <3>3
  <2>. QED BY <2>1, <2>2 DEF Frame
<1>. QED BY <1>1, <1>2, <1>3 DEF GroupInv, Ours

\* The kind and the group of a process that stays, and of none that comes.
LEMMA Stays ==
    ASSUME TypeOK, NEW p \in Pids, Kept(p), proc'[p] # Nobody
    PROVE  /\ proc[p] # Nobody /\ given'[p] = given[p]
           /\ proc'[p].kind = proc[p].kind /\ proc'[p].group = proc[p].group /\ proc'[p].start = proc[p].start
BY DEF Kept, Nobody, TypeOK, Processes

LEMMA CtrlStep ==
    ASSUME TypeOK, ClockInv, CtrlKnown, StartInv, Frame, Course
    PROVE  CtrlKnown'
<1>. SUFFICES ASSUME arg'.ctrlStart # NoTime
     PROVE  /\ arg'.ctrl \in Pids /\ pc' \notin {"start", "identify"}
            /\ Leq(arg'.ctrlStart, given'[arg'.ctrl])
            /\ given'[arg'.ctrl] = arg'.ctrlStart /\ proc'[arg'.ctrl] # Nobody
                  => proc'[arg'.ctrl].kind = "anchor"
  BY DEF CtrlKnown, Leq
<1>1. ASSUME NEW p \in Pids, Spawn(p) PROVE FALSE
  BY <1>1 DEF Spawn, CtrlKnown, TypeOK, Args
<1>2. CASE Identified /\ Onward
  <2>1. /\ arg'.ctrl = arg.ctrl /\ arg.ctrl \in Pids /\ UNCHANGED kernel
        /\ arg'.ctrlStart = given[arg.ctrl]
    BY <1>2 DEF Identified, Onward, Alive, ClockInv, Nobody
  <2>2. proc[arg.ctrl].kind = "anchor"
    BY <1>2 DEF Identified, StartInv, StartPoints
  <2>3. Leq(given[arg.ctrl], given[arg.ctrl])
    BY <2>1 DEF Leq, TypeOK, Times
  <2>4. pc' \notin {"start", "identify"}
    BY <1>2 DEF Identified, Onward
  <2>. QED BY <2>1, <2>2, <2>3, <2>4 DEF kernel
<1>3. CASE Onward /\ ~Identified
  <2>1. arg'.ctrl = arg.ctrl /\ arg'.ctrlStart = arg.ctrlStart
    BY <1>3 DEF Onward
  <2>2. /\ arg.ctrl \in Pids /\ pc \notin {"start", "identify"} /\ arg.ctrlStart \in Times
        /\ Leq(arg.ctrlStart, given[arg.ctrl])
        /\ given[arg.ctrl] = arg.ctrlStart /\ proc[arg.ctrl] # Nobody => proc[arg.ctrl].kind = "anchor"
    BY <2>1 DEF CtrlKnown, TypeOK, Args
  <2>3. pc' \notin {"start", "identify"}
    BY <1>3, <2>2 DEF Onward
  <2>4. CASE Kept(arg.ctrl)
    BY <2>1, <2>2, <2>3, <2>4, Stays DEF Kept
  <2>5. CASE Born(arg.ctrl)
    BY <2>1, <2>2, <2>3, <2>5, Newer
  <2>. QED BY <2>2, <2>4, <2>5 DEF Frame
<1>. QED BY <1>1, <1>2, <1>3 DEF Course

\* What is known of a root after a step
RootLater(r) ==
    r.root # NoPid /\ r.rootStart # NoTime =>
        /\ Leq(r.rootStart, given'[r.root])
        /\ given'[r.root] = r.rootStart /\ proc'[r.root] # Nobody =>
              \/ proc'[r.root].kind \in {"anchor", "root", "helper"}
              \/ proc'[r.root].group # r.ctrl

LEMMA RootStays ==
    ASSUME TypeOK, ClockInv, Frame, NEW r \in Args, RootKnown(r)
    PROVE  RootLater(r)
<1>. SUFFICES ASSUME r.root # NoPid, r.rootStart # NoTime
     PROVE  /\ Leq(r.rootStart, given'[r.root])
            /\ given'[r.root] = r.rootStart /\ proc'[r.root] # Nobody =>
                  \/ proc'[r.root].kind \in {"anchor", "root", "helper"}
                  \/ proc'[r.root].group # r.ctrl
  BY DEF RootLater
<1>1. r.root \in Pids /\ r.rootStart \in Times
  BY DEF Args
<1>2. CASE Kept(r.root)
  BY <1>1, <1>2, Stays DEF RootKnown, Ours, Kept
<1>3. CASE Born(r.root)
  BY <1>1, <1>3, Newer DEF RootKnown
<1>. QED BY <1>1, <1>2, <1>3 DEF Frame

\* A pid that somebody has now is that of one of the Session's processes, or of a
\* process of another group, as long as the supervisor has its own.
LEMMA Recorded ==
    ASSUME TypeOK, ClockInv, GroupInv, StartInv, pc \in StartPoints, UNCHANGED kernel,
           NEW r \in Args, r.ctrl = arg.ctrl, r.root \in Pids => r.rootStart = StartTime(r.root)
    PROVE  RootLater(r)
<1>. SUFFICES ASSUME r.root # NoPid, r.rootStart # NoTime
     PROVE  /\ Leq(r.rootStart, given[r.root])
            /\ \/ proc[r.root].kind \in {"anchor", "root", "helper"}
               \/ proc[r.root].group # r.ctrl
  BY DEF RootLater, kernel
<1>1. r.root \in Pids /\ proc[r.root] # Nobody /\ proc[r.root].start = r.rootStart
  BY DEF Args, StartTime, Alive, Nobody
<1>2. r.rootStart = given[r.root] /\ Leq(given[r.root], given[r.root])
  BY <1>1 DEF ClockInv, Leq, TypeOK, Times
<1>3. proc[r.root].kind \in Kinds
  BY <1>1 DEF TypeOK, Processes
<1>4. Ours(arg.ctrl) /\ arg.ctrl \in Pids
  BY DEF StartInv, Ours
<1>. QED BY <1>1, <1>2, <1>3, <1>4 DEF GroupInv, Kinds

LEMMA RecordArgs == ASSUME TypeOK PROVE rec \in Args /\ (rec # NoRecord => rec \in Records)
BY DEF TypeOK, Args, Records, NoRecord

LEMMA RecordStep ==
    ASSUME TypeOK, TypeOK', ClockInv, GroupInv, CtrlKnown, RecordInv, StartInv, Frame, Next
    PROVE  RecordInv'
<1>0. RootLater(rec) \/ rec = NoRecord
  BY RecordArgs, RootStays DEF RecordInv
<1>1. pc \in {"controller", "root", "group"} => RootLater(arg)
  BY RootStays DEF RecordInv, TypeOK
<1>2. ASSUME NEW p \in Pids, Spawn(p) PROVE RecordInv'
  BY <1>2 DEF Spawn, RecordInv, TypeOK, Args
<1>3. CASE UNCHANGED <<rec, command>>
  BY <1>0, <1>1, <1>3 DEF command, RecordInv, RootKnown, RootLater, Ours, Leq
<1>4. CASE Reboot
  BY <1>0, <1>4 DEF Reboot, RecordInv, RootKnown, RootLater, Ours, Leq
<1>5. CASE Identify
  <2>1. pc = "identify" /\ UNCHANGED kernel /\ rec = NoRecord
    BY <1>5 DEF Identify, RecordInv
  <2>2. CASE ~Alive(arg.ctrl)
    BY <1>5, <2>1, <2>2 DEF Identify, RecordInv
  <2>3. CASE Alive(arg.ctrl)
    <3>1. /\ arg' = [arg EXCEPT !.ctrlStart = StartTime(arg.ctrl)] /\ pc' = "await"
          /\ rec' = [arg' EXCEPT !.root = arg.ctrl, !.rootStart = arg'.ctrlStart]
      BY <1>5, <2>3 DEF Identify
    <3>2. /\ rec' \in Args /\ rec'.ctrl = arg.ctrl /\ rec'.ctrl = arg'.ctrl /\ rec'.ctrlStart = arg'.ctrlStart
          /\ rec'.root = arg.ctrl /\ rec'.rootStart = StartTime(arg.ctrl) /\ arg'.ctrlStart # NoTime
      <4>1. arg.ctrl \in Pids /\ StartTime(arg.ctrl) \in Times
        BY <2>3 DEF Alive, StartTime, TypeOK, Processes, Nobody
      <4>2. StartTime(arg.ctrl) # NoTime
        BY <4>1, ClockBounds DEF Times, NoTime
      <4>. QED BY <3>1, <4>1, <4>2 DEF TypeOK, Args
    <3>3. RootLater(rec')
      BY <2>1, <3>2, Recorded DEF StartPoints
    <3>. QED BY <3>1, <3>2, <3>3 DEF RecordInv, RootKnown, RootLater, Ours, Leq
  <2>. QED BY <2>2, <2>3
<1>6. CASE Await
  BY <1>0, <1>6 DEF Await, RecordInv, RootKnown, RootLater, Ours, Leq
<1>7. CASE AwaitFails
  <2>1. arg.root = NoPid /\ pc = "await"
    BY <1>7 DEF AwaitFails, StartInv, StartPoints
  <2>. QED BY <1>0, <1>7, <2>1 DEF AwaitFails, Abandon, RecordInv, RootKnown, RootLater, Ours, Leq
<1>8. CASE IdentifyRoot
  <2>1. pc = "identifyRoot" /\ UNCHANGED kernel /\ arg' = arg
    BY <1>8 DEF IdentifyRoot
  <2>2. CASE ~Alive(child)
    BY <1>0, <1>8, <2>2 DEF IdentifyRoot, RecordInv, RootKnown, RootLater, Ours, Leq
  <2>3. CASE Alive(child)
    <3>1. rec' = [arg EXCEPT !.root = child, !.rootStart = StartTime(child)] /\ pc' = "idle"
      BY <1>8, <2>3 DEF IdentifyRoot
    <3>2. /\ rec' \in Args /\ rec'.ctrl = arg.ctrl /\ rec'.ctrlStart = arg.ctrlStart
          /\ rec'.rootStart = StartTime(rec'.root)
      <4>1. child \in Pids /\ StartTime(child) \in Times
        BY <2>3 DEF Alive, StartTime, TypeOK, Processes, Nobody
      <4>. QED BY <3>1, <4>1 DEF TypeOK, Args
    <3>3. RootLater(rec')
      BY <2>1, <3>2, Recorded DEF StartPoints
    <3>. QED BY <2>1, <3>1, <3>2, <3>3 DEF RecordInv, RootKnown, RootLater, Ours, Leq
  <2>. QED BY <2>2, <2>3
<1>9. CASE Reidentify
  <2>1. /\ pc = "reidentify" /\ UNCHANGED kernel /\ pc' = "controller" /\ rec' = rec
        /\ arg' = [arg EXCEPT !.root = child, !.rootStart = StartTime(child)]
    BY <1>9 DEF Reidentify, Abandon
  <2>2. /\ arg' \in Args /\ arg'.ctrl = arg.ctrl /\ arg'.ctrlStart = arg.ctrlStart
        /\ arg'.rootStart = StartTime(arg'.root)
    BY <2>1 DEF TypeOK, Args
  <2>3. RootLater(arg')
    BY <2>1, <2>2, Recorded DEF StartPoints
  <2>. QED BY <1>0, <2>1, <2>2, <2>3 DEF RecordInv, RootKnown, RootLater, Ours, Leq
<1>10. ASSUME NEW o \in {"exists", "terminate"}, Begin(o) PROVE RecordInv'
  <2>1. rec.ctrlStart # NoTime
    BY <1>10, RecordArgs, ClockBounds DEF Begin, Records, Times, NoTime
  <2>. QED BY <1>0, <1>10, <2>1 DEF Begin, RecordInv, RootKnown, RootLater, Ours, Leq
<1>11. CASE AskController \/ AskRoot \/ AskGroup \/ Term \/ Poll \/ Kill \/ Drain
  <2>1. /\ pc \notin {"start", "identify", "idle"} /\ arg' = arg /\ rec' \in {rec, NoRecord}
        /\ pc' \notin {"start", "identify"} /\ (pc' \in {"controller", "root", "group"} => pc \in {"controller", "root"})
    BY <1>11 DEF AskController, AskRoot, AskGroup, Term, Poll, Kill, Drain, Found, NotFound, Settle, Proceed
  <2>. QED BY <1>0, <1>1, <2>1 DEF RecordInv, RootKnown, RootLater, Ours, Leq
<1>. QED BY <1>2, <1>3, <1>4, <1>5, <1>6, <1>7, <1>8, <1>9, <1>10, <1>11
         DEF Next, Command, Environment, RootForks, HelperForks, StrangerForks, Exits, Reap, Tick

LEMMA StartStep ==
    ASSUME TypeOK, RecordInv, StartInv, Frame, Next
    PROVE  StartInv'
<1>. SUFFICES ASSUME pc' \in StartPoints
     PROVE  /\ arg'.ctrl \in Pids /\ proc'[arg'.ctrl].kind = "anchor"
            /\ rec'.root = rec'.ctrl /\ arg'.root = NoPid
  BY DEF StartInv
<1>1. ASSUME NEW p \in Pids, Spawn(p) PROVE StartInv'
  BY <1>1 DEF Spawn, Fork, StartInv, RecordInv, NoRecord, TypeOK, Args
<1>2. CASE UNCHANGED <<rec, command>>
  <2>1. pc \in StartPoints /\ arg' = arg /\ rec' = rec
    BY <1>2 DEF command
  <2>2. arg.ctrl \in Pids /\ proc[arg.ctrl].kind = "anchor" /\ rec.root = rec.ctrl /\ arg.root = NoPid
    BY <2>1 DEF StartInv
  <2>3. Kept(arg.ctrl)
    BY <2>2 DEF Frame, Born, Nobody
  <2>4. pc' # "idle"
    BY DEF StartPoints
  <2>5. proc'[arg.ctrl] # Nobody
    BY <2>2, <2>3, <2>4 DEF Kept, TypeOK, Processes, Nobody
  <2>6. proc'[arg.ctrl].kind = "anchor"
    BY <2>2, <2>3, <2>5, Stays
  <2>. QED BY <2>1, <2>2, <2>6
<1>3. CASE Identify
  <2>1. pc = "identify" /\ UNCHANGED kernel /\ Alive(arg.ctrl)
    BY <1>3 DEF Identify, StartPoints
  <2>2. arg' = [arg EXCEPT !.ctrlStart = StartTime(arg.ctrl)]
        /\ rec' = [arg' EXCEPT !.root = arg.ctrl, !.rootStart = arg'.ctrlStart]
    BY <1>3, <2>1 DEF Identify
  <2>3. arg'.ctrl = arg.ctrl /\ arg'.root = arg.root /\ rec'.root = rec'.ctrl
    BY <2>2 DEF TypeOK, Args
  <2>. QED BY <2>1, <2>3 DEF kernel, StartInv, StartPoints
<1>4. CASE Await \/ IdentifyRoot
  <2>1. pc \in StartPoints /\ UNCHANGED <<kernel, rec, arg>>
    BY <1>4 DEF Await, IdentifyRoot, StartPoints
  <2>. QED BY <2>1 DEF kernel, StartInv
<1>5. CASE AwaitFails \/ Reidentify \/ Reboot \/ (\E o \in {"exists", "terminate"} : Begin(o))
  BY <1>5 DEF AwaitFails, Reidentify, Abandon, Reboot, Begin, StartPoints
<1>6. CASE AskController \/ AskRoot \/ AskGroup \/ Term \/ Poll \/ Kill \/ Drain
  BY <1>6 DEF AskController, AskRoot, AskGroup, Term, Poll, Kill, Drain, Found, NotFound, Settle, Proceed, StartPoints
<1>. QED BY <1>1, <1>2, <1>3, <1>4, <1>5, <1>6
         DEF Next, Command, Environment, RootForks, HelperForks, StrangerForks, Exits, Reap, Tick, StartInv

-----------------------------------------------------------------------------
(* Whom a signal reaches                                                   *)

\* Nobody else joins the group while the command is about to signal it.
LEMMA SoleStays ==
    ASSUME TypeOK, Frame, pc \in Committed, Sole, arg' = arg
    PROVE  Sole'
<1>1. ASSUME NEW q \in Pids, proc'[q].kind = "stranger" PROVE proc'[q].group # arg.ctrl
  <2>1. CASE Kept(q)
    <3>1. proc'[q] # Nobody
      BY <1>1 DEF Nobody
    <3>. QED BY <1>1, <2>1, <3>1, Stays DEF Sole
  <2>2. CASE Born(q)
    BY <1>1, <2>2 DEF Born, Sole
  <2>. QED BY <2>1, <2>2 DEF Frame
<1>. QED BY <1>1 DEF Sole

LEMMA OutsideStays ==
    ASSUME TypeOK, Frame, pc \in Committed, arg.root \notin Members(arg.ctrl), arg' = arg
    PROVE  (arg.root \notin Members(arg.ctrl))'
<1>1. ASSUME arg.root \in Pids, proc'[arg.root] # Nobody, proc'[arg.root].group = arg.ctrl PROVE FALSE
  <2>1. Kept(arg.root)
    BY <1>1 DEF Frame, Born
  <2>. QED BY <1>1, <2>1, Stays DEF Members
<1>. QED BY <1>1 DEF Members

\* The supervisor that has the recorded identity is the Session's, and so is its group.
LEMMA OwnCtrl ==
    ASSUME TypeOK, ClockInv, GroupInv, CtrlKnown, Matches(arg.ctrl, arg.ctrlStart)
    PROVE  Sole /\ arg.ctrl \in Pids /\ Ours(arg.ctrl)
<1>1. /\ arg.ctrl \in Pids /\ proc[arg.ctrl] # Nobody
      /\ arg.ctrlStart = proc[arg.ctrl].start /\ arg.ctrlStart = given[arg.ctrl]
  BY DEF Matches, Alive, StartTime, ClockInv, Nobody
<1>2. arg.ctrlStart # NoTime
  BY <1>1, ClockBounds DEF TypeOK, Times, NoTime
<1>3. Ours(arg.ctrl)
  BY <1>1, <1>2 DEF CtrlKnown, Ours
<1>. QED BY <1>1, <1>3 DEF GroupInv, Sole

LEMMA OwnRoot ==
    ASSUME TypeOK, ClockInv, GroupInv, RootKnown(arg), Matches(arg.root, arg.rootStart)
    PROVE  Sole \/ arg.root \notin Members(arg.ctrl)
<1>1. /\ arg.root \in Pids /\ proc[arg.root] # Nobody
      /\ arg.rootStart = proc[arg.root].start /\ arg.rootStart = given[arg.root]
  BY DEF Matches, Alive, StartTime, ClockInv, Nobody
<1>2. arg.rootStart # NoTime /\ arg.root # NoPid
  BY <1>1, ClockBounds, NoPidIsNone DEF TypeOK, Times, NoTime
<1>3. Ours(arg.root) \/ proc[arg.root].group # arg.ctrl
  BY <1>1, <1>2 DEF RootKnown
<1>. QED BY <1>1, <1>3 DEF GroupInv, Sole, Members

LEMMA SoleStep ==
    ASSUME TypeOK, ClockInv, GroupInv, CtrlKnown, RecordInv, SoleInv, Frame, Next
    PROVE  SoleInv'
<1>1. ASSUME pc \in {"term", "poll", "kill"}, arg' = arg PROVE Sole'
  BY <1>1, SoleStays DEF SoleInv, Committed
<1>2. ASSUME pc = "group", arg' = arg PROVE Sole' \/ (arg.root \notin Members(arg.ctrl))'
  BY <1>2, SoleStays, OutsideStays DEF SoleInv, Committed
<1>3. CASE UNCHANGED command
  BY <1>1, <1>2, <1>3 DEF command, SoleInv
<1>4. CASE AskController
  <2>1. CASE Matches(arg.ctrl, arg.ctrlStart)
    <3>1. Sole /\ arg' = arg /\ UNCHANGED kernel /\ pc' \in {"idle", "term"}
      BY <1>4, <2>1, OwnCtrl DEF AskController, Found, Settle, Proceed
    <3>. QED BY <3>1 DEF SoleInv, Sole, kernel
  <2>. QED BY <1>4, <2>1 DEF AskController, Proceed, SoleInv
<1>5. CASE AskRoot
  <2>1. CASE Matches(arg.root, arg.rootStart)
    <3>1. arg' = arg /\ UNCHANGED kernel /\ pc' = "group" /\ RootKnown(arg)
      BY <1>5, <2>1 DEF AskRoot, Proceed, RecordInv
    <3>2. Sole \/ arg.root \notin Members(arg.ctrl)
      BY <2>1, <3>1, OwnRoot
    <3>. QED BY <3>1, <3>2 DEF SoleInv, Sole, kernel, Members
  <2>. QED BY <1>5, <2>1 DEF AskRoot, NotFound, Settle, SoleInv
<1>6. CASE AskGroup
  <2>1. arg' = arg /\ UNCHANGED kernel /\ pc' \in {"idle", "term"} /\ pc = "group"
        /\ (pc' = "term" => arg.root \in Members(arg.ctrl))
    BY <1>6 DEF AskGroup, Found, NotFound, Settle, Proceed
  <2>2. pc' = "term" => Sole'
    BY <2>1 DEF SoleInv, Sole, kernel
  <2>. QED BY <2>1, <2>2 DEF SoleInv
<1>7. CASE Term \/ Poll
  <2>1. arg' = arg /\ pc \in {"term", "poll"} /\ pc' \in {"idle", "poll", "kill"}
    BY <1>7 DEF Term, Poll, Settle, Proceed
  <2>. QED BY <1>1, <2>1 DEF SoleInv
<1>8. CASE Kill \/ Drain \/ Reboot
  BY <1>8 DEF Kill, Drain, Reboot, Settle, Proceed, SoleInv
<1>9. CASE Identify \/ Await \/ AwaitFails \/ IdentifyRoot \/ Reidentify
           \/ (\E o \in {"exists", "terminate"} : Begin(o)) \/ (\E p \in Pids : Spawn(p))
  BY <1>9 DEF Identify, Await, AwaitFails, IdentifyRoot, Reidentify, Abandon, Begin, Spawn, SoleInv
<1>. QED BY <1>3, <1>4, <1>5, <1>6, <1>7, <1>8, <1>9
         DEF Next, Command, Environment, RootForks, HelperForks, StrangerForks, Exits, Reap, Tick, command

\* Only the two signals of a stop are steps that signal, and they reach a group
\* that nobody else is in.
LEMMA StruckStep ==
    ASSUME TypeOK, SoleInv, StrangersUntouched, Next
    PROVE  StrangersUntouched'
<1>1. CASE UNCHANGED struck
  BY <1>1 DEF StrangersUntouched
<1>2. CASE (Term \/ Kill) /\ struck' # struck
  <2>1. Sole /\ struck' = struck \cup {proc[p].kind : p \in Living(arg.ctrl)}
    BY <1>2 DEF Term, Kill, Signal, SoleInv
  <2>2. \A p \in Living(arg.ctrl) : proc[p].kind # "stranger"
    BY <2>1 DEF Sole, Living, Members
  <2>. QED BY <2>1, <2>2 DEF StrangersUntouched
<1>. QED BY <1>1, <1>2 DEF Next, Command, Environment, RootForks, HelperForks, StrangerForks, Exits, Reap, Tick,
     Reboot, Spawn, Identify, Await, AwaitFails, IdentifyRoot, Reidentify, Begin, AskController, AskRoot,
     AskGroup, Poll, Drain

LEMMA InvStep == IInv /\ [Next]_vars => IInv'
<1>. SUFFICES ASSUME IInv, [Next]_vars PROVE IInv'
  OBVIOUS
<1>1. CASE UNCHANGED vars
  BY <1>1 DEF vars, kernel, command, IInv, TypeOK, ClockInv, GroupInv, CtrlKnown, RecordInv, RootKnown, StartInv,
     SoleInv, Sole, Members, StrangersUntouched, Ours, Leq
<1>2. CASE Next
  <2>1. TypeOK' /\ Frame /\ Course
    BY <1>2, TypeStep, Frames, Courses DEF IInv
  <2>. QED BY <1>2, <2>1, ClockStep, GroupStep, CtrlStep, RecordStep, StartStep, SoleStep, StruckStep DEF IInv
<1>. QED BY <1>1, <1>2

\* Which processes have the pids and the group of a record, at any point of any
\* command, however pids are given out again.
THEOREM Identities == Spec => []IInv
BY InvInit, InvStep, PTL DEF Spec

\* TypeOK holds of every reachable state.
THEOREM TypeCorrect == Spec => []TypeOK
<1>1. IInv => TypeOK
  BY DEF IInv
<1>. QED BY <1>1, Identities, PTL

\* No signal of a stop or of a launch that fails reaches a process of others
\* (terminate_owned_tree, _terminate_posix_group).
THEOREM StrangersAreSafe == Spec => []StrangersUntouched
<1>1. IInv => StrangersUntouched
  BY DEF IInv
<1>. QED BY <1>1, Identities, PTL

\* owned_tree_exists never takes a process of others for a Session's tree.
THEOREM PresenceIsOwn == Spec => PresentIsOwn
<1>1. IInv /\ [Next]_vars => [verdict' = "present" /\ verdict # "present" => \E p \in Pids : Ours(p)]_vars
  <2>. SUFFICES ASSUME IInv, Next, verdict' = "present", verdict # "present" PROVE \E p \in Pids : Ours(p)
    OBVIOUS
  <2>1. CASE AskController
    <3>1. Matches(arg.ctrl, arg.ctrlStart)
      BY <2>1 DEF AskController, Proceed
    <3>. QED BY <3>1, OwnCtrl DEF IInv
  <2>2. CASE AskGroup
    <3>1. pc = "group" /\ arg.root \in Members(arg.ctrl)
      BY <2>2 DEF AskGroup, NotFound, Settle
    <3>2. Sole /\ arg.root \in Pids /\ proc[arg.root] # Nobody /\ proc[arg.root].group = arg.ctrl
      BY <3>1 DEF IInv, SoleInv, Members
    <3>3. proc[arg.root].kind \in Kinds
      BY <3>2 DEF IInv, TypeOK, Processes
    <3>. QED BY <3>2, <3>3 DEF Sole, Kinds, Ours
  <2>3. CASE AskRoot \/ Term \/ Poll \/ Kill \/ Drain
    BY <2>3 DEF AskRoot, Term, Poll, Kill, Drain, NotFound, Settle, Proceed
  <2>4. CASE Identify \/ Await \/ AwaitFails \/ IdentifyRoot \/ Reidentify \/ Reboot
             \/ (\E o \in {"exists", "terminate"} : Begin(o)) \/ (\E p \in Pids : Spawn(p))
    BY <2>4 DEF Identify, Await, AwaitFails, IdentifyRoot, Reidentify, Abandon, Reboot, Begin, Spawn
  <2>. QED BY <2>1, <2>2, <2>3, <2>4
           DEF Next, Command, Environment, RootForks, HelperForks, StrangerForks, Exits, Reap, Tick, command
<1>. QED BY <1>1, Identities, PTL DEF Spec, PresentIsOwn

-----------------------------------------------------------------------------
(* What is left of a tree                                                  *)

AnchorAlive == \E p \in Pids : proc[p].kind = "anchor" /\ proc[p].alive

\* What a command is sure to find: helpers, too, unless supervisors are killed
\* and Blenders start processes, both
OneFault == ~({"anchor", "helper"} \subseteq Faults)
Counted(p) == proc[p].kind \in {"anchor", "root"} \/ (proc[p].kind = "helper" /\ OneFault)
AllGone == \A p \in Pids : ~(Counted(p) /\ proc[p].alive)

\* There is one Blender, the one reported, and helpers only after it.
OneRoot ==
    \A p \in Pids : /\ proc[p].kind = "root" => p = child
                    /\ proc[p].kind = "helper" => "helper" \in Faults /\ child # NoPid

\* A final record is that of the Blender there is, and what a command goes by.
Final == rec.root # rec.ctrl
FinalInv ==
    Final =>
        /\ pc # "idle" => arg = rec
        /\ AnchorAlive => child # NoPid
        /\ \A p \in Pids : proc[p].kind = "root" => rec.root = p /\ rec.rootStart = proc[p].start

\* Where a command knows that the supervisor is dead, and where that all are
DeadInv ==
    /\ pc \in {"root", "group"} => ~AnchorAlive
    /\ pc \in {"drain", "start"} => AllGone
    /\ verdict \in {"gone", "absent"} => AllGone \/ NeverNamed
    /\ pc = "start" => verdict = "none"

\* Outside of a stop, what outlives its supervisor has a final record, or is
\* named to nobody.
LostInv ==
    ~AnchorAlive /\ pc \notin {"poll", "kill"} =>
        AllGone \/ ("anchor" \in Faults /\ (Final \/ NeverNamed))

\* No Blender runs, and none will.
Childless ==
    /\ \A p \in Pids : ~(proc[p].kind = "root" /\ proc[p].alive)
    /\ child # NoPid \/ ~AnchorAlive

\* No command that may end the tree is under way.
Resting == pc = "idle" \/ (op = "exists" /\ pc \in {"controller", "root", "group"})

\* Who goes by a pid that is in no final record goes by that of a dead Blender,
\* and a provisional record outlives its start only when nothing else does.
PassedInv ==
    /\ early => "anchor" \in Faults
    /\ pc = "start" => child = NoPid
    /\ pc \in StartPoints => child # arg.ctrl
    /\ pc \in {"identifyRoot", "reidentify"} => child # NoPid
    /\ pc = "reidentify" \/ (arg.root # NoPid /\ ~Final) => Childless
    /\ Resting /\ rec # NoRecord /\ ~Final => AllGone

GoneInv == OneRoot /\ FinalInv /\ DeadInv /\ LostInv /\ PassedInv

\* No supervisor, and nothing of a tree, comes after the start.
LEMMA DeadStays ==
    ASSUME TypeOK, Frame, pc # "start" \/ pc' = "start"
    PROVE  /\ ~AnchorAlive => ~AnchorAlive'
           /\ AllGone => AllGone'
<1>1. ASSUME NEW p \in Pids, Ours(p)', proc'[p].alive
      PROVE  \/ proc[p].alive /\ proc[p].kind = proc'[p].kind
             \/ /\ proc'[p].kind # "anchor"
                /\ \E q \in Pids : proc[q].kind \in {"anchor", "root"} /\ proc[q].alive
  <2>1. CASE Kept(p)
    <3>1. proc'[p] # Nobody
      BY <1>1 DEF Nobody
    <3>2. proc'[p] = proc[p]
      BY <1>1, <2>1, <3>1 DEF Kept, TypeOK, Processes, Nobody
    <3>. QED BY <1>1, <3>2
  <2>2. CASE Born(p)
    BY <1>1, <2>2 DEF Born, Ours
  <2>. QED BY <2>1, <2>2 DEF Frame
<1>2. ~AnchorAlive => ~AnchorAlive'
  BY <1>1 DEF AnchorAlive, Ours
<1>3. AllGone => AllGone'
  BY <1>1 DEF AllGone, Counted, Ours
<1>. QED BY <1>2, <1>3

\* The supervisor that lives is found, ...
LEMMA CtrlFound ==
    ASSUME TypeOK, GroupInv, AnchorAlive, arg.ctrlStart # NoTime
    PROVE  Matches(arg.ctrl, arg.ctrlStart)
BY DEF AnchorAlive, GroupInv, Matches, Alive, StartTime

\* ... and so is the Blender of a final record, in its group.
LEMMA RootFound ==
    ASSUME TypeOK, GroupInv, OneRoot, FinalInv, Final, pc # "idle", "anchor" \in Faults,
           ~AnchorAlive, ~AllGone
    PROVE  Matches(arg.root, arg.rootStart) /\ arg.root \in Members(arg.ctrl)
<1>1. PICK p \in Pids : Counted(p) /\ proc[p].alive
  BY DEF AllGone
<1>2. proc[p].kind = "root"
  BY <1>1 DEF OneRoot, AnchorAlive, Counted, OneFault
<1>3. arg.root = p /\ arg.rootStart = proc[p].start
  BY <1>2 DEF FinalInv
<1>4. proc[p] # Nobody /\ proc[p].group = arg.ctrl
  BY <1>1, <1>2 DEF GroupInv, Ours, Nobody
<1>. QED BY <1>1, <1>3, <1>4 DEF Matches, Alive, StartTime, Members

\* A group without members, or without living ones, leaves nothing of the tree.
LEMMA GroupGone == ASSUME TypeOK, GroupInv, Living(arg.ctrl) = {} PROVE AllGone
<1>1. ASSUME NEW p \in Pids, Ours(p), proc[p].alive PROVE FALSE
  <2>1. proc[p] # Nobody /\ proc[p].group = arg.ctrl
    BY <1>1 DEF GroupInv, Nobody
  <2>. QED BY <1>1, <2>1 DEF Living, Members
<1>. QED BY <1>1 DEF AllGone, Counted, Ours

LEMMA OneRootStep ==
    ASSUME TypeOK, OneRoot, Frame, Next
    PROVE  OneRoot'
<1>1. CASE Reboot
  <2>1. \A p \in Pids : proc'[p] = Nobody
    BY <1>1 DEF Reboot
  <2>. QED BY <2>1 DEF OneRoot, Nobody
<1>2. ASSUME NEW p \in Pids, RootForks(p) PROVE OneRoot'
  <2>1. child = NoPid /\ child' = p /\ \A q \in Pids : q # p => proc'[q] = proc[q]
    BY <1>2 DEF RootForks, Fork, TypeOK
  <2>2. PICK a \in Pids : Fork(p, "root", a)
    BY <1>2 DEF RootForks
  <2>3. proc'[p].kind = "root"
    BY <2>2 DEF Fork, TypeOK
  <2>. QED BY <2>1, <2>3, NoPidIsNone DEF OneRoot
<1>3. CASE child' = child
  <2>1. ASSUME NEW p \in Pids
        PROVE  /\ proc'[p].kind = "root" => p = child
               /\ proc'[p].kind = "helper" => "helper" \in Faults /\ child # NoPid
    <3>1. CASE Kept(p)
      <4>1. CASE proc'[p] = Nobody
        BY <4>1 DEF Nobody
      <4>2. CASE proc'[p] # Nobody
        BY <3>1, <4>2, Stays DEF OneRoot
      <4>. QED BY <4>1, <4>2
    <3>2. CASE Born(p)
      BY <1>3, <3>2, NoPidIsNone DEF Born, OneRoot
    <3>. QED BY <3>1, <3>2 DEF Frame
  <2>. QED BY <1>3, <2>1 DEF OneRoot
<1>. QED BY <1>1, <1>2, <1>3
         DEF Next, Command, Environment, HelperForks, StrangerForks, Exits, Reap, Tick, Spawn, Identify, Await,
             AwaitFails, IdentifyRoot, Reidentify, Begin, AskController, AskRoot, AskGroup, Term, Poll, Kill, Drain

\* The Blender of a record that stays
LEMMA FinalStays ==
    ASSUME TypeOK, RecordInv, FinalInv, Frame, rec' \in {rec, NoRecord}, Final', pc # "start",
           child' = child \/ ~AnchorAlive' \/ child' # NoPid
    PROVE  /\ Final /\ rec' = rec
           /\ AnchorAlive' => child' # NoPid
           /\ \A p \in Pids : proc'[p].kind = "root" => rec'.root = p /\ rec'.rootStart = proc'[p].start
<1>1. Final /\ rec' = rec
  BY DEF Final, NoRecord
<1>2. AnchorAlive' => child' # NoPid
  BY <1>1, DeadStays DEF FinalInv
<1>3. ASSUME NEW p \in Pids, proc'[p].kind = "root" PROVE rec'.root = p /\ rec'.rootStart = proc'[p].start
  <2>1. CASE Kept(p)
    <3>1. proc'[p] # Nobody
      BY <1>3 DEF Nobody
    <3>. QED BY <1>1, <1>3, <2>1, <3>1, Stays DEF FinalInv
  <2>2. CASE Born(p)
    BY <1>1, <1>3, <2>2, NoPidIsNone DEF Born, FinalInv, AnchorAlive
  <2>. QED BY <2>1, <2>2 DEF Frame
<1>. QED BY <1>1, <1>2, <1>3

LEMMA FinalStep ==
    ASSUME TypeOK, TypeOK', ClockInv, GroupInv, CtrlKnown, RecordInv, StartInv, OneRoot, FinalInv, Frame, Next
    PROVE  FinalInv'
<1>. SUFFICES ASSUME Final'
     PROVE  /\ pc' # "idle" => arg' = rec'
            /\ AnchorAlive' => child' # NoPid
            /\ \A p \in Pids : proc'[p].kind = "root" => rec'.root = p /\ rec'.rootStart = proc'[p].start
  BY DEF FinalInv
<1>1. CASE pc = "start"
  <2>1. rec = NoRecord
    BY <1>1 DEF RecordInv
  <2>2. rec' = rec
    BY <1>1 DEF Next, Command, Environment, RootForks, HelperForks, StrangerForks, Exits, Reap, Tick, Reboot, Spawn,
       Identify, Await, AwaitFails, IdentifyRoot, Reidentify, Begin, AskController, AskRoot, AskGroup, Term, Poll,
       Kill, Drain
  <2>. QED BY <2>1, <2>2 DEF Final, NoRecord
<1>2. CASE Identify
  <2>1. rec = NoRecord
    BY <1>2 DEF Identify, RecordInv
  <2>2. CASE Alive(arg.ctrl)
    <3>1. /\ arg' = [arg EXCEPT !.ctrlStart = StartTime(arg.ctrl)]
          /\ rec' = [arg' EXCEPT !.root = arg.ctrl, !.rootStart = arg'.ctrlStart]
      BY <1>2, <2>2 DEF Identify
    <3>2. rec'.root = rec'.ctrl
      BY <3>1 DEF TypeOK, Args
    <3>. QED BY <3>2 DEF Final
  <2>. QED BY <1>2, <2>1, <2>2 DEF Identify, Final, NoRecord
<1>3. CASE IdentifyRoot
  <2>1. ~Final
    BY <1>3 DEF IdentifyRoot, StartInv, StartPoints, Final
  <2>2. Alive(child) /\ UNCHANGED <<kernel, child>> /\ pc' = "idle"
        /\ rec' = [arg EXCEPT !.root = child, !.rootStart = StartTime(child)]
    BY <1>3, <2>1 DEF IdentifyRoot, Final
  <2>3. rec'.root = child /\ rec'.rootStart = proc[child].start /\ child \in Pids
    BY <2>2 DEF TypeOK, Args, StartTime, Alive
  <2>. QED BY <2>2, <2>3, NoPidIsNone DEF kernel, OneRoot
<1>4. CASE Reidentify \/ AwaitFails \/ Await
  BY <1>4 DEF Reidentify, AwaitFails, Await, Abandon, StartInv, StartPoints, Final
<1>5. CASE pc # "start" /\ rec' \in {rec, NoRecord} /\ (child' = child \/ child' # NoPid \/ Reboot)
            /\ (Final /\ rec' = rec /\ pc' # "idle" => arg' = rec')
  <2>1. Reboot => ~AnchorAlive'
    BY DEF Reboot, AnchorAlive, Nobody
  <2>. QED BY <1>5, <2>1, FinalStays
<1>6. ASSUME NEW o \in {"exists", "terminate"}, Begin(o)
      PROVE  pc # "start" /\ rec' = rec /\ child' = child /\ arg' = rec'
  BY <1>6 DEF Begin
<1>7. CASE AskController \/ AskRoot \/ AskGroup \/ Term \/ Poll \/ Kill \/ Drain
  <2>1. pc \notin {"start", "idle"} /\ rec' \in {rec, NoRecord} /\ child' = child /\ arg' = arg
    BY <1>7 DEF AskController, AskRoot, AskGroup, Term, Poll, Kill, Drain, Found, NotFound, Settle, Proceed
  <2>. QED BY <1>5, <2>1 DEF FinalInv
<1>8. CASE UNCHANGED <<rec, command>> /\ (child' = child \/ child' # NoPid)
  BY <1>1, <1>5, <1>8 DEF command, FinalInv
<1>9. CASE Reboot
  BY <1>5, <1>9 DEF Reboot
<1>10. ASSUME NEW p \in Pids, RootForks(p) PROVE UNCHANGED <<rec, command>> /\ child' # NoPid
  BY <1>10, NoPidIsNone DEF RootForks
<1>11. ASSUME NEW p \in Pids, Spawn(p) PROVE pc = "start"
  BY <1>11 DEF Spawn
<1>. QED BY <1>1, <1>2, <1>3, <1>4, <1>5, <1>6, <1>7, <1>8, <1>9, <1>10, <1>11
         DEF Next, Command, Environment, HelperForks, StrangerForks, Exits, Reap, Tick

\* What the history remembers
LEMMA EarlyStays ==
    ASSUME Next
    PROVE  /\ early => early'
           /\ early' => early \/ "anchor" \in Faults
<1>1. ASSUME NEW p \in Pids, Exits(p)
      PROVE  (early => early') /\ (early' => early \/ "anchor" \in Faults)
  BY <1>1, Zenon DEF Exits
<1>2. CASE UNCHANGED early
  BY <1>2, Zenon
<1>. QED BY <1>1, <1>2
         DEF Next, Command, Environment, RootForks, HelperForks, StrangerForks, Reap, Tick, Reboot, Spawn,
             Identify, Await, AwaitFails, IdentifyRoot, Reidentify, Begin, AskController, AskRoot, AskGroup, Term,
             Poll, Kill, Drain

\* Which commands turn to another Blender
LEMMA RootTurns ==
    ASSUME TypeOK, Next
    PROVE  arg'.root = arg.root \/ Reidentify \/ (\E o \in {"exists", "terminate"} : Begin(o))
<1>1. ASSUME NEW p \in Pids, Spawn(p) PROVE arg'.root = arg.root
  BY <1>1 DEF Spawn, TypeOK, Args
<1>2. CASE Identify
  BY <1>2 DEF Identify, TypeOK, Args
<1>3. CASE UNCHANGED arg
  BY <1>3
<1>. QED BY <1>1, <1>2, <1>3
         DEF Next, Command, Environment, RootForks, HelperForks, StrangerForks, Exits, Reap, Tick, Reboot, command,
             Await, AwaitFails, Abandon, IdentifyRoot, AskController, AskRoot, AskGroup, Term, Poll, Kill, Drain,
             Found, NotFound, Settle, Proceed

\* A report that stands stays true.
LEMMA VerdictStays ==
    ASSUME TypeOK, DeadInv, Frame, Next, pc # "start" \/ pc' = "start", arg'.root = arg.root,
           verdict' \in {verdict, "present", "none"}
    PROVE  verdict' \in {"gone", "absent"} => AllGone' \/ NeverNamed'
BY DeadStays, EarlyStays DEF DeadInv, NeverNamed

\* Neither supervisor nor Blender is found: nothing that counts is left, or
\* nobody ever named it.
LEMMA NotFoundGone ==
    ASSUME TypeOK, GroupInv, OneRoot, FinalInv, DeadInv, LostInv,
           pc \in {"root", "group"}, ~(Matches(arg.root, arg.rootStart) /\ arg.root \in Members(arg.ctrl))
    PROVE  AllGone \/ NeverNamed
<1>1. ~AnchorAlive /\ pc \notin {"poll", "kill", "idle"}
  BY DEF DeadInv
<1>2. SUFFICES ASSUME ~AllGone, ~NeverNamed PROVE FALSE
  OBVIOUS
<1>3. "anchor" \in Faults /\ Final
  BY <1>1, <1>2 DEF LostInv
<1>. QED BY <1>1, <1>2, <1>3, RootFound

\* SIGKILL
LEMMA SignalGone == ASSUME TypeOK, GroupInv, Signal(Living(arg.ctrl)) PROVE AllGone'
<1>1. ASSUME NEW p \in Pids, Ours(p)', proc'[p].alive PROVE FALSE
  <2>1. proc'[p] = IF p \in Living(arg.ctrl) THEN [proc[p] EXCEPT !.alive = FALSE] ELSE proc[p]
    BY DEF Signal, Strike
  <2>2. p \in Living(arg.ctrl) => proc[p] \in Processes
    BY DEF Living, TypeOK, Nobody
  <2>3. p \notin Living(arg.ctrl) /\ proc'[p] = proc[p]
    BY <1>1, <2>1, <2>2 DEF Processes
  <2>4. proc[p] # Nobody /\ proc[p].group = arg.ctrl
    BY <1>1, <2>3 DEF GroupInv, Ours, Nobody
  <2>. QED BY <1>1, <2>3, <2>4 DEF Living, Members
<1>. QED BY <1>1 DEF AllGone, Counted, Ours

LEMMA DeadStep ==
    ASSUME TypeOK, GroupInv, CtrlKnown, RecordInv, OneRoot, FinalInv, DeadInv, LostInv, Frame, Next
    PROVE  DeadInv'
<1>1. CASE UNCHANGED command
  BY <1>1, DeadStays, VerdictStays DEF command, DeadInv
<1>2. ASSUME NEW p \in Pids, Spawn(p) PROVE DeadInv'
  BY <1>2 DEF Spawn, DeadInv
<1>3. CASE Reboot \/ AwaitFails \/ Reidentify \/ (\E o \in {"exists", "terminate"} : Begin(o))
  BY <1>3 DEF Reboot, AwaitFails, Reidentify, Abandon, Begin, DeadInv
<1>4. CASE Identify \/ Await \/ IdentifyRoot
  <2>1. pc # "start" /\ pc' \notin {"root", "group", "drain", "start"} /\ verdict' = verdict
    BY <1>4 DEF Identify, Await, IdentifyRoot
  <2>2. arg'.root = arg.root
    BY <1>4 DEF Identify, Await, IdentifyRoot, TypeOK, Args
  <2>. QED BY <2>1, <2>2, VerdictStays DEF DeadInv
<1>5. CASE AskController
  <2>1. pc = "controller" /\ UNCHANGED kernel
    BY <1>5 DEF AskController
  <2>2. CASE Matches(arg.ctrl, arg.ctrlStart)
    <3>1. pc' \in {"idle", "term"} /\ (verdict' = verdict \/ verdict' = "present")
      BY <1>5, <2>2 DEF AskController, Found, Settle, Proceed
    <3>2. arg' = arg
      BY <1>5, <2>2 DEF AskController, Found, Settle, Proceed
    <3>. QED BY <2>1, <3>1, <3>2, VerdictStays DEF DeadInv
  <2>3. CASE ~Matches(arg.ctrl, arg.ctrlStart)
    <3>1. pc' = "root" /\ verdict' = verdict /\ arg' = arg
      BY <1>5, <2>3 DEF AskController, Proceed
    <3>2. ~AnchorAlive
      BY <2>1, <2>3, CtrlFound DEF RecordInv
    <3>3. ~AnchorAlive'
      BY <2>1, <3>2, DeadStays
    <3>. QED BY <2>1, <3>1, <3>3, VerdictStays DEF DeadInv
  <2>. QED BY <2>2, <2>3
<1>6. CASE AskRoot \/ AskGroup
  <2>1. pc \in {"root", "group"}
    BY <1>6 DEF AskRoot, AskGroup
  <2>2. CASE NotFound
    <3>1. AllGone \/ NeverNamed
      <4>1. ~(Matches(arg.root, arg.rootStart) /\ arg.root \in Members(arg.ctrl))
        BY <1>6, <2>2 DEF AskRoot, AskGroup, NotFound, Found, Settle, Proceed
      <4>. QED BY <2>1, <4>1, NotFoundGone
    <3>2. pc' = "idle" /\ arg' = arg
      BY <2>2 DEF NotFound, Settle
    <3>. QED BY <2>1, <3>1, <3>2, DeadStays, EarlyStays DEF DeadInv, NeverNamed
  <2>3. CASE Proceed("group") \/ Proceed("term") \/ Settle("present")
    <3>1. pc' \in {"group", "term", "idle"} /\ (verdict' = verdict \/ verdict' = "present") /\ arg' = arg
      BY <2>3 DEF Proceed, Settle
    <3>2. pc' = "group" => ~AnchorAlive'
      BY <2>1, DeadStays DEF DeadInv
    <3>. QED BY <2>1, <3>1, <3>2, VerdictStays DEF DeadInv
  <2>. QED BY <1>6, <2>2, <2>3 DEF AskRoot, AskGroup, Found
<1>7. CASE Term \/ Poll \/ Kill \/ Drain
  <2>0. pc \in {"term", "poll", "kill", "drain"}
    BY <1>7 DEF Term, Poll, Kill, Drain
  <2>1. CASE Living(arg.ctrl) = {} /\ pc' = "idle"
    <3>1. AllGone
      BY <2>1, GroupGone
    <3>. QED BY <2>0, <2>1, <3>1, DeadStays DEF DeadInv
  <2>2. CASE pc = "drain" /\ pc' = "idle"
    BY <2>2, DeadStays DEF DeadInv
  <2>3. CASE pc' \in {"poll", "kill"} /\ verdict' = verdict /\ arg' = arg
    BY <2>0, <2>3, VerdictStays DEF DeadInv
  <2>4. CASE Signal(Living(arg.ctrl)) /\ pc' = "drain"
    BY <2>4, SignalGone DEF DeadInv
  <2>5. Members(arg.ctrl) = {} => Living(arg.ctrl) = {}
    BY DEF Living
  <2>. QED BY <1>7, <2>1, <2>2, <2>3, <2>4, <2>5 DEF Term, Poll, Kill, Drain, Settle, Proceed
<1>. QED BY <1>1, <1>2, <1>3, <1>4, <1>5, <1>6, <1>7
         DEF Next, Command, Environment, RootForks, HelperForks, StrangerForks, Exits, Reap, Tick

\* A final record goes only when a stop has found the tree gone.
LEMMA FinalGoes == ASSUME TypeOK, RecordInv, StartInv, Final, Next PROVE Final' \/ verdict' = "gone"
<1>1. pc \notin StartPoints
  BY DEF StartInv, Final
<1>2. CASE AskController \/ AskRoot \/ AskGroup \/ Term \/ Poll \/ Kill \/ Drain
  BY <1>2 DEF AskController, AskRoot, AskGroup, Term, Poll, Kill, Drain, Found, NotFound, Settle, Proceed, Final
<1>3. CASE UNCHANGED rec
  BY <1>3 DEF Final
<1>. QED BY <1>1, <1>2, <1>3
         DEF Next, Command, Environment, RootForks, HelperForks, StrangerForks, Exits, Reap, Tick, Reboot, Spawn,
             Identify, Await, AwaitFails, IdentifyRoot, Reidentify, Begin, StartPoints

\* What takes a supervisor's life
LEMMA AnchorDies ==
    ASSUME TypeOK, OneRoot, Frame, Next, AnchorAlive, ~AnchorAlive'
    PROVE  \/ AllGone' \/ Term \/ Kill
           \/ "anchor" \in Faults /\ Final'
           \/ "anchor" \in Faults /\ early' /\ ~Final /\ UNCHANGED <<pc, arg>>
<1>1. ASSUME NEW p \in Pids, Exits(p)
      PROVE  \/ AllGone'
             \/ "anchor" \in Faults /\ Final'
             \/ "anchor" \in Faults /\ early' /\ ~Final /\ UNCHANGED <<pc, arg>>
  <2>0. proc' = [q \in Pids |-> IF q = p THEN [proc[q] EXCEPT !.alive = FALSE] ELSE proc[q]]
    BY <1>1 DEF Exits, Strike
  <2>1. proc[p].kind = "anchor"
    <3>1. PICK a \in Pids : proc[a].kind = "anchor" /\ proc[a].alive
      BY DEF AnchorAlive
    <3>2. a # p => proc'[a] = proc[a]
      BY <2>0
    <3>. QED BY <3>1, <3>2 DEF AnchorAlive
  <2>2. CASE child = NoPid
    <3>1. ASSUME NEW q \in Pids, Ours(q)', proc'[q].alive PROVE FALSE
      <4>1. proc[p] \in Processes
        BY <1>1 DEF Exits, TypeOK, Nobody
      <4>2. q # p
        BY <2>0, <3>1, <4>1 DEF Processes
      <4>3. proc'[q] = proc[q]
        BY <2>0, <4>2
      <4>4. proc[q].kind = "anchor"
        BY <2>2, <3>1, <4>3, NoPidIsNone DEF OneRoot, Ours
      <4>. QED BY <3>1, <4>3, <4>4 DEF AnchorAlive
    <3>. QED BY <3>1 DEF AllGone, Counted, Ours
  <2>3. CASE child # NoPid
    <3>1. "anchor" \in Faults /\ UNCHANGED <<rec, pc, arg>>
      BY <1>1, <2>1, <2>3 DEF Exits, command
    <3>2. ~Final => early'
      BY <1>1, <2>1, <2>3, Zenon DEF Exits, Final
    <3>. QED BY <3>1, <3>2 DEF Final
  <2>. QED BY <2>2, <2>3
<1>2. CASE \A a \in Pids : proc[a].kind = "anchor" /\ proc[a].alive => proc'[a] = proc[a]
  BY <1>2 DEF AnchorAlive
<1>3. ASSUME NEW p \in Pids, NEW kind, NEW g, Fork(p, kind, g)
      PROVE  \A a \in Pids : proc[a].kind = "anchor" /\ proc[a].alive => proc'[a] = proc[a]
  BY <1>3 DEF Fork, Available, Nobody, TypeOK
<1>4. ASSUME NEW p \in Pids, Reap(p)
      PROVE  \A a \in Pids : proc[a].kind = "anchor" /\ proc[a].alive => proc'[a] = proc[a]
  BY <1>4 DEF Reap, TypeOK
<1>5. CASE Reboot
  BY <1>5 DEF Reboot, AllGone, Counted, Nobody
<1>6. CASE UNCHANGED proc
  BY <1>2, <1>6
<1>. QED BY <1>1, <1>2, <1>3, <1>4, <1>5, <1>6
         DEF Next, Command, Environment, RootForks, HelperForks, StrangerForks, Tick, Spawn, kernel,
             Identify, Await, AwaitFails, IdentifyRoot, Reidentify, Begin, AskController, AskRoot, AskGroup, Poll, Drain

\* No Blender comes where there is none and none can be started.
LEMMA ChildlessStays ==
    ASSUME TypeOK, Childless, Frame, Next, pc # "start"
    PROVE  Childless'
<1>1. ASSUME NEW p \in Pids, proc'[p].kind = "root", proc'[p].alive PROVE FALSE
  <2>1. CASE Kept(p)
    <3>1. proc'[p] # Nobody
      BY <1>1 DEF Nobody
    <3>2. proc'[p] = proc[p]
      BY <1>1, <2>1, <3>1 DEF Kept, TypeOK, Processes, Nobody
    <3>. QED BY <1>1, <3>2 DEF Childless
  <2>2. CASE Born(p)
    BY <1>1, <2>2 DEF Born, Childless, AnchorAlive
  <2>. QED BY <2>1, <2>2 DEF Frame
<1>2. child' # NoPid \/ ~AnchorAlive'
  <2>1. ASSUME NEW p \in Pids, RootForks(p) PROVE child' # NoPid
    BY <2>1, NoPidIsNone DEF RootForks
  <2>2. CASE Reboot
    BY <2>2 DEF Reboot, AnchorAlive, Nobody
  <2>3. CASE child' = child
    BY <2>3, DeadStays DEF Childless
  <2>. QED BY <2>1, <2>2, <2>3
           DEF Next, Command, Environment, HelperForks, StrangerForks, Exits, Reap, Tick, Spawn, Identify, Await,
               AwaitFails, IdentifyRoot, Reidentify, Begin, AskController, AskRoot, AskGroup, Term, Poll, Kill, Drain
<1>. QED BY <1>1, <1>2 DEF Childless

\* Without Blender and supervisor, and where supervisors may be killed, no
\* process that counts is left.
LEMMA ChildlessGone ==
    ASSUME OneRoot', Childless', ~AnchorAlive', "anchor" \in Faults
    PROVE  AllGone'
BY DEF OneRoot, Childless, AnchorAlive, AllGone, Counted, OneFault

LEMMA GoneChildless == ASSUME AllGone PROVE Childless
BY DEF AllGone, Counted, Childless, AnchorAlive

LEMMA GoneChildlessNext == ASSUME AllGone' PROVE Childless'
BY DEF AllGone, Counted, Childless, AnchorAlive

LEMMA LostStep ==
    ASSUME TypeOK, GroupInv, RecordInv, StartInv, OneRoot, OneRoot', LostInv, DeadInv, DeadInv', PassedInv, Frame, Next
    PROVE  LostInv'
<1>. SUFFICES ASSUME ~AnchorAlive', pc' \notin {"poll", "kill"}
     PROVE  AllGone' \/ ("anchor" \in Faults /\ (Final' \/ NeverNamed'))
  BY DEF LostInv
<1>0. verdict' = "gone" \/ pc' = "drain" => AllGone' \/ ("anchor" \in Faults /\ NeverNamed')
  <2>1. pc' = "drain" => AllGone'
    BY DEF DeadInv
  <2>2. verdict' = "gone" => AllGone' \/ NeverNamed'
    BY DEF DeadInv
  <2>3. NeverNamed' => "anchor" \in Faults
    BY EarlyStays DEF NeverNamed, PassedInv
  <2>. QED BY <2>1, <2>2, <2>3
<1>1. ASSUME NEW p \in Pids, Spawn(p) PROVE FALSE
  BY <1>1 DEF Spawn, Fork, TypeOK, AnchorAlive
<1>2. CASE Term \/ Kill
  BY <1>0, <1>2 DEF Term, Kill, Settle, Proceed
<1>3. CASE AnchorAlive /\ ~(Term \/ Kill)
  <2>1. CASE "anchor" \in Faults /\ early' /\ ~Final /\ UNCHANGED <<pc, arg>>
    <3>1. CASE arg.root = NoPid
      BY <2>1, <3>1 DEF NeverNamed
    <3>2. CASE arg.root # NoPid
      <4>1. Childless /\ pc # "start"
        BY <2>1, <3>2 DEF PassedInv, RecordInv
      <4>. QED BY <2>1, <4>1, ChildlessStays, ChildlessGone
    <3>. QED BY <3>1, <3>2
  <2>. QED BY <1>3, <2>1, AnchorDies
<1>4. CASE ~AnchorAlive /\ pc \in {"poll", "kill"} /\ ~(Term \/ Kill)
  <2>1. Poll \/ Reboot
    BY <1>1, <1>4 DEF Next, Command, Environment, RootForks, HelperForks, StrangerForks, Exits, Reap, Tick, command,
       Identify, Await, AwaitFails, IdentifyRoot, Reidentify, Begin, AskController, AskRoot, AskGroup, Drain
  <2>2. CASE Poll
    BY <1>0, <2>2 DEF Poll, Settle, Proceed
  <2>3. CASE Reboot
    BY <2>3 DEF Reboot, AllGone, Counted, Nobody
  <2>. QED BY <2>1, <2>2, <2>3
<1>5. CASE ~AnchorAlive /\ pc \notin {"poll", "kill"}
  <2>1. pc # "start" \/ pc' = "start"
    BY <1>1 DEF Next, Command, Environment, RootForks, HelperForks, StrangerForks, Exits, Reap, Tick, Reboot, command,
       Identify, Await, AwaitFails, IdentifyRoot, Reidentify, Begin, AskController, AskRoot, AskGroup, Term, Poll,
       Kill, Drain
  <2>2. AllGone => AllGone'
    BY <2>1, DeadStays
  <2>3. CASE "anchor" \in Faults /\ Final
    BY <1>0, <2>3, FinalGoes
  <2>4. CASE "anchor" \in Faults /\ NeverNamed
    <3>1. CASE arg'.root = arg.root
      BY <2>4, <3>1, EarlyStays DEF NeverNamed
    <3>2. CASE Reidentify
      <4>1. Childless /\ pc # "start"
        BY <3>2 DEF Reidentify, PassedInv
      <4>. QED BY <2>4, <4>1, ChildlessStays, ChildlessGone
    <3>3. ASSUME NEW o \in {"exists", "terminate"}, Begin(o)
          PROVE  AllGone' \/ ("anchor" \in Faults /\ Final')
      <4>1. rec # NoRecord /\ pc = "idle" /\ rec' = rec
        BY <3>3 DEF Begin
      <4>2. ~Final => AllGone
        BY <4>1 DEF PassedInv, Resting
      <4>. QED BY <2>2, <2>4, <4>1, <4>2 DEF Final
    <3>. QED BY <3>1, <3>2, <3>3, RootTurns
  <2>. QED BY <1>5, <2>2, <2>3, <2>4 DEF LostInv
<1>. QED BY <1>2, <1>3, <1>4, <1>5

\* What is passed from one command to the next
LEMMA PassedStep ==
    ASSUME TypeOK, TypeOK', RecordInv, StartInv, OneRoot, DeadInv, DeadInv', PassedInv, Frame, Next
    PROVE  PassedInv'
<1>1. early' => "anchor" \in Faults
  BY EarlyStays DEF PassedInv
<1>2. pc' = "start" => child' = NoPid
  BY DEF PassedInv, Next, Command, Environment, RootForks, HelperForks, StrangerForks, Exits, Reap, Tick, Reboot,
     Spawn, Identify, Await, AwaitFails, Abandon, IdentifyRoot, Reidentify, Begin, AskController, AskRoot, AskGroup,
     Term, Poll, Kill, Drain, Found, NotFound, Settle, Proceed, command
<1>3. (pc' \in StartPoints => child' # arg'.ctrl) /\ (pc' \in {"identifyRoot", "reidentify"} => child' # NoPid)
  <2>1. ASSUME NEW p \in Pids, Spawn(p) PROVE pc' = "identify" /\ child' = NoPid /\ arg'.ctrl = p
    BY <2>1 DEF Spawn, PassedInv, TypeOK, Args
  <2>2. ASSUME NEW p \in Pids, RootForks(p)
        PROVE  UNCHANGED <<pc, arg>> /\ child' = p /\ (pc \in StartPoints => p # arg.ctrl)
    <3>1. UNCHANGED <<pc, arg>> /\ child' = p /\ proc[p] = Nobody
      BY <2>2 DEF RootForks, Fork, Available, command
    <3>. QED BY <3>1 DEF StartInv, Nobody
  <2>3. CASE Identify
    BY <2>3 DEF Identify, PassedInv, StartPoints, TypeOK, Args
  <2>4. CASE Await \/ IdentifyRoot
    BY <2>4 DEF Await, IdentifyRoot, PassedInv, StartPoints
  <2>5. CASE Reboot \/ AwaitFails \/ Reidentify \/ (\E o \in {"exists", "terminate"} : Begin(o))
             \/ AskController \/ AskRoot \/ AskGroup \/ Term \/ Poll \/ Kill \/ Drain
    BY <2>5 DEF Reboot, AwaitFails, Reidentify, Abandon, Begin, AskController, AskRoot, AskGroup, Term, Poll, Kill,
       Drain, Found, NotFound, Settle, Proceed, StartPoints
  <2>6. CASE UNCHANGED <<child, command>>
    BY <2>6 DEF command, PassedInv
  <2>. QED BY <2>1, <2>2, <2>3, <2>4, <2>5, <2>6, NoPidIsNone
           DEF Next, Command, Environment, HelperForks, StrangerForks, Exits, Reap, Tick
<1>4. pc' = "reidentify" \/ (arg'.root # NoPid /\ ~Final') => Childless'
  <2>1. CASE pc = "reidentify" \/ (arg.root # NoPid /\ ~Final)
    BY <2>1, ChildlessStays DEF PassedInv, RecordInv
  <2>2. CASE pc # "reidentify" /\ pc' = "reidentify"
    <3>1. IdentifyRoot
      BY <2>2 DEF Next, Command, Environment, RootForks, HelperForks, StrangerForks, Exits, Reap, Tick, Reboot,
         Spawn, Identify, Await, AwaitFails, Abandon, Reidentify, Begin, AskController, AskRoot, AskGroup,
         Term, Poll, Kill, Drain, Found, NotFound, Settle, Proceed, command
    <3>2. ~Alive(child) /\ UNCHANGED <<proc, child>> /\ child # NoPid
      BY <2>2, <3>1 DEF IdentifyRoot, PassedInv, kernel
    <3>. QED BY <3>2 DEF OneRoot, Childless, Alive
  <2>3. CASE pc # "reidentify" /\ (arg.root = NoPid \/ Final) /\ arg'.root # NoPid /\ ~Final'
    <3>1. CASE arg'.root = arg.root
      <4>1. Final /\ verdict' = "gone"
        BY <2>3, <3>1, FinalGoes
      <4>2. AllGone'
        BY <2>3, <4>1 DEF DeadInv, NeverNamed
      <4>. QED BY <4>2, GoneChildlessNext
    <3>2. CASE Reidentify
      BY <2>3, <3>2 DEF Reidentify
    <3>3. ASSUME NEW o \in {"exists", "terminate"}, Begin(o) PROVE Childless'
      <4>1. pc = "idle" /\ rec # NoRecord /\ ~Final
        BY <2>3, <3>3 DEF Begin, Final
      <4>2. AllGone
        BY <4>1 DEF PassedInv, Resting
      <4>. QED BY <4>1, <4>2, GoneChildless, ChildlessStays
    <3>. QED BY <3>1, <3>2, <3>3, RootTurns
  <2>. QED BY <2>1, <2>2, <2>3
<1>5. Resting' /\ rec' # NoRecord /\ ~Final' => AllGone'
  <2>. SUFFICES ASSUME Resting', rec' # NoRecord, ~Final' PROVE AllGone'
    OBVIOUS
  <2>1. CASE Resting /\ rec' = rec /\ ~(\E p \in Pids : Spawn(p))
    <3>1. AllGone /\ pc # "start"
      BY <2>1 DEF PassedInv, Resting, Final
    <3>. QED BY <3>1, DeadStays
  <2>2. ASSUME NEW p \in Pids, Spawn(p) PROVE FALSE
    BY <2>2 DEF Spawn, Resting
  <2>3. CASE Identify
    BY <2>3 DEF Identify, RecordInv, Resting
  <2>4. CASE IdentifyRoot
    <3>1. pc = "identifyRoot" /\ pc \in StartPoints
      BY <2>4 DEF IdentifyRoot, StartPoints
    <3>2. rec'.root = child /\ rec'.ctrl = arg.ctrl
      BY <2>4, <3>1 DEF IdentifyRoot, Resting, TypeOK, Args
    <3>. QED BY <3>1, <3>2 DEF Final, PassedInv
  <2>5. CASE Await \/ AwaitFails \/ Reidentify
    BY <2>5 DEF Await, AwaitFails, Reidentify, Abandon, Resting
  <2>6. CASE Reboot
    BY <2>6 DEF Reboot, AllGone, Counted, Nobody
  <2>7. ASSUME NEW o \in {"exists", "terminate"}, Begin(o) PROVE Resting /\ rec' = rec /\ pc # "start"
    BY <2>7 DEF Begin, Resting
  <2>8. CASE AskController \/ AskRoot \/ AskGroup
    <3>1. Resting /\ pc # "start"
      BY <2>8 DEF AskController, AskRoot, AskGroup, Found, NotFound, Settle, Proceed, Resting
    <3>2. rec' = rec
      BY <2>8 DEF AskController, AskRoot, AskGroup, Found, NotFound, Settle, Proceed
    <3>3. AllGone
      BY <3>1, <3>2 DEF PassedInv, Final
    <3>. QED BY <3>1, <3>3, DeadStays
  <2>9. CASE Term \/ Poll \/ Kill
    BY <2>9 DEF Term, Poll, Kill, Settle, Proceed, Resting
  <2>10. CASE Drain
    <3>1. AllGone /\ pc # "start"
      BY <2>10 DEF Drain, DeadInv
    <3>. QED BY <3>1, DeadStays
  <2>11. CASE UNCHANGED <<rec, command>>
    BY <2>1, <2>2, <2>11 DEF command, Resting
  <2>. QED BY <2>1, <2>2, <2>3, <2>4, <2>5, <2>6, <2>7, <2>8, <2>9, <2>10, <2>11
           DEF Next, Command, Environment, RootForks, HelperForks, StrangerForks, Exits, Reap, Tick
<1>. QED BY <1>1, <1>2, <1>3, <1>4, <1>5 DEF PassedInv

LEMMA GoneStep ==
    ASSUME IInv, GoneInv, [Next]_vars
    PROVE  GoneInv'
<1>1. CASE UNCHANGED vars
  BY <1>1 DEF vars, kernel, command, GoneInv, OneRoot, FinalInv, Final, DeadInv, LostInv, PassedInv, NeverNamed,
     Childless, Resting, AnchorAlive, AllGone, Counted
<1>2. CASE Next
  <2>1. TypeOK' /\ Frame
    BY <1>2, TypeStep, Frames DEF IInv
  <2>2. OneRoot' /\ FinalInv' /\ DeadInv'
    BY <1>2, <2>1, OneRootStep, FinalStep, DeadStep DEF IInv, GoneInv
  <2>3. LostInv' /\ PassedInv'
    BY <1>2, <2>1, <2>2, LostStep, PassedStep DEF IInv, GoneInv
  <2>. QED BY <2>2, <2>3 DEF GoneInv
<1>. QED BY <1>1, <1>2

\* What a command is sure to find is gone once it was reported so.
LEMMA GoneAlways == Spec => [](IInv /\ GoneInv)
<1>1. Init => GoneInv
  <2>. SUFFICES ASSUME Init PROVE GoneInv
    OBVIOUS
  <2>1. \A p \in Pids : proc[p] = Nobody
    BY DEF Init
  <2>2. rec = NoRecord /\ pc = "start" /\ verdict = "none" /\ child = NoPid /\ arg.root = NoPid /\ ~early
    BY Zenon DEF Init, NoRecord
  <2>3. OneRoot /\ AllGone
    BY <2>1 DEF OneRoot, AllGone, Counted, Nobody
  <2>4. ~Final
    BY <2>2 DEF Final, NoRecord
  <2>. QED BY <2>2, <2>3, <2>4 DEF GoneInv, FinalInv, DeadInv, LostInv, PassedInv, Resting, StartPoints
<1>2. IInv /\ GoneInv /\ [Next]_vars => GoneInv'
  BY GoneStep
<1>. QED BY <1>1, <1>2, Identities, PTL DEF Spec

\* No Blender and no supervisor outlives the report that its tree is gone or absent
\* (terminate_owned_tree, owned_tree_exists), supervisors that are killed from
\* outside and reboots included; but for a Blender whose supervisor was killed
\* before the start had its pid, when that start gives up (sessions.py:585).
THEOREM BlendersAreGone == Spec => []BlenderIsGone
<1>1. GoneInv => BlenderIsGone
  BY DEF GoneInv, DeadInv, AllGone, Counted, BlenderIsGone
<1>. QED BY <1>1, GoneAlways, PTL

\* Nor does any helper, with the same exception, unless supervisors are killed
\* and Blenders start processes, both.
THEOREM GoneTreesAreGone == ASSUME OneFault PROVE Spec => []GoneIsGone
<1>1. GoneInv => GoneIsGone
  BY DEF GoneInv, DeadInv, AllGone, Counted, Ours, GoneIsGone
<1>. QED BY <1>1, GoneAlways, PTL
=============================================================================
