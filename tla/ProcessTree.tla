---------------------------- MODULE ProcessTree ----------------------------
(***************************************************************************)
(* What processes.py knows of one Session's processes on POSIX, when the   *)
(* kernel gives pids out again: the supervisor that anchors the process    *)
(* group, Blender and its helpers in that group, and the processes of      *)
(* others that get their pids afterwards, also after a reboot.             *)
(*                                                                         *)
(* The commands of one Session Name exclude each other by its lock, so     *)
(* there is one at a time: the start, then any number of inspections       *)
(* (owned_tree_exists) and stops (terminate_owned_tree), one step per      *)
(* system call.  A process is a zombie until its parent reaps it.          *)
(***************************************************************************)
EXTENDS Naturals

CONSTANTS
    Pids,       \* the pids that there are
    NoPid,      \* no pid
    MaxTick,    \* bound on the clock ticks between two boots
    MaxBoot,    \* bound on the reboots
    Faults      \* which of the following may happen

FaultKinds == {"anchor",  \* the supervisor is killed from outside, at any time
               "helper",  \* Blender starts child processes
               "reboot"}
ASSUME KnownFaults == Faults \subseteq FaultKinds
ASSUME NoPidIsNone == NoPid \notin Pids
ASSUME ClockBounds == MaxTick \in Nat \ {0} /\ MaxBoot \in Nat

VARIABLES
    proc,     \* per pid: the process that has it
    given,    \* per pid: when it was last given out
    now,      \* the boot and the clock tick, of which the kernel makes start times
    child,    \* the pid of Blender, as the supervisor reports it
    rec,      \* the record on disk
    pc, op,   \* where the command is, and which
    arg,      \* its arguments, or the record it is making
    verdict,  \* what the last command found
    struck,   \* history: the kinds of processes that were ever signalled
    early     \* history: the supervisor was killed when its Blender was not yet recorded

kernel == <<proc, given>>
command == <<pc, op, arg, verdict>>
vars == <<kernel, now, child, rec, command, struck, early>>

Times == [boot : 0..MaxBoot, tick : 0..MaxTick]
NoTime == [boot |-> MaxBoot + 1, tick |-> 0]
Kinds == {"anchor", "root", "helper", "stranger"}
Processes == [kind : Kinds, start : Times, group : Pids, alive : BOOLEAN]
Nobody == [kind |-> "none", start |-> NoTime, group |-> NoPid, alive |-> FALSE]

\* pid and start time of the Blender and of its supervisor; a provisional
\* record has the supervisor for both
Records == [root : Pids, rootStart : Times, ctrl : Pids, ctrlStart : Times]
NoRecord == [root |-> NoPid, rootStart |-> NoTime, ctrl |-> NoPid, ctrlStart |-> NoTime]
Args == [root : Pids \cup {NoPid}, rootStart : Times \cup {NoTime},
         ctrl : Pids \cup {NoPid}, ctrlStart : Times \cup {NoTime}]

StartPoints == {"identify", "await", "identifyRoot", "reidentify"}
TermPoints == {"term", "poll", "kill", "drain"}
Points == {"start", "idle", "controller", "root", "group"} \cup StartPoints \cup TermPoints

TypeOK ==
    /\ proc \in [Pids -> Processes \cup {Nobody}]
    /\ given \in [Pids -> Times]
    /\ now \in Times
    /\ child \in Pids \cup {NoPid}
    /\ rec \in Records \cup {NoRecord}
    /\ pc \in Points /\ op \in {"exists", "terminate"}
    /\ arg \in Args
    /\ verdict \in {"none", "present", "absent", "gone", "survived"}
    /\ struck \subseteq Kinds /\ early \in BOOLEAN

Init ==
    /\ proc = [p \in Pids |-> Nobody]
    /\ given = [p \in Pids |-> [boot |-> 0, tick |-> 0]]
    /\ now = [boot |-> 0, tick |-> 1]
    /\ child = NoPid /\ rec = NoRecord
    /\ pc = "start" /\ op = "exists" /\ arg = NoRecord /\ verdict = "none"
    /\ struck = {} /\ early = FALSE

-----------------------------------------------------------------------------
(* The kernel                                                              *)

Alive(p) == p \in Pids /\ proc[p].alive
Ours(p) == proc[p].kind \in {"anchor", "root", "helper"}

\* The members of the group g, dead or alive, and those alive
Members(g) == {p \in Pids : proc[p] # Nobody /\ proc[p].group = g}
Living(g) == {p \in Members(g) : proc[p].alive}

\* Where a command has found its group and not yet sent the last signal
Committed == {"group", "term", "poll", "kill"}

\* A pid is not given out while a process or a group has it, nor twice in one
\* clock tick.  That the pids of a record do not come back in the seconds between
\* the check and the last signal is an assumption of the code.
Available(p) ==
    /\ proc[p] = Nobody /\ Members(p) = {}
    /\ given[p] # now
    /\ ~(pc \in Committed /\ p \in {arg.ctrl, arg.root})

Fork(p, kind, group) ==
    /\ Available(p)
    /\ proc' = [proc EXCEPT ![p] = [kind |-> kind, start |-> now, group |-> group, alive |-> TRUE]]
    /\ given' = [given EXCEPT ![p] = now]

\* The processes in P die of a signal; their pids stay until they are reaped.
Strike(P) == proc' = [p \in Pids |-> IF p \in P THEN [proc[p] EXCEPT !.alive = FALSE] ELSE proc[p]]

-----------------------------------------------------------------------------
(* Processes                                                               *)

\* The supervisor passes its gate once the provisional record is there.
RootForks(p) ==
    /\ child = NoPid /\ pc \notin {"start", "identify"}
    /\ \E a \in Pids : proc[a].kind = "anchor" /\ proc[a].alive /\ Fork(p, "root", a)
    /\ child' = p
    /\ UNCHANGED <<now, rec, command, struck, early>>

HelperForks(p) ==
    /\ "helper" \in Faults
    /\ \E q \in Pids : proc[q].kind = "root" /\ proc[q].alive /\ Fork(p, "helper", proc[q].group)
    /\ UNCHANGED <<now, child, rec, command, struck, early>>

\* Somebody else's process leads a new group, or joins one of its own kind.
StrangerForks(p) ==
    /\ \E g \in {p} \cup {proc[q].group : q \in {s \in Pids : proc[s].kind = "stranger"}} :
          Fork(p, "stranger", g)
    /\ UNCHANGED <<now, child, rec, command, struck, early>>

\* A supervisor ends by itself only when it has started no Blender.
Exits(p) ==
    /\ proc[p].alive
    /\ proc[p].kind = "anchor" => child = NoPid \/ "anchor" \in Faults
    /\ Strike({p})
    /\ early' = (early \/ (proc[p].kind = "anchor" /\ child # NoPid /\ rec.root = rec.ctrl))
    /\ UNCHANGED <<given, now, child, rec, command, struck>>

\* The start is the supervisor's parent and does not wait for it; until it has
\* returned, there is at most a provisional record.
Reap(p) ==
    /\ proc[p] # Nobody /\ ~proc[p].alive
    /\ proc[p].kind = "anchor" => pc = "idle" \/ rec.root # rec.ctrl
    /\ proc' = [proc EXCEPT ![p] = Nobody]
    /\ UNCHANGED <<given, now, child, rec, command, struck, early>>

Tick ==
    /\ now.tick < MaxTick
    /\ now' = [now EXCEPT !.tick = @ + 1]
    /\ UNCHANGED <<kernel, child, rec, command, struck, early>>

\* Every process ends; the clock starts anew, under a new boot id.
Reboot ==
    /\ "reboot" \in Faults /\ now.boot < MaxBoot /\ pc # "start"
    /\ now' = [boot |-> now.boot + 1, tick |-> 0]
    /\ proc' = [p \in Pids |-> Nobody]
    /\ pc' = "idle" /\ verdict' = "none" /\ child' = NoPid
    /\ UNCHANGED <<given, rec, op, arg, struck, early>>

-----------------------------------------------------------------------------
(* Identities                                                              *)

\* process_start_time: none for an absent process and for a zombie
StartTime(p) == IF Alive(p) THEN proc[p].start ELSE NoTime

\* mutant: the pid alone
MatchesPid(p, start) == Alive(p)
\* mutant: start ticks without the boot id
MatchesTicks(p, start) == Alive(p) /\ StartTime(p).tick = start.tick
Matches(p, start) == Alive(p) /\ StartTime(p) = start

-----------------------------------------------------------------------------
(* The start                                                               *)

\* spawn_detached: a new session, hence a group of its own
Spawn(p) ==
    /\ pc = "start"
    /\ Fork(p, "anchor", p)
    /\ pc' = "identify" /\ arg' = [arg EXCEPT !.ctrl = p]
    /\ UNCHANGED <<now, child, rec, op, verdict, struck, early>>

\* mutant: a supervisor without an identity is recorded
IdentifyAnyway ==
    /\ pc = "identify"
    /\ arg' = [arg EXCEPT !.ctrlStart = StartTime(arg.ctrl)]
    /\ rec' = [arg' EXCEPT !.root = arg.ctrl, !.rootStart = arg'.ctrlStart]
    /\ pc' = "await"
    /\ UNCHANGED <<kernel, now, child, op, verdict, struck, early>>

\* The provisional record, or a supervisor that is gone
Identify ==
    /\ pc = "identify"
    /\ IF Alive(arg.ctrl)
       THEN /\ arg' = [arg EXCEPT !.ctrlStart = StartTime(arg.ctrl)]
            /\ rec' = [arg' EXCEPT !.root = arg.ctrl, !.rootStart = arg'.ctrlStart]
            /\ pc' = "await"
       ELSE pc' = "idle" /\ UNCHANGED <<arg, rec>>
    /\ UNCHANGED <<kernel, now, child, op, verdict, struck, early>>

\* A launch that fails terminates its tree by what it knows of it.
Abandon(a) ==
    /\ arg' = a
    /\ op' = "terminate" /\ pc' = "controller" /\ verdict' = "none"
    /\ UNCHANGED rec

\* The supervisor reports a pid ...
Await ==
    /\ pc = "await" /\ child # NoPid
    /\ pc' = "identifyRoot"
    /\ UNCHANGED <<kernel, now, child, rec, op, arg, verdict, struck, early>>

\* ... or none in time, or an error
AwaitFails ==
    /\ pc = "await"
    /\ Abandon(arg)
    /\ UNCHANGED <<kernel, now, child, struck, early>>

\* The pid is given an identity, if by now there is a process that has it.
IdentifyRoot ==
    /\ pc = "identifyRoot"
    /\ IF Alive(child)
       THEN /\ rec' = [arg EXCEPT !.root = child, !.rootStart = StartTime(child)]
            /\ pc' = "idle"
       ELSE pc' = "reidentify" /\ UNCHANGED rec
    /\ UNCHANGED <<kernel, now, child, op, arg, verdict, struck, early>>

\* The except block asks once more.
Reidentify ==
    /\ pc = "reidentify"
    /\ Abandon([arg EXCEPT !.root = child, !.rootStart = StartTime(child)])
    /\ UNCHANGED <<kernel, now, child, struck, early>>

-----------------------------------------------------------------------------
(* owned_tree_exists and terminate_owned_tree                              *)

\* An inspection or a stop; its arguments come from the record.
Begin(o) ==
    /\ pc = "idle" /\ rec # NoRecord
    /\ op' = o /\ arg' = rec /\ verdict' = "none"
    /\ pc' = "controller"
    /\ UNCHANGED <<kernel, now, child, rec, struck, early>>

\* The command returns; when the tree is gone, its caller forgets the record.
Settle(v) ==
    /\ verdict' = v /\ pc' = "idle"
    /\ rec' = IF v = "gone" THEN NoRecord ELSE rec
    /\ UNCHANGED <<op, arg>>

Proceed(p) == pc' = p /\ UNCHANGED <<rec, op, arg, verdict>>

Found == IF op = "exists" THEN Settle("present") ELSE Proceed("term")
NotFound == Settle(IF op = "exists" THEN "absent" ELSE "gone")

AskController ==
    /\ pc = "controller"
    /\ IF Matches(arg.ctrl, arg.ctrlStart) THEN Found ELSE Proceed("root")
    /\ UNCHANGED <<kernel, now, child, struck, early>>

\* mutant: only the supervisor speaks for the tree
AskNobody ==
    /\ pc = "root"
    /\ NotFound
    /\ UNCHANGED <<kernel, now, child, struck, early>>

\* _process_in_group: the identity first ...
AskRoot ==
    /\ pc = "root"
    /\ IF Matches(arg.root, arg.rootStart) THEN Proceed("group") ELSE NotFound
    /\ UNCHANGED <<kernel, now, child, struck, early>>

\* ... then getpgid, which answers for a zombie, too
AskGroup ==
    /\ pc = "group"
    /\ IF arg.root \in Members(arg.ctrl) THEN Found ELSE NotFound
    /\ UNCHANGED <<kernel, now, child, struck, early>>

\* Some of those that get the signal die of it.
Signal(dying) ==
    /\ Strike(dying)
    /\ struck' = struck \cup {proc[p].kind : p \in Living(arg.ctrl)}

\* killpg(SIGTERM); ProcessLookupError when the group is gone
Term ==
    /\ pc = "term"
    /\ IF Members(arg.ctrl) = {}
       THEN Settle("gone") /\ UNCHANGED <<proc, struck>>
       ELSE (\E dying \in SUBSET Living(arg.ctrl) : Signal(dying)) /\ Proceed("poll")
    /\ UNCHANGED <<given, now, child, early>>

\* _process_group_exists, until nobody lives or five seconds have passed
Poll ==
    /\ pc = "poll"
    /\ \/ Living(arg.ctrl) = {} /\ Settle("gone")
       \/ Proceed("kill")
    /\ UNCHANGED <<kernel, now, child, struck, early>>

\* killpg(SIGKILL)
Kill ==
    /\ pc = "kill"
    /\ IF Members(arg.ctrl) = {}
       THEN Settle("gone") /\ UNCHANGED <<proc, struck>>
       ELSE Signal(Living(arg.ctrl)) /\ Proceed("drain")
    /\ UNCHANGED <<given, now, child, early>>

\* "The Session process group survived SIGKILL."
Drain ==
    /\ pc = "drain"
    /\ Settle(IF Living(arg.ctrl) = {} THEN "gone" ELSE "survived")
    /\ UNCHANGED <<kernel, now, child, struck, early>>

Command ==
    \/ \E p \in Pids : Spawn(p)
    \/ Identify \/ Await \/ AwaitFails \/ IdentifyRoot \/ Reidentify
    \/ \E o \in {"exists", "terminate"} : Begin(o)
    \/ AskController \/ AskRoot \/ AskGroup \/ Term \/ Poll \/ Kill \/ Drain

Environment ==
    \/ \E p \in Pids : RootForks(p) \/ HelperForks(p) \/ StrangerForks(p) \/ Exits(p) \/ Reap(p)
    \/ Tick \/ Reboot

Next == Command \/ Environment

Spec == Init /\ [][Next]_vars

-----------------------------------------------------------------------------
(* Properties                                                              *)

\* No process of others is ever signalled, whatever has become of the pids in
\* a record since it was written: README.md, "stops only the Blender process
\* trees it launched" (_terminate_posix_group signals a number).
StrangersUntouched == "stranger" \notin struck

\* The one case in which a command does not know of Blender: a launch that is
\* given up without Blender's pid, and whose supervisor was killed after it had
\* started Blender. Nothing then names that Blender (finish_posix_start).
NeverNamed == early /\ arg.root = NoPid

\* Neither Blender nor its supervisor runs of a Session whose tree a command has
\* reported as gone or absent, and which is then forgotten or replaced
\* (terminate_owned_tree may return without a signal), unless Blender was never
\* named to any command.
BlenderIsGone ==
    verdict \in {"gone", "absent"} /\ ~NeverNamed =>
        \A p \in Pids : ~(proc[p].kind \in {"anchor", "root"} /\ proc[p].alive)

\* Nor do its helpers; not so when a supervisor was killed from outside, for
\* owned_tree_exists then asks for Blender only.
GoneIsGone ==
    verdict \in {"gone", "absent"} /\ ~NeverNamed => \A p \in Pids : ~(Ours(p) /\ proc[p].alive)

\* A tree that owned_tree_exists reports is the Session's: a stale record
\* never keeps a name, although its pids live on in other processes.
PresentIsOwn ==
    [][verdict' = "present" /\ verdict # "present" => \E p \in Pids : Ours(p)]_vars
=============================================================================
