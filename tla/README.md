# A TLA+ model of blendersessiond

blendersessiond starts, inspects, calls and stops named Blender *Sessions* on
one machine. There is no daemon process: every CLI invocation is a short-lived
client that coordinates with all others through files and advisory locks in a
state directory, and through the processes it leaves behind. This directory
holds TLA+ modules that model it, TLC configurations that check them, and
TLAPS proofs about them. `PROJECT.json` maps every definition to the source
lines it models.

## 1. The system

| component | state | operations | talks to |
|---|---|---|---|
| Sessions (`sessions.py`) | per Session Name: `session.json`, `launching.json`, `ownership.json`, log files; per state root: the directory of names | `start`, `status` (one, all), `call`, `stop`; port allocation; the identity fence | locks, process control, the addon socket |
| Locks (`locking.py`) | `.lock` and `.wire.lock` per name, `.ports.lock` per state root, held by a process until it closes the file or dies | acquire (blocking), release | kernel |
| Process control (`processes.py`) | none of its own; process identities (pid and start time), process groups | spawn the supervisor, open its gate and await Blender's pid, match an identity, tree exists, terminate the tree | supervisors, Windows keepers, the OS |
| POSIX supervisor (`posix_launcher.py`) | gate and bootstrap files in the name's directory; it leads the process group | wait for the gate (15 s), start Blender, report, anchor the group | client that spawned it, through files only |
| Windows keeper (`windows_job.py`) | job object, gate, ready and bootstrap files | assign a gated launcher to a kill-on-close job, start Blender, wait until the job is empty | client, through files only |
| Wire (`wire.py`) | none | one JSON command per connection, probe, unsaved-changes query, timeouts | addon socket |
| Addon server (`vendor/addon.py`, server part) | listening socket, client threads, main-thread timers | bind once, parse, execute on the main thread, answer | wire clients |
| Bootstrap (`blender_bootstrap.py`) | none | register the addon in a factory-startup Blender | addon |
| MCP bridge (`mcp_serve.py`) | none | inspect once, then become an MCP server bound to the port | Sessions |
| Setup owner (`setup_owner.py`) | per attempt: request, `.dispatch`, receipt, `.stop`, terminal (all create-once files), attempt lock | launch, status, stop of one staged setup on Windows | keeper process |
| Setup keeper (`windows_setup_process.py`) | suspended process in a job, bounded output | create suspended, publish the receipt, resume, wait, terminate, publish the terminal | setup owner, through files only |
| Path authority (`windows_path_authority.py`) | open handles | guard every path component against replacement | setup owner |
| State directory (`state.py`), discovery (`discovery.py`), doctor (`doctor.py`), CLI (`cli.py`) | none | resolve and check the root, choose a Blender, report, print and map exit codes | everything |
| Addon command handlers (rest of `vendor/addon.py`), `scripts/`, `website/`, CI | - | vendored, tooling, assets | - |

### How the parts interact

A `start` takes the name lock, inspects the Session under that name, takes
`.ports.lock`, inspects every *other* Session without its name lock (only its
wire lock while it probes the socket) to choose a port, spawns a supervisor,
records the launch provisionally, touches a gate file, and polls a bootstrap
file for Blender's pid; then it replaces the provisional record by the final
one. `call` and `stop` compare the caller's Session ID with the record before
they inspect. `stop` signals the process group the record names. Locks are
always taken in the order name, ports, wire, and the kernel releases them when
a client dies; files stay as they are.

### What is hard

* Interleaving: operations of several clients on several names; a port scan
  that reads other Sessions while their processes die.
* Crash: a client can die between any two file operations. The next client
  finds whatever files, processes and half-started supervisors were left.
* Handshake through files: gate and bootstrap paths belong to the *name*, not
  to the launch; the supervisor tests the gate and removes it in two steps.
* Time: 15 s waits on both sides of the gate, 5 s between SIGTERM and SIGKILL,
  read timeouts on the socket while Blender goes on executing.
* Truthful answers: "process tree is gone", "healthy", the terminal of a setup
  attempt must hold although the thing reported on runs concurrently.

### What makes each component correct

* Sessions: live Sessions have distinct ports; a record is never left without
  its Ownership marker; an operation acts on the Session the caller named and
  on no replacement; "stopped" means the tree is gone; no live tree is
  forgotten; a name has one live tree; a health answer and a call reach the
  recorded Blender; every operation ends.
* Supervisor and keeper: Blender starts only after its record is durable, and
  at most once for each launch.
* Setup owner: one keeper for each attempt, no resume without a durable receipt,
  terminals are written once and true (`tree_gone` implies the tree is gone,
  `not_resumed` that the script never ran), every stop and every give-up ends with one.
* Wire and addon: a response answers the request of its connection; one
  command executes at most once.

## 2. The modules

| module | models | depends on |
|---|---|---|
| `SessionRegistry` | which Session each name holds, and which launch has a process tree: the abstract specification | - |
| `SessionLifecycle` | clients, locks, files, supervisors and Blenders of a POSIX state root; implements `SessionRegistry` while no client dies | `SessionRegistry` |
| `SetupRecords` | the terminal record of a Windows setup and the rule that accepts one | - |
| `SetupAttempt` | a setup attempt as its client sees it: the abstract specification | `SetupRecords` |
| `SetupOwner` | the owner's launch, status and stop against the keeper, through create-once files and the attempt lock; implements `SetupAttempt` | `SetupRecords`, `SetupAttempt` |
| `SetupOutput` | the two drained streams of a setup and the record they go into | - |
| `WindowsJob` | the launches of one name on Windows: command, keeper, launcher, Blender, Job, handshake files | - |
| `ProcessTree` | one Session's processes as `processes.py` sees them: pids that are given out again, zombies, a reboot | - |
| `AddonWire` | connections between clients and the addon: fragments, timeouts, handler threads, main-thread timers | - |
| `SessionLifecycleProofs`, `SessionTreeProofs`, `SessionAnswerProofs`, `SessionRegistryProofs` | the proofs about `SessionLifecycle`, each going on from the invariants of the one before | |
| `ProcessTreeProofs`, `SetupOwnerProofs`, `WindowsJobProofs`, `AddonWireProofs` | the other proofs, each beside its module | |
| `MCSessionLifecycle`, `MCSetupOwner`, `MCWindowsJob`, `MCProcessTree`, `MCAddonWire` | the constants of TLC's instances | |

`SessionLifecycle` composes the Session operations with the supervisor, the locks
and a coarse socket (who answers on a port); `AddonWire` opens that socket up.
`WindowsJob` replaces the supervisor by the Windows keeper for one name, since
ports, scans and locks are the same code on both systems. `ProcessTree` opens up what
`SessionLifecycle` takes for granted, that a recorded identity names one process. What
is left out is in section 10.

## 3. The model of the Session lifecycle

`SessionLifecycle` composes four parts of the code, because none of their
properties holds of one alone: the operations of `sessions.py`, the process
control of `processes.py`, the supervisor of `posix_launcher.py` and the locks of
`locking.py`.

### State

| variable | code |
|---|---|
| `session[n]`, `launching[n]` | `session.json` and `launching.json` of name n: the record, or `NoRec`. A record has the launch (session id, owner token and controller pid at once), the Blender whose pid it names (0 in a provisional record, whose pid is the controller's) and the MCP port |
| `marker[n]` | `ownership.json`: the launch whose token it holds |
| `gate[n]`, `boot[n]` | `.posix-launch.gate` and `.launch-bootstrap.json`. They belong to the name, and two supervisors of one name share them |
| `nameLock`, `wireLock`, `portsLock` | the holders of `.lock`, `.wire.lock` and `.ports.lock` |
| `sup[l]`, `root[l]`, `helpers` | supervisor l, the Blender it started, and whether its group has other live members |
| `plan[l]` | the name and port the environment of launch l carries |
| `foreign` | ports bound by programs that blendersessiond did not launch |
| `pc[c]`, `job[c]` | where client c is in its operation, and the local variables that survive a step |
| `starts`, `ops`, `faults` | counters that the bounds limit |

One start mints one session id, one owner token, one gate waiter and one group,
all from fresh random or kernel values, so one launch number stands for them.

### Actions

A client runs `start`, `status`, `call` or `stop` as the sequence of steps the
code makes: each file operation, lock operation, process query and signal is a
step of its own, so that every other process may run between any two of them.

* `LockName`, `Fence`, `Read`, `Tree`, `LockWire`, `Probe` and `Decide` are the
  way in: the lock, `_require_current_session_identity`, and
  `_inspect_unlocked` in its reads. `Read` takes the record and asks whether the
  recorded process matches; `Tree` asks whether the tree exists, and classifies.
  The marker is read in `Tree`; the code reads it a little earlier, with the
  record, which is the same because whoever writes a marker holds the name lock
  and the ports lock and the inspecting client holds one of the two.
* `Scan`, `Tally` and `Alloc` are `_allocate_port`, which runs the same inspection
  on every other name *without* its name lock.
* `ClearSession` ... `ClearBoot` are `_remove_record_files`, one unlink each.
* `Prep`, `Spawn`, `Identify`, `Mark`, `Provisional`, `OpenGate`, `AwaitPid` or
  `AwaitFails`, `BlenderIdentity`, `Mark` again, `RecordSession`, `Promote` and
  `Finally` are `_launch_and_record`. Its except block is the path from
  `AwaitFails`, `Identify`, `BlenderIdentity` and `Interrupt` to `TermAbsent` or
  `TermSignal`, `Kill`, the removal and `Finally`.
* `Call` and `Reply` are the connection and the answer (or its timeout).
* `SupSeesGate` and `SupTakesGate` are `gate.exists` and `gate.unlink`;
  `SupExpires`, `SupSpawns`, `SupCannotSpawn`, `SupReports` and `SupCannotReport` are
  the rest of the supervisor.
* `RootBinds`, `RootExits`, `HelperStarts` and `HelperEnds` are Blender:
  its addon binds once, and stays mute when it cannot (a user who moves the
  server to another port from Blender's interface is section 10's).

Faults are listed in `FaultKinds` and each run names those it allows: a client
dies at any step (its locks go, its files stay), an exception leaves the try
block of a launch at any step, a supervisor is killed from outside, a group
survives SIGKILL, Blender starts children, another program binds a port.

### What is abstracted

* A client that fails in an operation without changing state (a timeout of a
  probe, a failed discovery, a refused name) goes straight to `unlock`.
* Process identities are unique: a pid that has been reused never matches. Why
  that is so, also for the group that a stop signals by its number, is the subject of
  `ProcessTree`, below.
* `write_text` of the bootstrap file is atomic: a partial file is polled again
  (`processes.py:142`), exactly like an absent one.
* A record whose name or token is not the expected one has one outcome,
  `~marked`, as in the code, whose two tests lead to the same inspections.
* Parsing is a question of one bit: is the port within the valid range? Other
  malformed records are never written by this program.
* The directories of a name exist from the start, and a second exception inside
  the except block goes to the finally block.
* A Blender does not leave its process group, and `wait_for_process_start_time`
  fails only for a process that is gone.

### The registry

`SessionRegistry` is what is left of a Session when clients, locks and files are taken away: a
name holds a launch with a port, in phase `starting` or `ready`, and a launch has a process
tree that is not begun, up or over. `Register` needs a free name, a
new launch and a port that no Session with a process has; `StartBlender` needs a registered
launch, `Forget` a tree that is over.

| registry | in `SessionLifecycle` |
|---|---|
| `registry[n]` | the record an inspection would read (`Entered`): `ready` with a `session.json`, `starting` with only a `launching.json` |
| `spent` | launches that had a supervisor, have no record, and are in no start that has still to record them (`Spent`) |
| `life[l]` | `over` when the process group has no member left, else `up` once Blender was started, else `none` (`LifeOf`) |

Neither `status` nor `call` is an action of the registry: an inspection changes nothing
in it. A step that writes the marker, opens the gate, scans a port or takes a lock
is a stutter. `RegistryInv` says what follows from the abstract actions alone.

### Pids that come back

`ProcessTree` has one Session, whose commands follow each other under the lock of its
name: the start up to its final record or its failure, then inspections
(`owned_tree_exists`) and stops (`terminate_owned_tree`), a system call at a time.
Around it live the supervisor, Blender, its helpers, and processes of others,
which get any pid that is free.

| variable | code |
|---|---|
| `proc[p]` | what `/proc` tells of pid p: kind (history), start time, group, zombie or not |
| `given[p]`, `now` | when the pid was last given out; boot id and clock tick |
| `child` | the pid in the bootstrap file |
| `rec` | the record: two pids with two start times; in a provisional one both are the supervisor's |
| `pc`, `op`, `arg` | the system call to come, inspection or stop, and the four parameters |
| `verdict`, `struck` | what the last command found, and the kinds of processes ever signalled |
| `early` | history: the supervisor was killed while its Blender was in no final record |

A stop asks for two identities and signals a *number*, up to ten seconds long.
The kernel gives a pid out again only when neither a process nor a group has it; that it
does so twice within one clock tick is excluded (Linux hands pids out in a
cycle), and so is, as an assumption (`Available`), that a pid of the record comes back
between the check and the last signal. Everything else is left to the kernel: a pid may
come back after a death, after a stop has failed, or under a new boot id with the same
number of ticks. A stranger may have Blender's pid before the start has identified it; then
the record names a stranger, and only the question for its group keeps it from standing for the tree.
A zombie has no identity, as in `_linux_process_start_time`, but still a group. The start
never reaps its supervisor (no `wait`), which keeps the group's number taken until
the start returns. Windows has no part in this module, and macOS differs in how
zombies are told (`waitpid`), not in the decisions.

The fault `anchor` kills the supervisor at any time, also between Blender's birth and
the report of its pid (`posix_launcher.py:39-54`). Commands do not die here: that is
`SessionLifecycle`'s subject.

## 4. The model of a Windows setup

`SetupOwner` is `setup_owner.py` against `windows_setup_process.py`. They share the
attempt's directory and nothing else.

| variable | code |
|---|---|
| `request`, `receipt`, `terminal` | `request.json`, `launch-receipt.json`, `terminal.json`: create-once records |
| `dispatched`, `stopAsked` | the markers `.dispatch` and `.stop` |
| `lock` | the holder of the attempt's `.lock` |
| `expired` | the deadline of the request has passed |
| `pc[c]`, `answered` | where caller c is in its command, and which terminals callers were given |
| `kpc`, `verdict`, `draft` | where the keeper is in `_run_keeper`, its locals, and the terminal it is about to write |
| `root`, `child`, `doomed`, `ran` | the root process, a descendant, whether the Job was terminated or closed, whether the root was ever resumed |

A step is one critical section, cut after every durable write; a poll loop is one
read that may answer or give up at its bound whenever it is scheduled. So
`LaunchAccept`, `LaunchDispatch`, `LaunchSpawn`, `LaunchAwait`, `GiveUp`, `GiveUpPublish`
are `launch`; `Status`, `LossDecide`, `PublishLost` are `status`; `Stop`, `StopAck`,
`PublishNoAck`, `StopWait`, `StopKill`, `Reconcile`, `PublishCancelled` are `stop`;
`KeeperStage` ... `KeeperClose` are `_run_keeper` with its two waits and its
except clause. Faults: a caller is interrupted (`callerCrash`), or only a launch is, before
it touches `.stop` (`launchCrash`: this is how `.dispatch` comes to stand without a keeper), the keeper dies at any step, a
process cannot be asked (`query`), is not created (`spawn`), the staged script was
changed (`stage`), no suspended process (`launch`), `io`, a Job that does not drain
(`drain`), and a record that cannot be written (`write`). The last one is modelled where
the code has a path of its own for it, the receipt and the keeper's final
terminal; elsewhere a failed write ends a command as an interruption does.
`ExitCode` keeps the one numeric edge of the code: exit code 259 reads as "still
active", of a process that lives and of one that returned it.

`SetupAttempt` is what a client may rely on: one request for ever, a
receipt before the script runs, the script at most once, and one terminal, readable and
true. `ImplementsAttempt` maps `owned` to `receipt` and `run` to what can be seen of root, child and
`ran`. A terminal settles the attempt in one abstract step, whoever publishes it.

`SetupOutput` is the part of the keeper that `SetupOwner` leaves to a truncation flag:
`Drain` keeps what fits of each read, `DrainEnds` closes a stream, and `KeeperRecords` encodes both
into a record with a bound of its own. Sizes are in units of 8 KiB, which divide
all three bounds of the code.

## 5. The model of a Windows Session

`WindowsJob` follows one name through several launches. Commands of a name
exclude each other by its lock, so there is one command at a time; a command may
die at any step, and the next one meets the keepers and files it left.

| variable | code |
|---|---|
| `record` | `launching.json` or `session.json`: its keeper, and its Blender once it has one |
| `ready`, `gate`, `boot` | `.launch-bootstrap.ready`, `.gate` and `.json`, which belong to the name |
| `pc`, `cur`, `found` | the command, its launch, and the Blender whose pid it read |
| `keeper[l]`, `launcher[l]`, `blender[l]` | the three processes of launch l |
| `inJob[l]`, `closed` | which of them are in the Job, and the Jobs whose last handle is closed |
| `claimed` | the records a stop reported as gone |

`StartBegin` ... `StartFinally` are `start_session` and `_launch_and_record` with
`spawn_windows_job_keeper` and `finish_windows_job_start`; `Stop` ... `StopRemove` are
`stop_session` with `terminate_owned_tree`; `KeeperClears` ... `KeeperCloses` are
`windows_job.main`; `LauncherWaits`, `LauncherSpawns`, `LauncherReports` are `_launch_child`.
`KeeperEnds` closes the Job with the keeper's handles, and `JobDies` is Windows ending
what was in it. A process of a closed Job no longer runs (`LauncherRuns`,
`BlenderRuns`), although it may still be listed.

Faults: a process is not created, the launcher cannot be put into its Job, `taskkill` fails,
a keeper cannot ask its Job, a keeper dies at any step, and a command dies or leaves its
start by an exception at any step. `StartInterrupted` is that exception: the path through the
except clause of `_launch_and_record`, or out of it when it comes there. `KeeperKilled` is a keeper's end
from outside, which the code itself may bring about: a start that waited fifteen seconds for
readiness, and a stop, end the keeper whatever it is doing.

A launcher is born outside the Job and assigned by the next call. A keeper that
ends in between leaves a launcher outside every Job, which may take the name's next gate. The
history variable `orphans` has these launchers, and the properties except them by name: what
they start survives a stop, and no more than that goes wrong (section 8).

One fault is kept apart from the others: `unrecorded`, a command that breaks off (dies, or
by an exception) at `identify` or `provisional`, between the keeper's birth and the
first record. No later command knows that keeper, and at `identify` not even the except clause does
(`sessions.py:579`), so that another one is started beside it, for which the two
share gate and bootstrap file. With `unrecorded` TLC finds all five safety properties
but `TypeOK` violated. A
second assumption is that `sys.executable` is the interpreter itself: the executable of a
Windows virtual environment is a redirector with a child of its own, which could be
born before the assignment. Failed file writes of the keeper end in its except clause like a failed
assignment, which is modelled. Ports, ownership markers and the socket are as in section 3.

## 6. The model of the wire

`AddonWire` is `wire.py` on one side and `BlenderMCPServer` on the other.
A connection is an operation with its try number, or a bridge. blendersessiond
sends one command on a connection and only one operation is under way at a time
(the wire lock); `probe_addon` may connect a second time after a failure. A bridge
(the stock MCP server) keeps its connection and sends its commands one after the
other.

| variable | code |
|---|---|
| `client[k]`, `sent[k]`, `answers[k]` | the client end: its point in `call_addon`, the commands it sent, the answers it took |
| `toAddon[k]`, `toClient[k]` | the bytes on their way, two fragments to a message |
| `handler[k]`, `buffer[k]`, `command[k]` | the thread of `_handle_client` and its locals; the timers share `command` |
| `due[k]` | timers registered and not finished |
| `main` | what Blender's main thread is doing |
| `alive`, `running` | Blender, and `BlenderMCPServer.running` |
| `runs[k][n]` | history: how often command n of k was executed |

`Handle` is one `recv` with everything that follows it: the parse, the assignment to
`command`, the timer, the test of `running`. `Execute`, `Answer` and `Finish` are
`execute_wrapper`, cut where `sendall` may block on a client that does not
read. `TimeOut` closes a connection and leaves its command where it is.
`StopServer` and `StartServer` come from Blender's own interface at any time.
That the main thread runs one timer at a time is a fact about Blender
(`bpy.app.timers`), marked external.

## 7. The runs

| run | asks | bounds |
|---|---|---|
| `SessionCore` | the safety properties of a system in which clients are not killed: unique ports, the fence, true stops, no orphan, one tree per name, gated launches, own answers, and that it implements `SessionRegistry` | 2 clients, 2 names, 2 launches, 4 operations, a helper |
| `SessionFaults` | which safety properties survive one fault of any kind at any step: types, unique ports, marked records, the fence | 2 clients, 2 names, 2 launches, 3 operations, 1 fault |
| `SessionTermination` | every operation ends | 2 clients, 2 names, 2 launches, 2 operations, 1 crash |
| `SessionCrash` (violation) | is a stop true after a crash? | 1 client, 1 name, 2 launches, 3 operations, 1 crash |
| `SessionForeignPort` (violation) | is a healthy Session the recorded one? | 1 client, 1 name, 1 launch, 1 foreign listener |
| `SessionPortRange` (violation) | can a written record be read back? | 1 client, 2 names, one port left |
| `SetupSafety` | terminals are true of the tree and told once, a stop holds, the protocol implements `SetupAttempt` | 3 callers with any commands any number of times, 2 requests, every fault any number of times |
| `SetupLiveness` | a stop or give-up ends with a terminal; the tree outlives neither deadline nor keeper | 2 callers, 1 request, a keeper that may die, launches that may die before they touch `.stop` |
| `WindowsSafety` | Blenders are born in their Job, records name their own Blender, stops are true, nothing is left behind, one tree at a time, keepers without work end | 2 launches of one name, any number of commands, every fault but `unrecorded` |
| `TreeIdentity` | no signal reaches a stranger, no stranger stands for a tree, no Blender outlives the report that it is gone | 3 pids, 2 boots, clock ticks up to 2, a supervisor that may be killed at any time, a Blender with children |
| `AddonWire` | answers are the client's own, nothing runs twice, timers and calls end | a probe with 2 tries, a bridge with 2 commands |
| `SetupOutput` (violation) | does the record tell what the script did? | the code's bounds: streams of 3 units, a record of 32, reads of at most 2 |

Why the bounds suffice. *Sessions*: two names are enough for a scan to meet a foreign
Session in every state, and two launches for every hazard between an old and a new
launch of one name or between two names. Two clients
cover every pair of operations, since a name lock admits one client and a
third would only wait for the same locks. Four operations admit start, start,
stop and call in any order and overlap; three suffice under a fault for start, fault,
recovery and a probe of the result, as every fault is at most one operation old when
the next one meets it. Two valid ports make both the lucky and the exhausted
allocation happen. *Setup*: nothing is bounded but the number of callers and requests. Three
callers are a launch that gives up, a stop and a status at the same keeper; a
second request makes the refusal of other bytes happen. *Windows*: two launches are an
old keeper or launcher of the name and a new one, an orphan's included; commands are unbounded (three launches, 1.3 million states under symmetry, pass the same invariants). *Process tree*: three pids are a supervisor, its Blender and a stranger, and each of them may have the pid of
either other one later; two ticks let a pid come back under the same boot, two boots with
the same ticks under another, and a helper may be the last of the three. *Wire*: two
fragments make a message arrive in part; two tries make a late answer meet a retry; two
commands on one connection make the shared variable of the timers change under
them; the probe and the bridge compete for the main thread.
`Clients`, `Names`, `Callers` and `Pids` are symmetric in the safety runs: the models only
compare their elements. Runs with liveness properties use no symmetry.

Properties that do not hold under faults are checked where they hold:
`StopMeansGone` and `NoOrphans` of a POSIX Session are false after a crash (`SessionCrash`), and after a
supervisor is killed from outside, because `owned_tree_exists` then asks for two
processes only (section 8). `SessionFaults` therefore checks what the code keeps true
under every fault.

**Deadlock.** It is checked in the Session runs, where `Quiet` lets a behaviour end only when
all operations are spent and every client is idle. The other systems really may
stop: when the setup is settled, all launches are spent, Blender is dead or the bounded clock has run out.

**Fairness.**

* `SessionLifecycle`: weak fairness of each client's own steps and
  nothing of supervisors, Blenders or faults. A client is a
  process the kernel schedules, and each of its waits other than for a lock has a
  deadline (15 s for the gate and for an identity, 5 s after SIGTERM, the socket
  timeouts), so that its step may be taken whatever the others do. A blocked client
  has no enabled step; weak fairness suffices because the operations of the others
  are finitely many, so that a lock it waits for is finally free for good or taken by it.
* `SetupOwner`: a command in progress and the keeper go on (every poll has a bound, and every section
  under the lock is finite), the kernel ends a doomed Job, and the deadline comes. A crash
  is never forced: a launch that dies is one behaviour among others, and the stop that comes
  afterwards settles what it left. No
  client has to call again and no script has to end by itself. A stop is settled although
  its caller may wait for the lock: sections other than the keeper's are taken at most
  once by each command in progress.
* `WindowsJob`: each keeper, each launcher and the end of a closed Job; commands
  owe nothing, and `KeeperFollows` holds when they die. The launcher's
  wait has its own fifteen seconds.
* `AddonWire`: a client that has connected goes on (it has a read timeout), so do the
  handler threads and Blender's main thread. A bridge reads while it waits for an answer and may leave. That a command
  returns is assumed: a script that never ends holds Blender's main thread, and no
  code here can help.

## 8. What the runs show beyond "no error"

Four disagreements between the code and what it says of itself, each with a run
whose counterexample is short enough to read; then four that the properties of a
passing run except by name, or that its faults exclude.

* **A gate taken by a left-over supervisor** (`SessionCrash`). A start dies between
  spawning its supervisor and writing `launching.json`. The supervisor waits for
  a gate *path* that the next start of that name opens for its own supervisor; whichever
  polls first takes it. The new record then pairs the new controller with
  a Blender of the old group. When the new supervisor's 15 seconds
  have passed, `owned_tree_exists` asks for a controller that is gone and for a
  root that is not in the controller's group: it says no, although the recorded
  Blender runs and is healthy; `stop` signals nothing and reports the process
  tree gone (`sessions.py:409`).
* **Health is whoever answers** (`SessionForeignPort`). No port is ever tested when it is
  allocated. A listener of another program on it makes a Session healthy whose
  own addon could not bind, and calls are executed there.
* **Ports without an upper limit** (`SessionPortRange`). `_allocate_port` counts
  past 65535, `_read_record` refuses what it finds, and the Session is neither
  stoppable nor reclaimable; every later start of another name fails in its scan.
* **Two bounds that do not fit** (`SetupOutput`). Both streams of a setup may hold 24 KiB,
  and a control character takes six bytes in ASCII JSON: 288 KiB, where `_encode_record`
  accepts 256. A script that exited with code zero and lost no output is recorded as
  failed, without code and output.
* **A gate taken by a left-over launcher**. The Windows form of the same
  cause: readiness, gate and bootstrap files belong to the name. A keeper killed
  between `Popen` and `assign_process`, also by its own start after fifteen seconds without
  readiness, leaves a launcher outside every Job. It takes the gate of the next launch and
  starts a Blender there; once the recorded keeper is gone, `terminate_owned_tree`
  returns at once (`processes.py:237`), and stop forgets a Blender that runs. This happens in
  `WindowsSafety`; its properties except the launchers in `orphans`. Without that
  exception TLC finds each of `BornInJob`, `RecordsOwnBlender`, `StopMeansGone`, `NothingLeft` and `OneTree`
  violated. What the run shows is that the damage ends there: no other launch is touched.
* **A keeper that nobody knows**. A Windows start that dies, or is interrupted, between the
  creation of its keeper and `launching.json` (`sessions.py:515-537`) leaves a keeper without a
  record; an exception in `wait_for_process_start_time` reaches the except clause without the
  keeper's identity, and that terminates nobody and removes the files. It is the fault `unrecorded`, which `WindowsSafety` leaves
  out; with it the same five properties fail.
* **A Blender without a name**. On POSIX a supervisor killed between Blender's start and the report of its
  pid lets `finish_posix_start` run into its bound; `terminate_owned_tree(-1, "")` finds
  neither supervisor nor root, returns, and the record goes while Blender runs
  (`sessions.py:585`). `NeverNamed` is this case, and `BlenderIsGone` excepts nothing else; without it
  TLC finds an eight-state counterexample at once.
* **A tree without a name**. The supervisor anchors the group and is the first of the two
  processes `owned_tree_exists` asks for; the recorded Blender is the other. When both are
  gone, the supervisor killed from outside, a child of Blender that still runs in
  the group is nobody's: the Session is reclaimable, stop sends no signal and forgets the
  record. `TreeIdentity` therefore checks `BlenderIsGone`; with `GoneIsGone` in its place, TLC finds
  the survivor in a few seconds.

## 9. What is proved

The theorems hold for every value of the constants under the assumptions the modules
state: bounds are naturals, faults are of the listed kinds, and the values that
stand for "none" are none of the others. Each argument goes action by action, one
step per conjunct of an inductive invariant that TLC checked first.

### SessionLifecycle

`SessionLifecycleProofs` holds for every number of clients and names, every bound and every
set of faults. The assumptions are those of `SessionLifecycle`: ports
and bounds are naturals, faults are of the listed kinds, and `Free` and `NoName` are
no client and no name.

* `TypeCorrect`: `Spec => []TypeOK`. `TypeOK` alone is not inductive: that
  `session.json` receives a record with a Blender needs to know that a
  client at `record` holds one. `TypeInv` adds `JobsOK`, what the local variables of a
  client hold at each point of its operation.
* `MarkersCorrect`: `Spec => []RecordMarked`, under every fault. A record is
  written after its marker and removed before it; that this order protects the
  record needs three facts that `FileInv` states together: a client past `lock`
  holds the lock of its name (`NameLocks`), what it knows of the name's files
  at each point (`Knows`), and that marker and *each* of the two records agree
  (`Agrees`), not only the one an inspection would read.
* `FenceCorrect`: `Spec => []FencedActor`, under every fault, from the same `FileInv`:
  after the fence the record in hand is the current record and has the expected
  id, and only the holder of the name lock could replace it. A scan of another
  client, which runs without that lock, writes nothing.

* `PortsCorrect`: `Spec => []UniqueLivePorts`, under every fault. This is the
  longest argument, since the scan looks at Sessions that go on living. `ProcInv`
  says that launch numbers are minted once and each supervisor starts one
  Blender; from it every step satisfies `Fades`: what was born and is gone does not
  come back. `PortInv` then has: the clients that scan, launch, signal or remove hold the
  ports lock (`PortsLocks`), so that nobody else writes a record meanwhile; records and
  reports name processes that were born (`BornInv`), so that a Session found dead
  stays dead; both records of one launch carry one port (`SamePort`), so that removing
  the first of them revives nothing under another port; and what the scan knows
  (`Scanned`): each Session it is done with has its port among the occupied ones or is not
  live, and the port chosen, which the environment of the launch carries, is no live
  Session's until it is recorded. That a Session
  without a matching root and without a tree cannot be live needs its marker,
  hence `FileInv`.

The proofs go action by action. `Moves` says what a client's step leaves alone;
`OthersKnow` concludes that the knowledge of the other clients and the agreement of the
other names survive, so that each `Know...` lemma looks at one client and one name.

### The process trees of Sessions

`SessionTreeProofs` assumes `Calm`: `Faults` has no `crash`, `interrupt`, `supkill` and
`unkillable`. This is what the run `SessionCore` assumes of a small instance, and
`SessionCrash` shows that it cannot be dropped: a client killed between
`spawn_detached` and the provisional record leaves a supervisor that nobody names.
`helper` and `foreign` stay allowed, and clients, names, launches and ports are
of any number.

`CalmInv` is inductive beside the invariants above. For each launch: a live
supervisor is recorded under its name or its start is at `identify`, `mark` or
`provisional` (`Named`), one that has seen the gate or can see it is recorded (`Ready`),
and a group without its supervisor is at the point of a SIGKILL (`Residue`). For each client:
where it knows that its name has no live supervisor (`Over`: between `prep` and `spawn`,
after a SIGTERM, and whenever an inspection said `dead` or `not-found`), and what the handshake files
and the records of its name are (`HandFacts`). The gate is why these are needed together: it
belongs to the name and not to the launch, so that a supervisor left over
from an earlier start could take the gate of the next one. It
does not, because a start removes the gate before it spawns, opens it only after its own
record, and finds its name without a live supervisor.

* `TreesAreSingle` (`SingleTree`), `TreesAreOwned` (`NoOrphans`), `StopsAreComplete`
  (`StopMeansGone`), `RecordsAreFirst` (`DurableBeforeLaunch`, an action property).

### Who answers

`SessionAnswerProofs` assumes `Calm` too. A client connects to a port number after
its inspection is over: the answer is the Session's own only if the Session is not
replaced meanwhile and no other Blender of blendersessiond can listen there.
`AnswerInv` has the facts this needs:

* `Settled`: a recorded Session keeps the supervisor that anchors its group until a
  client is at the point of ending it, and a `launching.json` is there only while its
  start is in progress;
* `Anchored`: a start that has read, or may read, the pid of its Blender has its supervisor;
* `Unconfirmed`: a start that gives its launch up has not recorded it for good;
* `Unasked`: an inspection on its way to the socket has no result yet.

`AnchorsStay` proves that they are invariant. With `PortInv` they leave the recorded
Blender as the only one of this program at the port asked: `ServersAreOwn`, which holds also
when strangers bind ports. From it follow `HealthIsTrue` (`HealthIsOwn`) and
`CallsReachOwn` (`CallReachesOwn`), two action properties. They assume besides that
`foreign` is not among the faults; `SessionForeignPort` is the counterexample without that.

### The refinement of the registry

`RegistryKept` is `Spec => ImplementsRegistry` for a calm system. For each step of the detailed
system a lemma names the abstract step or shows that there is none:

* `Provisional` is `Register`: the name has no record and the launch is recorded nowhere
  (`OwnLaunch`), and its port is that of no Session with a process (`PortInv`, `LiveOrKilled`);
* `SupSpawns` is `StartBlender`: the launch is recorded, since whoever opened the gate had
  recorded it (`Ready` of `CalmInv`), and not finally, since a final record belongs to
  a supervisor that has reported its Blender (`Settled`);
* `RecordSession` is `Confirm`, with the launch and the port of the provisional record;
  `Promote`, which removes that one, is a stutter, since a `session.json` is read first;
* the unlink of `_remove_record_files` that leaves the name without a record is `Forget`:
  what the client knows of the tree (`CalmInv`) says that it is over;
* the end of the last process of a group, by itself or by a signal, is `EndTree`; a start that
  finds its supervisor gone before it has a record takes the step `GiveUpLaunch`.

`FadeStep` and `StillStep` cover the rest. `Calm` cannot be dropped: a client killed between
`spawn_detached` and the record leaves a launch that is neither recorded nor over.

`SessionsHold` (`Spec => []Registry!RegistryInv`) carries back what the abstract actions
preserve: each of them keeps `Promises`, which is `RegistryInv` name by name and launch by
launch, and every step is one of them or a stutter.

### ProcessTree

For any pids, clocks and faults of `ProcessTree`. A pid's process is the last one that got it (`ClockInv`), so that a start
time that matches names the process recorded and no other (`CtrlKnown`, `RootKnown`), provided the
record was right: during the start the supervisor is there, dead or alive (`StartInv`), and the
pid Blender had may already be a stranger's, which then is in another group. The Session's
processes share one group (`GroupInv`), which no stranger can join or lead while a member has it; `SoleInv`
carries that over the steps between the check and the last signal, when the members die. `Identities` proves the
whole, and from it follow `TypeCorrect`, `StrangersAreSafe` (`StrangersUntouched`) and
`PresenceIsOwn` (`PresentIsOwn`, an action property).

A second invariant, `GoneInv`, says that what outlives its supervisor has a final record
that names it (`LostInv`, `FinalInv`), so that a command finds it or there is nothing left, unless
the supervisor was killed early. Then the start still gets Blender's pid and records it, or finds it dead (`PassedInv`),
or it gives up without the pid, which is `NeverNamed`. From
it follow `BlendersAreGone` (`BlenderIsGone`), with that one exception, and `GoneTreesAreGone`
(`GoneIsGone`) for the whole tree when `Faults` does not have both `anchor` and `helper`;
section 8 says why neither can be dropped.

### SetupOwner

Under every fault and for any callers and requests. The invariant of
`SetupOwnerProofs` says who holds the lock and where (`LockInv`), what a caller knows
at each point (`CallerInv`), what the keeper knows (`KeeperInv`), that the root is born
suspended and resumed once after the receipt (`TreeInv`), that a draft is true of the tree
(`DraftInv`), that the published terminal still is (`TerminalInv`) and that nobody was told
another (`StoryInv`, `NothingTold`). The heart is the pair of facts that a caller
at `publishNoAck`, who claims that the script never ran, excludes a keeper at the resume
(`stopAsked` is set, `.stop` is read after the receipt and before the resume, under the lock)
and that a terminal with `tree_gone` is published only by a keeper that
has drained its Job, or before any keeper was dispatched.

* `TypeCorrect`, `TerminalTells` (`NeverRanIsTrue`, and with its parts `TreeGoneTold`,
  `SuccessTold` and `ReadableTold` the properties `TreeGoneIsTrue`, `SuccessIsTrue` and
  `TerminalReadable`), `OneStoryTold`, `StopIsFinal` (an action property).
* `Refinement`: `Spec => ImplementsAttempt`. A step that publishes a terminal is a
  `Settle`; the receipt, the resume, the first request and the end of the last process
  are the other abstract steps; all else stutters.

### WindowsJob

Under `KeepersRecorded`: `unrecorded` is not among the faults. Section 8 shows
that this assumption cannot be dropped. Keepers may die or be killed at every step, and starts may be
interrupted from their first record on; the theorems say what holds of every launcher that
was not left outside its Job (`orphans`). The invariant has what runs at each point of a keeper and what of it is in the Job
(`TreeInv`), that a readiness mark or a gate excludes any keeper that has not yet
assigned its launcher (`FilesInv`), what the command knows (`CommandInv`), that a living keeper
is in the record or about to be (`RecordInv`), and that what was claimed is gone (`ClaimedInv`). From it follow `RunsUnderKeeper`
and `OneKeeper`, and from these, with `JobInv` (who is in its Job), the theorems `TypeCorrect`, `EveryBlenderInJob`, `RecordIsOwn`,
`StopIsComplete`, `NothingBehind` and `OneTreeAtATime`.

### AddonWire

For any clients, attempts and commands. `CommandInv` says where the one command
of a connection is (not taken, taken in part, taken), `TimerInv` that one timer at most is
due and that it will execute the last command sent, once, `AnswerInv` what of the answer
is on its way and `TakenInv` what was taken. The shared variable
`command` is harmless because a client sends its next command only after the last
answer, which the last timer wrote: this is the fact the proof turns on. `FragmentFacts`, `AnswerFacts` and `RecvFacts`
are the lemmas about sequences. Theorems: `TypeCorrect`, `AnswersAreOwn`, `ExecutedOnce`.

### Only model-checked

* Liveness: `OperationsEnd`, `StopSettles`, `TreeEnds`, `KeeperFollows`, `TimersDrain`,
  `CallsEnd`. The prover does not handle fairness.

## 10. Not modelled

* **Pid reuse within a stop.** That a recorded pid comes back between the identity check
  and the SIGKILL, at most ten seconds later, is excluded by assumption (`Available` of
  `ProcessTree`). The code has no means against it (no pidfd).
* **A server moved by hand.** A user of Blender's interface may stop the addon's server and start one on
  the port the scene names (`vendor/addon.py:2593-2627`), also another Session's.
  `RootBinds` binds once, on the port of the launch, and `StartServer` of `AddonWire` brings the same server
  back. `HealthIsOwn` and `CallReachesOwn` rest on this, as on the absence of
  foreign listeners.
* **Steps taken as one.** The two unlinks at the end of a start (`DropHandshake`), and
  a supervisor's unlink of the gate with the state it writes next (`SupTakesGate`): no other step
  reads the one without the other to a different effect. An exception in
  `_handle_client` that is not one of parsing ends its thread as a closed connection does. A keeper
  that cannot write its not-resumed terminal ends in its except clause, whose states the
  other faults reach.
* **Identities on macOS, by `ps` and on Windows**: how they are read. `ps` knows only
  seconds, so that the assumption of one pid per tick is stronger there.
* **`inspect_all_sessions`**: a sequence of single inspections, each of them `status`.
* **Parsing** of records, requests and arguments, and the text of messages: a
  malformed record has one outcome, and this program writes none, but for the one of
  `SessionPortRange`.
* **Path authority**: handles, reparse points and access lists of Windows, each a
  call whose answer only the system knows.
* **State directory, discovery, doctor, CLI**: without state; where their outcome matters it is
  a nondeterministic choice (a discovery that fails, a name that is refused).
* **Bootstrap**: straight-line registration; its effect is `RootBinds`.
* **MCP bridge**: one inspection and an exec. The bridge binds to one port for its life,
  which ADR 0003 accepts; the server it becomes is not in the repository and is an
  external client of `AddonWire`.
* **Addon command handlers, scripts, website, CI**: vendored code that works on scenes, tooling and
  assets.
