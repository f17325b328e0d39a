----------------------------- MODULE AddonWire -----------------------------
(***************************************************************************)
(* Commands between clients and the addon inside one Blender: wire.py on   *)
(* one side, the server of vendor/addon.py on the other.  blendersessiond  *)
(* opens a connection for one command (call_addon; a probe may do so       *)
(* twice), one operation at a time because of the wire lock.  A bridge     *)
(* (the stock MCP server) keeps one connection for all its commands.       *)
(*                                                                         *)
(* A command and an answer are two fragments each: a receiver may see the  *)
(* first without the second.  Every connection has a handler thread; the   *)
(* commands run in Blender's main thread, as timers, in no fixed order.    *)
(***************************************************************************)
EXTENDS Naturals, Sequences

CONSTANTS
    Operations,  \* uses of call_addon and probe_addon
    Attempts,    \* how often each may send its command (2 for a probe)
    Bridges,     \* clients with a connection that stays
    Commands     \* how many commands a bridge sends

ASSUME SomeAttempts == Attempts \in [Operations -> Nat]
ASSUME SomeCommands == Commands \in Nat

Conns == {k \in Operations \X (1 .. 2) : k[2] <= Attempts[k[1]]} \cup (Bridges \X {1})
IsBridge(k) == k[1] \in Bridges
Numbers == 1 .. IF Commands > 1 THEN Commands ELSE 1

VARIABLES
    alive,    \* the Blender process
    running,  \* BlenderMCPServer.running, and its listening socket
    client,   \* what the client end of each connection does
    sent,     \* how many commands were sent on it
    answers,  \* the commands whose answers were taken for those sent
    toAddon,  \* fragments of commands on their way
    handler,  \* the handler thread of each connection
    buffer,   \* its local `buffer`
    command,  \* its local `command`, which its timers read when they run
    due,      \* how many timers it has registered that have not run
    main,     \* what Blender's main thread does
    toClient, \* fragments of answers on their way
    runs      \* history: how often each command was executed

clients == <<client, sent, answers>>
threads == <<handler, buffer, command, due>>
vars == <<alive, running, clients, toAddon, threads, main, toClient, runs>>

\* refused: never connected; closed: closed without a result, also after an error.
ClientPoints == {"idle", "connected", "waiting", "refused", "closed", "answered"}
HandlerPoints == {"none", "reading", "ended"}
Fragments == Numbers \X {1, 2}
Whole(n) == <<<<n, 1>>, <<n, 2>>>>
Idle == [at |-> "free"]
Busy == [at : {"running", "sending"}, conn : Conns, number : Numbers]

TypeOK ==
    /\ alive \in BOOLEAN /\ running \in BOOLEAN
    /\ client \in [Conns -> ClientPoints]
    /\ sent \in [Conns -> Nat]
    /\ answers \in [Conns -> Seq(Numbers)]
    /\ toAddon \in [Conns -> Seq(Fragments)]
    /\ handler \in [Conns -> HandlerPoints]
    /\ buffer \in [Conns -> Seq(Fragments)]
    /\ command \in [Conns -> Numbers \cup {0}]
    /\ due \in [Conns -> Nat]
    /\ main \in Busy \cup {Idle}
    /\ toClient \in [Conns -> Seq(Fragments)]
    /\ runs \in [Conns -> [Numbers -> Nat]]

Init ==
    /\ alive = TRUE /\ running = TRUE
    /\ client = [k \in Conns |-> "idle"]
    /\ sent = [k \in Conns |-> 0]
    /\ answers = [k \in Conns |-> <<>>]
    /\ toAddon = [k \in Conns |-> <<>>]
    /\ handler = [k \in Conns |-> "none"]
    /\ buffer = [k \in Conns |-> <<>>]
    /\ command = [k \in Conns |-> 0]
    /\ due = [k \in Conns |-> 0]
    /\ main = Idle
    /\ toClient = [k \in Conns |-> <<>>]
    /\ runs = [k \in Conns |-> [n \in Numbers |-> 0]]

-----------------------------------------------------------------------------
(* Clients.                                                                *)

Open(k) == client[k] \in {"connected", "waiting"}
Failed(k) == client[k] \in {"refused", "closed"}

\* The wire lock admits one operation, and a probe tries again after a failure.
MayBegin(k) ==
    /\ client[k] = "idle"
    /\ IsBridge(k) \/ /\ \A j \in Conns : Open(j) => IsBridge(j)
                      /\ k[2] = 2 => Failed(<<k[1], 1>>)

At(k, point) == client' = [client EXCEPT ![k] = point]

\* socket.create_connection: connected once the kernel has queued it; else
\* refused, or nobody takes it within the timeout.
Connect(k) ==
    /\ MayBegin(k)
    /\ \/ alive /\ running /\ At(k, "connected")
       \/ (alive /\ running => ~IsBridge(k)) /\ At(k, "refused")
    /\ UNCHANGED <<alive, running, sent, answers, toAddon, threads, main, toClient, runs>>

\* connection.sendall(request): the one command of a call; a bridge sends its
\* next one when the last was answered.
Send(k) ==
    /\ client[k] = "connected"
    /\ sent[k] < IF IsBridge(k) THEN Commands ELSE 1
    /\ sent' = [sent EXCEPT ![k] = @ + 1]
    /\ toAddon' = [toAddon EXCEPT ![k] = @ \o Whole(sent[k] + 1)]
    /\ At(k, "waiting")
    /\ UNCHANGED <<alive, running, answers, threads, main, toClient, runs>>

\* mutant: what one recv returns is taken for the answer
ReceiveOnce(k) ==
    /\ client[k] = "waiting"
    /\ toClient[k] # <<>>
    /\ answers' = [answers EXCEPT ![k] = Append(@, toClient[k][1][1])]
    /\ toClient' = [toClient EXCEPT ![k] = Tail(@)]
    /\ IF IsBridge(k) THEN At(k, "connected") ELSE At(k, "answered") \/ At(k, "closed")
    /\ UNCHANGED <<alive, running, sent, toAddon, threads, main, runs>>

\* _receive_json: fragments until they are one JSON value, which may say that
\* the command failed.
Receive(k) ==
    /\ client[k] = "waiting"
    /\ Len(toClient[k]) = 2
    /\ answers' = [answers EXCEPT ![k] = Append(@, toClient[k][1][1])]
    /\ toClient' = [toClient EXCEPT ![k] = <<>>]
    /\ IF IsBridge(k) THEN At(k, "connected") ELSE At(k, "answered") \/ At(k, "closed")
    /\ UNCHANGED <<alive, running, sent, toAddon, threads, main, runs>>

\* mutant: the connection stays open
TimeOutOpen(k) ==
    /\ ~IsBridge(k) /\ client[k] = "waiting"
    /\ At(k, "connected")
    /\ UNCHANGED <<alive, running, sent, answers, toAddon, threads, main, toClient, runs>>

\* connection.settimeout(read_timeout) expires: the connection is closed, the
\* command stays wherever it is.
TimeOut(k) ==
    /\ ~IsBridge(k) /\ client[k] = "waiting"
    /\ At(k, "closed")
    /\ UNCHANGED <<alive, running, sent, answers, toAddon, threads, main, toClient, runs>>

\* The addon closed the connection without a whole answer.
Lose(k) ==
    /\ Open(k) /\ handler[k] = "ended" /\ Len(toClient[k]) < 2
    /\ At(k, "closed")
    /\ UNCHANGED <<alive, running, sent, answers, toAddon, threads, main, toClient, runs>>

\* The MCP client ends its bridge.
BridgeLeaves(k) ==
    /\ IsBridge(k) /\ Open(k)
    /\ At(k, "closed")
    /\ UNCHANGED <<alive, running, sent, answers, toAddon, threads, main, toClient, runs>>

-----------------------------------------------------------------------------
(* The addon's threads.                                                    *)

\* _server_loop
Accept(k) ==
    /\ alive /\ running
    /\ client[k] # "idle" /\ client[k] # "refused" /\ handler[k] = "none"
    /\ handler' = [handler EXCEPT ![k] = "reading"]
    /\ UNCHANGED <<alive, running, clients, toAddon, buffer, command, due, main, toClient, runs>>

\* mutant: a timer for every recv
HandleEvery(k) ==
    /\ alive /\ handler[k] = "reading"
    /\ toAddon[k] # <<>>
    /\ \E m \in 1 .. Len(toAddon[k]) :
          LET data == buffer[k] \o SubSeq(toAddon[k], 1, m)
              parsed == {n \in Numbers : data = Whole(n)}
          IN  /\ toAddon' = [toAddon EXCEPT ![k] = SubSeq(@, m + 1, Len(@))]
              /\ buffer' = [buffer EXCEPT ![k] = IF parsed = {} THEN data ELSE <<>>]
              /\ command' = [command EXCEPT ![k] = IF parsed = {} THEN @ ELSE data[1][1]]
              /\ due' = [due EXCEPT ![k] = @ + 1]
    /\ handler' = [handler EXCEPT ![k] = IF running THEN "reading" ELSE "ended"]
    /\ UNCHANGED <<alive, running, clients, main, toClient, runs>>

\* _handle_client: one recv.  What parses is a command: it becomes the value
\* of the local variable, and a timer that will read the variable is
\* registered.  Then `running` is looked at.
Handle(k) ==
    /\ alive /\ handler[k] = "reading"
    /\ toAddon[k] # <<>>
    /\ \E m \in 1 .. Len(toAddon[k]) :
          LET data == buffer[k] \o SubSeq(toAddon[k], 1, m)
              parsed == {n \in Numbers : data = Whole(n)}
          IN  /\ toAddon' = [toAddon EXCEPT ![k] = SubSeq(@, m + 1, Len(@))]
              /\ buffer' = [buffer EXCEPT ![k] = IF parsed = {} THEN data ELSE <<>>]
              /\ command' = [command EXCEPT ![k] = IF parsed = {} THEN @ ELSE data[1][1]]
              /\ due' = [due EXCEPT ![k] = IF parsed = {} THEN @ ELSE @ + 1]
    /\ handler' = [handler EXCEPT ![k] = IF running THEN "reading" ELSE "ended"]
    /\ UNCHANGED <<alive, running, clients, main, toClient, runs>>

\* recv returns nothing: the client is gone.
HandlerEnds(k) ==
    /\ alive /\ handler[k] = "reading"
    /\ ~Open(k) /\ toAddon[k] = <<>>
    /\ handler' = [handler EXCEPT ![k] = "ended"]
    /\ UNCHANGED <<alive, running, clients, toAddon, buffer, command, due, main, toClient, runs>>

\* execute_command: what it answers, a result or an error, is not told apart.
Run(k) == runs' = [runs EXCEPT ![k][command[k]] = @ + 1]

\* execute_wrapper in the main thread, up to its answer.
Execute(k) ==
    /\ alive /\ main = Idle /\ due[k] > 0
    /\ main' = [at |-> "running", conn |-> k, number |-> command[k]]
    /\ Run(k)
    /\ UNCHANGED <<alive, running, clients, toAddon, threads, toClient>>

Writable(k) == Open(k) /\ handler[k] = "reading"

\* client.sendall: the first fragment fits; of a closed socket the wrapper
\* only prints.  The timer is not registered again.
Answer ==
    /\ alive /\ main.at = "running"
    /\ LET k == main.conn IN
       IF Writable(k)
         THEN /\ toClient' = [toClient EXCEPT ![k] = Append(@, <<main.number, 1>>)]
              /\ main' = [main EXCEPT !.at = "sending"]
              /\ UNCHANGED due
         ELSE /\ main' = Idle
              /\ due' = [due EXCEPT ![k] = @ - 1]
              /\ UNCHANGED toClient
    /\ UNCHANGED <<alive, running, clients, toAddon, handler, buffer, command, runs>>

\* mutant: the timer stays registered
FinishAgain ==
    /\ alive /\ main.at = "sending"
    /\ LET k == main.conn IN
       /\ Writable(k) => client[k] = "waiting"
       /\ toClient' = IF Writable(k) THEN [toClient EXCEPT ![k] = Append(@, <<main.number, 2>>)]
                                     ELSE toClient
    /\ main' = Idle
    /\ UNCHANGED <<alive, running, clients, toAddon, threads, runs>>

\* mutant: also to a connection that is closed
FinishWhenRead ==
    /\ alive /\ main.at = "sending"
    /\ LET k == main.conn IN
       /\ client[k] = "waiting"
       /\ toClient' = [toClient EXCEPT ![k] = Append(@, <<main.number, 2>>)]
       /\ due' = [due EXCEPT ![k] = @ - 1]
    /\ main' = Idle
    /\ UNCHANGED <<alive, running, clients, toAddon, handler, buffer, command, runs>>

\* The rest of it: blocked until the client reads, or the connection is closed.
Finish ==
    /\ alive /\ main.at = "sending"
    /\ LET k == main.conn IN
       /\ Writable(k) => client[k] = "waiting"
       /\ IF Writable(k) THEN toClient' = [toClient EXCEPT ![k] = Append(@, <<main.number, 2>>)]
                         ELSE UNCHANGED toClient
       /\ main' = Idle
       /\ due' = [due EXCEPT ![k] = @ - 1]
    /\ UNCHANGED <<alive, running, clients, toAddon, handler, buffer, command, runs>>

\* BlenderMCPServer.stop and start, from Blender's own interface: what was
\* queued and not accepted is reset, handler threads go on reading.
StopServer ==
    /\ alive /\ running
    /\ running' = FALSE
    /\ handler' = [k \in Conns |-> IF Open(k) /\ handler[k] = "none" THEN "ended" ELSE handler[k]]
    /\ UNCHANGED <<alive, clients, toAddon, buffer, command, due, main, toClient, runs>>

StartServer ==
    /\ alive /\ ~running
    /\ running' = TRUE
    /\ UNCHANGED <<alive, clients, toAddon, threads, main, toClient, runs>>

BlenderDies ==
    /\ alive
    /\ alive' = FALSE
    /\ handler' = [k \in Conns |-> IF client[k] = "idle" THEN "none" ELSE "ended"]
    /\ due' = [k \in Conns |-> 0]
    /\ main' = Idle
    /\ UNCHANGED <<running, clients, toAddon, buffer, command, toClient, runs>>

-----------------------------------------------------------------------------
ClientStep(k) == Send(k) \/ Receive(k) \/ TimeOut(k) \/ Lose(k)
ThreadStep(k) == Accept(k) \/ Handle(k) \/ HandlerEnds(k)
MainStep == (\E k \in Conns : Execute(k)) \/ Answer \/ Finish

Next ==
    \/ \E k \in Conns : Connect(k) \/ ClientStep(k) \/ BridgeLeaves(k) \/ ThreadStep(k)
    \/ MainStep
    \/ StopServer \/ StartServer \/ BlenderDies

Spec == Init /\ [][Next]_vars

\* A client that has connected goes on, and so do the addon's threads; the
\* main thread runs the timers that are due.  (A command that never returns
\* would stop it: nothing here could help.)
Fairness == /\ \A k \in Conns : WF_vars(ClientStep(k)) /\ WF_vars(ThreadStep(k))
            /\ WF_vars(MainStep)
FairSpec == Spec /\ Fairness

-----------------------------------------------------------------------------
(* Properties.                                                             *)

\* The i-th answer a client takes is that of its own i-th command, which was
\* executed: late answers of commands whose callers gave up are never taken
\* for another's.
OwnAnswer == \A k \in Conns : \A i \in 1 .. Len(answers[k]) :
                 answers[k][i] = i /\ runs[k][i] > 0

\* No command is executed twice, whatever was fragmented, retried or late.
AtMostOnce == \A k \in Conns : \A n \in Numbers : runs[k][n] <= 1

\* Every registered command is executed and let go: a client that gave up or
\* went away in the middle of its answer does not hold Blender's main thread.
TimersDrain == \A k \in Conns : due[k] > 0 ~> due[k] = 0

\* Every use of call_addon ends, whatever happens to the addon.
CallsEnd == \A k \in Conns : ~IsBridge(k) /\ Open(k) ~> ~Open(k)
=============================================================================
