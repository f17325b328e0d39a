-------------------------- MODULE SessionRegistry --------------------------
(***************************************************************************)
(* What blendersessiond promises about its Sessions, whatever clients,     *)
(* supervisors and Blenders do concurrently: src/CONTEXT.md says what a    *)
(* Session, its Session Name, its MCP port and its Ownership are.  A name  *)
(* holds one Session at a time, each launch is a Session once, Blender     *)
(* starts only for a Session that is registered, live Sessions do not      *)
(* share a port, and a Session is forgotten only when its process tree is  *)
(* gone.  SessionLifecycle is shown to implement this specification.       *)
(***************************************************************************)
EXTENDS Naturals

CONSTANTS Names,     \* Session Names
          Launches   \* what start may make: one supervisor and one Blender each

VARIABLES registry,  \* per name: the Session it holds, or NoEntry
          spent,     \* launches that are no Session any more, or never were one
          life       \* per launch: its process tree

registryVars == <<registry, spent, life>>

Entry   == [launch : Launches, port : Nat, phase : {"starting", "ready"}]
NoEntry == [launch |-> 0, port |-> 0, phase |-> "none"]

RegistryTypeOK ==
    /\ registry \in [Names -> Entry \cup {NoEntry}]
    /\ spent \subseteq Launches
    /\ life \in [Launches -> {"none", "up", "over"}]  \* "up": Blender was started

Holds(n)      == registry[n] # NoEntry
Registered(l) == \E n \in Names : Holds(n) /\ registry[n].launch = l

RegistryInit ==
    /\ registry = [n \in Names |-> NoEntry]
    /\ spent = {}
    /\ life = [l \in Launches |-> "none"]

\* A start registers its launch under a free name, on a port that no Session
\* with a process has.
Register(n) ==
    /\ ~Holds(n)
    /\ registry'[n] \in [launch : Launches \ spent, port : Nat, phase : {"starting"}]
    /\ registry' = [registry EXCEPT ![n] = registry'[n]]
    /\ ~Registered(registry'[n].launch)
    /\ \A m \in Names : Holds(m) /\ life[registry[m].launch] # "over"
           => registry[m].port # registry'[n].port
    /\ UNCHANGED <<spent, life>>

\* Blender starts, once, for a launch that is registered and not yet ready.
StartBlender(n) ==
    /\ Holds(n) /\ registry[n].phase = "starting"
    /\ life[registry[n].launch] = "none"
    /\ life' = [life EXCEPT ![registry[n].launch] = "up"]
    /\ UNCHANGED <<registry, spent>>

\* The start succeeds: its Blender was started.
Confirm(n) ==
    /\ Holds(n) /\ registry[n].phase = "starting"
    /\ life[registry[n].launch] # "none"
    /\ registry' = [registry EXCEPT ![n].phase = "ready"]
    /\ UNCHANGED <<spent, life>>

\* The last process of a launch ends, by itself or by a stop.
EndTree(l) ==
    /\ life[l] # "over"
    /\ life' = [life EXCEPT ![l] = "over"]
    /\ UNCHANGED <<registry, spent>>

\* A Session is forgotten: its tree is gone.
Forget(n) ==
    /\ Holds(n)
    /\ life[registry[n].launch] = "over"
    /\ registry' = [registry EXCEPT ![n] = NoEntry]
    /\ spent' = spent \cup {registry[n].launch}
    /\ UNCHANGED life

\* A start gives up a launch it never registered.
GiveUpLaunch(l) ==
    /\ l \notin spent /\ ~Registered(l)
    /\ life[l] = "over"
    /\ spent' = spent \cup {l}
    /\ UNCHANGED <<registry, life>>

\* Every action changes what it is about; TLC, asked that first, is done sooner
\* with the many steps of an implementation that change nothing here.
RegistryNext ==
    \/ \E n \in Names : registry'[n] # registry[n] /\ (Register(n) \/ Confirm(n) \/ Forget(n))
    \/ life' # life /\ \E n \in Names : StartBlender(n)
    \/ \E l \in Launches : life'[l] # life[l] /\ EndTree(l)
    \/ spent' # spent /\ \E l \in Launches : GiveUpLaunch(l)

\* What follows for Sessions and Blenders: a launch belongs to one name, a
\* Blender that runs belongs to a registered Session, a ready Session had its
\* Blender started, live Sessions are on ports of their own, and what is spent
\* is over and stays away.
OneName     == \A m, n \in Names :
                  Holds(m) /\ Holds(n) /\ registry[m].launch = registry[n].launch => m = n
BlenderHeld == \A l \in Launches : life[l] = "up" => Registered(l)
ReadyBegun  == \A n \in Names : Holds(n) /\ registry[n].phase = "ready" => life[registry[n].launch] # "none"
OwnPorts    == \A m, n \in Names :
                  Holds(m) /\ Holds(n) /\ m # n
                  /\ life[registry[m].launch] # "over" /\ life[registry[n].launch] # "over"
                      => registry[m].port # registry[n].port
SpentIsOver == \A l \in spent : life[l] = "over" /\ ~Registered(l)

RegistryInv == RegistryTypeOK /\ OneName /\ BlenderHeld /\ ReadyBegun /\ OwnPorts /\ SpentIsOver

RegistrySpec == RegistryInit /\ [][RegistryNext]_registryVars
=============================================================================
