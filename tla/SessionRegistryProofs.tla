----------------------- MODULE SessionRegistryProofs -----------------------
(***************************************************************************)
(* SessionLifecycle implements SessionRegistry: proofs for any number of   *)
(* clients and names and any bounds, in a system that is Calm (see         *)
(* SessionTreeProofs).                                                     *)
(***************************************************************************)
EXTENDS SessionAnswerProofs

-----------------------------------------------------------------------------
(* What the registry sees of a step *)

\* What a step must leave alone for the registry not to change
EntriesKept == \A n \in Names : Entered(n)' = Entered(n)
LivesKept   == \A l \in Launches : LifeOf(l)' = LifeOf(l)

\* No client reaches or leaves the points where it has an unrecorded launch.
HandsKept ==
    \A d \in Clients :
        \/ pc[d] \notin UnrecordedPcs /\ pc'[d] \notin UnrecordedPcs
        \/ pc[d] \in UnrecordedPcs /\ pc'[d] \in UnrecordedPcs /\ job'[d].sid = job[d].sid

\* A step that changes nothing of it.
LEMMA Unseen ==
    ASSUME EntriesKept, LivesKept, Spent' = Spent
    PROVE  UNCHANGED Registry!registryVars
BY DEF EntriesKept, LivesKept, Registry!registryVars

\* Records that stay are entered as they were.
LEMMA FilesKeepEntries == ASSUME UNCHANGED <<session, launching>> PROVE EntriesKept
BY DEF EntriesKept, Entered, Current

\* A launch is entered under the number its record carries.
LEMMA EnteredLaunch == \A n \in Names : Entered(n).launch = Current(n).launch
BY DEF Entered, NoRec

\* What makes a launch spent stays as it is.
LEMMA SpentKept ==
    ASSUME EntriesKept, HandsKept,
           \A l \in Launches : sup'[l] = "unborn" <=> sup[l] = "unborn"
    PROVE  Spent' = Spent
<1>1. ASSUME NEW n \in Names PROVE Current(n)'.launch = Current(n).launch
  <2>1. Entered(n)'.launch = Current(n)'.launch
    BY DEF Entered, NoRec
  <2>. QED BY <2>1, EnteredLaunch DEF EntriesKept
<1>2. ASSUME NEW l PROVE Unrecorded(l)' <=> Unrecorded(l)
  BY DEF Unrecorded, HandsKept, UnrecordedPcs
<1>. QED BY <1>1, <1>2 DEF Spent

\* A step of which the registry sees nothing: it changes no record, and no
\* process but for the progress of a supervisor or the binding of a Blender.
LEMMA StillStep ==
    ASSUME UNCHANGED <<session, launching, sup, root, helpers>>, HandsKept
    PROVE  UNCHANGED Registry!registryVars
<1>1. LivesKept
  BY DEF LivesKept, LifeOf, GroupAlive, SupAlive, RootAlive
<1>. QED BY <1>1, FilesKeepEntries, SpentKept, Unseen

\* A process tree that does not begin, stays what it is or ends.
LEMMA LifeFades ==
    ASSUME Fades, NEW l \in Launches, root[l] = "none" => root'[l] = "none",
           l \in helpers' => l \in helpers \/ RootAlive(l)
    PROVE  LifeOf(l)' \in {LifeOf(l), "over"}
<1>1. CASE LifeOf(l) = "over"
  <2>1. sup[l] # "unborn" /\ ~SupAlive(l) /\ ~RootAlive(l) /\ l \notin helpers
    BY <1>1 DEF LifeOf, GroupAlive
  <2>2. sup'[l] # "unborn" /\ ~SupAlive(l)' /\ l \notin helpers'
    BY <2>1 DEF Fades
  <2>3. ~RootAlive(l)'
    BY <2>1 DEF Fades, RootAlive
  <2>. QED BY <2>2, <2>3 DEF LifeOf, GroupAlive
<1>2. CASE LifeOf(l) # "over"
  <2>1. root[l] = "none" <=> root'[l] = "none"
    BY DEF Fades
  <2>. QED BY <1>2, <2>1 DEF LifeOf
<1>. QED BY <1>1, <1>2

\* A step that at most ends one process tree.
LEMMA FadeStep ==
    ASSUME Fades, UNCHANGED <<session, launching>>, HandsKept, NEW l \in Launches,
           sup[l] # "unborn", root[l] = "none" => root'[l] = "none",
           l \in helpers' => l \in helpers \/ RootAlive(l),
           \A k \in Launches \ {l} : sup'[k] = sup[k] /\ root'[k] = root[k] /\ (k \in helpers' <=> k \in helpers)
    PROVE  Registry!EndTree(l) \/ UNCHANGED Registry!registryVars
<1>1. EntriesKept /\ Spent' = Spent
  BY FilesKeepEntries, SpentKept DEF Fades
<1>2. \A k \in Launches \ {l} : LifeOf(k)' = LifeOf(k)
  BY DEF LifeOf, GroupAlive, SupAlive, RootAlive
<1>3. CASE LifeOf(l)' = LifeOf(l)
  BY <1>1, <1>2, <1>3, Unseen DEF LivesKept
<1>4. CASE LifeOf(l)' # LifeOf(l)
  <2>1. LifeOf(l)' = "over" /\ LifeOf(l) # "over"
    BY <1>4, LifeFades
  <2>. QED BY <1>1, <1>2, <2>1 DEF Registry!EndTree, EntriesKept
<1>. QED BY <1>3, <1>4

\* An action of the registry changes what it is about.
LEMMA NamedStep ==
    ASSUME NEW n \in Names, Registry!Register(n) \/ Registry!Confirm(n) \/ Registry!Forget(n)
    PROVE  Registry!RegistryNext
<1>. USE DEF Registry!Holds, Registry!NoEntry
<1>1. Registry!Register(n) => Entered(n)' # Entered(n)
  BY DEF Registry!Register
<1>2. Registry!Confirm(n) => Entered(n)' # Entered(n)
  <2>. SUFFICES ASSUME Registry!Confirm(n) PROVE Entered(n)'.phase = "ready" /\ Entered(n).phase = "starting"
    OBVIOUS
  <2>. QED BY DEF Registry!Confirm, Entered
<1>3. Registry!Forget(n) => Entered(n)' # Entered(n)
  BY DEF Registry!Forget
<1>. QED BY <1>1, <1>2, <1>3 DEF Registry!RegistryNext

\* So do the start of a Blender,
LEMMA StartStep ==
    ASSUME NEW n \in Names, Registry!StartBlender(n), NEW l \in Launches, LifeOf(l)' # LifeOf(l)
    PROVE  Registry!RegistryNext
<1>1. [k \in Launches |-> LifeOf(k)]' # [k \in Launches |-> LifeOf(k)]
  OBVIOUS
<1>. QED BY <1>1 DEF Registry!RegistryNext

\* the end of a tree
LEMMA EndStep == ASSUME NEW l \in Launches, Registry!EndTree(l) PROVE Registry!RegistryNext
BY DEF Registry!EndTree, Registry!RegistryNext

\* and a launch that is given up.
LEMMA GiveUpStep == ASSUME NEW l \in Launches, Registry!GiveUpLaunch(l) PROVE Registry!RegistryNext
BY DEF Registry!GiveUpLaunch, Registry!RegistryNext

-----------------------------------------------------------------------------
(* Clients *)

\* A client that keeps away from unrecorded launches moves no other client to
\* or from one.
LEMMA HandsOfOne ==
    ASSUME NEW c \in Clients, Moves(c),
           \/ pc[c] \notin UnrecordedPcs /\ pc'[c] \notin UnrecordedPcs
           \/ pc[c] \in UnrecordedPcs /\ pc'[c] \in UnrecordedPcs
    PROVE  HandsKept
<1>1. ASSUME NEW d \in Clients, d # c PROVE pc'[d] = pc[d] /\ job'[d] = job[d]
  BY <1>1 DEF Moves
<1>2. pc[c] \in UnrecordedPcs /\ pc'[c] \in UnrecordedPcs => job'[c].sid = job[c].sid
  BY DEF Moves, SameErrand, UnrecordedPcs
<1>. QED BY <1>1, <1>2 DEF HandsKept

\* A start's own unrecorded launch is nobody else's and no Session yet.
LEMMA OwnLaunch ==
    ASSUME Ground, CalmInv, NEW c \in Clients, pc[c] \in UnrecordedPcs, NEW l, l = job[c].sid
    PROVE  /\ l \in Launches /\ plan[l].name = job[c].name /\ job[c].name \in Names
           /\ Current(job[c].name) = NoRec
           /\ \A n \in Names : Current(n).launch # l
           /\ \A d \in Clients \ {c} : pc[d] \in UnrecordedPcs => job[d].sid # l
           /\ \A d \in Clients \ {c} : pc[d] = "kill" => job[d].rec.launch # l
<1>1. pc[c] \in TryPcs /\ pc[c] \notin {"idle", "lock"}
  BY DEF UnrecordedPcs, TryPcs
<1>2. l \in Launches /\ l # 0 /\ plan[l].name = job[c].name /\ job[c].name \in Names
  BY <1>1, FreshHand
<1>3. Current(job[c].name) = NoRec
  BY <1>1, Hand DEF Facts, MarkFacts, UnrecordedPcs, Current
<1>4. ASSUME NEW n \in Names, Current(n).launch = l PROVE FALSE
  <2>1. Current(n) # NoRec /\ Placed(Current(n), n)
    BY <1>2, <1>4 DEF NoRec, CalmInv, NameCalm, Current
  <2>2. n = job[c].name
    BY <1>2, <1>4, <2>1 DEF Placed
  <2>. QED BY <1>3, <2>1, <2>2
<1>5. ASSUME NEW d \in Clients \ {c}, pc[d] \in UnrecordedPcs \cup {"kill"} PROVE job[d].name # job[c].name
  BY <1>1, <1>5, NamesDiffer DEF Ground, FileInv, UnrecordedPcs
<1>6. ASSUME NEW d \in Clients \ {c}, pc[d] \in UnrecordedPcs PROVE job[d].sid # l
  BY <1>2, <1>5, <1>6, UnrecordedName
<1>7. ASSUME NEW d \in Clients \ {c}, pc[d] = "kill" PROVE job[d].rec.launch # l
  BY <1>2, <1>5, <1>7, KillHand DEF KillPcs
<1>. QED BY <1>2, <1>3, <1>4, <1>6, <1>7

\* A start that finds its supervisor gone gives its launch up; nothing is left of it.
LEMMA IdentifyImplements ==
    ASSUME Ground, CalmInv, NEW c \in Clients, Identify(c), NEW l, l = job[c].sid
    PROVE  Registry!GiveUpLaunch(l) \/ UNCHANGED Registry!registryVars
<1>1. /\ pc[c] = "identify" /\ UNCHANGED <<files, procs, job>>
      /\ pc'[c] = IF SupAlive(l) THEN "mark" ELSE "clearSession"
  BY DEF Identify, Goto, Ground, TypeInv, TypeOK, ClientsTyped
<1>2. Moves(c)
  BY MovesLaunch DEF Launch, Ground
<1>3. CASE SupAlive(l)
  <2>1. HandsKept
    BY <1>1, <1>2, <1>3, HandsOfOne DEF UnrecordedPcs
  <2>. QED BY <1>1, <2>1, StillStep DEF files, procs
<1>4. CASE ~SupAlive(l)
  <2>0. pc[c] \in UnrecordedPcs /\ l \in Launches /\ sup[l] # "unborn"
    BY <1>1, FreshHand DEF UnrecordedPcs, TryPcs
  <2>1. Unrecorded(l) /\ \A n \in Names : Current(n).launch # l
    BY <1>1, <2>0, OwnLaunch DEF Unrecorded
  <2>2. ~Unrecorded(l)' /\ \A k : k # l => (Unrecorded(k)' <=> Unrecorded(k))
    <3>1. pc'[c] = "clearSession"
      BY <1>1, <1>4
    <3>2. \A d \in Clients \ {c} : pc'[d] = pc[d] /\ job'[d] = job[d]
      BY <1>2 DEF Moves
    <3>3. \A d \in Clients \ {c} : pc[d] \in UnrecordedPcs => job[d].sid # l
      BY <2>0, OwnLaunch
    <3>. QED BY <1>1, <3>1, <3>2, <3>3 DEF Unrecorded, UnrecordedPcs
  <2>3. LifeOf(l) = "over"
    <3>1. SUFFICES ASSUME GroupAlive(l) PROVE FALSE
      BY <2>0 DEF LifeOf
    <3>2. PICK d \in Clients : pc[d] = "kill" /\ job[d].rec.launch = l
      BY <1>4, <2>0, <3>1, Killer
    <3>. QED BY <1>1, <2>0, <3>2, OwnLaunch
  <2>4. EntriesKept /\ LivesKept
    BY <1>1, FilesKeepEntries DEF files, procs, LivesKept, LifeOf, GroupAlive, SupAlive, RootAlive
  <2>5. \A n \in Names : Current(n)'.launch = Current(n).launch
    BY <1>1 DEF files, Current
  <2>6. Spent' = Spent \cup {l} /\ l \notin Spent
    BY <1>1, <2>0, <2>1, <2>2, <2>5 DEF Spent, procs
  <2>7. \A n \in Names : Entered(n).launch # l
    BY <2>1, EnteredLaunch
  <2>. QED BY <2>0, <2>3, <2>4, <2>6, <2>7
       DEF EntriesKept, LivesKept, Registry!GiveUpLaunch, Registry!Registered, Registry!Holds
<1>. QED BY <1>3, <1>4

\* A Session whose supervisor is gone has nothing left, unless a client is about
\* to kill it; a Session with a process is live.
LEMMA LiveOrKilled ==
    ASSUME Ground, CalmInv, NEW n \in Names, Current(n) # NoRec,
           LifeOf(Current(n).launch) # "over"
    PROVE  Live(Current(n)) \/ \E d \in Clients : pc[d] = "kill"
<1>1. Current(n).launch \in Launches /\ sup[Current(n).launch] # "unborn"
  BY RecordTyped, CurrentBorn DEF Ground, Born
<1>2. GroupAlive(Current(n).launch)
  BY <1>1 DEF LifeOf
<1>3. CASE SupAlive(Current(n).launch)
  BY <1>3 DEF Live, TreeExists
<1>4. CASE ~SupAlive(Current(n).launch)
  BY <1>1, <1>2, <1>4, Killer
<1>. QED BY <1>3, <1>4

\* The provisional record registers the launch, on a port that no live Session has.
LEMMA ProvisionalImplements ==
    ASSUME Ground, PortInv, CalmInv, NEW c \in Clients, Provisional(c), NEW n, n = job[c].name
    PROVE  Registry!Register(n)
<1>j. PICK j : j = job[c]
  OBVIOUS
<1>l. PICK l : l = j.sid
  OBVIOUS
<1>1. /\ pc[c] = "provisional" /\ pc'[c] = "open" /\ UNCHANGED <<session, procs, job>>
      /\ launching' = [launching EXCEPT ![n] = j.rec]
  BY <1>j DEF Provisional, Goto, Ground, TypeInv, TypeOK, ClientsTyped
<1>2. /\ l \in Launches /\ j.rec.launch = l /\ j.rec # NoRec /\ n \in Names /\ j.rec.port \in Nat
      /\ sup[l] # "unborn" /\ j.name = n
  <2>1. j.rec \in Record
    BY <1>j DEF Ground, TypeInv, TypeOK, ClientsTyped, Job
  <2>. QED BY <1>1, <1>j, <1>l, <2>1, FreshHand DEF TryPcs, Record
<1>3. /\ Current(n) = NoRec /\ \A m \in Names : Current(m).launch # l
      /\ \A d \in Clients \ {c} : pc[d] \in UnrecordedPcs => job[d].sid # l
  BY <1>1, <1>j, <1>l, OwnLaunch DEF UnrecordedPcs
<1>4. session[n] = NoRec /\ launching'[n] = j.rec /\ \A m \in Names \ {n} : launching'[m] = launching[m]
  BY <1>1, <1>2, <1>3 DEF Current, Ground, TypeInv, TypeOK, FilesTyped
<1>5. Current(n)' = j.rec /\ \A m \in Names \ {n} : Current(m)' = Current(m)
  BY <1>1, <1>4 DEF Current
<1>6. /\ Entered(n) = Registry!NoEntry
      /\ Entered(n)' = [launch |-> l, port |-> j.rec.port, phase |-> "starting"]
      /\ \A m \in Names \ {n} : Entered(m)' = Entered(m)
  BY <1>1, <1>2, <1>3, <1>4, <1>5 DEF Entered, Registry!NoEntry
<1>7. LivesKept
  BY <1>1 DEF LivesKept, LifeOf, GroupAlive, SupAlive, RootAlive, procs
<1>8. Unrecorded(l) /\ ~Unrecorded(l)' /\ \A k : k # l => (Unrecorded(k)' <=> Unrecorded(k))
  <2>1. \A d \in Clients \ {c} : pc'[d] = pc[d]
    BY DEF Provisional, Goto, Ground, TypeInv, TypeOK, ClientsTyped
  <2>. QED BY <1>1, <1>3, <1>j, <1>l, <2>1 DEF Unrecorded, UnrecordedPcs
<1>9. Spent' = Spent /\ l \notin Spent
  <2>1. Current(n)'.launch = l
    BY <1>2, <1>5
  <2>2. \A k \in Launches \ {l} : (\A m \in Names : Current(m)'.launch # k)
                                    <=> (\A m \in Names : Current(m).launch # k)
    BY <1>2, <1>3, <1>5, <2>1 DEF NoRec, Launches
  <2>. QED BY <1>1, <1>2, <1>8, <2>1, <2>2 DEF Spent, procs
<1>10. \A m \in Names : Entered(m).launch # l
  BY <1>3, EnteredLaunch
<1>11. ASSUME NEW m \in Names, Entered(m) # Registry!NoEntry, LifeOf(Entered(m).launch) # "over"
       PROVE  Entered(m).port # j.rec.port
  <2>1. m # n /\ Current(m) # NoRec /\ Entered(m).launch = Current(m).launch
        /\ Entered(m).port = Current(m).port
    BY <1>6, <1>11 DEF Entered, Registry!NoEntry
  <2>2. ~\E d \in Clients : pc[d] = "kill"
    <3>1. HoldsPorts(pc[c], job[c]) /\ \A d \in Clients : pc[d] = "kill" => HoldsPorts(pc[d], job[d])
      BY <1>1 DEF HoldsPorts, TryPcs, KillPcs
    <3>. QED BY <1>1, <3>1 DEF PortInv, PortsLocks
  <2>3. Live(Current(m))
    BY <1>11, <2>1, <2>2, LiveOrKilled
  <2>4. Distinct(m, j.rec.port)
    BY <1>1, <1>2, <1>j, <2>1 DEF PortInv, Scanned, ScanFacts, Chosen, TryPcs
  <2>. QED BY <2>1, <2>3, <2>4 DEF Distinct
<1>. DEFINE R == [m \in Names |-> Entered(m)]
<1>12. R' = [R EXCEPT ![n] = R'[n]] /\ R'[n] = [launch |-> l, port |-> j.rec.port, phase |-> "starting"]
  BY <1>2, <1>6
<1>13. /\ R[n] = Registry!NoEntry
       /\ R'[n] \in [launch : Launches \ Spent, port : Nat, phase : {"starting"}]
       /\ \A m \in Names : R[m].launch # R'[n].launch
       /\ \A m \in Names : R[m] # Registry!NoEntry /\ LifeOf(R[m].launch) # "over" => R[m].port # R'[n].port
  <2>1. \A m \in Names : R[m] = Entered(m)
    OBVIOUS
  <2>. HIDE DEF R
  <2>2. R[n] = Registry!NoEntry
    BY <1>2, <1>6, <2>1
  <2>3. R'[n] \in [launch : Launches \ Spent, port : Nat, phase : {"starting"}]
    BY <1>2, <1>9, <1>12
  <2>4. \A m \in Names : R[m].launch # R'[n].launch
    BY <1>10, <1>12, <2>1
  <2>5. \A m \in Names : R[m] # Registry!NoEntry /\ LifeOf(R[m].launch) # "over" => R[m].port # R'[n].port
    BY <1>11, <1>12, <2>1
  <2>. QED BY <2>2, <2>3, <2>4, <2>5
<1>14. /\ UNCHANGED <<Spent, [k \in Launches |-> LifeOf(k)]>>
       /\ \A m \in Names : R[m] # Registry!NoEntry => R[m].launch \in Launches
  <2>1. \A m \in Names : R[m] # Registry!NoEntry => R[m].launch \in Launches
    BY RecordTyped DEF Ground, Entered, Registry!NoEntry
  <2>. QED BY <1>7, <1>9, <2>1 DEF LivesKept
<1>. QED BY <1>12, <1>13, <1>14 DEF Registry!Register, Registry!Registered, Registry!Holds

\* What becomes of an entry that is confirmed.
LEMMA ReadyEntry ==
    ASSUME NEW e, NEW l, NEW p, e = [launch |-> l, port |-> p, phase |-> "starting"]
    PROVE  [e EXCEPT !.phase = "ready"] = [launch |-> l, port |-> p, phase |-> "ready"]
OBVIOUS

\* session.json confirms a launch whose Blender was started.
LEMMA RecordImplements ==
    ASSUME Ground, PortInv, CalmInv, NEW c \in Clients, RecordSession(c), NEW n, n = job[c].name
    PROVE  Registry!Confirm(n)
<1>j. PICK j : j = job[c]
  OBVIOUS
<1>l. PICK l : l = j.sid
  OBVIOUS
<1>1. /\ pc[c] = "record" /\ pc'[c] = "promote" /\ UNCHANGED <<launching, procs, job>>
      /\ session' = [session EXCEPT ![n] = j.rec]
  BY <1>j DEF RecordSession, Goto, Ground, TypeInv, TypeOK, ClientsTyped
<1>2. l \in Launches /\ j.rec.launch = l /\ j.rec # NoRec /\ n \in Names /\ l # 0
  BY <1>1, <1>j, <1>l, FreshHand DEF TryPcs
<1>3. session[n] = NoRec /\ launching[n].launch = l /\ launching[n].port = j.rec.port
  BY <1>1, <1>j, <1>l, Hand DEF HandFacts, PortInv, OwnFacts
<1>4. session'[n] = j.rec /\ \A m \in Names \ {n} : session'[m] = session[m]
  BY <1>1, <1>2 DEF Ground, TypeInv, TypeOK, FilesTyped
<1>5. /\ Entered(n) = [launch |-> l, port |-> j.rec.port, phase |-> "starting"]
      /\ Entered(n)' = [launch |-> l, port |-> j.rec.port, phase |-> "ready"]
  <2>1. Current(n) = launching[n] /\ Current(n) # NoRec /\ Current(n)' = j.rec
    BY <1>2, <1>3, <1>4 DEF Current, NoRec
  <2>. QED BY <1>2, <1>3, <1>4, <2>1 DEF Entered
<1>6. \A m \in Names \ {n} : Entered(m)' = Entered(m)
  BY <1>1, <1>4 DEF Entered, Current
<1>7. LivesKept
  BY <1>1 DEF LivesKept, LifeOf, GroupAlive, SupAlive, RootAlive, procs
<1>8. LifeOf(l) # "none"
  <2>1. j.rec.blender \in Launches /\ OwnBlender(j.rec)
    BY <1>1, <1>j, Hand DEF JobOK
  <2>2. j.rec.blender = l
    BY <1>2, <2>1 DEF OwnBlender, Launches
  <2>3. root[l] # "none"
    BY <1>1, <1>j, <2>2 DEF Ground, BornInv, NamedPcs
  <2>. QED BY <2>3 DEF LifeOf
<1>9. Spent' = Spent
  <2>1. HandsKept
    BY <1>1, HandsOfOne, MovesLaunch DEF Launch, Ground, UnrecordedPcs
  <2>2. \A m \in Names : Current(m)'.launch = Current(m).launch
    <3>1. \A m \in Names : Entered(m)'.launch = Current(m)'.launch
      BY DEF Entered, NoRec
    <3>2. \A m \in Names : Entered(m)'.launch = Entered(m).launch
      BY <1>5, <1>6
    <3>. QED BY <3>1, <3>2, EnteredLaunch
  <2>3. \A k : Unrecorded(k)' <=> Unrecorded(k)
    BY <2>1 DEF Unrecorded, HandsKept, UnrecordedPcs
  <2>. QED BY <1>1, <2>2, <2>3 DEF Spent, procs
<1>. DEFINE R == [m \in Names |-> Entered(m)]
<1>10. R' = [R EXCEPT ![n].phase = "ready"]
  <2>1. R[n] = [launch |-> l, port |-> j.rec.port, phase |-> "starting"]
    BY <1>2, <1>5
  <2>. HIDE DEF R
  <2>2. [R[n] EXCEPT !.phase = "ready"] = [launch |-> l, port |-> j.rec.port, phase |-> "ready"]
    BY <2>1, ReadyEntry
  <2>3. R' = [R EXCEPT ![n] = [launch |-> l, port |-> j.rec.port, phase |-> "ready"]]
    BY <1>2, <1>5, <1>6 DEF R
  <2>. QED BY <2>2, <2>3
<1>. QED BY <1>2, <1>5, <1>7, <1>8, <1>9, <1>10
     DEF LivesKept, Registry!Confirm, Registry!Holds, Registry!NoEntry

\* The last record of a Session is removed only when its process tree is gone.
LEMMA RemovalForgets ==
    ASSUME Ground, CalmInv, NEW c \in Clients, pc[c] \in {"clearSession", "clearLaunching"},
           Moves(c), UNCHANGED procs, pc'[c] \notin UnrecordedPcs, NEW n, n = job[c].name,
           Current(n) # NoRec, Current(n)' = NoRec
    PROVE  Registry!Forget(n)
<1>l. PICK l : l = Current(n).launch
  OBVIOUS
<1>1. n \in Names /\ l \in Launches /\ plan[l].name = n /\ sup[l] # "unborn" /\ l # 0
  <2>1. n \in Names
    BY Hand
  <2>2. Placed(Current(n), n)
    BY <2>1 DEF CalmInv, NameCalm, Current
  <2>. QED BY <1>l, <2>1, <2>2, RecordTyped, CurrentBorn DEF Ground, Born, Placed, Launches
<1>2. LifeOf(l) = "over"
  <2>1. SUFFICES ASSUME GroupAlive(l) PROVE FALSE
    BY <1>1 DEF LifeOf
  <2>2. ~SupAlive(l)
    BY <1>1, Hand DEF HandFacts, Over, ClearPcs, Empty
  <2>3. PICK d \in Clients : pc[d] = "kill" /\ job[d].name = n
    BY <1>1, <2>1, <2>2, Killer
  <2>. QED BY <2>3, NamesDiffer DEF Ground, FileInv
<1>3. \A m \in Names \ {n} : Current(m)' = Current(m) /\ Entered(m)' = Entered(m)
  BY DEF Moves, Current, Entered
<1>4. /\ Entered(n).launch = l /\ Entered(n) # Registry!NoEntry
      /\ Entered(n)' = [launch |-> 0, port |-> 0, phase |-> "none"]
  BY <1>l, <1>1 DEF Entered, Registry!NoEntry
<1>5. LivesKept
  BY DEF LivesKept, LifeOf, GroupAlive, SupAlive, RootAlive, procs
<1>6. \A k : Unrecorded(k)' <=> Unrecorded(k)
  <2>1. HandsKept
    BY HandsOfOne DEF UnrecordedPcs
  <2>. QED BY <2>1 DEF Unrecorded, HandsKept, UnrecordedPcs
<1>7. ~Unrecorded(l)
  <2>. SUFFICES ASSUME NEW d \in Clients, pc[d] \in UnrecordedPcs, job[d].sid = l PROVE FALSE
    BY DEF Unrecorded, UnrecordedPcs
  <2>. QED BY <1>1, <1>l, OwnLaunch
<1>8. \A m \in Names : Current(m).launch = l => m = n
  <2>. SUFFICES ASSUME NEW m \in Names, Current(m).launch = l PROVE m = n
    OBVIOUS
  <2>1. Current(m) # NoRec /\ Placed(Current(m), m)
    BY <1>1 DEF NoRec, CalmInv, NameCalm, Current
  <2>. QED BY <1>1, <2>1 DEF Placed
<1>9. Spent' = Spent \cup {l}
  <2>1. ASSUME NEW k \in Launches
        PROVE  (\A m \in Names : Current(m)'.launch # k) <=> k = l \/ (\A m \in Names : Current(m).launch # k)
    BY <1>1, <1>3, <1>8, <1>l DEF NoRec, Launches
  <2>2. \A k \in Launches : k \in Spent' <=> k = l \/ k \in Spent
    BY <1>1, <1>6, <1>7, <2>1 DEF Spent, procs
  <2>3. Spent \subseteq Launches /\ Spent' \subseteq Launches
    BY DEF Spent
  <2>. QED BY <1>1, <2>2, <2>3
<1>. DEFINE R == [m \in Names |-> Entered(m)]
<1>10. R' = [R EXCEPT ![n] = Registry!NoEntry] /\ R[n].launch = l /\ R[n] # Registry!NoEntry
  BY <1>1, <1>3, <1>4 DEF Registry!NoEntry
<1>. QED BY <1>1, <1>2, <1>5, <1>9, <1>10 DEF LivesKept, Registry!Forget, Registry!Holds

\* Removals.
LEMMA RemovalImplements ==
    ASSUME Ground, CalmInv, AnswerInv, NEW c \in Clients, Removal(c), NEW n, n = job[c].name
    PROVE  Registry!Forget(n) \/ UNCHANGED Registry!registryVars
<1>t. FilesTyped /\ pc \in [Clients -> PCs]
  BY DEF Ground, TypeInv, TypeOK, ClientsTyped
<1>1. /\ Moves(c) /\ UNCHANGED procs /\ pc[c] \in ClearPcs
      /\ pc[c] \notin UnrecordedPcs /\ pc'[c] \notin UnrecordedPcs
  BY <1>t, MovesRemoval DEF Removal, ClearSession, ClearLaunching, ClearMarker, ClearBoot, Removed, Goto,
     ClearPcs, UnrecordedPcs, Ground
<1>2. HandsKept
  BY <1>1, HandsOfOne
<1>3. CASE ClearMarker(c) \/ ClearBoot(c)
  BY <1>1, <1>2, <1>3, StillStep DEF ClearMarker, ClearBoot, procs
<1>4. CASE ClearSession(c) \/ ClearLaunching(c)
  <2>1. pc[c] \in {"clearSession", "clearLaunching"} /\ n \in Names
    BY <1>4, Hand DEF ClearSession, ClearLaunching
  <2>2. CASE Current(n) = NoRec
    <3>1. session[n] = NoRec /\ launching[n] = NoRec
      BY <2>2 DEF Current
    <3>2. UNCHANGED <<session, launching>>
      BY <1>t, <1>4, <3>1 DEF ClearSession, ClearLaunching, FilesTyped
    <3>. QED BY <1>1, <1>2, <3>2, StillStep DEF procs
  <2>3. CASE Current(n) # NoRec /\ ClearLaunching(c)
    <3>1. session[n] = NoRec
      BY <2>3, Hand DEF ClearLaunching, Facts, MarkFacts
    <3>2. Current(n)' = NoRec
      BY <1>t, <2>1, <2>3, <3>1 DEF ClearLaunching, FilesTyped, Current
    <3>. QED BY <1>1, <2>1, <2>3, <3>2, RemovalForgets
  <2>4. CASE session[n] # NoRec /\ ClearSession(c)
    <3>1. launching[n] = NoRec
      <4>. SUFFICES ASSUME launching[n] # NoRec PROVE FALSE
        OBVIOUS
      <4>1. PICK d \in Clients : Progressing(pc[d], job[d]) /\ job[d].name = n
        BY <2>1 DEF AnswerInv, Settled
      <4>2. d = c
        BY <2>1, <4>1, NamesDiffer DEF Ground, FileInv, Progressing, ProgressPcs, WrittenPcs, NamedPcs, KillPcs
      <4>3. pc[c] = "clearSession"
        BY <2>4 DEF ClearSession
      <4>. QED BY <2>4, <4>1, <4>2, <4>3 DEF AnswerInv, Unconfirmed, Progressing
    <3>2. Current(n)' = NoRec /\ Current(n) # NoRec
      BY <1>t, <2>1, <2>4, <3>1 DEF ClearSession, FilesTyped, Current
    <3>. QED BY <1>1, <2>1, <3>2, RemovalForgets
  <2>5. CASE session[n] = NoRec /\ ClearSession(c)
    <3>1. UNCHANGED <<session, launching>>
      BY <1>t, <2>1, <2>5 DEF ClearSession, FilesTyped
    <3>. QED BY <1>1, <1>2, <3>1, StillStep DEF procs
  <2>. QED BY <1>4, <2>2, <2>3, <2>4, <2>5
<1>. QED BY <1>3, <1>4 DEF Removal

\* A supervisor is born with its launch in the hands of its start.
LEMMA SpawnImplements ==
    ASSUME Ground, CalmInv, NEW c \in Clients, Spawn(c)
    PROVE  UNCHANGED Registry!registryVars
<1>l. PICK l : l = job[c].sid
  OBVIOUS
<1>1. /\ pc[c] = "spawn" /\ pc'[c] = "identify" /\ UNCHANGED <<files, root, helpers, job>>
      /\ sup' = [sup EXCEPT ![l] = "waiting"]
  BY <1>l DEF Spawn, Goto, Ground, TypeInv, TypeOK, ClientsTyped
<1>2. l \in Launches /\ sup[l] = "unborn"
  BY <1>1, <1>l, FreshHand DEF Ground, ProcInv, Minted, Unmade
<1>3. sup'[l] = "waiting" /\ \A k \in Launches \ {l} : sup'[k] = sup[k]
  BY <1>1, <1>2 DEF Ground, TypeInv, TypeOK, ProcsTyped
<1>4. EntriesKept
  BY <1>1, FilesKeepEntries DEF files
<1>5. LivesKept
  <2>1. root[l] = "none"
    BY <1>2 DEF Ground, ProcInv, Coupled
  <2>. QED BY <1>1, <1>2, <1>3, <2>1 DEF LivesKept, LifeOf, GroupAlive, SupAlive, RootAlive
<1>6. Spent' = Spent
  <2>1. Unrecorded(l)'
    BY <1>1, <1>l DEF Unrecorded
  <2>2. \A k : k # l => (Unrecorded(k)' <=> Unrecorded(k))
    <3>1. \A d \in Clients \ {c} : pc'[d] = pc[d]
      BY <1>1 DEF Spawn, Goto, Ground, TypeInv, TypeOK, ClientsTyped
    <3>. QED BY <1>1, <1>l, <3>1 DEF Unrecorded
  <2>3. \A n \in Names : Current(n)' = Current(n)
    BY <1>1 DEF files, Current
  <2>. QED BY <1>2, <1>3, <2>1, <2>2, <2>3 DEF Spent
<1>. QED BY <1>4, <1>5, <1>6, Unseen

\* launching.json goes once session.json names the Session.
LEMMA PromoteImplements ==
    ASSUME Ground, CalmInv, NEW c \in Clients, Promote(c)
    PROVE  UNCHANGED Registry!registryVars
<1>n. PICK n : n = job[c].name
  OBVIOUS
<1>1. /\ pc[c] = "promote" /\ pc'[c] = "finally" /\ UNCHANGED <<session, procs>>
      /\ launching' = [launching EXCEPT ![n] = NoRec]
  BY <1>n DEF Promote, Goto, Ground, TypeInv, TypeOK, ClientsTyped
<1>2. session[n] # NoRec
  BY <1>1, <1>n, Hand, FreshHand DEF HandFacts, TryPcs, NoRec
<1>3. \A m \in Names \ {n} : launching'[m] = launching[m]
  BY <1>1 DEF Ground, TypeInv, TypeOK, FilesTyped
<1>4. EntriesKept
  BY <1>1, <1>2, <1>3 DEF EntriesKept, Entered, Current
<1>5. HandsKept
  BY <1>1, HandsOfOne, MovesLaunch DEF Launch, Ground, UnrecordedPcs
<1>6. LivesKept
  BY <1>1 DEF LivesKept, LifeOf, GroupAlive, SupAlive, RootAlive, procs
<1>. QED BY <1>1, <1>4, <1>5, <1>6, SpentKept, Unseen DEF procs

\* The rest of a launch writes no record and touches no process.
LEMMA LaunchQuiet ==
    ASSUME Ground, CalmInv, NEW c \in Clients,
           \/ Prep(c) \/ Mark(c) \/ OpenGate(c) \/ AwaitPid(c) \/ AwaitFails(c)
           \/ BlenderIdentity(c) \/ Finally(c)
    PROVE  UNCHANGED Registry!registryVars
<1>1. Moves(c) /\ pc \in [Clients -> PCs]
  BY MovesLaunch DEF Launch, Ground, TypeInv, TypeOK, ClientsTyped
<1>2. UNCHANGED <<session, launching, sup, root, helpers>>
  BY DEF Prep, Mark, OpenGate, AwaitPid, AwaitFails, BlenderIdentity, Finally, files, procs
<1>3. \/ pc[c] \notin UnrecordedPcs /\ pc'[c] \notin UnrecordedPcs
      \/ pc[c] \in UnrecordedPcs /\ pc'[c] \in UnrecordedPcs
  BY <1>1 DEF Prep, Mark, OpenGate, AwaitPid, AwaitFails, BlenderIdentity, Finally, Goto, UnrecordedPcs
<1>. QED BY <1>1, <1>2, <1>3, HandsOfOne, StillStep

\* Locks, decisions, calls, inspections and port scans change nothing of it.
LEMMA QuietImplements ==
    ASSUME Ground, NEW c \in Clients,
           Control(c) \/ Inspection(c) \/ Allocation(c) \/ TermAbsent(c)
    PROVE  UNCHANGED Registry!registryVars
<1>1. Moves(c) /\ pc \in [Clients -> PCs]
  BY MovesControl, MovesInspection, MovesAllocation, MovesTerminate
     DEF Terminate, Ground, TypeInv, TypeOK, ClientsTyped
<1>2. UNCHANGED <<session, launching, sup, root, helpers>>
  BY DEF Control, LockName, Fence, Decide, LockPorts, Call, Reply, UnlockPorts, UnlockName,
     Inspection, Read, Tree, LockWire, Probe, Allocation, Scan, Tally, Alloc, TermAbsent, files, procs
<1>3. pc[c] \notin UnrecordedPcs /\ pc'[c] \notin UnrecordedPcs
  <2>1. CASE Control(c)
    BY <1>1, <2>1 DEF Control, LockName, Fence, Decide, Verdicts, LockPorts, Call, Reply, UnlockPorts,
       UnlockName, Goto, UnrecordedPcs
  <2>2. CASE Inspection(c)
    BY <1>1, <2>2 DEF Inspection, Read, Tree, LockWire, Probe, Inspected, Goto, UnrecordedPcs
  <2>3. CASE Allocation(c) \/ TermAbsent(c)
    BY <1>1, <2>3 DEF Allocation, Scan, Tally, Alloc, TermAbsent, Goto, UnrecordedPcs
  <2>. QED BY <2>1, <2>2, <2>3
<1>. QED BY <1>1, <1>2, <1>3, HandsOfOne, StillStep

\* A signal at most ends the tree of the Session the client ends.
LEMMA SignalImplements ==
    ASSUME Ground, CalmInv, Fades, NEW c \in Clients, TermSignal(c) \/ Kill(c),
           NEW g, g = job[c].rec.launch
    PROVE  g \in Launches /\ (Registry!EndTree(g) \/ UNCHANGED Registry!registryVars)
<1>1. /\ Moves(c) /\ pc[c] \in KillPcs /\ UNCHANGED files
      /\ pc'[c] \in {"kill", "clearSession"}
  BY MovesTerminate DEF Terminate, TermSignal, Kill, KillPcs, Goto, Ground, TypeInv, TypeOK, ClientsTyped
<1>2. g \in Launches /\ sup[g] # "unborn"
  BY <1>1, KillHand DEF HandFacts
<1>3. PICK linger : Signal(g, linger)
  BY DEF TermSignal, Kill
<1>4. /\ \A l \in Launches \ {g} : sup'[l] = sup[l] /\ root'[l] = root[l] /\ (l \in helpers' <=> l \in helpers)
      /\ helpers' \subseteq helpers
  BY <1>2, <1>3, SignalEffect
<1>5. root[g] = "none" => root'[g] = "none"
  BY <1>2, <1>3 DEF Signal, RootAlive, Ground, TypeInv, TypeOK, ProcsTyped
<1>6. HandsKept
  BY <1>1, HandsOfOne DEF KillPcs, UnrecordedPcs
<1>. QED BY <1>1, <1>2, <1>4, <1>5, <1>6, FadeStep DEF files

\* Every step of a client changes the registry as it may change.
LEMMA ClientImplements ==
    ASSUME Calm, Ground, PortInv, CalmInv, AnswerInv, Fades, NEW c \in Clients, ClientStep(c)
    PROVE  [Registry!RegistryNext]_(Registry!registryVars)
<1>1. CASE Launch(c)
  <2>1. CASE Spawn(c)
    BY <2>1, SpawnImplements
  <2>2. CASE Identify(c)
    <3>1. job[c].sid \in Launches
      BY <2>2, FreshHand DEF Identify, TryPcs
    <3>. QED BY <2>2, <3>1, IdentifyImplements, GiveUpStep
  <2>3. CASE Provisional(c)
    <3>1. job[c].name \in Names
      BY <2>3, FreshHand DEF Provisional, TryPcs
    <3>. QED BY <2>3, <3>1, ProvisionalImplements, NamedStep
  <2>4. CASE RecordSession(c)
    <3>1. job[c].name \in Names
      BY <2>4, FreshHand DEF RecordSession, TryPcs
    <3>. QED BY <2>4, <3>1, RecordImplements, NamedStep
  <2>5. CASE Promote(c)
    BY <2>5, PromoteImplements
  <2>. QED BY <1>1, <2>1, <2>2, <2>3, <2>4, <2>5, LaunchQuiet DEF Launch
<1>2. CASE Removal(c)
  <2>1. job[c].name \in Names
    BY <1>2, Hand DEF Removal, ClearSession, ClearLaunching, ClearMarker, ClearBoot
  <2>. QED BY <1>2, <2>1, RemovalImplements, NamedStep
<1>3. CASE TermSignal(c) \/ Kill(c)
  BY <1>3, SignalImplements, EndStep
<1>4. ~KillSurvived(c)
  BY DEF KillSurvived, Calm, Violent
<1>. QED BY <1>1, <1>2, <1>3, <1>4, QuietImplements DEF ClientStep, Terminate

-----------------------------------------------------------------------------
(* Supervisors and Blenders *)

\* A supervisor that starts Blender is that of a registered launch, not yet
\* confirmed: a Session that is has a supervisor with nothing left to start.
LEMMA StartImplements ==
    ASSUME Ground, CalmInv, AnswerInv, NEW l \in Launches, SupSpawns(l), NEW n, n = plan[l].name
    PROVE  Registry!RegistryNext
<1>1. /\ sup[l] = "opened" /\ UNCHANGED <<files, helpers, plan, pc, job>>
      /\ sup' = [sup EXCEPT ![l] = "spawned"] /\ root' = [root EXCEPT ![l] = "up"]
  BY DEF SupSpawns
<1>2. n \in Names /\ Current(n).launch = l /\ l # 0
  BY <1>1 DEF CalmInv, LaunchCalm, Named, Ready, Passed, SupAlive, Launches
<1>3. session[n] = NoRec
  <2>. SUFFICES ASSUME session[n] # NoRec PROVE FALSE
    OBVIOUS
  <2>1. session[n].launch = l
    BY <1>2 DEF Current
  <2>2. PICK c \in Clients : pc[c] \in EndPcs /\ job[c].name = n
    BY <1>1, <1>2, <2>1 DEF AnswerInv, Settled
  <2>3. Empty(n)
    BY <2>2, Hand DEF HandFacts, Over, EndPcs, ClearPcs
  <2>. QED BY <1>1, <2>3 DEF Empty, SupAlive
<1>4. root[l] = "none" /\ LifeOf(l) = "none"
  BY <1>1 DEF Ground, ProcInv, Coupled, LifeOf, GroupAlive, SupAlive
<1>5. sup'[l] = "spawned" /\ root'[l] = "up" /\ \A k \in Launches \ {l} : sup'[k] = sup[k] /\ root'[k] = root[k]
  BY <1>1 DEF Ground, TypeInv, TypeOK, ProcsTyped
<1>6. LifeOf(l)' = "up" /\ \A k \in Launches \ {l} : LifeOf(k)' = LifeOf(k)
  BY <1>1, <1>5 DEF LifeOf, GroupAlive, SupAlive, RootAlive
<1>7. EntriesKept
  BY <1>1, FilesKeepEntries DEF files
<1>8. HandsKept
  BY <1>1 DEF HandsKept
<1>9. Spent' = Spent
  BY <1>1, <1>5, <1>7, <1>8, SpentKept
<1>10. Entered(n).launch = l /\ Entered(n) # Registry!NoEntry /\ Entered(n).phase = "starting"
  BY <1>2, <1>3 DEF Entered, NoRec, Registry!NoEntry
<1>. DEFINE E == [m \in Names |-> Entered(m)]
            L == [k \in Launches |-> LifeOf(k)]
<1>11. E[n].launch = l /\ E[n] # Registry!NoEntry /\ E[n].phase = "starting" /\ E' = E
  BY <1>2, <1>7, <1>10 DEF EntriesKept
<1>12. L[l] = "none" /\ L' = [L EXCEPT ![l] = "up"]
  BY <1>4, <1>6
<1>13. Registry!StartBlender(n)
  BY <1>2, <1>9, <1>11, <1>12 DEF Registry!StartBlender, Registry!Holds
<1>. QED BY <1>2, <1>4, <1>6, <1>13, StartStep

\* Every other step of a supervisor or a Blender at most ends their tree.
LEMMA ProcessImplements ==
    ASSUME Ground, CalmInv, Fades, NEW l \in Launches, SupStep(l) \/ BlenderStep(l), ~SupSpawns(l)
    PROVE  Registry!EndTree(l) \/ UNCHANGED Registry!registryVars
<1>0. sup \in [Launches -> SupStates] /\ root \in [Launches -> RootStates] /\ Coupled(l) /\ Helped(l)
  BY DEF Ground, TypeInv, TypeOK, ProcsTyped, ProcInv, CalmInv, LaunchCalm
<1>1. UNCHANGED <<session, launching, pc, job>>
  BY DEF SupStep, SupSeesGate, SupExpires, SupTakesGate, SupSpawns, SupCannotSpawn, SupReports,
     SupCannotReport, BlenderStep, RootBinds, RootExits, HelperStarts, HelperEnds, files
<1>2. HandsKept
  BY <1>1 DEF HandsKept
<1>3. CASE SupCannotReport(l)
  <2>1. Signal(l, {}) /\ sup[l] = "spawned"
    BY <1>3 DEF SupCannotReport
  <2>2. /\ \A k \in Launches \ {l} : sup'[k] = sup[k] /\ root'[k] = root[k] /\ (k \in helpers' <=> k \in helpers)
        /\ helpers' \subseteq helpers
    BY <2>1, SignalEffect
  <2>3. root[l] # "none"
    BY <1>0, <2>1 DEF Coupled
  <2>. QED BY <1>1, <1>2, <2>1, <2>2, <2>3, FadeStep
<1>4. CASE SupSeesGate(l) \/ SupExpires(l) \/ SupTakesGate(l) \/ SupCannotSpawn(l) \/ SupReports(l)
  <2>1. UNCHANGED <<root, helpers>> /\ sup[l] # "unborn"
        /\ \A k \in Launches \ {l} : sup'[k] = sup[k]
    BY <1>0, <1>4 DEF SupSeesGate, SupExpires, SupTakesGate, SupCannotSpawn, SupReports
  <2>. QED BY <1>1, <1>2, <2>1, FadeStep
<1>5. CASE BlenderStep(l)
  <2>1. root[l] # "none" /\ sup'= sup /\ (l \in helpers' => l \in helpers \/ RootAlive(l))
        /\ \A k \in Launches \ {l} : root'[k] = root[k] /\ (k \in helpers' <=> k \in helpers)
    BY <1>0, <1>5 DEF BlenderStep, RootBinds, RootExits, HelperStarts, HelperEnds, RootAlive, Helped
  <2>2. sup[l] # "unborn"
    BY <1>0, <2>1 DEF Coupled
  <2>. QED BY <1>1, <1>2, <2>1, <2>2, FadeStep
<1>. QED BY <1>3, <1>4, <1>5 DEF SupStep

-----------------------------------------------------------------------------
(* Theorems *)

\* Initially there is no Session, and no launch has begun.
LEMMA RegistryStart == Init => Registry!RegistryInit
<1>. SUFFICES ASSUME Init PROVE Registry!RegistryInit
  OBVIOUS
<1>1. \A n \in Names : Entered(n) = Registry!NoEntry
  BY DEF Init, Entered, Current, Registry!NoEntry
<1>2. Spent = {} /\ \A l \in Launches : LifeOf(l) = "none"
  BY DEF Init, Spent, LifeOf
<1>. QED BY <1>1, <1>2 DEF Registry!RegistryInit

\* Every step of a calm system is one of the registry or changes nothing of it.
LEMMA RegistryStep ==
    Calm /\ Ground /\ PortInv /\ CalmInv /\ AnswerInv /\ [Next]_vars
        => [Registry!RegistryNext]_(Registry!registryVars)
<1>. SUFFICES ASSUME Calm, Ground, PortInv, CalmInv, AnswerInv, [Next]_vars
              PROVE  [Registry!RegistryNext]_(Registry!registryVars)
  OBVIOUS
<1>0. Fades
  BY ProcStep DEF Ground
<1>1. ASSUME NEW c \in Clients, ClientStep(c) PROVE [Registry!RegistryNext]_(Registry!registryVars)
  BY <1>0, <1>1, ClientImplements
<1>2. ASSUME NEW c \in Clients, Begin(c) PROVE UNCHANGED Registry!registryVars
  <2>1. \E f : Accept(c, f)
    BY <1>2 DEF Begin, BeginStart, BeginStatus, BeginFenced
  <2>2. /\ UNCHANGED <<session, launching, sup, root, helpers>> /\ pc[c] = "idle" /\ pc'[c] = "lock"
        /\ \A d \in Clients \ {c} : pc'[d] = pc[d] /\ job'[d] = job[d]
    BY <2>1 DEF Accept, Goto, Job1, files, procs, Ground, TypeInv, TypeOK, ClientsTyped
  <2>3. HandsKept
    BY <2>2 DEF HandsKept, UnrecordedPcs
  <2>. QED BY <2>2, <2>3, StillStep
<1>3. ASSUME NEW l \in Launches, SupStep(l) \/ BlenderStep(l)
      PROVE  [Registry!RegistryNext]_(Registry!registryVars)
  <2>1. CASE SupSpawns(l)
    BY <2>1, StartImplements
  <2>2. CASE ~SupSpawns(l)
    BY <1>0, <1>3, <2>2, ProcessImplements, EndStep
  <2>. QED BY <2>1, <2>2
<1>4. ASSUME FaultStep PROVE UNCHANGED Registry!registryVars
  <2>1. \E p \in BasePort..MaxPort : ForeignBinds(p)
    BY <1>4 DEF FaultStep, ClientFault, Crash, Interrupt, SupKilled, Fault, Calm, Violent
  <2>2. UNCHANGED <<session, launching, sup, root, helpers, pc, job>>
    BY <2>1 DEF ForeignBinds, files
  <2>. QED BY <2>2, StillStep DEF HandsKept
<1>5. ASSUME UNCHANGED vars PROVE UNCHANGED Registry!registryVars
  <2>1. UNCHANGED <<session, launching, sup, root, helpers, pc, job>>
    BY <1>5 DEF vars, files, procs
  <2>. QED BY <2>1, StillStep DEF HandsKept
<1>. QED BY <1>1, <1>2, <1>3, <1>4, <1>5 DEF Next, Quiet

\* Whatever calm clients, supervisors and Blenders do together, they keep the
\* promises of the registry: a name has one Session, a launch one life, Blender
\* starts for a registered launch only, no two Sessions with a process share a
\* port, and none is forgotten while a process of it is left (sessions.py,
\* posix_launcher.py).
THEOREM RegistryKept == ASSUME Calm PROVE Spec => ImplementsRegistry
<1>1. Init => Registry!RegistryInit
  BY RegistryStart
<1>2. (Ground /\ PortInv /\ CalmInv /\ AnswerInv) /\ [Next]_vars
          => [Registry!RegistryNext]_(Registry!registryVars)
  BY RegistryStep
<1>3. Spec => [](Ground /\ PortInv /\ CalmInv /\ AnswerInv)
  BY AnchorsStay
<1>. QED BY <1>1, <1>2, <1>3, PTL DEF Spec, ImplementsRegistry, Registry!RegistrySpec
-----------------------------------------------------------------------------
(* What the registry's promises come to *)

\* Its invariant, name by name and launch by launch
Of(n, l)  == Entered(n) # Registry!NoEntry /\ Entered(n).launch = l
Alive(l)  == LifeOf(l) # "over"
Typed     == \A n \in Names : Entered(n) # Registry!NoEntry => Entered(n) \in Registry!Entry
Single    == \A m, n \in Names, l \in Launches : Of(m, l) /\ Of(n, l) => m = n
Sheltered == \A l \in Launches : LifeOf(l) = "up" => \E n \in Names : Of(n, l)
Begun     == \A n \in Names, l \in Launches : Of(n, l) /\ Entered(n).phase = "ready" => LifeOf(l) # "none"
Apart     == \A m, n \in Names, k, l \in Launches :
                Of(m, k) /\ Of(n, l) /\ m # n /\ Alive(k) /\ Alive(l) => Entered(m).port # Entered(n).port
Done      == \A l \in Spent : l \in Launches /\ ~Alive(l) /\ \A n \in Names : ~Of(n, l)
Promises  == Typed /\ Single /\ Sheltered /\ Begun /\ Apart /\ Done

\* They imply it.
LEMMA PromisesAre == Promises => Registry!RegistryInv
<1>. SUFFICES ASSUME Promises PROVE Registry!RegistryInv
  OBVIOUS
<1>. USE DEF Promises, Of, Alive, Registry!Holds
<1>1. Registry!RegistryTypeOK
  BY DEF Typed, Done, LifeOf, Registry!RegistryTypeOK
<1>2. Registry!OneName
  BY DEF Typed, Single, Registry!OneName, Registry!Entry
<1>3. Registry!BlenderHeld
  BY DEF Sheltered, Registry!BlenderHeld, Registry!Registered
<1>4. Registry!ReadyBegun
  BY DEF Typed, Begun, Registry!ReadyBegun, Registry!Entry
<1>5. Registry!OwnPorts
  BY DEF Typed, Apart, Registry!OwnPorts, Registry!Entry
<1>6. Registry!SpentIsOver
  BY DEF Done, Registry!SpentIsOver, Registry!Registered
<1>. QED BY <1>1, <1>2, <1>3, <1>4, <1>5, <1>6 DEF Registry!RegistryInv

\* Initially they hold.
LEMMA PromisesInit == Init => Promises
BY DEF Init, Promises, Typed, Single, Sheltered, Begun, Apart, Done, Of, Alive, Entered, Current,
   Registry!NoEntry, LifeOf, Spent

\* A launch that is registered is new, and on a port of its own.
LEMMA RegisterKeeps ==
    ASSUME Promises, NEW n \in Names, Registry!Register(n) PROVE Promises'
<1>1. \A m \in Names \ {n} : Entered(m)' = Entered(m)
  BY DEF Promises, Typed, Of, Alive, Registry!Entry, Registry!NoEntry,
     Registry!Holds, Registry!Registered, Registry!Register
<1>2. Entered(n)' \in [launch : Launches \ Spent, port : Nat, phase : {"starting"}] /\ Entered(n) = Registry!NoEntry
  BY <1>1 DEF Promises, Typed, Of, Alive, Registry!Entry, Registry!NoEntry,
     Registry!Holds, Registry!Registered, Registry!Register
<1>3. \A m \in Names : ~Of(m, Entered(n)'.launch)
  BY <1>1, <1>2 DEF Promises, Typed, Of, Alive, Registry!Entry, Registry!NoEntry,
     Registry!Holds, Registry!Registered, Registry!Register
<1>4. \A m \in Names, l \in Launches : Of(m, l) /\ Alive(l) => Entered(m).port # Entered(n)'.port
  BY <1>1, <1>2, <1>3 DEF Promises, Typed, Of, Alive, Registry!Entry, Registry!NoEntry,
     Registry!Holds, Registry!Registered, Registry!Register
<1>5. Spent' = Spent /\ \A l \in Launches : LifeOf(l)' = LifeOf(l)
  BY <1>1, <1>2, <1>3, <1>4 DEF Promises, Typed, Of, Alive, Registry!Entry, Registry!NoEntry,
     Registry!Holds, Registry!Registered, Registry!Register
<1>. USE <1>1, <1>2, <1>3, <1>4, <1>5 DEF Promises, Of, Alive
<1>6. Typed'
  BY DEF Typed, Registry!Entry, Registry!NoEntry
<1>7. Single'
  BY DEF Single
<1>8. Sheltered'
  BY DEF Sheltered
<1>9. Begun'
  BY DEF Begun
<1>10. Apart'
  BY DEF Apart
<1>11. Done'
  BY DEF Done
<1>. QED BY <1>6, <1>7, <1>8, <1>9, <1>10, <1>11

\* A Blender that starts has its Session.
LEMMA StartBlenderKeeps ==
    ASSUME Promises, NEW n \in Names, Registry!StartBlender(n) PROVE Promises'
<1>1. Spent' = Spent /\ \A m \in Names : Entered(m)' = Entered(m)
  BY DEF Promises, Typed, Of, Alive, Registry!Entry, Registry!NoEntry,
     Registry!Holds, Registry!Registered, Registry!StartBlender
<1>2. \E l \in Launches : Of(n, l) /\ LifeOf(l) = "none" /\ LifeOf(l)' = "up" /\ \A k \in Launches \ {l} : LifeOf(k)' = LifeOf(k)
  BY <1>1 DEF Promises, Typed, Of, Alive, Registry!Entry, Registry!NoEntry,
     Registry!Holds, Registry!Registered, Registry!StartBlender
<1>. USE <1>1, <1>2 DEF Promises, Of, Alive
<1>3. Typed'
  BY DEF Typed, Registry!Entry, Registry!NoEntry
<1>4. Single'
  BY DEF Single
<1>5. Sheltered'
  BY DEF Sheltered
<1>6. Begun'
  BY DEF Begun
<1>7. Apart'
  BY DEF Apart
<1>8. Done'
  BY DEF Done
<1>. QED BY <1>3, <1>4, <1>5, <1>6, <1>7, <1>8

\* A Session that is confirmed stays what it is.
LEMMA ConfirmKeeps ==
    ASSUME Promises, NEW n \in Names, Registry!Confirm(n) PROVE Promises'
<1>1. \A m \in Names \ {n} : Entered(m)' = Entered(m)
  BY DEF Promises, Typed, Of, Alive, Registry!Entry, Registry!NoEntry,
     Registry!Holds, Registry!Registered, Registry!Confirm
<1>2. Entered(n) # Registry!NoEntry /\ Entered(n)' # Registry!NoEntry
  BY <1>1 DEF Promises, Typed, Of, Alive, Registry!Entry, Registry!NoEntry,
     Registry!Holds, Registry!Registered, Registry!Confirm
<1>3. Entered(n)' \in Registry!Entry /\ Entered(n)'.launch = Entered(n).launch /\ Entered(n)'.port = Entered(n).port
  BY <1>1, <1>2 DEF Promises, Typed, Of, Alive, Registry!Entry, Registry!NoEntry,
     Registry!Holds, Registry!Registered, Registry!Confirm
<1>4. Spent' = Spent /\ \A l \in Launches : LifeOf(l)' = LifeOf(l) /\ (Of(n, l) => LifeOf(l) # "none")
  BY <1>1, <1>2, <1>3 DEF Promises, Typed, Of, Alive, Registry!Entry, Registry!NoEntry,
     Registry!Holds, Registry!Registered, Registry!Confirm
<1>. USE <1>1, <1>2, <1>3, <1>4 DEF Promises, Of, Alive
<1>5. Typed'
  BY DEF Typed, Registry!Entry, Registry!NoEntry
<1>6. Single'
  BY DEF Single
<1>7. Sheltered'
  BY DEF Sheltered
<1>8. Begun'
  BY DEF Begun
<1>9. Apart'
  BY DEF Apart
<1>10. Done'
  BY DEF Done
<1>. QED BY <1>5, <1>6, <1>7, <1>8, <1>9, <1>10

\* A Session that is forgotten is over.
LEMMA ForgetKeeps ==
    ASSUME Promises, NEW n \in Names, Registry!Forget(n) PROVE Promises'
<1>1. \A m \in Names \ {n} : Entered(m)' = Entered(m)
  BY DEF Promises, Typed, Of, Alive, Registry!Entry, Registry!NoEntry,
     Registry!Holds, Registry!Registered, Registry!Forget
<1>2. Entered(n)' = Registry!NoEntry
  BY <1>1 DEF Promises, Typed, Of, Alive, Registry!Entry, Registry!NoEntry,
     Registry!Holds, Registry!Registered, Registry!Forget
<1>3. \E l \in Launches : Of(n, l) /\ LifeOf(l) = "over" /\ Spent' = Spent \cup {l}
  BY <1>1, <1>2 DEF Promises, Typed, Of, Alive, Registry!Entry, Registry!NoEntry,
     Registry!Holds, Registry!Registered, Registry!Forget
<1>4. \A l \in Launches : LifeOf(l)' = LifeOf(l)
  BY <1>1, <1>2, <1>3 DEF Promises, Typed, Of, Alive, Registry!Entry, Registry!NoEntry,
     Registry!Holds, Registry!Registered, Registry!Forget
<1>. USE <1>1, <1>2, <1>3, <1>4 DEF Promises, Of, Alive
<1>5. Typed'
  BY DEF Typed, Registry!Entry, Registry!NoEntry
<1>6. Single'
  BY DEF Single
<1>7. Sheltered'
  BY DEF Sheltered
<1>8. Begun'
  BY DEF Begun
<1>9. Apart'
  BY DEF Apart
<1>10. Done'
  BY DEF Done, Single
<1>. QED BY <1>5, <1>6, <1>7, <1>8, <1>9, <1>10

\* A tree that ends is no more trouble.
LEMMA EndTreeKeeps ==
    ASSUME Promises, NEW k \in Launches, Registry!EndTree(k) PROVE Promises'
<1>1. Spent' = Spent /\ \A m \in Names : Entered(m)' = Entered(m)
  BY DEF Promises, Typed, Of, Alive, Registry!Entry, Registry!NoEntry,
     Registry!Holds, Registry!Registered, Registry!EndTree
<1>2. LifeOf(k)' = "over" /\ \A l \in Launches \ {k} : LifeOf(l)' = LifeOf(l)
  BY <1>1 DEF Promises, Typed, Of, Alive, Registry!Entry, Registry!NoEntry,
     Registry!Holds, Registry!Registered, Registry!EndTree
<1>. USE <1>1, <1>2 DEF Promises, Of, Alive
<1>3. Typed'
  BY DEF Typed, Registry!Entry, Registry!NoEntry
<1>4. Single'
  BY DEF Single
<1>5. Sheltered'
  BY DEF Sheltered
<1>6. Begun'
  BY DEF Begun
<1>7. Apart'
  BY DEF Apart
<1>8. Done'
  BY DEF Done
<1>. QED BY <1>3, <1>4, <1>5, <1>6, <1>7, <1>8

\* A launch that is given up is over.
LEMMA GiveUpKeeps ==
    ASSUME Promises, NEW k \in Launches, Registry!GiveUpLaunch(k) PROVE Promises'
<1>1. (\A m \in Names : Entered(m)' = Entered(m)) /\ \A l \in Launches : LifeOf(l)' = LifeOf(l)
  BY DEF Promises, Typed, Of, Alive, Registry!Entry, Registry!NoEntry,
     Registry!Holds, Registry!Registered, Registry!GiveUpLaunch
<1>2. Spent' = Spent \cup {k} /\ LifeOf(k) = "over" /\ \A m \in Names : ~Of(m, k)
  BY <1>1 DEF Promises, Typed, Of, Alive, Registry!Entry, Registry!NoEntry,
     Registry!Holds, Registry!Registered, Registry!GiveUpLaunch
<1>. USE <1>1, <1>2 DEF Promises, Of, Alive
<1>3. Typed'
  BY DEF Typed, Registry!Entry, Registry!NoEntry
<1>4. Single'
  BY DEF Single
<1>5. Sheltered'
  BY DEF Sheltered
<1>6. Begun'
  BY DEF Begun
<1>7. Apart'
  BY DEF Apart
<1>8. Done'
  BY DEF Done
<1>. QED BY <1>3, <1>4, <1>5, <1>6, <1>7, <1>8

\* Every step of the registry keeps them.
LEMMA PromisesStep ==
    ASSUME Promises, [Registry!RegistryNext]_(Registry!registryVars) PROVE Promises'
<1>1. CASE UNCHANGED Registry!registryVars
  <2>1. (\A m \in Names : Entered(m)' = Entered(m)) /\ Spent' = Spent
        /\ \A l \in Launches : LifeOf(l)' = LifeOf(l)
    BY <1>1 DEF Registry!registryVars
  <2>. QED BY <2>1 DEF Promises, Typed, Single, Sheltered, Begun, Apart, Done, Of, Alive
<1>2. CASE Registry!RegistryNext
  BY <1>2, RegisterKeeps, StartBlenderKeeps, ConfirmKeeps, ForgetKeeps, EndTreeKeeps, GiveUpKeeps
     DEF Registry!RegistryNext
<1>. QED BY <1>1, <1>2

\* In a calm system, whatever clients, supervisors and Blenders do together, a
\* launch is the Session of one name, a Blender that runs belongs to a Session
\* that is recorded, a recorded Session had its Blender started, and no two
\* Sessions that have a process share a port.
THEOREM SessionsHold == ASSUME Calm PROVE Spec => []Registry!RegistryInv
<1>1. Init => Promises
  BY PromisesInit
<1>2. Promises /\ [Registry!RegistryNext]_(Registry!registryVars) => Promises'
  BY PromisesStep
<1>3. Promises => Registry!RegistryInv
  BY PromisesAre
<1>4. Spec => ImplementsRegistry
  BY RegistryKept
<1>. QED BY <1>1, <1>2, <1>3, <1>4, PTL DEF Spec, ImplementsRegistry, Registry!RegistrySpec
=============================================================================
