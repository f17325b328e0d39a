-------------------------- MODULE SetupOwnerProofs --------------------------
(***************************************************************************)
(* Proofs about SetupOwner, for any set of callers, requests and faults.   *)
(***************************************************************************)
EXTENDS SetupOwner, TLAPS

InSection == {"abandon", "owned", "cancel", "io", "overdue"}
BeforeRoot == {"none", "load", "gate", "create"}
Stopping == {"stopAck", "publishNoAck", "stopWait", "stopKill", "reconcile", "publishCancelled"}

\* Who holds the lock is where it was taken.
LockInv ==
    /\ lock = Keeper <=> kpc \in InSection
    /\ \A c \in Callers : lock = c <=> pc[c] = "giveUpPublish"

\* What a caller knows at each point of its command.
CallerInv ==
    /\ \A c \in Callers :
          /\ pc[c] # "idle" => request # NoRequest
          /\ pc[c] = "giveUpPublish" => terminal = NoTerminal /\ ~receipt /\ stopAsked
          /\ pc[c] = "spawn" => dispatched /\ kpc = "none"
          /\ pc[c] \in Stopping => stopAsked
          /\ pc[c] = "publishNoAck" => ~ran /\ kpc # "io"
    /\ \A c, d \in Callers : pc[c] = "spawn" /\ pc[d] = "spawn" => c = d

\* What the keeper knows at each of its points.
KeeperInv ==
    /\ dispatched => request # NoRequest
    /\ kpc # "none" => dispatched
    /\ receipt => kpc \notin BeforeRoot \cup {"own", "abandon"}
    /\ kpc \in InSection \ {"abandon"} => receipt /\ terminal = NoTerminal
    /\ kpc \in {"watch", "watchJob", "readExit", "collect"} => ran
    /\ kpc \in BeforeRoot \cup InSection \cup {"own"} => ~ran
    /\ kpc = "io" => ~stopAsked
    /\ kpc \in {"readExit", "collect"} => verdict.process # "none"
    /\ kpc = "collect" /\ verdict.exit = "zero" => root = "zero"

\* The tree: born suspended, resumed after the receipt and at most once.
TreeInv ==
    /\ kpc \in BeforeRoot => root = "none" /\ ~doomed
    /\ kpc \in {"own", "owned", "io"} => root = "suspended" /\ ~doomed
    /\ ran => receipt /\ root \notin {"none", "suspended"}
    /\ ~ran => root \in {"none", "suspended", "killed"} /\ ~child

\* The terminal about to be published.
DraftInv ==
    kpc = "publish" =>
       /\ draft \in Terminals
       /\ SemanticsValid(draft)
       /\ NeverRan(draft) => ~ran
       /\ draft.cleanup = "tree_gone" => JobEmpty
       /\ Succeeded(draft) => root = "zero"

\* The terminal that is published.
TerminalInv ==
    terminal # NoTerminal =>
       /\ request # NoRequest
       /\ SemanticsValid(terminal)
       /\ NeverRan(terminal) => ~ran
       /\ terminal.cleanup = "tree_gone" => JobEmpty /\ (~dispatched \/ kpc \in {"close", "dead"})
       /\ Succeeded(terminal) => ran /\ root = "zero"

StoryInv == answered \subseteq {terminal}

NothingTold == terminal = NoTerminal => answered = {}

IInv == TypeOK /\ LockInv /\ CallerInv /\ KeeperInv /\ TreeInv /\ DraftInv
           /\ TerminalInv /\ StoryInv /\ NothingTold

-----------------------------------------------------------------------------
(* The records.                                                            *)

\* The terminals the code writes literally are readable records, and what
\* each says of the script and of the tree.
LEMMA BareRecords ==
    /\ \A t \in {LaunchFailed, Unstaged, StoppedBeforeOwner, StoppedBeforeStart,
                 Overdue, OwnerLost, StopUnverified} :
          t \in Terminals /\ SemanticsValid(t) /\ ~Succeeded(t)
    /\ \A t \in {LaunchFailed, OwnerLost, StopUnverified} : t.cleanup # "tree_gone"
    /\ \A t \in {OwnerLost, StopUnverified} : ~NeverRan(t)
  BY DEF LaunchFailed, Unstaged, StoppedBeforeOwner, StoppedBeforeStart, Overdue,
         OwnerLost, StopUnverified, Bare, Terminals, Outcomes, Processes, Cleanups,
         ExitCodes, SemanticsValid, Succeeded, NeverRan

\* The terminal of a failed keeper.
LEMMA FailureRecord ==
    ASSUME NEW resumed \in BOOLEAN, NEW cleanup \in Cleanups
    PROVE  LET t == Failure(resumed, cleanup)
           IN /\ t \in Terminals /\ SemanticsValid(t) /\ ~Succeeded(t)
              /\ t.cleanup = cleanup
              /\ NeverRan(t) => ~resumed
  BY DEF Failure, Bare, Terminals, Outcomes, Processes, Cleanups, ExitCodes,
         SemanticsValid, Succeeded, NeverRan

\* The terminal of a script that ran.
LEMMA ResultRecord ==
    ASSUME NEW v \in [process: {"exited", "cancelled", "timed_out"}, exit: ExitCodes],
           NEW truncated \in BOOLEAN
    PROVE  LET t == Result(v, truncated)
           IN /\ t \in Terminals /\ SemanticsValid(t) /\ ~NeverRan(t)
              /\ t.cleanup = "tree_gone"
              /\ Succeeded(t) => v.exit = "zero"
  BY DEF Result, Terminals, Outcomes, Processes, Cleanups, ExitCodes,
         SemanticsValid, Succeeded, NeverRan

\* "There is no terminal" is not a terminal.
LEMMA NoTerminalIsNone == NoTerminal \notin Terminals
  BY DEF NoTerminal, Terminals, Outcomes

-----------------------------------------------------------------------------
(* The invariant survives every action: one lemma per action, one step per *)
(* conjunct.                                                               *)

USE DistinctHolders, NoTerminalIsNone
    DEF IInv, LockInv, CallerInv, KeeperInv, TreeInv, StoryInv, NothingTold, InSection, BeforeRoot, Stopping,
        JobEmpty, Alive, Exits, caller, records, keeper, tree

LEMMA LaunchAcceptKeeps == ASSUME IInv, NEW c \in Callers, NEW r \in Requests, LaunchAccept(c, r) PROVE IInv'
<1>1. TypeOK'
  BY SMTT(20), BareRecords DEF TypeOK, LaunchAccept, Goto, CallerPoints, KeeperPoints, RootStates, ExitCodes
<1>2. LockInv'
  BY RealRequests DEF TypeOK, LockInv, LaunchAccept, Goto
<1>3. CallerInv'
  BY RealRequests DEF TypeOK, CallerInv, LaunchAccept, Goto
<1>4. KeeperInv'
  BY RealRequests DEF KeeperInv, LaunchAccept, Goto
<1>5. TreeInv'
  BY RealRequests DEF TreeInv, LaunchAccept, Goto
<1>6. DraftInv'
  BY BareRecords DEF DraftInv, LaunchAccept, Goto
<1>7. TerminalInv'
  BY BareRecords DEF TerminalInv, LaunchAccept, Goto
<1>8. StoryInv'
  BY BareRecords, RealRequests DEF StoryInv, LaunchAccept, Goto
<1>9. NothingTold'
  BY BareRecords, RealRequests DEF NothingTold, LaunchAccept, Goto
<1> QED
  BY <1>1, <1>2, <1>3, <1>4, <1>5, <1>6, <1>7, <1>8, <1>9 DEF IInv

LEMMA LaunchDispatchKeeps == ASSUME IInv, NEW c \in Callers, LaunchDispatch(c) PROVE IInv'
<1>1. TypeOK'
  <2>1. pc' \in [Callers -> CallerPoints]
    BY BareRecords DEF TypeOK, LaunchDispatch, View, Answer, Goto, CallerPoints, KeeperPoints, RootStates, ExitCodes
  <2>2. answered' \subseteq Terminals
    BY BareRecords DEF TypeOK, LaunchDispatch, View, Answer, Goto, CallerPoints, KeeperPoints, RootStates, ExitCodes
  <2>3. dispatched' \in BOOLEAN
    BY BareRecords DEF TypeOK, LaunchDispatch, View, Answer, Goto, CallerPoints, KeeperPoints, RootStates, ExitCodes
  <2> QED
    BY <2>1, <2>2, <2>3 DEF TypeOK, LaunchDispatch, View, Answer, Goto
<1>2. LockInv'
  BY  DEF TypeOK, LockInv, LaunchDispatch, View, Answer, Goto
<1>3. CallerInv'
  BY  DEF TypeOK, CallerInv, LaunchDispatch, View, Answer, Goto
<1>4. KeeperInv'
  BY  DEF KeeperInv, LaunchDispatch, View, Answer, Goto
<1>5. TreeInv'
  BY  DEF TreeInv, LaunchDispatch, View, Answer, Goto
<1>6. DraftInv'
  BY BareRecords DEF DraftInv, LaunchDispatch, View, Answer, Goto
<1>7. TerminalInv'
  BY BareRecords DEF TerminalInv, LaunchDispatch, View, Answer, Goto
<1>8. StoryInv'
  BY BareRecords DEF StoryInv, LaunchDispatch, View, Answer, Goto
<1>9. NothingTold'
  BY BareRecords DEF NothingTold, LaunchDispatch, View, Answer, Goto
<1> QED
  BY <1>1, <1>2, <1>3, <1>4, <1>5, <1>6, <1>7, <1>8, <1>9 DEF IInv

LEMMA LaunchSpawnKeeps == ASSUME IInv, NEW c \in Callers, LaunchSpawn(c) PROVE IInv'
<1>1. TypeOK'
  BY SMTT(20), BareRecords DEF TypeOK, LaunchSpawn, Goto, CallerPoints, KeeperPoints, RootStates, ExitCodes
<1>2. LockInv'
  BY  DEF TypeOK, LockInv, LaunchSpawn, Goto
<1>3. CallerInv'
  BY  DEF TypeOK, CallerInv, LaunchSpawn, Goto
<1>4. KeeperInv'
  BY  DEF KeeperInv, LaunchSpawn, Goto
<1>5. TreeInv'
  BY  DEF TreeInv, LaunchSpawn, Goto
<1>6. DraftInv'
  BY BareRecords DEF DraftInv, LaunchSpawn, Goto
<1>7. TerminalInv'
  BY BareRecords DEF TerminalInv, LaunchSpawn, Goto
<1>8. StoryInv'
  BY BareRecords DEF StoryInv, LaunchSpawn, Goto
<1>9. NothingTold'
  BY BareRecords DEF NothingTold, LaunchSpawn, Goto
<1> QED
  BY <1>1, <1>2, <1>3, <1>4, <1>5, <1>6, <1>7, <1>8, <1>9 DEF IInv

LEMMA LaunchAwaitKeeps == ASSUME IInv, NEW c \in Callers, LaunchAwait(c) PROVE IInv'
<1>1. TypeOK'
  BY SMTT(20), BareRecords DEF TypeOK, LaunchAwait, View, Answer, Goto, CallerPoints, KeeperPoints, RootStates, ExitCodes
<1>2. LockInv'
  BY  DEF TypeOK, LockInv, LaunchAwait, View, Answer, Goto
<1>3. CallerInv'
  BY  DEF TypeOK, CallerInv, LaunchAwait, View, Answer, Goto
<1>4. KeeperInv'
  BY  DEF KeeperInv, LaunchAwait, View, Answer, Goto
<1>5. TreeInv'
  BY  DEF TreeInv, LaunchAwait, View, Answer, Goto
<1>6. DraftInv'
  BY BareRecords DEF DraftInv, LaunchAwait, View, Answer, Goto
<1>7. TerminalInv'
  BY BareRecords DEF TerminalInv, LaunchAwait, View, Answer, Goto
<1>8. StoryInv'
  BY BareRecords DEF StoryInv, LaunchAwait, View, Answer, Goto
<1>9. NothingTold'
  BY BareRecords DEF NothingTold, LaunchAwait, View, Answer, Goto
<1> QED
  BY <1>1, <1>2, <1>3, <1>4, <1>5, <1>6, <1>7, <1>8, <1>9 DEF IInv

LEMMA GiveUpKeeps == ASSUME IInv, NEW c \in Callers, GiveUp(c) PROVE IInv'
<1>1. TypeOK'
  <2>1. pc' \in [Callers -> CallerPoints]
    BY BareRecords DEF TypeOK, GiveUp, View, Answer, Goto, CallerPoints, KeeperPoints, RootStates, ExitCodes
  <2>2. answered' \subseteq Terminals
    BY BareRecords DEF TypeOK, GiveUp, View, Answer, Goto, CallerPoints, KeeperPoints, RootStates, ExitCodes
  <2>3. stopAsked' \in BOOLEAN /\ lock' \in Callers \cup {Keeper, Nobody}
    BY BareRecords DEF TypeOK, GiveUp, View, Answer, Goto, CallerPoints, KeeperPoints, RootStates, ExitCodes
  <2> QED
    BY <2>1, <2>2, <2>3 DEF TypeOK, GiveUp, View, Answer, Goto
<1>2. LockInv'
  BY  DEF TypeOK, LockInv, GiveUp, View, Answer, Goto
<1>3. CallerInv'
  BY  DEF TypeOK, CallerInv, GiveUp, View, Answer, Goto
<1>4. KeeperInv'
  BY  DEF KeeperInv, GiveUp, View, Answer, Goto
<1>5. TreeInv'
  BY  DEF TreeInv, GiveUp, View, Answer, Goto
<1>6. DraftInv'
  BY BareRecords DEF DraftInv, GiveUp, View, Answer, Goto
<1>7. TerminalInv'
  BY BareRecords DEF TerminalInv, GiveUp, View, Answer, Goto
<1>8. StoryInv'
  BY BareRecords DEF StoryInv, GiveUp, View, Answer, Goto
<1>9. NothingTold'
  BY BareRecords DEF NothingTold, GiveUp, View, Answer, Goto
<1> QED
  BY <1>1, <1>2, <1>3, <1>4, <1>5, <1>6, <1>7, <1>8, <1>9 DEF IInv

LEMMA GiveUpPublishKeeps == ASSUME IInv, NEW c \in Callers, GiveUpPublish(c) PROVE IInv'
<1>1. TypeOK'
  BY SMTT(20), BareRecords DEF TypeOK, GiveUpPublish, Goto, CallerPoints, KeeperPoints, RootStates, ExitCodes
<1>2. LockInv'
  BY  DEF TypeOK, LockInv, GiveUpPublish, Goto
<1>3. CallerInv'
  BY  DEF TypeOK, CallerInv, GiveUpPublish, Goto
<1>4. KeeperInv'
  BY  DEF KeeperInv, GiveUpPublish, Goto
<1>5. TreeInv'
  BY  DEF TreeInv, GiveUpPublish, Goto
<1>6. DraftInv'
  BY BareRecords DEF DraftInv, GiveUpPublish, Goto
<1>7. TerminalInv'
  BY BareRecords DEF TerminalInv, GiveUpPublish, Goto
<1>8. StoryInv'
  BY BareRecords DEF StoryInv, GiveUpPublish, Goto
<1>9. NothingTold'
  BY BareRecords DEF NothingTold, GiveUpPublish, Goto
<1> QED
  BY <1>1, <1>2, <1>3, <1>4, <1>5, <1>6, <1>7, <1>8, <1>9 DEF IInv

LEMMA StatusKeeps == ASSUME IInv, NEW c \in Callers, NEW r \in Requests, Status(c, r) PROVE IInv'
<1>1. TypeOK'
  BY SMTT(20), BareRecords DEF TypeOK, Status, View, Answer, Goto, CallerPoints, KeeperPoints, RootStates, ExitCodes
<1>2. LockInv'
  BY  DEF TypeOK, LockInv, Status, View, Answer, Goto
<1>3. CallerInv'
  BY  DEF TypeOK, CallerInv, Status, View, Answer, Goto
<1>4. KeeperInv'
  BY  DEF KeeperInv, Status, View, Answer, Goto
<1>5. TreeInv'
  BY  DEF TreeInv, Status, View, Answer, Goto
<1>6. DraftInv'
  BY BareRecords DEF DraftInv, Status, View, Answer, Goto
<1>7. TerminalInv'
  BY BareRecords DEF TerminalInv, Status, View, Answer, Goto
<1>8. StoryInv'
  BY BareRecords DEF StoryInv, Status, View, Answer, Goto
<1>9. NothingTold'
  BY BareRecords DEF NothingTold, Status, View, Answer, Goto
<1> QED
  BY <1>1, <1>2, <1>3, <1>4, <1>5, <1>6, <1>7, <1>8, <1>9 DEF IInv

LEMMA LossDecideKeeps == ASSUME IInv, NEW c \in Callers, LossDecide(c) PROVE IInv'
<1>1. TypeOK'
  BY SMTT(20), BareRecords DEF TypeOK, LossDecide, Goto, CallerPoints, KeeperPoints, RootStates, ExitCodes
<1>2. LockInv'
  BY  DEF TypeOK, LockInv, LossDecide, Goto
<1>3. CallerInv'
  BY  DEF TypeOK, CallerInv, LossDecide, Goto
<1>4. KeeperInv'
  BY  DEF KeeperInv, LossDecide, Goto
<1>5. TreeInv'
  BY  DEF TreeInv, LossDecide, Goto
<1>6. DraftInv'
  BY BareRecords DEF DraftInv, LossDecide, Goto
<1>7. TerminalInv'
  BY BareRecords DEF TerminalInv, LossDecide, Goto
<1>8. StoryInv'
  BY BareRecords DEF StoryInv, LossDecide, Goto
<1>9. NothingTold'
  BY BareRecords DEF NothingTold, LossDecide, Goto
<1> QED
  BY <1>1, <1>2, <1>3, <1>4, <1>5, <1>6, <1>7, <1>8, <1>9 DEF IInv

LEMMA PublishLostKeeps == ASSUME IInv, NEW c \in Callers, PublishLost(c) PROVE IInv'
<1>1. TypeOK'
  BY SMTT(20), BareRecords DEF TypeOK, PublishLost, CallerPublish, PublishTerminal, Goto, CallerPoints, KeeperPoints, RootStates, ExitCodes
<1>2. LockInv'
  BY  DEF TypeOK, LockInv, PublishLost, CallerPublish, PublishTerminal, Goto
<1>3. CallerInv'
  BY  DEF TypeOK, CallerInv, PublishLost, CallerPublish, PublishTerminal, Goto
<1>4. KeeperInv'
  BY  DEF KeeperInv, PublishLost, CallerPublish, PublishTerminal, Goto
<1>5. TreeInv'
  BY  DEF TreeInv, PublishLost, CallerPublish, PublishTerminal, Goto
<1>6. DraftInv'
  BY BareRecords DEF DraftInv, PublishLost, CallerPublish, PublishTerminal, Goto
<1>7. TerminalInv'
  BY BareRecords DEF TerminalInv, PublishLost, CallerPublish, PublishTerminal, Goto
<1>8. StoryInv'
  BY BareRecords DEF StoryInv, PublishLost, CallerPublish, PublishTerminal, Goto
<1>9. NothingTold'
  BY BareRecords DEF NothingTold, PublishLost, CallerPublish, PublishTerminal, Goto
<1> QED
  BY <1>1, <1>2, <1>3, <1>4, <1>5, <1>6, <1>7, <1>8, <1>9 DEF IInv

LEMMA StopKeeps == ASSUME IInv, NEW c \in Callers, NEW r \in Requests, Stop(c, r) PROVE IInv'
<1>1. TypeOK'
  <2>1. pc' \in [Callers -> CallerPoints]
    BY BareRecords DEF TypeOK, Stop, View, Answer, Goto, CallerPoints, KeeperPoints, RootStates, ExitCodes
  <2>2. answered' \subseteq Terminals
    BY BareRecords DEF TypeOK, Stop, View, Answer, Goto, CallerPoints, KeeperPoints, RootStates, ExitCodes
  <2>3. stopAsked' \in BOOLEAN
    BY BareRecords DEF TypeOK, Stop, View, Answer, Goto, CallerPoints, KeeperPoints, RootStates, ExitCodes
  <2>4. terminal' \in Terminals \cup {NoTerminal}
    BY BareRecords DEF TypeOK, Stop, View, Answer, Goto, CallerPoints, KeeperPoints, RootStates, ExitCodes
  <2> QED
    BY <2>1, <2>2, <2>3, <2>4 DEF TypeOK, Stop, View, Answer, Goto
<1>2. LockInv'
  BY  DEF TypeOK, LockInv, Stop, View, Answer, Goto
<1>3. CallerInv'
  BY  DEF TypeOK, CallerInv, Stop, View, Answer, Goto
<1>4. KeeperInv'
  BY  DEF KeeperInv, Stop, View, Answer, Goto
<1>5. TreeInv'
  BY  DEF TreeInv, Stop, View, Answer, Goto
<1>6. DraftInv'
  BY BareRecords DEF DraftInv, Stop, View, Answer, Goto
<1>7. TerminalInv'
  BY BareRecords DEF TerminalInv, Stop, View, Answer, Goto
<1>8. StoryInv'
  BY BareRecords DEF StoryInv, Stop, View, Answer, Goto
<1>9. NothingTold'
  BY BareRecords DEF NothingTold, Stop, View, Answer, Goto
<1> QED
  BY <1>1, <1>2, <1>3, <1>4, <1>5, <1>6, <1>7, <1>8, <1>9 DEF IInv

LEMMA StopAckKeeps == ASSUME IInv, NEW c \in Callers, StopAck(c) PROVE IInv'
<1>1. TypeOK'
  BY SMTT(20), BareRecords DEF TypeOK, StopAck, View, Answer, Goto, CallerPoints, KeeperPoints, RootStates, ExitCodes
<1>2. LockInv'
  BY  DEF TypeOK, LockInv, StopAck, View, Answer, Goto
<1>3. CallerInv'
  BY  DEF TypeOK, CallerInv, StopAck, View, Answer, Goto
<1>4. KeeperInv'
  BY  DEF KeeperInv, StopAck, View, Answer, Goto
<1>5. TreeInv'
  BY  DEF TreeInv, StopAck, View, Answer, Goto
<1>6. DraftInv'
  BY BareRecords DEF DraftInv, StopAck, View, Answer, Goto
<1>7. TerminalInv'
  BY BareRecords DEF TerminalInv, StopAck, View, Answer, Goto
<1>8. StoryInv'
  BY BareRecords DEF StoryInv, StopAck, View, Answer, Goto
<1>9. NothingTold'
  BY BareRecords DEF NothingTold, StopAck, View, Answer, Goto
<1> QED
  BY <1>1, <1>2, <1>3, <1>4, <1>5, <1>6, <1>7, <1>8, <1>9 DEF IInv

LEMMA PublishNoAckKeeps == ASSUME IInv, NEW c \in Callers, PublishNoAck(c) PROVE IInv'
<1>1. TypeOK'
  BY SMTT(20), BareRecords DEF TypeOK, PublishNoAck, CallerPublish, PublishTerminal, Goto, CallerPoints, KeeperPoints, RootStates, ExitCodes
<1>2. LockInv'
  BY  DEF TypeOK, LockInv, PublishNoAck, CallerPublish, PublishTerminal, Goto
<1>3. CallerInv'
  BY  DEF TypeOK, CallerInv, PublishNoAck, CallerPublish, PublishTerminal, Goto
<1>4. KeeperInv'
  BY  DEF KeeperInv, PublishNoAck, CallerPublish, PublishTerminal, Goto
<1>5. TreeInv'
  BY  DEF TreeInv, PublishNoAck, CallerPublish, PublishTerminal, Goto
<1>6. DraftInv'
  BY BareRecords DEF DraftInv, PublishNoAck, CallerPublish, PublishTerminal, Goto
<1>7. TerminalInv'
  BY BareRecords DEF TerminalInv, PublishNoAck, CallerPublish, PublishTerminal, Goto
<1>8. StoryInv'
  BY BareRecords DEF StoryInv, PublishNoAck, CallerPublish, PublishTerminal, Goto
<1>9. NothingTold'
  BY BareRecords DEF NothingTold, PublishNoAck, CallerPublish, PublishTerminal, Goto
<1> QED
  BY <1>1, <1>2, <1>3, <1>4, <1>5, <1>6, <1>7, <1>8, <1>9 DEF IInv

LEMMA StopWaitKeeps == ASSUME IInv, NEW c \in Callers, StopWait(c) PROVE IInv'
<1>1. TypeOK'
  BY SMTT(20), BareRecords DEF TypeOK, StopWait, View, Answer, Goto, CallerPoints, KeeperPoints, RootStates, ExitCodes
<1>2. LockInv'
  BY  DEF TypeOK, LockInv, StopWait, View, Answer, Goto
<1>3. CallerInv'
  BY  DEF TypeOK, CallerInv, StopWait, View, Answer, Goto
<1>4. KeeperInv'
  BY  DEF KeeperInv, StopWait, View, Answer, Goto
<1>5. TreeInv'
  BY  DEF TreeInv, StopWait, View, Answer, Goto
<1>6. DraftInv'
  BY BareRecords DEF DraftInv, StopWait, View, Answer, Goto
<1>7. TerminalInv'
  BY BareRecords DEF TerminalInv, StopWait, View, Answer, Goto
<1>8. StoryInv'
  BY BareRecords DEF StoryInv, StopWait, View, Answer, Goto
<1>9. NothingTold'
  BY BareRecords DEF NothingTold, StopWait, View, Answer, Goto
<1> QED
  BY <1>1, <1>2, <1>3, <1>4, <1>5, <1>6, <1>7, <1>8, <1>9 DEF IInv

LEMMA StopKillKeeps == ASSUME IInv, NEW c \in Callers, StopKill(c) PROVE IInv'
<1>1. TypeOK'
  BY SMTT(20), BareRecords DEF TypeOK, StopKill, KeeperEnds, KeeperAlive, Goto, CallerPoints, KeeperPoints, RootStates, ExitCodes
<1>2. LockInv'
  BY  DEF TypeOK, LockInv, StopKill, KeeperEnds, KeeperAlive, Goto
<1>3. CallerInv'
  BY  DEF TypeOK, CallerInv, StopKill, KeeperEnds, KeeperAlive, Goto
<1>4. KeeperInv'
  BY  DEF KeeperInv, StopKill, KeeperEnds, KeeperAlive, Goto
<1>5. TreeInv'
  BY  DEF TreeInv, StopKill, KeeperEnds, KeeperAlive, Goto
<1>6. DraftInv'
  BY BareRecords DEF DraftInv, StopKill, KeeperEnds, KeeperAlive, Goto
<1>7. TerminalInv'
  BY BareRecords DEF TerminalInv, StopKill, KeeperEnds, KeeperAlive, Goto
<1>8. StoryInv'
  BY BareRecords DEF StoryInv, StopKill, KeeperEnds, KeeperAlive, Goto
<1>9. NothingTold'
  BY BareRecords DEF NothingTold, StopKill, KeeperEnds, KeeperAlive, Goto
<1> QED
  BY <1>1, <1>2, <1>3, <1>4, <1>5, <1>6, <1>7, <1>8, <1>9 DEF IInv

LEMMA ReconcileKeeps == ASSUME IInv, NEW c \in Callers, Reconcile(c) PROVE IInv'
<1>1. TypeOK'
  BY SMTT(20), BareRecords DEF TypeOK, Reconcile, View, Answer, Goto, CallerPoints, KeeperPoints, RootStates, ExitCodes
<1>2. LockInv'
  BY  DEF TypeOK, LockInv, Reconcile, View, Answer, Goto
<1>3. CallerInv'
  BY  DEF TypeOK, CallerInv, Reconcile, View, Answer, Goto
<1>4. KeeperInv'
  BY  DEF KeeperInv, Reconcile, View, Answer, Goto
<1>5. TreeInv'
  BY  DEF TreeInv, Reconcile, View, Answer, Goto
<1>6. DraftInv'
  BY BareRecords DEF DraftInv, Reconcile, View, Answer, Goto
<1>7. TerminalInv'
  BY BareRecords DEF TerminalInv, Reconcile, View, Answer, Goto
<1>8. StoryInv'
  BY BareRecords DEF StoryInv, Reconcile, View, Answer, Goto
<1>9. NothingTold'
  BY BareRecords DEF NothingTold, Reconcile, View, Answer, Goto
<1> QED
  BY <1>1, <1>2, <1>3, <1>4, <1>5, <1>6, <1>7, <1>8, <1>9 DEF IInv

LEMMA PublishCancelledKeeps == ASSUME IInv, NEW c \in Callers, PublishCancelled(c) PROVE IInv'
<1>1. TypeOK'
  BY SMTT(20), BareRecords DEF TypeOK, PublishCancelled, CallerPublish, PublishTerminal, Goto, CallerPoints, KeeperPoints, RootStates, ExitCodes
<1>2. LockInv'
  BY  DEF TypeOK, LockInv, PublishCancelled, CallerPublish, PublishTerminal, Goto
<1>3. CallerInv'
  BY  DEF TypeOK, CallerInv, PublishCancelled, CallerPublish, PublishTerminal, Goto
<1>4. KeeperInv'
  BY  DEF KeeperInv, PublishCancelled, CallerPublish, PublishTerminal, Goto
<1>5. TreeInv'
  BY  DEF TreeInv, PublishCancelled, CallerPublish, PublishTerminal, Goto
<1>6. DraftInv'
  BY BareRecords DEF DraftInv, PublishCancelled, CallerPublish, PublishTerminal, Goto
<1>7. TerminalInv'
  BY BareRecords DEF TerminalInv, PublishCancelled, CallerPublish, PublishTerminal, Goto
<1>8. StoryInv'
  BY BareRecords DEF StoryInv, PublishCancelled, CallerPublish, PublishTerminal, Goto
<1>9. NothingTold'
  BY BareRecords DEF NothingTold, PublishCancelled, CallerPublish, PublishTerminal, Goto
<1> QED
  BY <1>1, <1>2, <1>3, <1>4, <1>5, <1>6, <1>7, <1>8, <1>9 DEF IInv

LEMMA CallerCrashKeeps == ASSUME IInv, NEW c \in Callers, CallerCrash(c) PROVE IInv'
<1>1. TypeOK'
  BY SMTT(20), BareRecords DEF TypeOK, CallerCrash, Goto, CallerPoints, KeeperPoints, RootStates, ExitCodes
<1>2. LockInv'
  BY  DEF TypeOK, LockInv, CallerCrash, Goto
<1>3. CallerInv'
  BY  DEF TypeOK, CallerInv, CallerCrash, Goto
<1>4. KeeperInv'
  BY  DEF KeeperInv, CallerCrash, Goto
<1>5. TreeInv'
  BY  DEF TreeInv, CallerCrash, Goto
<1>6. DraftInv'
  BY BareRecords DEF DraftInv, CallerCrash, Goto
<1>7. TerminalInv'
  BY BareRecords DEF TerminalInv, CallerCrash, Goto
<1>8. StoryInv'
  BY BareRecords DEF StoryInv, CallerCrash, Goto
<1>9. NothingTold'
  BY BareRecords DEF NothingTold, CallerCrash, Goto
<1> QED
  BY <1>1, <1>2, <1>3, <1>4, <1>5, <1>6, <1>7, <1>8, <1>9 DEF IInv

LEMMA KeeperStageKeeps == ASSUME IInv, KeeperStage PROVE IInv'
<1>1. TypeOK'
  BY SMTT(20), BareRecords DEF TypeOK, KeeperStage, KeeperAt, CallerPoints, KeeperPoints, RootStates, ExitCodes
<1>2. LockInv'
  BY  DEF TypeOK, LockInv, KeeperStage, KeeperAt
<1>3. CallerInv'
  BY  DEF TypeOK, CallerInv, KeeperStage, KeeperAt
<1>4. KeeperInv'
  BY  DEF KeeperInv, KeeperStage, KeeperAt
<1>5. TreeInv'
  BY  DEF TreeInv, KeeperStage, KeeperAt
<1>6. DraftInv'
  BY BareRecords DEF DraftInv, KeeperStage, KeeperAt
<1>7. TerminalInv'
  BY BareRecords DEF TerminalInv, KeeperStage, KeeperAt
<1>8. StoryInv'
  BY BareRecords DEF StoryInv, KeeperStage, KeeperAt
<1>9. NothingTold'
  BY BareRecords DEF NothingTold, KeeperStage, KeeperAt
<1> QED
  BY <1>1, <1>2, <1>3, <1>4, <1>5, <1>6, <1>7, <1>8, <1>9 DEF IInv

LEMMA KeeperGateKeeps == ASSUME IInv, KeeperGate PROVE IInv'
<1>1. TypeOK'
  BY SMTT(20), BareRecords DEF TypeOK, KeeperGate, KeeperAt, CallerPoints, KeeperPoints, RootStates, ExitCodes
<1>2. LockInv'
  BY  DEF TypeOK, LockInv, KeeperGate, KeeperAt
<1>3. CallerInv'
  BY  DEF TypeOK, CallerInv, KeeperGate, KeeperAt
<1>4. KeeperInv'
  BY  DEF KeeperInv, KeeperGate, KeeperAt
<1>5. TreeInv'
  BY  DEF TreeInv, KeeperGate, KeeperAt
<1>6. DraftInv'
  BY BareRecords DEF DraftInv, KeeperGate, KeeperAt
<1>7. TerminalInv'
  BY BareRecords DEF TerminalInv, KeeperGate, KeeperAt
<1>8. StoryInv'
  BY BareRecords DEF StoryInv, KeeperGate, KeeperAt
<1>9. NothingTold'
  BY BareRecords DEF NothingTold, KeeperGate, KeeperAt
<1> QED
  BY <1>1, <1>2, <1>3, <1>4, <1>5, <1>6, <1>7, <1>8, <1>9 DEF IInv

LEMMA KeeperCreateKeeps == ASSUME IInv, KeeperCreate PROVE IInv'
<1>1. TypeOK'
  BY SMTT(20), BareRecords DEF TypeOK, KeeperCreate, KeeperAt, CallerPoints, KeeperPoints, RootStates, ExitCodes
<1>2. LockInv'
  BY  DEF TypeOK, LockInv, KeeperCreate, KeeperAt
<1>3. CallerInv'
  BY  DEF TypeOK, CallerInv, KeeperCreate, KeeperAt
<1>4. KeeperInv'
  BY  DEF KeeperInv, KeeperCreate, KeeperAt
<1>5. TreeInv'
  BY  DEF TreeInv, KeeperCreate, KeeperAt
<1>6. DraftInv'
  BY BareRecords DEF DraftInv, KeeperCreate, KeeperAt
<1>7. TerminalInv'
  BY BareRecords DEF TerminalInv, KeeperCreate, KeeperAt
<1>8. StoryInv'
  BY BareRecords DEF StoryInv, KeeperCreate, KeeperAt
<1>9. NothingTold'
  BY BareRecords DEF NothingTold, KeeperCreate, KeeperAt
<1> QED
  BY <1>1, <1>2, <1>3, <1>4, <1>5, <1>6, <1>7, <1>8, <1>9 DEF IInv

LEMMA KeeperOwnKeeps == ASSUME IInv, KeeperOwn PROVE IInv'
<1>1. TypeOK'
  BY ZenonT(40), BareRecords DEF TypeOK, KeeperOwn, KeeperAt, Terminate, CallerPoints, KeeperPoints, RootStates, ExitCodes
<1>2. LockInv'
  BY  DEF TypeOK, LockInv, KeeperOwn, KeeperAt, Terminate
<1>3. CallerInv'
  BY  DEF TypeOK, CallerInv, KeeperOwn, KeeperAt, Terminate
<1>4. KeeperInv'
  BY  DEF KeeperInv, KeeperOwn, KeeperAt, Terminate
<1>5. TreeInv'
  BY  DEF TreeInv, KeeperOwn, KeeperAt, Terminate
<1>6. DraftInv'
  BY BareRecords DEF DraftInv, KeeperOwn, KeeperAt, Terminate
<1>7. TerminalInv'
  BY BareRecords DEF TerminalInv, KeeperOwn, KeeperAt, Terminate
<1>8. StoryInv'
  BY BareRecords DEF StoryInv, KeeperOwn, KeeperAt, Terminate
<1>9. NothingTold'
  BY BareRecords DEF NothingTold, KeeperOwn, KeeperAt, Terminate
<1> QED
  BY <1>1, <1>2, <1>3, <1>4, <1>5, <1>6, <1>7, <1>8, <1>9 DEF IInv

LEMMA KeeperAbandonKeeps == ASSUME IInv, KeeperAbandon PROVE IInv'
<1>1. TypeOK'
  BY SMTT(20), BareRecords DEF TypeOK, KeeperAbandon, KeeperAt, CallerPoints, KeeperPoints, RootStates, ExitCodes
<1>2. LockInv'
  BY  DEF TypeOK, LockInv, KeeperAbandon, KeeperAt
<1>3. CallerInv'
  BY  DEF TypeOK, CallerInv, KeeperAbandon, KeeperAt
<1>4. KeeperInv'
  BY  DEF KeeperInv, KeeperAbandon, KeeperAt
<1>5. TreeInv'
  BY  DEF TreeInv, KeeperAbandon, KeeperAt
<1>6. DraftInv'
  BY BareRecords DEF DraftInv, KeeperAbandon, KeeperAt
<1>7. TerminalInv'
  BY BareRecords DEF TerminalInv, KeeperAbandon, KeeperAt
<1>8. StoryInv'
  BY BareRecords DEF StoryInv, KeeperAbandon, KeeperAt
<1>9. NothingTold'
  BY BareRecords DEF NothingTold, KeeperAbandon, KeeperAt
<1> QED
  BY <1>1, <1>2, <1>3, <1>4, <1>5, <1>6, <1>7, <1>8, <1>9 DEF IInv

LEMMA KeeperOwnedKeeps == ASSUME IInv, KeeperOwned PROVE IInv'
<1>1. TypeOK'
  BY ZenonT(40), BareRecords DEF TypeOK, KeeperOwned, KeeperAt, Terminate, CallerPoints, KeeperPoints, RootStates, ExitCodes
<1>2. LockInv'
  BY  DEF TypeOK, LockInv, KeeperOwned, KeeperAt, Terminate
<1>3. CallerInv'
  BY  DEF TypeOK, CallerInv, KeeperOwned, KeeperAt, Terminate
<1>4. KeeperInv'
  BY  DEF KeeperInv, KeeperOwned, KeeperAt, Terminate
<1>5. TreeInv'
  BY  DEF TreeInv, KeeperOwned, KeeperAt, Terminate
<1>6. DraftInv'
  BY BareRecords DEF DraftInv, KeeperOwned, KeeperAt, Terminate
<1>7. TerminalInv'
  BY BareRecords DEF TerminalInv, KeeperOwned, KeeperAt, Terminate
<1>8. StoryInv'
  BY BareRecords DEF StoryInv, KeeperOwned, KeeperAt, Terminate
<1>9. NothingTold'
  BY BareRecords DEF NothingTold, KeeperOwned, KeeperAt, Terminate
<1> QED
  BY <1>1, <1>2, <1>3, <1>4, <1>5, <1>6, <1>7, <1>8, <1>9 DEF IInv

LEMMA KeeperCancelKeeps == ASSUME IInv, KeeperCancel PROVE IInv'
<1>1. TypeOK'
  BY SMTT(20), BareRecords DEF TypeOK, KeeperCancel, SettleInSection, Drained, KeeperAt, CallerPoints, KeeperPoints, RootStates, ExitCodes
<1>2. LockInv'
  BY  DEF TypeOK, LockInv, KeeperCancel, SettleInSection, Drained, KeeperAt
<1>3. CallerInv'
  BY  DEF TypeOK, CallerInv, KeeperCancel, SettleInSection, Drained, KeeperAt
<1>4. KeeperInv'
  BY  DEF KeeperInv, KeeperCancel, SettleInSection, Drained, KeeperAt
<1>5. TreeInv'
  BY  DEF TreeInv, KeeperCancel, SettleInSection, Drained, KeeperAt
<1>6. DraftInv'
  BY BareRecords DEF DraftInv, KeeperCancel, SettleInSection, Drained, KeeperAt
<1>7. TerminalInv'
  BY BareRecords DEF TerminalInv, KeeperCancel, SettleInSection, Drained, KeeperAt
<1>8. StoryInv'
  BY BareRecords DEF StoryInv, KeeperCancel, SettleInSection, Drained, KeeperAt
<1>9. NothingTold'
  BY BareRecords DEF NothingTold, KeeperCancel, SettleInSection, Drained, KeeperAt
<1> QED
  BY <1>1, <1>2, <1>3, <1>4, <1>5, <1>6, <1>7, <1>8, <1>9 DEF IInv

LEMMA KeeperOverdueKeeps == ASSUME IInv, KeeperOverdue PROVE IInv'
<1>1. TypeOK'
  BY SMTT(20), BareRecords DEF TypeOK, KeeperOverdue, SettleInSection, Drained, KeeperAt, CallerPoints, KeeperPoints, RootStates, ExitCodes
<1>2. LockInv'
  BY  DEF TypeOK, LockInv, KeeperOverdue, SettleInSection, Drained, KeeperAt
<1>3. CallerInv'
  BY  DEF TypeOK, CallerInv, KeeperOverdue, SettleInSection, Drained, KeeperAt
<1>4. KeeperInv'
  BY  DEF KeeperInv, KeeperOverdue, SettleInSection, Drained, KeeperAt
<1>5. TreeInv'
  BY  DEF TreeInv, KeeperOverdue, SettleInSection, Drained, KeeperAt
<1>6. DraftInv'
  BY BareRecords DEF DraftInv, KeeperOverdue, SettleInSection, Drained, KeeperAt
<1>7. TerminalInv'
  BY BareRecords DEF TerminalInv, KeeperOverdue, SettleInSection, Drained, KeeperAt
<1>8. StoryInv'
  BY BareRecords DEF StoryInv, KeeperOverdue, SettleInSection, Drained, KeeperAt
<1>9. NothingTold'
  BY BareRecords DEF NothingTold, KeeperOverdue, SettleInSection, Drained, KeeperAt
<1> QED
  BY <1>1, <1>2, <1>3, <1>4, <1>5, <1>6, <1>7, <1>8, <1>9 DEF IInv

LEMMA KeeperResumeKeeps == ASSUME IInv, KeeperResume PROVE IInv'
<1>1. TypeOK'
  BY ZenonT(40), BareRecords DEF TypeOK, KeeperResume, KeeperAt, Terminate, CallerPoints, KeeperPoints, RootStates, ExitCodes
<1>2. LockInv'
  BY  DEF TypeOK, LockInv, KeeperResume, KeeperAt, Terminate
<1>3. CallerInv'
  BY  DEF TypeOK, CallerInv, KeeperResume, KeeperAt, Terminate
<1>4. KeeperInv'
  BY  DEF KeeperInv, KeeperResume, KeeperAt, Terminate
<1>5. TreeInv'
  BY  DEF TreeInv, KeeperResume, KeeperAt, Terminate
<1>6. DraftInv'
  BY BareRecords DEF DraftInv, KeeperResume, KeeperAt, Terminate
<1>7. TerminalInv'
  BY BareRecords DEF TerminalInv, KeeperResume, KeeperAt, Terminate
<1>8. StoryInv'
  BY BareRecords DEF StoryInv, KeeperResume, KeeperAt, Terminate
<1>9. NothingTold'
  BY BareRecords DEF NothingTold, KeeperResume, KeeperAt, Terminate
<1> QED
  BY <1>1, <1>2, <1>3, <1>4, <1>5, <1>6, <1>7, <1>8, <1>9 DEF IInv

LEMMA KeeperWatchKeeps == ASSUME IInv, KeeperWatch PROVE IInv'
<1>1. TypeOK'
  <2>1. verdict' \in [process: {"none", "exited", "cancelled", "timed_out"}, exit: ExitCodes]
    BY BareRecords DEF TypeOK, KeeperWatch, KeeperAt, Terminate, Decide, CallerPoints, KeeperPoints, RootStates, ExitCodes
  <2>2. kpc' \in KeeperPoints /\ doomed' \in BOOLEAN
    BY BareRecords DEF TypeOK, KeeperWatch, KeeperAt, Terminate, Decide, CallerPoints, KeeperPoints, RootStates, ExitCodes
  <2> QED
    BY <2>1, <2>2 DEF TypeOK, KeeperWatch, KeeperAt, Terminate, Decide
<1>2. LockInv'
  BY  DEF TypeOK, LockInv, KeeperWatch, KeeperAt, Terminate, Decide
<1>3. CallerInv'
  BY  DEF TypeOK, CallerInv, KeeperWatch, KeeperAt, Terminate, Decide
<1>4. KeeperInv'
  BY  DEF TypeOK, KeeperInv, KeeperWatch, KeeperAt, Terminate, Decide
<1>5. TreeInv'
  BY  DEF TreeInv, KeeperWatch, KeeperAt, Terminate, Decide
<1>6. DraftInv'
  BY BareRecords DEF DraftInv, KeeperWatch, KeeperAt, Terminate, Decide
<1>7. TerminalInv'
  BY BareRecords DEF TerminalInv, KeeperWatch, KeeperAt, Terminate, Decide
<1>8. StoryInv'
  BY BareRecords DEF StoryInv, KeeperWatch, KeeperAt, Terminate, Decide
<1>9. NothingTold'
  BY BareRecords DEF NothingTold, KeeperWatch, KeeperAt, Terminate, Decide
<1> QED
  BY <1>1, <1>2, <1>3, <1>4, <1>5, <1>6, <1>7, <1>8, <1>9 DEF IInv

LEMMA KeeperWatchJobKeeps == ASSUME IInv, KeeperWatchJob PROVE IInv'
<1>1. TypeOK'
  <2>1. verdict' \in [process: {"none", "exited", "cancelled", "timed_out"}, exit: ExitCodes]
    BY DEF TypeOK, KeeperWatchJob, Decide
  <2>2. kpc' \in KeeperPoints /\ doomed' \in BOOLEAN
    BY DEF TypeOK, KeeperWatchJob, KeeperAt, Terminate, KeeperPoints, JobEmpty
  <2> QED
    BY <2>1, <2>2 DEF TypeOK, KeeperWatchJob
<1>2. LockInv'
  BY  DEF TypeOK, LockInv, KeeperWatchJob, KeeperAt, Terminate, Decide
<1>3. CallerInv'
  BY  DEF TypeOK, CallerInv, KeeperWatchJob, KeeperAt, Terminate, Decide
<1>4. KeeperInv'
  BY  DEF TypeOK, KeeperInv, KeeperWatchJob, KeeperAt, Terminate, Decide
<1>5. TreeInv'
  BY  DEF TreeInv, KeeperWatchJob, KeeperAt, Terminate, Decide
<1>6. DraftInv'
  BY BareRecords DEF DraftInv, KeeperWatchJob, KeeperAt, Terminate, Decide
<1>7. TerminalInv'
  BY BareRecords DEF TerminalInv, KeeperWatchJob, KeeperAt, Terminate, Decide
<1>8. StoryInv'
  BY BareRecords DEF StoryInv, KeeperWatchJob, KeeperAt, Terminate, Decide
<1>9. NothingTold'
  BY BareRecords DEF NothingTold, KeeperWatchJob, KeeperAt, Terminate, Decide
<1> QED
  BY <1>1, <1>2, <1>3, <1>4, <1>5, <1>6, <1>7, <1>8, <1>9 DEF IInv

LEMMA KeeperReadExitKeeps == ASSUME IInv, KeeperReadExit PROVE IInv'
<1>1. TypeOK'
  BY SMTT(20), BareRecords DEF TypeOK, KeeperReadExit, KeeperAt, ExitCode, CallerPoints, KeeperPoints, RootStates, ExitCodes
<1>2. LockInv'
  BY  DEF TypeOK, LockInv, KeeperReadExit, KeeperAt, ExitCode
<1>3. CallerInv'
  BY  DEF TypeOK, CallerInv, KeeperReadExit, KeeperAt, ExitCode
<1>4. KeeperInv'
  BY  DEF KeeperInv, KeeperReadExit, KeeperAt, ExitCode
<1>5. TreeInv'
  BY  DEF TreeInv, KeeperReadExit, KeeperAt, ExitCode
<1>6. DraftInv'
  BY BareRecords DEF DraftInv, KeeperReadExit, KeeperAt, ExitCode
<1>7. TerminalInv'
  BY BareRecords DEF TerminalInv, KeeperReadExit, KeeperAt, ExitCode
<1>8. StoryInv'
  BY BareRecords DEF StoryInv, KeeperReadExit, KeeperAt, ExitCode
<1>9. NothingTold'
  BY BareRecords DEF NothingTold, KeeperReadExit, KeeperAt, ExitCode
<1> QED
  BY <1>1, <1>2, <1>3, <1>4, <1>5, <1>6, <1>7, <1>8, <1>9 DEF IInv

LEMMA KeeperCollectKeeps == ASSUME IInv, KeeperCollect PROVE IInv'
<1>0. \/ /\ JobEmpty
         /\ \E truncated \in BOOLEAN : draft' = Result(verdict, truncated)
         /\ draft' \in Terminals /\ SemanticsValid(draft') /\ ~NeverRan(draft')
         /\ draft'.cleanup = "tree_gone"
         /\ Succeeded(draft') => root = "zero"
      \/ draft' = draft /\ kpc' = "fail"
  <2>1. verdict \in [process: {"exited", "cancelled", "timed_out"}, exit: ExitCodes]
    BY DEF TypeOK, KeeperInv, KeeperCollect, KeeperAt
  <2>2. verdict.exit = "zero" => root = "zero"
    BY DEF KeeperInv, KeeperCollect, KeeperAt
  <2> QED
    BY <2>1, <2>2, ResultRecord DEF KeeperCollect, KeeperAt, Drained
<1>1. TypeOK'
  <2>1. kpc' \in KeeperPoints
    BY BareRecords DEF TypeOK, KeeperCollect, KeeperAt, Drained, CallerPoints, KeeperPoints, RootStates, ExitCodes
  <2>2. draft' \in Terminals \cup {NoTerminal}
    BY <1>0 DEF TypeOK, KeeperCollect, KeeperAt, Drained
  <2> QED
    BY <2>1, <2>2 DEF TypeOK, KeeperCollect, KeeperAt, Drained
<1>2. LockInv'
  BY <1>0 DEF TypeOK, LockInv, KeeperCollect, KeeperAt, Drained
<1>3. CallerInv'
  BY <1>0 DEF TypeOK, CallerInv, KeeperCollect, KeeperAt, Drained
<1>4. KeeperInv'
  BY <1>0 DEF KeeperInv, KeeperCollect, KeeperAt, Drained
<1>5. TreeInv'
  BY <1>0 DEF TreeInv, KeeperCollect, KeeperAt, Drained
<1>6. DraftInv'
  BY <1>0, BareRecords DEF DraftInv, KeeperCollect, KeeperAt, Drained
<1>7. TerminalInv'
  BY BareRecords DEF TerminalInv, KeeperCollect, KeeperAt, Drained
<1>8. StoryInv'
  BY <1>0, BareRecords DEF StoryInv, KeeperCollect, KeeperAt, Drained
<1>9. NothingTold'
  BY <1>0, BareRecords DEF NothingTold, KeeperCollect, KeeperAt, Drained
<1> QED
  BY <1>1, <1>2, <1>3, <1>4, <1>5, <1>6, <1>7, <1>8, <1>9 DEF IInv

LEMMA KeeperFailKeeps == ASSUME IInv, KeeperFail PROVE IInv'
<1>0. \/ /\ draft' \in Terminals /\ SemanticsValid(draft') /\ ~Succeeded(draft')
         /\ draft'.cleanup # "tree_gone"
         /\ NeverRan(draft') => ~ran
      \/ draft' = draft /\ kpc' = "failWait"
  BY FailureRecord DEF TypeOK, KeeperFail, KeeperAt, Cleanups
<1>1. TypeOK'
  <2>1. kpc' \in KeeperPoints /\ doomed' \in BOOLEAN
    BY BareRecords DEF TypeOK, KeeperFail, KeeperAt, Terminate, CallerPoints, KeeperPoints, RootStates, ExitCodes
  <2>2. draft' \in Terminals \cup {NoTerminal}
    BY <1>0 DEF TypeOK, KeeperFail, KeeperAt, Terminate
  <2> QED
    BY <2>1, <2>2 DEF TypeOK, KeeperFail, KeeperAt, Terminate
<1>2. LockInv'
  BY <1>0 DEF TypeOK, LockInv, KeeperFail, KeeperAt, Terminate
<1>3. CallerInv'
  BY <1>0 DEF TypeOK, CallerInv, KeeperFail, KeeperAt, Terminate
<1>4. KeeperInv'
  BY <1>0 DEF KeeperInv, KeeperFail, KeeperAt, Terminate
<1>5. TreeInv'
  BY <1>0 DEF TreeInv, KeeperFail, KeeperAt, Terminate
<1>6. DraftInv'
  BY <1>0, BareRecords DEF DraftInv, KeeperFail, KeeperAt, Terminate
<1>7. TerminalInv'
  BY BareRecords DEF TerminalInv, KeeperFail, KeeperAt, Terminate
<1>8. StoryInv'
  BY <1>0, BareRecords DEF StoryInv, KeeperFail, KeeperAt, Terminate
<1>9. NothingTold'
  BY <1>0, BareRecords DEF NothingTold, KeeperFail, KeeperAt, Terminate
<1> QED
  BY <1>1, <1>2, <1>3, <1>4, <1>5, <1>6, <1>7, <1>8, <1>9 DEF IInv

LEMMA KeeperFailWaitKeeps == ASSUME IInv, KeeperFailWait PROVE IInv'
<1>0. /\ draft' \in Terminals /\ SemanticsValid(draft') /\ ~Succeeded(draft')
      /\ draft'.cleanup = "tree_gone" => JobEmpty
      /\ NeverRan(draft') => ~ran
  BY FailureRecord DEF TypeOK, KeeperFailWait, Drained, Cleanups
<1>1. TypeOK'
  <2>1. kpc' \in KeeperPoints
    BY BareRecords DEF TypeOK, KeeperFailWait, KeeperAt, Drained, CallerPoints, KeeperPoints, RootStates, ExitCodes
  <2>2. draft' \in Terminals \cup {NoTerminal}
    BY <1>0 DEF TypeOK, KeeperFailWait, KeeperAt, Drained
  <2> QED
    BY <2>1, <2>2 DEF TypeOK, KeeperFailWait, KeeperAt, Drained
<1>2. LockInv'
  BY <1>0 DEF TypeOK, LockInv, KeeperFailWait, KeeperAt, Drained
<1>3. CallerInv'
  BY <1>0 DEF TypeOK, CallerInv, KeeperFailWait, KeeperAt, Drained
<1>4. KeeperInv'
  BY <1>0 DEF KeeperInv, KeeperFailWait, KeeperAt, Drained
<1>5. TreeInv'
  BY <1>0 DEF TreeInv, KeeperFailWait, KeeperAt, Drained
<1>6. DraftInv'
  BY <1>0, BareRecords DEF DraftInv, KeeperFailWait, KeeperAt, Drained
<1>7. TerminalInv'
  BY BareRecords DEF TerminalInv, KeeperFailWait, KeeperAt, Drained
<1>8. StoryInv'
  BY <1>0, BareRecords DEF StoryInv, KeeperFailWait, KeeperAt, Drained
<1>9. NothingTold'
  BY <1>0, BareRecords DEF NothingTold, KeeperFailWait, KeeperAt, Drained
<1> QED
  BY <1>1, <1>2, <1>3, <1>4, <1>5, <1>6, <1>7, <1>8, <1>9 DEF IInv

LEMMA KeeperPublishKeeps == ASSUME IInv, KeeperPublish PROVE IInv'
<1>0. \/ terminal # NoTerminal /\ terminal' = terminal
      \/ terminal = NoTerminal /\ terminal' = draft
  BY DEF KeeperPublish, PublishTerminal
<1>1. TypeOK'
  BY <1>0, BareRecords DEF TypeOK, KeeperPublish, KeeperAt, PublishTerminal, CallerPoints, KeeperPoints, RootStates, ExitCodes
<1>2. LockInv'
  BY <1>0 DEF TypeOK, LockInv, KeeperPublish, KeeperAt, PublishTerminal
<1>3. CallerInv'
  BY <1>0 DEF TypeOK, CallerInv, KeeperPublish, KeeperAt, PublishTerminal
<1>4. KeeperInv'
  BY <1>0 DEF KeeperInv, KeeperPublish, KeeperAt, PublishTerminal
<1>5. TreeInv'
  BY <1>0 DEF TreeInv, KeeperPublish, KeeperAt, PublishTerminal
<1>6. DraftInv'
  BY <1>0, BareRecords DEF DraftInv, KeeperPublish, KeeperAt, PublishTerminal
<1>7. TerminalInv'
  <2>1. CASE terminal # NoTerminal /\ terminal' = terminal
    BY <2>1 DEF TerminalInv, KeeperPublish, KeeperAt
  <2>2. CASE terminal = NoTerminal /\ terminal' = draft
    <3>1. /\ SemanticsValid(draft) /\ (NeverRan(draft) => ~ran)
          /\ draft.cleanup = "tree_gone" => JobEmpty
          /\ Succeeded(draft) => root = "zero"
          /\ request # NoRequest /\ kpc' = "close"
          /\ Succeeded(draft) => ~NeverRan(draft)
      BY DEF DraftInv, KeeperPublish, KeeperAt, Succeeded, NeverRan
    <3>2. Succeeded(draft) => ran
      BY <3>1
    <3> QED
      BY <2>2, <3>1, <3>2 DEF TerminalInv, KeeperPublish, KeeperAt
  <2> QED
    BY <1>0, <2>1, <2>2
<1>8. StoryInv'
  BY <1>0, BareRecords DEF StoryInv, KeeperPublish, KeeperAt, PublishTerminal
<1>9. NothingTold'
  BY <1>0, BareRecords DEF NothingTold, KeeperPublish, KeeperAt, PublishTerminal
<1> QED
  BY <1>1, <1>2, <1>3, <1>4, <1>5, <1>6, <1>7, <1>8, <1>9 DEF IInv

LEMMA KeeperPublishFailsKeeps == ASSUME IInv, KeeperPublishFails PROVE IInv'
<1>1. TypeOK'
  BY SMTT(20), BareRecords DEF TypeOK, KeeperPublishFails, KeeperAt, CallerPoints, KeeperPoints, RootStates, ExitCodes
<1>2. LockInv'
  BY  DEF TypeOK, LockInv, KeeperPublishFails, KeeperAt
<1>3. CallerInv'
  BY  DEF TypeOK, CallerInv, KeeperPublishFails, KeeperAt
<1>4. KeeperInv'
  BY  DEF KeeperInv, KeeperPublishFails, KeeperAt
<1>5. TreeInv'
  BY  DEF TreeInv, KeeperPublishFails, KeeperAt
<1>6. DraftInv'
  BY BareRecords DEF DraftInv, KeeperPublishFails, KeeperAt
<1>7. TerminalInv'
  BY BareRecords DEF TerminalInv, KeeperPublishFails, KeeperAt
<1>8. StoryInv'
  BY BareRecords DEF StoryInv, KeeperPublishFails, KeeperAt
<1>9. NothingTold'
  BY BareRecords DEF NothingTold, KeeperPublishFails, KeeperAt
<1> QED
  BY <1>1, <1>2, <1>3, <1>4, <1>5, <1>6, <1>7, <1>8, <1>9 DEF IInv

LEMMA KeeperCloseKeeps == ASSUME IInv, KeeperClose PROVE IInv'
<1>1. TypeOK'
  BY SMTT(20), BareRecords DEF TypeOK, KeeperClose, KeeperEnds, CallerPoints, KeeperPoints, RootStates, ExitCodes
<1>2. LockInv'
  BY  DEF TypeOK, LockInv, KeeperClose, KeeperEnds
<1>3. CallerInv'
  BY  DEF TypeOK, CallerInv, KeeperClose, KeeperEnds
<1>4. KeeperInv'
  BY  DEF KeeperInv, KeeperClose, KeeperEnds
<1>5. TreeInv'
  BY  DEF TreeInv, KeeperClose, KeeperEnds
<1>6. DraftInv'
  BY BareRecords DEF DraftInv, KeeperClose, KeeperEnds
<1>7. TerminalInv'
  BY BareRecords DEF TerminalInv, KeeperClose, KeeperEnds
<1>8. StoryInv'
  BY BareRecords DEF StoryInv, KeeperClose, KeeperEnds
<1>9. NothingTold'
  BY BareRecords DEF NothingTold, KeeperClose, KeeperEnds
<1> QED
  BY <1>1, <1>2, <1>3, <1>4, <1>5, <1>6, <1>7, <1>8, <1>9 DEF IInv

LEMMA KeeperCrashKeeps == ASSUME IInv, KeeperCrash PROVE IInv'
<1>1. TypeOK'
  BY SMTT(20), BareRecords DEF TypeOK, KeeperCrash, KeeperEnds, KeeperAlive, CallerPoints, KeeperPoints, RootStates, ExitCodes
<1>2. LockInv'
  BY  DEF TypeOK, LockInv, KeeperCrash, KeeperEnds, KeeperAlive
<1>3. CallerInv'
  BY  DEF TypeOK, CallerInv, KeeperCrash, KeeperEnds, KeeperAlive
<1>4. KeeperInv'
  BY  DEF KeeperInv, KeeperCrash, KeeperEnds, KeeperAlive
<1>5. TreeInv'
  BY  DEF TreeInv, KeeperCrash, KeeperEnds, KeeperAlive
<1>6. DraftInv'
  BY BareRecords DEF DraftInv, KeeperCrash, KeeperEnds, KeeperAlive
<1>7. TerminalInv'
  BY BareRecords DEF TerminalInv, KeeperCrash, KeeperEnds, KeeperAlive
<1>8. StoryInv'
  BY BareRecords DEF StoryInv, KeeperCrash, KeeperEnds, KeeperAlive
<1>9. NothingTold'
  BY BareRecords DEF NothingTold, KeeperCrash, KeeperEnds, KeeperAlive
<1> QED
  BY <1>1, <1>2, <1>3, <1>4, <1>5, <1>6, <1>7, <1>8, <1>9 DEF IInv

LEMMA RootExitsKeeps == ASSUME IInv, RootExits PROVE IInv'
<1>1. TypeOK'
  BY SMTT(20), BareRecords DEF TypeOK, RootExits, CallerPoints, KeeperPoints, RootStates, ExitCodes
<1>2. LockInv'
  BY  DEF TypeOK, LockInv, RootExits
<1>3. CallerInv'
  BY  DEF TypeOK, CallerInv, RootExits
<1>4. KeeperInv'
  BY  DEF KeeperInv, RootExits
<1>5. TreeInv'
  BY  DEF TreeInv, RootExits
<1>6. DraftInv'
  BY BareRecords DEF DraftInv, RootExits
<1>7. TerminalInv'
  BY BareRecords DEF TerminalInv, RootExits
<1>8. StoryInv'
  BY BareRecords DEF StoryInv, RootExits
<1>9. NothingTold'
  BY BareRecords DEF NothingTold, RootExits
<1> QED
  BY <1>1, <1>2, <1>3, <1>4, <1>5, <1>6, <1>7, <1>8, <1>9 DEF IInv

LEMMA ChildStartsKeeps == ASSUME IInv, ChildStarts PROVE IInv'
<1>1. TypeOK'
  BY SMTT(20), BareRecords DEF TypeOK, ChildStarts, CallerPoints, KeeperPoints, RootStates, ExitCodes
<1>2. LockInv'
  BY  DEF TypeOK, LockInv, ChildStarts
<1>3. CallerInv'
  BY  DEF TypeOK, CallerInv, ChildStarts
<1>4. KeeperInv'
  BY  DEF KeeperInv, ChildStarts
<1>5. TreeInv'
  BY  DEF TreeInv, ChildStarts
<1>6. DraftInv'
  BY BareRecords DEF DraftInv, ChildStarts
<1>7. TerminalInv'
  BY BareRecords DEF TerminalInv, ChildStarts
<1>8. StoryInv'
  BY BareRecords DEF StoryInv, ChildStarts
<1>9. NothingTold'
  BY BareRecords DEF NothingTold, ChildStarts
<1> QED
  BY <1>1, <1>2, <1>3, <1>4, <1>5, <1>6, <1>7, <1>8, <1>9 DEF IInv

LEMMA ChildEndsKeeps == ASSUME IInv, ChildEnds PROVE IInv'
<1>1. TypeOK'
  <2>1. child' \in BOOLEAN
    BY BareRecords DEF TypeOK, ChildEnds, CallerPoints, KeeperPoints, RootStates, ExitCodes
  <2> QED
    BY <2>1 DEF TypeOK, ChildEnds
<1>2. LockInv'
  BY  DEF TypeOK, LockInv, ChildEnds
<1>3. CallerInv'
  BY  DEF TypeOK, CallerInv, ChildEnds
<1>4. KeeperInv'
  BY  DEF KeeperInv, ChildEnds
<1>5. TreeInv'
  BY  DEF TreeInv, ChildEnds
<1>6. DraftInv'
  BY BareRecords DEF DraftInv, ChildEnds
<1>7. TerminalInv'
  BY BareRecords DEF TerminalInv, ChildEnds
<1>8. StoryInv'
  BY BareRecords DEF StoryInv, ChildEnds
<1>9. NothingTold'
  BY BareRecords DEF NothingTold, ChildEnds
<1> QED
  BY <1>1, <1>2, <1>3, <1>4, <1>5, <1>6, <1>7, <1>8, <1>9 DEF IInv

LEMMA JobDiesKeeps == ASSUME IInv, JobDies PROVE IInv'
<1>1. TypeOK'
  <2>1. root' \in RootStates /\ child' \in BOOLEAN
    BY BareRecords DEF TypeOK, JobDies, CallerPoints, KeeperPoints, RootStates, ExitCodes
  <2> QED
    BY <2>1 DEF TypeOK, JobDies
<1>2. LockInv'
  BY  DEF TypeOK, LockInv, JobDies
<1>3. CallerInv'
  BY  DEF TypeOK, CallerInv, JobDies
<1>4. KeeperInv'
  BY  DEF KeeperInv, JobDies
<1>5. TreeInv'
  BY  DEF TreeInv, JobDies
<1>6. DraftInv'
  BY BareRecords DEF DraftInv, JobDies
<1>7. TerminalInv'
  BY BareRecords DEF TerminalInv, JobDies
<1>8. StoryInv'
  BY BareRecords DEF StoryInv, JobDies
<1>9. NothingTold'
  BY BareRecords DEF NothingTold, JobDies
<1> QED
  BY <1>1, <1>2, <1>3, <1>4, <1>5, <1>6, <1>7, <1>8, <1>9 DEF IInv

LEMMA ExpireKeeps == ASSUME IInv, Expire PROVE IInv'
<1>1. TypeOK'
  BY SMTT(20), BareRecords DEF TypeOK, Expire, CallerPoints, KeeperPoints, RootStates, ExitCodes
<1>2. LockInv'
  BY  DEF TypeOK, LockInv, Expire
<1>3. CallerInv'
  BY  DEF TypeOK, CallerInv, Expire
<1>4. KeeperInv'
  BY  DEF KeeperInv, Expire
<1>5. TreeInv'
  BY  DEF TreeInv, Expire
<1>6. DraftInv'
  BY BareRecords DEF DraftInv, Expire
<1>7. TerminalInv'
  BY BareRecords DEF TerminalInv, Expire
<1>8. StoryInv'
  BY BareRecords DEF StoryInv, Expire
<1>9. NothingTold'
  BY BareRecords DEF NothingTold, Expire
<1> QED
  BY <1>1, <1>2, <1>3, <1>4, <1>5, <1>6, <1>7, <1>8, <1>9 DEF IInv

LEMMA InitInv == Init => IInv
<1> SUFFICES ASSUME Init PROVE IInv
  OBVIOUS
<1>1. verdict \in [process: {"none", "exited", "cancelled", "timed_out"}, exit: ExitCodes]
  BY DEF Init, ExitCodes
<1>2. TypeOK
  BY <1>1 DEF Init, TypeOK, CallerPoints, KeeperPoints, RootStates
<1>3. LockInv /\ CallerInv /\ KeeperInv /\ TreeInv
  BY DEF Init, LockInv, CallerInv, KeeperInv, TreeInv
<1> QED
  BY <1>2, <1>3 DEF Init, DraftInv, TerminalInv, StoryInv, NothingTold

LEMMA StutterKeeps == ASSUME IInv, UNCHANGED vars PROVE IInv'
  BY DEF vars, TypeOK, DraftInv, TerminalInv

LEMMA NextKeeps == ASSUME IInv, Next PROVE IInv'
<1>1. ASSUME NEW c \in Callers, CallerStep(c) PROVE IInv'
    BY <1>1, LaunchDispatchKeeps, LaunchSpawnKeeps, LaunchAwaitKeeps, GiveUpKeeps,
       GiveUpPublishKeeps, LossDecideKeeps, PublishLostKeeps, StopKeeps, StopAckKeeps,
       PublishNoAckKeeps, StopWaitKeeps, StopKillKeeps, ReconcileKeeps,
       PublishCancelledKeeps
       DEF CallerStep
<1>2. ASSUME NEW c \in Callers, CallerCrash(c) PROVE IInv'
  BY <1>2, CallerCrashKeeps
<1>3. ASSUME NEW c \in Callers, NEW r \in Requests, CallerStart(c, r) PROVE IInv'
  BY <1>3, LaunchAcceptKeeps, StatusKeeps, StopKeeps DEF CallerStart
<1>4. CASE KeeperStep
    BY <1>4, KeeperStageKeeps, KeeperGateKeeps, KeeperCreateKeeps, KeeperOwnKeeps,
       KeeperAbandonKeeps, KeeperOwnedKeeps, KeeperCancelKeeps, KeeperOverdueKeeps,
       KeeperResumeKeeps, KeeperWatchKeeps, KeeperWatchJobKeeps, KeeperReadExitKeeps,
       KeeperCollectKeeps, KeeperFailKeeps, KeeperFailWaitKeeps, KeeperPublishKeeps,
       KeeperPublishFailsKeeps, KeeperCloseKeeps
       DEF KeeperStep
<1>5. CASE KeeperCrash
  BY <1>5, KeeperCrashKeeps
<1>6. CASE Environment
  BY <1>6, RootExitsKeeps, ChildStartsKeeps, ChildEndsKeeps, JobDiesKeeps, ExpireKeeps
     DEF Environment
<1> QED
  BY <1>1, <1>2, <1>3, <1>4, <1>5, <1>6 DEF Next

HIDE DEF IInv

\* The invariant holds in every reachable state.
THEOREM Invariance == Spec => []IInv
<1>1. IInv /\ [Next]_vars => IInv'
  BY NextKeeps, StutterKeeps
<1> QED
  BY InitInv, <1>1, PTL DEF Spec

-----------------------------------------------------------------------------
(* What the runs check, for all values of the constants.                   *)

\* Type correctness.
THEOREM TypeCorrect == Spec => []TypeOK
<1>1. IInv => TypeOK
  BY DEF IInv
<1> QED
  BY Invariance, <1>1, PTL

\* The terminal never lies: about a script that "never ran", about a tree
\* that is "gone", about success, and it can always be read back.
THEOREM TerminalTells ==
    Spec => [](NeverRanIsTrue /\ TreeGoneIsTrue /\ SuccessIsTrue /\ TerminalReadable)
<1>1. IInv => NeverRanIsTrue /\ TreeGoneIsTrue /\ SuccessIsTrue /\ TerminalReadable
  <2> SUFFICES ASSUME IInv, terminal # NoTerminal
               PROVE  /\ NeverRan(terminal) => ~ran
                      /\ terminal.cleanup = "tree_gone" => JobEmpty
                      /\ terminal.outcome = "process_succeeded" => ran /\ root = "zero" /\ JobEmpty
                      /\ SemanticsValid(terminal)
    BY DEF NeverRanIsTrue, TreeGoneIsTrue, SuccessIsTrue, TerminalReadable
  <2>1. terminal.outcome = "process_succeeded" => Succeeded(terminal)
    BY DEF IInv, TerminalInv, SemanticsValid
  <2> QED
    BY <2>1 DEF IInv, TerminalInv, Succeeded
<1> QED
  BY Invariance, <1>1, PTL

\* When terminal.json says that the tree is gone, no process of the setup
\* runs, and none ever will, whether a keeper wrote it or a caller that
\* stopped the attempt before its keeper had a receipt.
THEOREM TreeGoneTold == Spec => []TreeGoneIsTrue
BY TerminalTells, PTL

\* A terminal that reports success does so of a script that ran, ended by
\* itself with exit code zero and left no process behind, although stop, the
\* deadline and the end of the root are asked one after another.
THEOREM SuccessTold == Spec => []SuccessIsTrue
BY TerminalTells, PTL

\* No keeper and no caller publishes a terminal that the reader of
\* terminal.json, which demands that its fields agree, would refuse.
THEOREM ReadableTold == Spec => []TerminalReadable
BY TerminalTells, PTL

\* No two callers are ever given different terminals.
THEOREM OneStoryTold == Spec => []OneStory
<1>1. IInv => OneStory
  BY DEF IInv, OneStory
<1> QED
  BY Invariance, <1>1, PTL

\* A stop that was asked for is never followed by a resume.
THEOREM StopIsFinal == Spec => StopHolds
<1>1. ASSUME IInv, Next PROVE stopAsked => ran' = ran
  <2>1. CASE KeeperResume
    BY <1>1, <2>1 DEF IInv, KeeperInv, KeeperResume, KeeperAt
  <2>2. CASE ~KeeperResume
    BY <1>1, <2>2 DEF Next, CallerStep, CallerStart, KeeperStep, Environment, CallerCrash,
       LaunchAccept, LaunchDispatch, LaunchSpawn, LaunchAwait, GiveUp, GiveUpPublish, Status,
       LossDecide, Stop, StopAck, StopWait, StopKill, Reconcile, PublishNoAck, PublishLost,
       PublishCancelled, CallerPublish, KeeperStage, KeeperGate, KeeperCreate, KeeperOwn,
       KeeperAbandon, KeeperOwned, KeeperCancel, KeeperOverdue, SettleInSection, KeeperWatch,
       KeeperWatchJob, KeeperReadExit, KeeperCollect, KeeperFail, KeeperFailWait,
       KeeperPublish, KeeperPublishFails, KeeperClose, KeeperCrash,
       RootExits, ChildStarts, ChildEnds, JobDies, Expire
  <2> QED
    BY <2>1, <2>2
<1>2. IInv /\ [Next]_vars => [stopAsked => ran' = ran]_vars
  BY <1>1
<1>3. Spec => [][Next]_vars
  BY DEF Spec
<1> QED
  BY Invariance, <1>2, <1>3, PTL DEF StopHolds

-----------------------------------------------------------------------------
(* The directory protocol implements the abstract attempt.                 *)

\* The two modules speak of the same records.
LEMMA SameRecords ==
    /\ Attempt!Terminals = Terminals
    /\ Attempt!NoTerminal = NoTerminal
    /\ \A t \in Terminals : /\ Attempt!SemanticsValid(t) <=> SemanticsValid(t)
                            /\ Attempt!NeverRan(t) <=> NeverRan(t)
                            /\ Attempt!Succeeded(t) <=> Succeeded(t)
  BY DEF Attempt!Terminals, Attempt!Outcomes, Attempt!Processes, Attempt!Cleanups,
         Attempt!ExitCodes, Attempt!NoTerminal, Attempt!SemanticsValid, Attempt!NeverRan,
         Attempt!Succeeded, Terminals, Outcomes, Processes, Cleanups, ExitCodes,
         NoTerminal, SemanticsValid, NeverRan, Succeeded

\* What the client sees of a step that touches no record and no process.
LEMMA QuietStep ==
    ASSUME UNCHANGED <<request, receipt, terminal, root, child, ran>>
    PROVE  UNCHANGED Attempt!attemptVars
  BY DEF Attempt!attemptVars, Run, JobEmpty

\* A step that publishes a terminal is a Settle.
LEMMA SettleStep ==
    ASSUME IInv, IInv', terminal = NoTerminal, terminal' # NoTerminal,
           UNCHANGED <<request, receipt, root, child, ran>>
    PROVE  Attempt!Settle
<1>1. /\ terminal' \in Terminals /\ request # NoRequest
      /\ SemanticsValid(terminal')
      /\ NeverRan(terminal') => ~ran
      /\ terminal'.cleanup = "tree_gone" => JobEmpty
      /\ Succeeded(terminal') => ran /\ root = "zero"
  <2>1. TypeOK' /\ TerminalInv'
    BY DEF IInv
  <2> QED
    BY <2>1 DEF TypeOK, TerminalInv, JobEmpty
<1>2. Succeeded(terminal') => terminal'.cleanup = "tree_gone"
  BY DEF Succeeded
<1>3. UNCHANGED Run
  BY DEF Run, JobEmpty
<1> QED
  BY <1>1, <1>2, <1>3, SameRecords DEF Attempt!Settle, Run

\* Each step of the protocol is a step of the attempt, or none.
LEMMA StepImplements ==
    ASSUME IInv, IInv', Next
    PROVE  Attempt!AttemptNext \/ UNCHANGED Attempt!attemptVars
<1>1. CASE terminal = NoTerminal /\ terminal' # NoTerminal
  <2>1. UNCHANGED <<request, receipt, root, child, ran>>
    BY <1>1, NoTerminalIsNone DEF
       Next, CallerStep, CallerStart, KeeperStep, Environment, CallerCrash,
       LaunchAccept, LaunchDispatch, LaunchSpawn, LaunchAwait, GiveUp, GiveUpPublish, Status,
       LossDecide, Stop, StopAck, StopWait, StopKill, Reconcile, PublishNoAck, PublishLost,
       PublishCancelled, CallerPublish, KeeperStage, KeeperGate, KeeperCreate, KeeperOwn,
       KeeperAbandon, KeeperOwned, KeeperCancel, KeeperOverdue, SettleInSection, KeeperWatch,
       KeeperWatchJob, KeeperReadExit, KeeperCollect, KeeperFail, KeeperFailWait, KeeperResume,
       KeeperPublish, KeeperPublishFails, KeeperClose, KeeperCrash,
       RootExits, ChildStarts, ChildEnds, JobDies, Expire
  <2> QED
    BY <1>1, <2>1, SettleStep DEF Attempt!AttemptNext
<1>2. CASE terminal # NoTerminal \/ terminal' = NoTerminal
  <2>1. terminal' = terminal
    BY <1>2 DEF IInv, CallerInv, KeeperInv, View, Answer, PublishTerminal, KeeperAt,
       Next, CallerStep, CallerStart, KeeperStep, Environment, CallerCrash,
       LaunchAccept, LaunchDispatch, LaunchSpawn, LaunchAwait, GiveUp, GiveUpPublish, Status,
       LossDecide, Stop, StopAck, StopWait, StopKill, Reconcile, PublishNoAck, PublishLost,
       PublishCancelled, CallerPublish, KeeperStage, KeeperGate, KeeperCreate, KeeperOwn,
       KeeperAbandon, KeeperOwned, KeeperCancel, KeeperOverdue, SettleInSection, KeeperWatch,
       KeeperWatchJob, KeeperReadExit, KeeperCollect, KeeperFail, KeeperFailWait, KeeperResume,
       KeeperPublish, KeeperPublishFails, KeeperClose, KeeperCrash,
       RootExits, ChildStarts, ChildEnds, JobDies, Expire
  <2>2. ASSUME NEW c \in Callers, NEW r \in Requests, LaunchAccept(c, r)
        PROVE  Attempt!Accept \/ UNCHANGED Attempt!attemptVars
    BY <2>2, SameRecords DEF LaunchAccept, Attempt!Accept, Attempt!attemptVars, Run, JobEmpty
  <2>3. CASE KeeperOwn
    <3>1. request # NoRequest
      BY <2>3 DEF IInv, KeeperInv, KeeperOwn, KeeperAt
    <3>2. ~receipt
      BY <2>3 DEF IInv, KeeperInv, KeeperOwn, KeeperAt
    <3>3. UNCHANGED <<request, root, child, ran>> /\ UNCHANGED Run
      BY <2>3 DEF KeeperOwn, Run, JobEmpty
    <3>4. CASE terminal = NoTerminal /\ receipt' = TRUE
      BY <2>1, <3>1, <3>2, <3>3, <3>4, SameRecords DEF Attempt!Own, Attempt!AttemptNext
    <3>5. CASE receipt' = receipt
      BY <2>1, <3>3, <3>5 DEF Attempt!attemptVars
    <3> QED
      BY <2>3, <3>4, <3>5 DEF KeeperOwn
  <2>4. CASE KeeperResume
    <3>1. kpc = "io" => receipt /\ terminal = NoTerminal /\ ~ran
      BY DEF IInv, KeeperInv
    <3>2. UNCHANGED <<request, receipt, child>>
      BY <2>4 DEF KeeperResume, records
    <3>3. CASE UNCHANGED <<root, ran>>
      BY <2>1, <3>2, <3>3, QuietStep
    <3>4. CASE root' = "running" /\ ran' = TRUE
      <4>1. Run = "never" /\ Run' = "running"
        BY <2>4, <3>1, <3>4 DEF KeeperResume, KeeperAt, Run, JobEmpty, Alive
      <4> QED
        BY <2>1, <2>4, <3>1, <3>2, <4>1, SameRecords DEF KeeperResume, KeeperAt, Attempt!Resume,
            Attempt!AttemptNext
    <3> QED
      BY <2>4, <3>3, <3>4 DEF KeeperResume
  <2>5. CASE RootExits \/ ChildEnds \/ JobDies
    <3>1. UNCHANGED <<request, receipt, ran>>
      BY <2>5 DEF RootExits, ChildEnds, JobDies
    <3>2. ~JobEmpty
      BY <2>5 DEF RootExits, ChildEnds, JobDies, JobEmpty, Alive
    <3>3. \/ UNCHANGED Run
          \/ Run = "running" /\ Run' = "over"
      BY <3>1, <3>2 DEF Run
    <3> QED
      BY <2>1, <3>1, <3>3 DEF Attempt!Finish, Attempt!AttemptNext, Attempt!attemptVars
  <2>6. CASE KeeperCreate
    <3>1. ~ran
      BY <2>6 DEF IInv, KeeperInv, KeeperCreate, KeeperAt
    <3> QED
      BY <2>6, <3>1 DEF KeeperCreate, Attempt!attemptVars, Run
  <2>7. CASE ChildStarts
    BY <2>7 DEF ChildStarts, Attempt!attemptVars, Run, JobEmpty
  <2>8. CASE /\ ~KeeperOwn /\ ~KeeperResume /\ ~KeeperCreate
             /\ ~RootExits /\ ~ChildEnds /\ ~JobDies /\ ~ChildStarts
             /\ ~\E c \in Callers, r \in Requests : LaunchAccept(c, r)
    <3>1. UNCHANGED <<request, receipt, root, child, ran>>
      BY <2>8 DEF
       Next, CallerStep, CallerStart, KeeperStep, Environment, CallerCrash,
       LaunchAccept, LaunchDispatch, LaunchSpawn, LaunchAwait, GiveUp, GiveUpPublish, Status,
       LossDecide, Stop, StopAck, StopWait, StopKill, Reconcile, PublishNoAck, PublishLost,
       PublishCancelled, CallerPublish, KeeperStage, KeeperGate, KeeperCreate, KeeperOwn,
       KeeperAbandon, KeeperOwned, KeeperCancel, KeeperOverdue, SettleInSection, KeeperWatch,
       KeeperWatchJob, KeeperReadExit, KeeperCollect, KeeperFail, KeeperFailWait, KeeperResume,
       KeeperPublish, KeeperPublishFails, KeeperClose, KeeperCrash,
       RootExits, ChildStarts, ChildEnds, JobDies, Expire
    <3> QED
      BY <2>1, <3>1, QuietStep
  <2> QED
    BY <2>2, <2>3, <2>4, <2>5, <2>6, <2>7, <2>8 DEF Attempt!AttemptNext
<1> QED
  BY <1>1, <1>2

\* Launch, status, stop, the keeper, every crash and every fault implement
\* the abstract attempt: one request, a receipt before the script runs, and
\* one terminal, true when it is published and for ever after.
THEOREM Refinement == Spec => ImplementsAttempt
<1>1. Init => Attempt!AttemptInit
  BY SameRecords DEF Init, Attempt!AttemptInit, Run
<1>2. IInv /\ IInv' /\ [Next]_vars => [Attempt!AttemptNext]_(Attempt!attemptVars)
  <2>1. UNCHANGED vars => UNCHANGED Attempt!attemptVars
    BY DEF vars, records, tree, Attempt!attemptVars, Run, JobEmpty
  <2> QED
    BY <2>1, StepImplements
<1> QED
  BY Invariance, <1>1, <1>2, PTL DEF Spec, ImplementsAttempt, Attempt!AttemptSpec
=============================================================================
