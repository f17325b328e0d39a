--------------------------- MODULE AddonWireProofs ---------------------------
(***************************************************************************)
(* Proofs about AddonWire, for any number of clients, attempts and         *)
(* commands.                                                               *)
(***************************************************************************)
EXTENDS AddonWire, TLAPS, SequenceTheorems

\* The halves of a command or an answer.
First(n) == <<<<n, 1>>>>
Second(n) == <<<<n, 2>>>>

Limit(k) == IF IsBridge(k) THEN Commands ELSE 1
AtWork(k) == main # Idle /\ main.conn = k

\* Where the last command of a connection is: not taken by the addon, taken in
\* part, or taken and made the value of the handler's variable.
Untaken(k) == sent[k] > 0 /\ toAddon[k] = Whole(sent[k]) /\ buffer[k] = <<>>
HalfTaken(k) == sent[k] > 0 /\ toAddon[k] = Second(sent[k]) /\ buffer[k] = First(sent[k])
Taken(k) == toAddon[k] = <<>> /\ buffer[k] = <<>> /\ command[k] = sent[k]

\* A connection has one command at a time, and only that one is ever under way.
CommandInv(k) ==
    /\ sent[k] \in 0 .. Limit(k)
    /\ Untaken(k) \/ HalfTaken(k) \/ Taken(k)
    /\ client[k] \in {"idle", "refused"} => sent[k] = 0
    /\ client[k] = "connected" => Taken(k) /\ due[k] = 0 /\ toClient[k] = <<>>

\* Its timer, its runs and its answer.
TimerInv(k) ==
    /\ due[k] \in {0, 1}
    /\ due[k] = 1 => Taken(k) /\ sent[k] > 0
    /\ AtWork(k) => due[k] = 1 /\ main.number = sent[k]
    /\ \A n \in Numbers : runs[k][n] = 0 \/ (runs[k][n] = 1 /\ n <= sent[k])
    /\ sent[k] > 0 /\ (~Taken(k) \/ (due[k] = 1 /\ ~AtWork(k))) => runs[k][sent[k]] = 0
    /\ AtWork(k) => runs[k][sent[k]] = 1

AnswerInv(k) ==
    /\ ~Taken(k) \/ sent[k] = 0 => toClient[k] = <<>>
    /\ due[k] = 1 => toClient[k] = IF AtWork(k) /\ main.at = "sending" THEN First(sent[k]) ELSE <<>>
    /\ toClient[k] \in {<<>>, First(sent[k]), Whole(sent[k])}
    /\ toClient[k] = Whole(sent[k]) => runs[k][sent[k]] = 1

\* What was answered so far.
TakenInv(k) ==
    /\ Len(answers[k]) <= sent[k]
    /\ client[k] = "waiting" => sent[k] > 0 /\ Len(answers[k]) = sent[k] - 1
    /\ client[k] = "connected" => Len(answers[k]) = sent[k]
    /\ \A i \in 1 .. Len(answers[k]) : answers[k][i] = i /\ runs[k][i] = 1

ConnInv(k) == CommandInv(k) /\ TimerInv(k) /\ AnswerInv(k) /\ TakenInv(k)
IInv == TypeOK /\ \A k \in Conns : ConnInv(k)

-----------------------------------------------------------------------------
(* Fragments.                                                              *)

Pieces == Nat \X {1, 2}

\* Commands and their halves are sequences of fragments.
LEMMA FragmentTypes ==
    ASSUME NEW n \in Nat
    PROVE  /\ <<>> \in Seq(Pieces) /\ First(n) \in Seq(Pieces)
           /\ Second(n) \in Seq(Pieces) /\ Whole(n) \in Seq(Pieces)
           /\ n \in Numbers => /\ First(n) \in Seq(Fragments) /\ Second(n) \in Seq(Fragments)
                               /\ Whole(n) \in Seq(Fragments)
  BY DEF Whole, First, Second, Fragments, Pieces

\* A command and its halves are told apart, and so are two commands.
LEMMA FragmentFacts ==
    ASSUME NEW n \in Nat
    PROVE  /\ Len(Whole(n)) = 2 /\ Len(First(n)) = 1 /\ Len(Second(n)) = 1 /\ Len(<<>>) = 0
           /\ Whole(n)[1][1] = n /\ First(n)[1][1] = n
           /\ \A m \in Nat : Whole(m) = Whole(n) => m = n
  BY DEF Whole, First, Second

\* Sequences of two fragments.
LEMMA PairEqual ==
    ASSUME NEW s \in Seq(Pieces), NEW n \in Nat, Len(s) = 2, s[1] = <<n, 1>>, s[2] = <<n, 2>>
    PROVE  s = Whole(n)
<1>1. Whole(n) \in Seq(Pieces) /\ Len(Whole(n)) = 2
  BY FragmentTypes, FragmentFacts
<1>2. ASSUME NEW i \in 1 .. Len(s) PROVE s[i] = Whole(n)[i]
  <2>1. i = 1 \/ i = 2
    OBVIOUS
  <2>2. Whole(n)[1] = <<n, 1>> /\ Whole(n)[2] = <<n, 2>>
    BY DEF Whole
  <2> QED
    BY <2>2
<1> QED
  BY <1>1, <1>2

LEMMA SingleEqual ==
    ASSUME NEW s \in Seq(Pieces), NEW e \in Pieces, Len(s) = 1, s[1] = e
    PROVE  s = <<e>>
<1>1. <<e>> \in Seq(Pieces) /\ Len(<<e>>) = 1 /\ <<e>>[1] = e
  OBVIOUS
<1>2. ASSUME NEW i \in 1 .. Len(s) PROVE s[i] = <<e>>[i]
  BY <1>1
<1> QED
  BY SeqEqual

\* Two halves make a command.
LEMMA HalvesJoin ==
    ASSUME NEW n \in Nat
    PROVE  First(n) \o Second(n) = Whole(n)
<1>1. /\ First(n) \o Second(n) \in Seq(Pieces) /\ Len(First(n) \o Second(n)) = 2
      /\ (First(n) \o Second(n))[1] = First(n)[1]
      /\ (First(n) \o Second(n))[2] = Second(n)[1]
  <2>1. /\ First(n) \in Seq(Pieces) /\ Len(First(n)) = 1
        /\ Second(n) \in Seq(Pieces) /\ Len(Second(n)) = 1
    BY FragmentTypes, FragmentFacts
  <2>2. /\ First(n) \o Second(n) \in Seq(Pieces)
        /\ Len(First(n) \o Second(n)) = 1 + 1
        /\ \A i \in 1 .. 1 + 1 : (First(n) \o Second(n))[i] =
               IF i <= 1 THEN First(n)[i] ELSE Second(n)[i - 1]
    BY <2>1, ConcatProperties
  <2> QED
    BY <2>2
<1>2. First(n)[1] = <<n, 1>> /\ Second(n)[1] = <<n, 2>>
  BY DEF First, Second
<1> QED
  BY <1>1, <1>2, PairEqual

\* An answer is written in two halves.
LEMMA AnswerFacts ==
    ASSUME NEW n \in Nat
    PROVE  Append(<<>>, <<n, 1>>) = First(n) /\ Append(First(n), <<n, 2>>) = Whole(n)
<1>1. <<n, 1>> \in Pieces /\ <<n, 2>> \in Pieces
  BY DEF Pieces
<1>2. Append(<<>>, <<n, 1>>) = First(n)
  BY DEF First
<1>3. Append(First(n), <<n, 2>>) = First(n) \o <<<<n, 2>>>>
  BY <1>1
<1>4. Append(First(n), <<n, 2>>) = First(n) \o Second(n)
  BY DEF Second
<1> QED
  BY <1>2, <1>4, HalvesJoin

\* What a recv of one or of two fragments takes and leaves.
LEMMA RecvFacts ==
    ASSUME NEW n \in Nat
    PROVE  /\ <<>> \o SubSeq(Whole(n), 1, 1) = First(n)
           /\ <<>> \o SubSeq(Whole(n), 1, 2) = Whole(n)
           /\ First(n) \o SubSeq(Second(n), 1, 1) = Whole(n)
           /\ SubSeq(Whole(n), 2, 2) = Second(n)
           /\ SubSeq(Whole(n), 3, 2) = <<>>
           /\ SubSeq(Second(n), 2, 1) = <<>>
<1>1. /\ Whole(n)[1] = <<n, 1>> /\ Whole(n)[2] = <<n, 2>>
      /\ First(n)[1] = <<n, 1>> /\ Second(n)[1] = <<n, 2>>
      /\ <<n, 1>> \in Pieces /\ <<n, 2>> \in Pieces
  BY DEF Whole, First, Second, Pieces
<1>2. SubSeq(Whole(n), 1, 2) = Whole(n) /\ SubSeq(Second(n), 1, 1) = Second(n)
  BY FragmentTypes, FragmentFacts
<1>3. SubSeq(Whole(n), 1, 1) = First(n)
  <2>1. \A i \in 1 .. 1 : Whole(n)[i] \in Pieces
    BY <1>1
  <2>2. /\ SubSeq(Whole(n), 1, 1) \in Seq(Pieces) /\ Len(SubSeq(Whole(n), 1, 1)) = 1
        /\ SubSeq(Whole(n), 1, 1)[1] = Whole(n)[1]
    BY <2>1
  <2> QED
    BY <1>1, <2>2, SingleEqual DEF First
<1>4. SubSeq(Whole(n), 2, 2) = Second(n)
  <2>1. \A i \in 2 .. 2 : Whole(n)[i] \in Pieces
    BY <1>1
  <2>2. /\ SubSeq(Whole(n), 2, 2) \in Seq(Pieces) /\ Len(SubSeq(Whole(n), 2, 2)) = 1
        /\ SubSeq(Whole(n), 2, 2)[1] = Whole(n)[2]
    BY <2>1
  <2> QED
    BY <1>1, <2>2, SingleEqual DEF Second
<1>5. First(n) \o Second(n) = Whole(n)
  BY HalvesJoin
<1>6. <<>> \o First(n) = First(n) /\ <<>> \o Whole(n) = Whole(n)
  BY ConcatEmptySeq
<1>7. SubSeq(Whole(n), 3, 2) = <<>> /\ SubSeq(Second(n), 2, 1) = <<>>
  BY SubSeqEmpty
<1> QED
  BY <1>2, <1>3, <1>4, <1>5

\* What a connection counts.
LEMMA CountsAreNumbers ==
    ASSUME NEW k \in Conns, NEW n \in 1 .. Limit(k)
    PROVE  n \in Numbers /\ n \in Nat /\ n > 0
  BY SomeCommands DEF Limit, Numbers

\* The variables at one connection.
LEMMA ConnTypes ==
    ASSUME TypeOK, NEW k \in Conns
    PROVE  /\ client[k] \in ClientPoints /\ sent[k] \in Nat /\ answers[k] \in Seq(Numbers)
           /\ Len(answers[k]) \in Nat
           /\ toAddon[k] \in Seq(Fragments) /\ buffer[k] \in Seq(Fragments)
           /\ handler[k] \in HandlerPoints /\ command[k] \in Numbers \cup {0} /\ due[k] \in Nat
           /\ toClient[k] \in Seq(Fragments) /\ runs[k] \in [Numbers -> Nat]
  BY DEF TypeOK

\* A connection at one of its ends.
LEMMA ConnFacts ==
    ASSUME TypeOK, NEW k \in Conns, ConnInv(k)
    PROVE  /\ sent[k] = 0 => Taken(k) /\ due[k] = 0 /\ toClient[k] = <<>> /\ Len(answers[k]) = 0
           /\ sent[k] > 0 => sent[k] \in Numbers
           /\ due[k] = 0 => ~AtWork(k)
           /\ ~(Untaken(k) /\ Taken(k)) /\ ~(HalfTaken(k) /\ Taken(k))
<1>1. sent[k] = 0 => Taken(k) /\ due[k] = 0 /\ toClient[k] = <<>> /\ Len(answers[k]) = 0
  BY DEF ConnInv, CommandInv, TimerInv, AnswerInv, TakenInv, Untaken, HalfTaken
<1>2. sent[k] > 0 => sent[k] \in Numbers
  BY CountsAreNumbers DEF ConnInv, CommandInv
<1>3. due[k] = 0 => ~AtWork(k)
  BY DEF ConnInv, TimerInv
<1>4. ~(Untaken(k) /\ Taken(k)) /\ ~(HalfTaken(k) /\ Taken(k))
  BY FragmentFacts, ConnTypes DEF Untaken, HalfTaken, Taken
<1> QED
  BY <1>1, <1>2, <1>3, <1>4

-----------------------------------------------------------------------------
(* The invariant survives every action.                                    *)

\* A connection nothing happens to keeps its invariant.
Same(j) ==
    /\ client'[j] = client[j] /\ sent'[j] = sent[j] /\ answers'[j] = answers[j]
    /\ toAddon'[j] = toAddon[j] /\ buffer'[j] = buffer[j] /\ command'[j] = command[j]
    /\ due'[j] = due[j] /\ toClient'[j] = toClient[j] /\ runs'[j] = runs[j]

LEMMA SameKeeps ==
    ASSUME NEW j \in Conns, ConnInv(j), Same(j), AtWork(j)' <=> AtWork(j), AtWork(j) => main' = main
    PROVE  ConnInv(j)'
<1>1. Untaken(j)' = Untaken(j) /\ HalfTaken(j)' = HalfTaken(j) /\ Taken(j)' = Taken(j)
  BY DEF Same, Untaken, HalfTaken, Taken
<1>2. CommandInv(j)'
  BY <1>1 DEF ConnInv, CommandInv, Same
<1>3. TimerInv(j)'
  BY <1>1 DEF ConnInv, TimerInv, Same
<1>4. AnswerInv(j)'
  BY <1>1 DEF ConnInv, AnswerInv, Same
<1>5. TakenInv(j)'
  BY DEF ConnInv, TakenInv, Same
<1> QED
  BY <1>2, <1>3, <1>4, <1>5 DEF ConnInv


USE SomeCommands DEF IInv, ConnInv, clients, threads

LEMMA ConnectKeeps == ASSUME IInv, NEW k \in Conns, Connect(k) PROVE IInv'
<1>1. TypeOK'
  BY DEF TypeOK, ClientPoints, Connect, At
<1>2. ASSUME NEW j \in Conns, j # k PROVE ConnInv(j)'
  BY <1>2, SameKeeps DEF TypeOK, Same, AtWork, Connect, At
<1>k. /\ client[k] = "idle" /\ client'[k] \in {"connected", "refused"}
      /\ sent[k] = 0
      /\ UNCHANGED <<sent, answers, toAddon, buffer, command, due, main, toClient, runs>>
  BY DEF TypeOK, CommandInv, Connect, MayBegin, At
<1>3. CommandInv(k)'
  BY <1>k, ConnFacts DEF CommandInv, Taken
<1>4. TimerInv(k)'
  BY <1>k DEF TimerInv, AtWork
<1>5. AnswerInv(k)'
  BY <1>k, ConnFacts DEF AnswerInv
<1>6. TakenInv(k)'
  BY <1>k DEF TakenInv
<1> QED
  BY <1>1, <1>2, <1>3, <1>4, <1>5, <1>6

LEMMA SendKeeps == ASSUME IInv, NEW k \in Conns, Send(k) PROVE IInv'
<1>1. TypeOK'
  <2>1. sent[k] + 1 \in Numbers /\ sent[k] + 1 \in Nat
    BY CountsAreNumbers, ConnTypes DEF Limit, Send
  <2>2. toAddon[k] \o Whole(sent[k] + 1) \in Seq(Fragments)
    BY <2>1, FragmentTypes, ConnTypes
  <2> QED
    BY <2>2 DEF TypeOK, ClientPoints, Send, At
<1>2. ASSUME NEW j \in Conns, j # k PROVE ConnInv(j)'
  BY <1>2, SameKeeps DEF Same, AtWork, Send, At
<1>k. /\ client[k] = "connected" /\ client'[k] = "waiting"
      /\ sent'[k] = sent[k] + 1 /\ sent[k] + 1 \in 1 .. Limit(k) /\ sent[k] + 1 \in Numbers
      /\ toAddon'[k] = Whole(sent[k] + 1)
      /\ Taken(k) /\ due[k] = 0 /\ toClient[k] = <<>> /\ ~AtWork(k)
      /\ UNCHANGED <<answers, buffer, command, due, main, toClient, runs>>
  <2>1. /\ client[k] = "connected" /\ client'[k] = "waiting"
        /\ sent'[k] = sent[k] + 1 /\ sent[k] < Limit(k)
        /\ toAddon'[k] = toAddon[k] \o Whole(sent[k] + 1)
        /\ UNCHANGED <<answers, buffer, command, due, main, toClient, runs>>
    BY DEF TypeOK, Limit, Send, At
  <2>2. Taken(k) /\ due[k] = 0 /\ toClient[k] = <<>> /\ sent[k] \in Nat
    BY <2>1 DEF CommandInv
  <2>3. toAddon'[k] = Whole(sent[k] + 1)
    BY <2>1, <2>2 DEF Taken
  <2>4. sent[k] + 1 \in 1 .. Limit(k)
    BY <2>1, <2>2 DEF Limit
  <2> QED
    BY <2>1, <2>2, <2>3, <2>4, CountsAreNumbers, ConnFacts
<1>3. CommandInv(k)'
  BY <1>k DEF CommandInv, Untaken, Taken
<1>4. TimerInv(k)'
  <2>1. \A n \in Numbers : runs[k][n] = 0 \/ (runs[k][n] = 1 /\ n <= sent[k])
    BY DEF TimerInv
  <2>2. runs[k][sent[k] + 1] = 0
    BY <1>k, <2>1, ConnTypes
  <2>3. ~AtWork(k)' /\ due'[k] = 0 /\ runs'[k] = runs[k]
    BY <1>k DEF AtWork
  <2>4. \A n \in Numbers : runs'[k][n] = 0 \/ (runs'[k][n] = 1 /\ n <= sent'[k])
    <3>1. \A n \in Numbers : n \in Nat /\ (n <= sent[k] => n <= sent'[k])
      BY <1>k, ConnTypes DEF Numbers
    <3> QED
      BY <2>1, <2>3, <3>1
  <2> QED
    BY <1>k, <2>2, <2>3, <2>4 DEF TimerInv
<1>5. AnswerInv(k)'
  BY <1>k, FragmentFacts DEF AnswerInv
<1>6. TakenInv(k)'
  BY <1>k DEF TakenInv, Taken
<1> QED
  BY <1>1, <1>2, <1>3, <1>4, <1>5, <1>6

LEMMA ReceiveKeeps == ASSUME IInv, NEW k \in Conns, Receive(k) PROVE IInv'
<1>1. TypeOK'
  <2>1. toClient[k][1] \in Fragments
    BY ConnTypes DEF Receive
  <2>2. Append(answers[k], toClient[k][1][1]) \in Seq(Numbers)
    BY <2>1, ConnTypes DEF Fragments
  <2> QED
    <3>1. answers' \in [Conns -> Seq(Numbers)]
      BY <2>2 DEF TypeOK, Receive
    <3>2. client' \in [Conns -> ClientPoints]
      BY DEF TypeOK, ClientPoints, Receive, At
    <3>3. toClient' \in [Conns -> Seq(Fragments)]
      BY DEF TypeOK, Receive
    <3> QED
      BY <3>1, <3>2 DEF TypeOK, Receive
<1>2. ASSUME NEW j \in Conns, j # k PROVE ConnInv(j)'
  BY <1>2, SameKeeps DEF TypeOK, Same, AtWork, Receive, At
<1>k. /\ client[k] = "waiting" /\ sent[k] > 0 /\ sent[k] \in Numbers
      /\ toClient[k] = Whole(sent[k]) /\ toClient'[k] = <<>>
      /\ Taken(k) /\ due[k] = 0 /\ runs[k][sent[k]] = 1
      /\ Len(answers[k]) = sent[k] - 1
      /\ answers'[k] = Append(answers[k], sent[k])
      /\ client'[k] \in {"connected", "answered", "closed"}
      /\ UNCHANGED <<sent, toAddon, buffer, command, due, main, runs>>
  <2>1. /\ client[k] = "waiting" /\ Len(toClient[k]) = 2 /\ toClient'[k] = <<>>
        /\ answers'[k] = Append(answers[k], toClient[k][1][1])
        /\ client'[k] \in {"connected", "answered", "closed"}
        /\ UNCHANGED <<sent, toAddon, buffer, command, due, main, runs>>
    BY DEF TypeOK, Receive, At
  <2>2. sent[k] > 0 /\ sent[k] \in Nat /\ sent[k] \in Numbers /\ Len(answers[k]) = sent[k] - 1
    BY <2>1, ConnTypes, ConnFacts DEF TakenInv
  <2>3. toClient[k] = Whole(sent[k]) /\ runs[k][sent[k]] = 1
    <3>1. Len(<<>>) = 0 /\ Len(First(sent[k])) = 1
      BY <2>2, FragmentFacts
    <3> QED
      BY <2>1, <3>1 DEF AnswerInv
  <2>4. toClient[k] # <<>> /\ toClient[k] # First(sent[k])
    <3>1. Len(toClient[k]) = 2 /\ Len(First(sent[k])) = 1
      BY <2>1, <2>2, FragmentFacts
    <3>2. toClient[k] # <<>>
      BY <3>1
    <3> QED
      BY <3>1
  <2>5. Taken(k) /\ due[k] = 0
    BY <2>4 DEF AnswerInv, TimerInv
  <2> QED
    BY <2>1, <2>2, <2>3, <2>5, FragmentFacts
<1>3. CommandInv(k)'
  BY <1>k DEF CommandInv, Taken
<1>4. TimerInv(k)'
  BY <1>k DEF TimerInv, Taken, AtWork
<1>5. AnswerInv(k)'
  BY <1>k DEF AnswerInv
<1>6. TakenInv(k)'
  <2>1. /\ Len(answers'[k]) = sent[k]
        /\ \A i \in 1 .. Len(answers[k]) : answers'[k][i] = answers[k][i]
        /\ answers'[k][sent[k]] = sent[k]
    BY <1>k, ConnTypes
  <2>2. \A i \in 1 .. Len(answers'[k]) : answers'[k][i] = i /\ runs[k][i] = 1
    BY <1>k, ConnTypes DEF TakenInv
  <2> QED
    BY <1>k, <2>2 DEF TakenInv
<1> QED
  BY <1>1, <1>2, <1>3, <1>4, <1>5, <1>6

\* A client that closes its end.
LEMMA CloseKeeps ==
    ASSUME IInv, NEW k \in Conns, At(k, "closed"),
           UNCHANGED <<alive, running, sent, answers, toAddon, threads, main, toClient, runs>>
    PROVE  IInv'
<1>1. TypeOK'
  BY DEF TypeOK, ClientPoints, At
<1>2. ASSUME NEW j \in Conns, j # k PROVE ConnInv(j)'
  BY <1>2, SameKeeps DEF Same, AtWork, At
<1>k. client'[k] = "closed"
  BY DEF TypeOK, At
<1>3. Untaken(k)' = Untaken(k) /\ HalfTaken(k)' = HalfTaken(k) /\ Taken(k)' = Taken(k) /\ AtWork(k)' = AtWork(k)
  BY DEF Untaken, HalfTaken, Taken, AtWork
<1>4. CommandInv(k)'
  BY <1>k, <1>3 DEF CommandInv
<1>5. TimerInv(k)'
  BY <1>3 DEF TimerInv
<1>6. AnswerInv(k)'
  BY <1>3 DEF AnswerInv
<1>7. TakenInv(k)'
  BY <1>k DEF TakenInv
<1> QED
  BY <1>1, <1>2, <1>4, <1>5, <1>6, <1>7

LEMMA TimeOutKeeps == ASSUME IInv, NEW k \in Conns, TimeOut(k) PROVE IInv'
  BY CloseKeeps DEF TimeOut

LEMMA LoseKeeps == ASSUME IInv, NEW k \in Conns, Lose(k) PROVE IInv'
  BY CloseKeeps DEF Lose

LEMMA BridgeLeavesKeeps == ASSUME IInv, NEW k \in Conns, BridgeLeaves(k) PROVE IInv'
  BY CloseKeeps DEF BridgeLeaves

LEMMA AcceptKeeps == ASSUME IInv, NEW k \in Conns, Accept(k) PROVE IInv'
<1>1. TypeOK'
  BY DEF TypeOK, HandlerPoints, Accept
<1>2. ASSUME NEW j \in Conns PROVE ConnInv(j)'
  BY SameKeeps DEF Same, AtWork, Accept
<1> QED
  BY <1>1, <1>2

LEMMA HandlerEndsKeeps == ASSUME IInv, NEW k \in Conns, HandlerEnds(k) PROVE IInv'
<1>1. TypeOK'
  BY DEF TypeOK, HandlerPoints, HandlerEnds
<1>2. ASSUME NEW j \in Conns PROVE ConnInv(j)'
  BY SameKeeps DEF Same, AtWork, HandlerEnds
<1> QED
  BY <1>1, <1>2

LEMMA ExecuteKeeps == ASSUME IInv, NEW k \in Conns, Execute(k) PROVE IInv'
<1>1. TypeOK'
  <2>1. command[k] \in Numbers /\ runs[k][command[k]] + 1 \in Nat
    BY ConnFacts DEF Execute, TimerInv, Taken
  <2>2. runs' \in [Conns -> [Numbers -> Nat]]
    BY <2>1 DEF TypeOK, Execute, Run
  <2>3. main' \in Busy
    BY <2>1 DEF Execute, Busy
  <2> QED
    BY <2>2, <2>3 DEF TypeOK, Execute
<1>2. ASSUME NEW j \in Conns, j # k PROVE ConnInv(j)'
  BY <1>2, SameKeeps DEF Same, AtWork, Execute, Run
<1>k. /\ main = Idle /\ due[k] = 1 /\ ~AtWork(k)
      /\ Taken(k) /\ sent[k] > 0 /\ sent[k] \in Numbers /\ command[k] = sent[k]
      /\ runs[k][sent[k]] = 0 /\ toClient[k] = <<>>
      /\ main' = [at |-> "running", conn |-> k, number |-> sent[k]]
      /\ runs'[k] = [runs[k] EXCEPT ![sent[k]] = 1]
      /\ UNCHANGED <<client, sent, answers, toAddon, buffer, command, due, toClient>>
  <2>1. main = Idle /\ due[k] > 0 /\ ~AtWork(k)
    BY DEF Execute, AtWork
  <2>2. due[k] = 1 /\ Taken(k) /\ sent[k] > 0 /\ command[k] = sent[k] /\ sent[k] \in Numbers
    BY <2>1, ConnFacts DEF TimerInv, Taken
  <2>3. runs[k][sent[k]] = 0 /\ toClient[k] = <<>>
    BY <2>1 DEF TimerInv, AnswerInv
  <2>4. runs'[k] = [runs[k] EXCEPT ![sent[k]] = 1]
    BY <2>2, <2>3 DEF TypeOK, Execute, Run
  <2> QED
    BY <2>1, <2>2, <2>3, <2>4 DEF Execute
<1>3. CommandInv(k)'
  BY <1>k DEF CommandInv, Taken
<1>4. TimerInv(k)'
  <2>1. AtWork(k)' /\ main'.number = sent'[k] /\ Taken(k)' /\ due'[k] = 1 /\ sent'[k] = sent[k]
    BY <1>k DEF AtWork, Idle, Taken
  <2>2. runs'[k][sent[k]] = 1
    BY <1>k, ConnTypes
  <2>3. \A n \in Numbers : runs'[k][n] = 0 \/ (runs'[k][n] = 1 /\ n <= sent[k])
    BY <1>k DEF TimerInv
  <2> QED
    BY <1>k, <2>1, <2>2, <2>3 DEF TimerInv
<1>5. AnswerInv(k)'
  BY <1>k DEF AnswerInv
<1>6. TakenInv(k)'
  BY <1>k DEF TakenInv, Untaken, HalfTaken
<1> QED
  BY <1>1, <1>2, <1>3, <1>4, <1>5, <1>6

LEMMA HandleKeeps == ASSUME IInv, NEW k \in Conns, Handle(k) PROVE IInv'
<1> DEFINE N == sent[k]
           data(m) == buffer[k] \o SubSeq(toAddon[k], 1, m)
           parsed(m) == {n \in Numbers : data(m) = Whole(n)}
<1>1. PICK m \in 1 .. Len(toAddon[k]) :
          /\ toAddon' = [toAddon EXCEPT ![k] = SubSeq(@, m + 1, Len(@))]
          /\ buffer' = [buffer EXCEPT ![k] = IF parsed(m) = {} THEN data(m) ELSE <<>>]
          /\ command' = [command EXCEPT ![k] = IF parsed(m) = {} THEN @ ELSE data(m)[1][1]]
          /\ due' = [due EXCEPT ![k] = IF parsed(m) = {} THEN @ ELSE @ + 1]
  BY DEF Handle
<1>2. ~Taken(k) /\ N > 0 /\ N \in Numbers /\ N \in Nat /\ due[k] = 0 /\ ~AtWork(k)
  <2>1. ~Taken(k)
    BY DEF Taken
  <2>2. N > 0 /\ N \in Nat
    BY <2>1, ConnTypes, ConnFacts
  <2>3. due[k] = 0
    BY <2>1 DEF TimerInv
  <2> QED
    BY <2>1, <2>2, <2>3, ConnFacts
\* A recv that leaves the second half, and one that takes the rest.
<1>3. \/ /\ toAddon[k] = Whole(N) /\ buffer[k] = <<>> /\ m = 1
         /\ toAddon'[k] = Second(N) /\ buffer'[k] = First(N)
         /\ UNCHANGED <<command, due>>
      \/ /\ toAddon'[k] = <<>> /\ buffer'[k] = <<>>
         /\ command'[k] = N /\ due'[k] = 1
         /\ command' = [command EXCEPT ![k] = N] /\ due' = [due EXCEPT ![k] = 1]
  <2>1. data(m) = First(N) => parsed(m) = {}
    <3>1. ASSUME NEW n \in Numbers PROVE First(N) # Whole(n)
      <4>1. n \in Nat
        BY DEF Numbers
      <4>2. Len(First(N)) = 1
        BY <1>2, FragmentFacts
      <4>3. Len(Whole(n)) = 2
        BY <4>1, FragmentFacts
      <4> QED
        BY <4>2, <4>3
    <3> QED
      BY <3>1
  <2>2. data(m) = Whole(N) => parsed(m) # {} /\ data(m)[1][1] = N
    BY <1>2, FragmentFacts
  <2>5. parsed(m) # {} /\ data(m)[1][1] = N /\ SubSeq(toAddon[k], m + 1, Len(toAddon[k])) = <<>> =>
            /\ toAddon'[k] = <<>> /\ buffer'[k] = <<>>
            /\ command'[k] = N /\ due'[k] = 1
            /\ command' = [command EXCEPT ![k] = N] /\ due' = [due EXCEPT ![k] = 1]
    <3> SUFFICES ASSUME parsed(m) # {}, data(m)[1][1] = N,
                        SubSeq(toAddon[k], m + 1, Len(toAddon[k])) = <<>>
                 PROVE  /\ toAddon'[k] = <<>> /\ buffer'[k] = <<>>
                        /\ command' = [command EXCEPT ![k] = N] /\ due' = [due EXCEPT ![k] = 1]
                        /\ command'[k] = N /\ due'[k] = 1
      OBVIOUS
    <3> HIDE DEF data, parsed
    <3>1. toAddon'[k] = <<>>
      BY <1>1 DEF TypeOK
    <3>2. buffer'[k] = <<>>
      BY <1>1 DEF TypeOK
    <3>3. command' = [command EXCEPT ![k] = N]
      BY <1>1
    <3>4. due' = [due EXCEPT ![k] = due[k] + 1]
      BY <1>1
    <3>5. due' = [due EXCEPT ![k] = 1]
      BY <1>2, <3>4
    <3> QED
      BY <3>1, <3>2, <3>3, <3>5 DEF TypeOK
  <2>3. CASE toAddon[k] = Whole(N) /\ buffer[k] = <<>>
    <3>1. Len(toAddon[k]) = 2 /\ m \in {1, 2}
      <4>1. Len(Whole(N)) = 2
        BY <1>2, FragmentFacts
      <4>2. Len(toAddon[k]) = 2
        BY <2>3, <4>1
      <4> QED
        BY <4>2
    <3>2. CASE m = 1
      <4>1. data(m) = First(N) /\ SubSeq(toAddon[k], m + 1, Len(toAddon[k])) = Second(N)
        BY <1>2, <2>3, <3>1, <3>2, RecvFacts
      <4> QED
        BY <1>1, <2>1, <2>3, <3>2, <4>1 DEF TypeOK
    <3>3. CASE m = 2
      <4>1. data(m) = Whole(N) /\ SubSeq(toAddon[k], m + 1, Len(toAddon[k])) = <<>>
        BY <1>2, <2>3, <3>1, <3>3, RecvFacts
      <4> QED
        BY <2>2, <2>5, <4>1
    <3> QED
      BY <3>1, <3>2, <3>3
  <2>4. CASE toAddon[k] = Second(N) /\ buffer[k] = First(N)
    <3>1. Len(toAddon[k]) = 1 /\ m = 1
      <4>1. Len(Second(N)) = 1
        BY <1>2, FragmentFacts
      <4>2. Len(toAddon[k]) = 1
        BY <2>4, <4>1
      <4> QED
        BY <4>2
    <3>2. data(m) = Whole(N)
      BY <1>2, <2>4, <3>1, RecvFacts
    <3>3. SubSeq(toAddon[k], m + 1, Len(toAddon[k])) = <<>>
      <4>1. SubSeq(Second(N), 2, 1) = <<>>
        BY RecvFacts
      <4> QED
        BY <3>1
    <3> QED
      BY <2>2, <2>5, <3>2, <3>3
  <2> QED
    BY <1>2, <2>3, <2>4 DEF CommandInv, Untaken, HalfTaken
<1> HIDE DEF data, parsed
<1>4. ASSUME NEW j \in Conns, j # k PROVE ConnInv(j)'
  BY <1>4, SameKeeps DEF Same, AtWork, Handle
<1>5. UNCHANGED <<client, sent, answers, main, toClient, runs>>
  BY DEF Handle
<1>6. TypeOK'
  <2>1. buffer'[k] \in Seq(Fragments) /\ toAddon'[k] \in Seq(Fragments)
    <3>1. First(N) \in Seq(Fragments) /\ Second(N) \in Seq(Fragments)
      BY <1>2, FragmentTypes
    <3>2. <<>> \in Seq(Fragments)
      BY EmptySeq
    <3> QED
      BY <1>3, <3>1, <3>2
  <2>2. buffer' \in [Conns -> Seq(Fragments)] /\ toAddon' \in [Conns -> Seq(Fragments)]
    BY <1>1, <2>1 DEF TypeOK
  <2>3. command' \in [Conns -> Numbers \cup {0}] /\ due' \in [Conns -> Nat]
    BY <1>1, <1>2, <1>3 DEF TypeOK
  <2>4. handler' \in [Conns -> HandlerPoints]
    BY DEF TypeOK, HandlerPoints, Handle
  <2> QED
    BY <2>2, <2>3, <2>4 DEF TypeOK, Handle
<1>7. (HalfTaken(k)' /\ due'[k] = 0) \/ (Taken(k)' /\ due'[k] = 1)
  BY <1>2, <1>3, <1>5 DEF HalfTaken, Taken
<1>8. ~AtWork(k)' /\ toClient[k] = <<>> /\ runs[k][N] = 0
  BY <1>2, <1>5 DEF AtWork, AnswerInv, TimerInv
<1>9. client[k] # "connected"
  BY <1>2 DEF CommandInv
<1>10. CommandInv(k)'
  BY <1>5, <1>7, <1>9 DEF CommandInv
<1>11. TimerInv(k)'
  BY <1>2, <1>5, <1>7, <1>8 DEF TimerInv
<1>12. AnswerInv(k)'
  BY <1>5, <1>8 DEF AnswerInv
<1>13. TakenInv(k)'
  BY <1>5 DEF TakenInv
<1> QED
  BY <1>4, <1>6, <1>10, <1>11, <1>12, <1>13

\* The main thread: what it does concerns the connection it is at.
LEMMA MainConn ==
    ASSUME IInv, main # Idle
    PROVE  /\ main.conn \in Conns /\ AtWork(main.conn) /\ main.number = sent[main.conn]
           /\ main.at \in {"running", "sending"}
           /\ sent[main.conn] > 0 /\ sent[main.conn] \in Numbers /\ sent[main.conn] \in Nat
           /\ due[main.conn] = 1 /\ Taken(main.conn) /\ runs[main.conn][sent[main.conn]] = 1
           /\ \A j \in Conns : j # main.conn => ~AtWork(j)
<1>1. main \in Busy
  BY DEF TypeOK
<1>2. main.conn \in Conns /\ main.at \in {"running", "sending"} /\ AtWork(main.conn)
  BY <1>1 DEF Busy, AtWork
<1>3. due[main.conn] = 1 /\ main.number = sent[main.conn]
  BY <1>2 DEF TimerInv
<1>4. sent[main.conn] > 0 /\ Taken(main.conn) /\ runs[main.conn][sent[main.conn]] = 1
  BY <1>2 DEF TimerInv
<1> QED
  BY <1>2, <1>3, <1>4, ConnTypes, ConnFacts DEF AtWork

LEMMA AnswerKeeps == ASSUME IInv, Answer PROVE IInv'
<1>1. main # Idle /\ main.at = "running"
  BY DEF Answer, Idle
<1>k. PICK k \in Conns : k = main.conn
  BY <1>1, MainConn
<1> DEFINE N == sent[k]
<1>2. /\ k \in Conns /\ AtWork(k) /\ main.number = N
      /\ N > 0 /\ N \in Numbers /\ N \in Nat
      /\ due[k] = 1 /\ Taken(k) /\ runs[k][N] = 1
      /\ \A j \in Conns : j # k => ~AtWork(j)
  BY <1>k, <1>1, MainConn
<1>3. toClient[k] = <<>>
  BY <1>1, <1>2 DEF AnswerInv
<1>4. UNCHANGED <<client, sent, answers, toAddon, handler, buffer, command, runs, alive, running>>
  BY DEF Answer
<1>5. \/ /\ toClient' = [toClient EXCEPT ![k] = First(N)]
         /\ main' = [main EXCEPT !.at = "sending"] /\ due' = due
      \/ /\ main' = Idle /\ due' = [due EXCEPT ![k] = 0] /\ toClient' = toClient
  <2>1. Append(toClient[k], <<main.number, 1>>) = First(N)
    BY <1>2, <1>3, AnswerFacts
  <2>2. due[k] - 1 = 0
    BY <1>2
  <2> QED
    BY <1>k, <2>1, <2>2 DEF Answer
<1>6. main \in Busy
  BY <1>1 DEF TypeOK
<1> HIDE DEF N
<1>7. TypeOK'
  <2>1. First(N) \in Seq(Fragments)
    BY <1>2, FragmentTypes
  <2>2. toClient' \in [Conns -> Seq(Fragments)]
    BY <1>5, <2>1 DEF TypeOK
  <2>3. main' \in Busy \cup {Idle}
    BY <1>5, <1>6 DEF Busy
  <2>4. due' \in [Conns -> Nat]
    <3>1. due \in [Conns -> Nat] /\ [due EXCEPT ![k] = 0] \in [Conns -> Nat]
      BY DEF TypeOK
    <3> QED
      BY <1>5, <3>1
  <2> QED
    BY <1>4, <2>2, <2>3, <2>4 DEF TypeOK
<1>8. ASSUME NEW j \in Conns, j # k PROVE ConnInv(j)'
  <2>1. ~AtWork(j) /\ ~AtWork(j)'
    BY <1>2, <1>5, <1>6, <1>8 DEF AtWork, Busy
  <2>2. Same(j)
    BY <1>4, <1>5, <1>8 DEF TypeOK, Same
  <2> QED
    BY <2>1, <2>2, SameKeeps
<1>9. \/ /\ AtWork(k)' /\ main'.at = "sending" /\ main'.number = N
         /\ due'[k] = 1 /\ toClient'[k] = First(N)
      \/ ~AtWork(k)' /\ due'[k] = 0 /\ toClient'[k] = <<>>
  BY <1>2, <1>3, <1>5 DEF TypeOK, AtWork, Idle, Busy
<1>10. Taken(k)' /\ sent'[k] = N /\ client'[k] = client[k] /\ answers'[k] = answers[k] /\ runs'[k] = runs[k]
  BY <1>2, <1>4 DEF Taken, N
<1>11. client[k] # "connected"
  BY <1>2 DEF CommandInv
<1>12. CommandInv(k)'
  BY <1>10, <1>11 DEF CommandInv, N
<1>13. TimerInv(k)'
  BY <1>2, <1>9, <1>10 DEF TimerInv
<1>14. AnswerInv(k)'
  <2>1. First(N) # Whole(N) /\ <<>> # Whole(N)
    BY <1>2, FragmentFacts
  <2> QED
    BY <1>2, <1>9, <1>10 DEF AnswerInv
<1>15. TakenInv(k)'
  BY <1>10 DEF TakenInv, N
<1> QED
  BY <1>7, <1>8, <1>12, <1>13, <1>14, <1>15

LEMMA FinishKeeps == ASSUME IInv, Finish PROVE IInv'
<1>1. main # Idle /\ main.at = "sending"
  BY DEF Finish, Idle
<1>k. PICK k \in Conns : k = main.conn
  BY <1>1, MainConn
<1> DEFINE N == sent[k]
<1>2. /\ k \in Conns /\ AtWork(k) /\ main.number = N
      /\ N > 0 /\ N \in Numbers /\ N \in Nat
      /\ due[k] = 1 /\ Taken(k) /\ runs[k][N] = 1
      /\ \A j \in Conns : j # k => ~AtWork(j)
  BY <1>k, <1>1, MainConn
<1>3. toClient[k] = First(N)
  BY <1>1, <1>2 DEF AnswerInv
<1>4. UNCHANGED <<client, sent, answers, toAddon, handler, buffer, command, runs, alive, running>>
  BY DEF Finish
<1>5. /\ toClient' = toClient \/ toClient' = [toClient EXCEPT ![k] = Whole(N)]
      /\ main' = Idle /\ due' = [due EXCEPT ![k] = 0]
  <2>1. Append(toClient[k], <<main.number, 2>>) = Whole(N)
    BY <1>2, <1>3, AnswerFacts
  <2>2. due[k] - 1 = 0
    BY <1>2
  <2> QED
    BY <1>k, <2>1, <2>2 DEF Finish
<1> HIDE DEF N
<1>7. TypeOK'
  <2>1. Whole(N) \in Seq(Fragments)
    BY <1>2, FragmentTypes
  <2>2. toClient' \in [Conns -> Seq(Fragments)]
    BY <1>5, <2>1 DEF TypeOK
  <2>3. due' \in [Conns -> Nat]
    BY <1>5 DEF TypeOK
  <2> QED
    BY <1>4, <1>5, <2>2 DEF TypeOK
<1>8. ASSUME NEW j \in Conns, j # k PROVE ConnInv(j)'
  <2>1. ~AtWork(j) /\ ~AtWork(j)'
    BY <1>2, <1>5, <1>8 DEF AtWork
  <2>2. Same(j)
    BY <1>4, <1>5, <1>8 DEF TypeOK, Same
  <2> QED
    BY <2>1, <2>2, SameKeeps
<1>9. ~AtWork(k)' /\ due'[k] = 0 /\ toClient'[k] \in {First(N), Whole(N)}
  BY <1>3, <1>5 DEF TypeOK, AtWork
<1>10. Taken(k)' /\ sent'[k] = N /\ client'[k] = client[k] /\ answers'[k] = answers[k] /\ runs'[k] = runs[k]
  BY <1>2, <1>4 DEF Taken, N
<1>11. client[k] # "connected"
  BY <1>2 DEF CommandInv
<1>12. CommandInv(k)'
  BY <1>10, <1>11 DEF CommandInv, N
<1>13. TimerInv(k)'
  BY <1>2, <1>9, <1>10 DEF TimerInv
<1>14. AnswerInv(k)'
  BY <1>2, <1>9, <1>10 DEF AnswerInv
<1>15. TakenInv(k)'
  BY <1>10 DEF TakenInv, N
<1> QED
  BY <1>7, <1>8, <1>12, <1>13, <1>14, <1>15

\* What happens to the server or to Blender.
LEMMA StopServerKeeps == ASSUME IInv, StopServer PROVE IInv'
<1>1. TypeOK'
  BY DEF TypeOK, HandlerPoints, StopServer
<1>2. ASSUME NEW j \in Conns PROVE ConnInv(j)'
  BY SameKeeps DEF Same, AtWork, StopServer
<1> QED
  BY <1>1, <1>2

LEMMA StartServerKeeps == ASSUME IInv, StartServer PROVE IInv'
<1>1. TypeOK'
  BY DEF TypeOK, StartServer
<1>2. ASSUME NEW j \in Conns PROVE ConnInv(j)'
  BY SameKeeps DEF Same, AtWork, StartServer
<1> QED
  BY <1>1, <1>2

LEMMA BlenderDiesKeeps == ASSUME IInv, BlenderDies PROVE IInv'
<1>1. TypeOK'
  BY DEF TypeOK, HandlerPoints, BlenderDies
<1>2. ASSUME NEW k \in Conns PROVE ConnInv(k)'
  <2>1. /\ due'[k] = 0 /\ ~AtWork(k)'
        /\ UNCHANGED <<client, sent, answers, toAddon, buffer, command, toClient, runs>>
    BY DEF BlenderDies, AtWork
  <2>2. Untaken(k)' = Untaken(k) /\ HalfTaken(k)' = HalfTaken(k) /\ Taken(k)' = Taken(k)
    BY <2>1 DEF Untaken, HalfTaken, Taken
  <2>3. CommandInv(k)'
    BY <2>1, <2>2 DEF CommandInv
  <2>4. TimerInv(k)'
    BY <2>1, <2>2 DEF TimerInv
  <2>5. AnswerInv(k)'
    BY <2>1, <2>2 DEF AnswerInv
  <2>6. TakenInv(k)'
    BY <2>1 DEF TakenInv
  <2> QED
    BY <2>3, <2>4, <2>5, <2>6
<1> QED
  BY <1>1, <1>2

-----------------------------------------------------------------------------
(* Theorems.                                                               *)

LEMMA InitEstablishes == Init => IInv
<1> SUFFICES ASSUME Init PROVE IInv
  OBVIOUS
<1>1. <<>> \in Seq(Fragments) /\ <<>> \in Seq(Numbers) /\ Len(<<>>) = 0
  BY EmptySeq
<1>2. TypeOK
  BY DEF Init, TypeOK, ClientPoints, HandlerPoints
<1>3. ASSUME NEW k \in Conns PROVE ConnInv(k)
  <2>1. /\ client[k] = "idle" /\ sent[k] = 0 /\ answers[k] = <<>> /\ due[k] = 0
        /\ toAddon[k] = <<>> /\ buffer[k] = <<>> /\ command[k] = 0 /\ toClient[k] = <<>>
        /\ ~AtWork(k) /\ \A n \in Numbers : runs[k][n] = 0
    BY DEF Init, AtWork
  <2>2. Taken(k)
    BY <2>1 DEF Taken
  <2>3. CommandInv(k)
    BY <2>1, <2>2 DEF CommandInv, Limit
  <2>4. TimerInv(k)
    BY <2>1 DEF TimerInv
  <2>5. AnswerInv(k)
    BY <2>1, FragmentFacts DEF AnswerInv
  <2>6. TakenInv(k)
    BY <2>1 DEF TakenInv
  <2> QED
    BY <2>3, <2>4, <2>5, <2>6
<1> QED
  BY <1>2, <1>3

LEMMA NextKeeps == IInv /\ [Next]_vars => IInv'
<1> SUFFICES ASSUME IInv, [Next]_vars PROVE IInv'
  OBVIOUS
<1>1. ASSUME NEW k \in Conns, Connect(k) \/ ClientStep(k) \/ BridgeLeaves(k) PROVE IInv'
  BY <1>1, ConnectKeeps, SendKeeps, ReceiveKeeps, TimeOutKeeps, LoseKeeps, BridgeLeavesKeeps
     DEF ClientStep
<1>2. ASSUME NEW k \in Conns, ThreadStep(k) PROVE IInv'
  BY <1>2, AcceptKeeps, HandleKeeps, HandlerEndsKeeps DEF ThreadStep
<1>3. CASE MainStep
  BY <1>3, ExecuteKeeps, AnswerKeeps, FinishKeeps DEF MainStep
<1>4. CASE StopServer \/ StartServer \/ BlenderDies
  BY <1>4, StopServerKeeps, StartServerKeeps, BlenderDiesKeeps
<1>5. CASE UNCHANGED vars
  <2>1. TypeOK'
    BY <1>5 DEF TypeOK, vars
  <2>2. ASSUME NEW j \in Conns PROVE ConnInv(j)'
    BY <1>5, SameKeeps DEF Same, AtWork, vars
  <2> QED
    BY <2>1, <2>2
<1> QED
  BY <1>1, <1>2, <1>3, <1>4, <1>5 DEF Next

\* The wire and the addon keep their invariant, whatever stops, dies or gives up.
THEOREM Invariance == Spec => []IInv
<1> QED
  BY InitEstablishes, NextKeeps, PTL DEF Spec

\* The variables of the wire and of the addon have their types.
THEOREM TypeCorrect == Spec => []TypeOK
<1>1. IInv => TypeOK
  OBVIOUS
<1> QED
  BY Invariance, <1>1, PTL

\* Every answer that is taken (wire.py:_receive_json) is that of the client's own
\* command, which was executed, after every timeout, retry and restart.
THEOREM AnswersAreOwn == Spec => []OwnAnswer
<1>1. IInv => OwnAnswer
  BY DEF TakenInv, OwnAnswer
<1> QED
  BY Invariance, <1>1, PTL

\* No timer of the addon (addon.py:_handle_client) executes a command again.
THEOREM ExecutedOnce == Spec => []AtMostOnce
<1>1. IInv => AtMostOnce
  BY DEF TimerInv, AtMostOnce
<1> QED
  BY Invariance, <1>1, PTL

=============================================================================
