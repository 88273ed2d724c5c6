--------------------------- MODULE Metrics_proofs ---------------------------
(***************************************************************************)
(* Theorems about `Metrics`, whatever the processes, the findings and the  *)
(* bounds, crashes and failed writes included: triage.json loses no        *)
(* verdict to another process, the totals count no event twice, the log    *)
(* backs what they count, and a detector is called noisy on evidence only. *)
(***************************************************************************)
EXTENDS Metrics, RecursionTheorems, TLAPS

USE MetricsAssumption DEF MetricsAssumption

(* Who is between reading and writing triage.json holds its lock, and has  *)
(* read what it still says: the marks are read, judged and written in one  *)
(* exclusive piece.                                                        *)
Holds(p) == mark[p].pc \in {"load", "save"} => triageLock = p
ReadIsCurrent(p) == mark[p].pc = "save" => mark[p].loaded = verdicts

Verdicts == {"clear", "debt", "false_positive"}
Call == [pc : {"idle", "lock", "load", "save", "outcome"}, matches : SUBSET Findings,
         verdict : Verdicts, loaded : [Findings -> Verdicts]]

MarksOK ==
    /\ prints \subseteq Findings
    /\ mark \in [Processes -> Call]
    /\ verdicts \in [Findings -> Verdicts]

TriageInv ==
    /\ VerdictsKept
    /\ MarksOK
    /\ \A p \in Processes : Holds(p) /\ ReadIsCurrent(p)

(* A process that marks nothing.                                           *)
LEMMA IdleIsCall == IdleMark \in Call
BY DEF IdleMark, Call, Clear, Verdicts

(* Nothing is being marked at the start.                                   *)
LEMMA TriageInit == Init => TriageInv
BY IdleIsCall DEF Init, TriageInv, MarksOK, VerdictsKept, Holds, ReadIsCurrent, IdleMark, Clear, Verdicts

(* Flushing touches neither triage.json nor its lock.                      *)
LEMMA TriageOfRest ==
    TriageInv /\ prints' \subseteq Findings /\ UNCHANGED <<verdicts, mark, triageLock, marked>>
        => TriageInv'
BY DEF TriageInv, MarksOK, VerdictsKept, Holds, ReadIsCurrent

(* A call that writes nothing: it is given another state, which does not   *)
(* hold the lock unless it is its own.                                     *)
LEMMA TriageOfCall ==
    ASSUME TriageInv, NEW p \in Processes, NEW c \in Call,
           mark' = [mark EXCEPT ![p] = c], UNCHANGED <<prints, verdicts, marked>>,
           \A q \in Processes \ {p} : triageLock = q => triageLock' = q,
           c.pc \in {"load", "save"} => triageLock' = p,
           c.pc = "save" => c.loaded = verdicts
    PROVE  TriageInv'
<1>1. MarksOK' /\ VerdictsKept'
    BY DEF TriageInv, MarksOK, VerdictsKept
<1>2. ASSUME NEW q \in Processes PROVE Holds(q)' /\ ReadIsCurrent(q)'
    <2>1. CASE q = p
        BY <2>1 DEF TriageInv, MarksOK, Holds, ReadIsCurrent
    <2>2. CASE q # p
        BY <2>2 DEF TriageInv, MarksOK, Holds, ReadIsCurrent
    <2> QED
        BY <2>1, <2>2
<1> QED
    BY <1>1, <1>2 DEF TriageInv

(* A step of a call that changes its program counter, or what it has read. *)
LEMMA CallMoves ==
    ASSUME mark \in [Processes -> Call], NEW p \in Processes,
           NEW pc \in {"idle", "lock", "load", "save", "outcome"},
           mark' = [mark EXCEPT ![p].pc = pc]
    PROVE  \E c \in Call : mark' = [mark EXCEPT ![p] = c] /\ c.pc = pc
<1> DEFINE c == [mark[p] EXCEPT !.pc = pc]
<1>1. mark[p] \in Call
    OBVIOUS
<1>2. c \in Call /\ c.pc = pc
    BY <1>1 DEF Call
<1>3. mark' = [mark EXCEPT ![p] = c]
    OBVIOUS
<1> QED
    BY <1>2, <1>3

(* Matching the findings, waiting for the lock, reading under it.          *)
LEMMA TriageReads ==
    ASSUME TriageInv, NEW p \in Processes,
           MarkRead(p) \/ MarkLock(p) \/ MarkGiveUp(p) \/ MarkLoad(p)
    PROVE  TriageInv'
<1>1. CASE MarkRead(p)
    <2>1. PICK c : /\ mark' = [mark EXCEPT ![p] = c]
                   /\ \E matches \in (SUBSET prints) \ {{}}, verdict \in Given :
                          c = [IdleMark EXCEPT !.pc = "lock", !.matches = matches, !.verdict = verdict]
        BY <1>1 DEF MarkRead
    <2>2. c \in Call /\ c.pc = "lock"
        <3>1. PICK matches \in (SUBSET prints) \ {{}}, verdict \in Given :
                  c = [IdleMark EXCEPT !.pc = "lock", !.matches = matches, !.verdict = verdict]
            BY <2>1
        <3>2. c = [pc |-> "lock", matches |-> matches, verdict |-> verdict, loaded |-> Clear]
            BY <3>1 DEF IdleMark
        <3>3. matches \subseteq Findings /\ verdict \in Verdicts /\ Clear \in [Findings -> Verdicts]
            BY DEF TriageInv, MarksOK, Verdicts, Clear
        <3> QED
            BY <3>2, <3>3 DEF Call
    <2> QED
        BY <1>1, <2>1, <2>2, TriageOfCall DEF MarkRead, history
<1>2. CASE MarkLock(p)
    <2>1. PICK c \in Call : mark' = [mark EXCEPT ![p] = c] /\ c.pc = "load"
        BY <1>2, CallMoves DEF MarkLock, MarkStep, TriageInv, MarksOK
    <2>2. triageLock = Nobody /\ triageLock' = p
        BY <1>2 DEF MarkLock
    <2>3. \A q \in Processes \ {p} : triageLock = q => triageLock' = q
        BY <2>2
    <2>4. UNCHANGED <<prints, verdicts, marked>>
        BY <1>2 DEF MarkLock, MarkStep
    <2>5. c.pc # "save"
        BY <2>1
    <2> QED
        BY <2>1, <2>2, <2>3, <2>4, <2>5, TriageOfCall
<1>3. CASE MarkGiveUp(p)
    <2>1. PICK c \in Call : mark' = [mark EXCEPT ![p] = c] /\ c.pc = "idle"
        BY <1>3, CallMoves DEF MarkGiveUp, MarkStep, TriageInv, MarksOK
    <2> QED
        BY <1>3, <2>1, TriageOfCall DEF MarkGiveUp, MarkStep
<1>4. CASE MarkLoad(p)
    <2>1. PICK c \in Call : /\ mark' = [mark EXCEPT ![p] = c]
                            /\ c.pc = "save" /\ c.loaded = verdicts
        <3> DEFINE c == [mark[p] EXCEPT !.pc = "save", !.loaded = verdicts]
        <3>1. mark[p] \in Call /\ verdicts \in [Findings -> Verdicts]
            BY DEF TriageInv, MarksOK
        <3>2. c \in Call /\ c.pc = "save" /\ c.loaded = verdicts
            BY <3>1 DEF Call
        <3>3. mark' = [mark EXCEPT ![p] = c]
            BY <1>4 DEF MarkLoad
        <3> QED
            BY <3>2, <3>3
    <2>2. triageLock = p
        BY <1>4 DEF MarkLoad, TriageInv, Holds
    <2> QED
        BY <1>4, <2>1, <2>2, TriageOfCall DEF MarkLoad, history
<1> QED
    BY <1>1, <1>2, <1>3, <1>4

(* Writing: what the holder of the lock read is what the file still says,  *)
(* and nobody else is between reading and writing.                         *)
LEMMA TriageSaves ==
    ASSUME TriageInv, NEW p \in Processes, MarkSave(p) PROVE TriageInv'
<1>1. mark[p].pc = "save" /\ mark[p].loaded = verdicts /\ triageLock = p
    BY DEF MarkSave, MarkStep, TriageInv, Holds, ReadIsCurrent
<1>2. VerdictsKept'
    <2>1. Verdict(p, mark[p].loaded) = Verdict(p, marked)
        BY <1>1 DEF TriageInv, VerdictsKept
    <2> QED
        BY <2>1 DEF MarkSave, VerdictsKept
<1>3. MarksOK'
    <2>1. verdicts' \in [Findings -> Verdicts]
        BY DEF MarkSave, Verdict, TriageInv, MarksOK, Call
    <2>2. mark' \in [Processes -> Call] /\ prints' = prints
        BY ZenonT(30) DEF MarkSave, MarkStep, TriageInv, MarksOK, Call
    <2> QED
        BY <2>1, <2>2 DEF TriageInv, MarksOK
<1>4. ASSUME NEW q \in Processes PROVE mark'[q].pc \notin {"load", "save"}
    <2>1. CASE q = p
        BY <2>1 DEF MarkSave, MarkStep, TriageInv, MarksOK, Call
    <2>2. CASE q # p
        <3>1. mark'[q] = mark[q]
            BY <2>2 DEF MarkSave, MarkStep, TriageInv, MarksOK
        <3> QED
            BY <1>1, <2>2, <3>1 DEF TriageInv, Holds
    <2> QED
        BY <2>1, <2>2
<1> QED
    BY <1>2, <1>3, <1>4 DEF TriageInv, Holds, ReadIsCurrent

(* A write that fails, the event of a verdict, and a crash that takes the  *)
(* lock with it: the call is over.                                         *)
LEMMA TriageEnds ==
    ASSUME TriageInv, NEW p \in Processes, MarkSaveFails(p) \/ MarkOutcome(p) \/ Crash(p)
    PROVE  TriageInv'
<1>1. PICK c \in Call : /\ mark' = [mark EXCEPT ![p] = c]
                        /\ c.pc = "idle"
    <2>1. CASE MarkSaveFails(p)
        BY <2>1, CallMoves DEF MarkSaveFails, MarkStep, TriageInv, MarksOK
    <2>2. CASE MarkOutcome(p) \/ Crash(p)
        BY <2>2, IdleIsCall DEF MarkOutcome, Crash, IdleMark
    <2> QED
        BY <2>1, <2>2
<1>2. ASSUME NEW q \in Processes \ {p}, triageLock = q PROVE triageLock' = q
    <2>1. CASE MarkSaveFails(p)
        <3>1. triageLock = p
            BY <2>1 DEF MarkSaveFails, MarkStep, TriageInv, Holds
        <3> QED
            BY <1>2, <3>1
    <2>2. CASE MarkOutcome(p)
        BY <1>2, <2>2 DEF MarkOutcome
    <2>3. CASE Crash(p)
        BY <1>2, <2>3 DEF Crash
    <2> QED
        BY <2>1, <2>2, <2>3
<1>3. UNCHANGED <<prints, verdicts, marked>>
    BY DEF MarkSaveFails, MarkStep, MarkOutcome, Crash
<1> QED
    BY <1>1, <1>2, <1>3, TriageOfCall

(* Recording a scan replaces the baseline.                                 *)
LEMMA TriageRecords ==
    ASSUME TriageInv, NEW p \in Processes, RecordScan(p) \/ RecordGateBlock(p) \/ RecordSearch(p)
    PROVE  TriageInv'
<1>1. CASE RecordScan(p)
    <2>1. prints' \subseteq Findings
        BY <1>1 DEF RecordScan
    <2> QED
        BY <1>1, <2>1, TriageOfRest DEF RecordScan
<1>2. CASE RecordGateBlock(p) \/ RecordSearch(p)
    BY <1>2, TriageOfRest DEF RecordGateBlock, RecordSearch, triaging, TriageInv, MarksOK
<1> QED
    BY <1>1, <1>2

(* A flush writes no verdict.                                              *)
LEMMA TriageFlushes ==
    ASSUME TriageInv, FlushFrame PROVE TriageInv'
BY TriageOfRest DEF FlushFrame, triaging, TriageInv, MarksOK

(* Every step keeps the verdicts.                                          *)
LEMMA TriageNext == TriageInv /\ [Next]_vars => TriageInv'
<1> SUFFICES ASSUME TriageInv, [Next]_vars PROVE TriageInv'
    OBVIOUS
<1>1. CASE UNCHANGED vars
    BY <1>1, TriageOfRest DEF vars, triaging, history, TriageInv, MarksOK
<1>2. CASE Tick
    BY <1>2, TriageOfRest DEF Tick, triaging, history, TriageInv, MarksOK
<1>3. ASSUME NEW p \in Processes, RecordScan(p) \/ RecordGateBlock(p) \/ RecordSearch(p)
      PROVE  TriageInv'
    BY <1>3, TriageRecords
<1>4. ASSUME NEW p \in Processes,
             \/ DrainPending(p) \/ AcquireFlush(p) \/ GiveUpFlush(p) \/ LoadTotals(p) \/ AppendEvents(p)
             \/ AppendFails(p) \/ SaveTotals(p) \/ SaveFails(p) \/ CompactEvents(p)
      PROVE  TriageInv'
    <2>1. FlushFrame
        BY <1>4 DEF DrainPending, AcquireFlush, GiveUpFlush, LoadTotals, AppendEvents, AppendFails,
                    SaveTotals, SaveFails, CompactEvents
    <2> QED
        BY <2>1, TriageFlushes
<1>5. ASSUME NEW p \in Processes, MarkRead(p) \/ MarkLock(p) \/ MarkGiveUp(p) \/ MarkLoad(p)
      PROVE  TriageInv'
    BY <1>5, TriageReads
<1>6. ASSUME NEW p \in Processes, MarkSave(p) PROVE TriageInv'
    BY <1>6, TriageSaves
<1>7. ASSUME NEW p \in Processes, MarkSaveFails(p) \/ MarkOutcome(p) \/ Crash(p) PROVE TriageInv'
    BY <1>7, TriageEnds
<1> QED
    BY <1>1, <1>2, <1>3, <1>4, <1>5, <1>6, <1>7 DEF Next

(* Verdicts given at the same time by several processes are all kept, for  *)
(* any number of them: each process rewrites the whole of triage.json, but *)
(* reads it again under triage.lock first, and a crash or a failed write   *)
(* leaves the file as it was (triage.rs, triage and with_file_lock).       *)
THEOREM NoVerdictLost == Spec => []VerdictsKept
<1>1. TriageInv => VerdictsKept
    BY DEF TriageInv
<1> QED
    BY <1>1, TriageInit, TriageNext, PTL DEF Spec

-----------------------------------------------------------------------------
(* The sums of sequences of events.                                        *)
Tally == [sum : [Sums -> Nat], changes : Nat, hash : Infos]

LEMMA AddsIsNat == ASSUME NEW e \in Event, NEW s \in Sums PROVE Adds(e)[s] \in Nat
BY DEF Adds, Event

(* The function that Total sums.                                           *)
Weights(events, s) == [i \in DOMAIN events |-> Adds(events[i])[s]]

LEMMA TotalIsSum ==
    ASSUME NEW events \in Seq(Event), NEW s \in Sums
    PROVE  /\ Total(events, s) = SumFunction(Weights(events, s))
           /\ Weights(events, s) \in [1 .. Len(events) -> Nat]
           /\ IsFiniteSet(1 .. Len(events)) /\ Len(events) \in Nat
<1>1. Len(events) \in Nat /\ DOMAIN events = 1 .. Len(events) /\ \A i \in DOMAIN events : events[i] \in Event
    OBVIOUS
<1>2. IsFiniteSet(1 .. Len(events))
    BY <1>1, FS_Interval
<1> QED
    BY <1>1, <1>2, AddsIsNat DEF Total, Weights

LEMMA TotalOfNone == ASSUME NEW s \in Sums PROVE Total(<<>>, s) = 0
<1>1. <<>> \in Seq(Event) /\ Len(<<>>) = 0
    OBVIOUS
<1>2. \A z \in 1 .. 0 : Weights(<<>>, s)[z] = 0
    OBVIOUS
<1> QED
    BY <1>1, <1>2, TotalIsSum, SumOfZeros

LEMMA TotalOfMore ==
    ASSUME NEW events \in Seq(Event), NEW e \in Event, NEW s \in Sums
    PROVE  /\ Total(Append(events, e), s) = Total(events, s) + Adds(e)[s]
           /\ Total(events, s) \in Nat
<1> DEFINE more == Append(events, e)
           n == Len(events)
<1>1. more \in Seq(Event) /\ Len(more) = n + 1 /\ more[n + 1] = e /\ n \in Nat
      /\ \A i \in 1 .. n : more[i] = events[i]
    BY AppendProperties
<1>2. DOMAIN more = 1 .. n + 1 /\ DOMAIN events = 1 .. n /\ (1 .. n + 1) \ {n + 1} = 1 .. n
    BY <1>1
<1>3. n + 1 \in 1 .. n + 1
    BY <1>1
<1> HIDE DEF more, n
<1>4. Weights(more, s)[n + 1] = Adds(e)[s] /\ \A z \in 1 .. n : Weights(events, s)[z] = Weights(more, s)[z]
    BY <1>1, <1>2, <1>3 DEF Weights
<1>5. /\ Total(more, s) = SumFunction(Weights(more, s)) /\ Weights(more, s) \in [1 .. n + 1 -> Nat]
      /\ IsFiniteSet(1 .. n + 1)
    BY <1>1, TotalIsSum
<1>6. Total(events, s) = SumFunction(Weights(events, s)) /\ Weights(events, s) \in [1 .. n -> Nat]
    BY TotalIsSum DEF n
<1>7. /\ SumFunction(Weights(more, s)) = Weights(more, s)[n + 1] + SumFunction(Weights(events, s))
      /\ SumFunction(Weights(events, s)) \in Nat
    <2>1. PICK f, g, D, y : f = Weights(more, s) /\ g = Weights(events, s) /\ D = 1 .. n + 1 /\ y = n + 1
        OBVIOUS
    <2>2. /\ IsFiniteSet(D) /\ f \in [D -> Nat] /\ y \in D
          /\ g \in [D \ {y} -> Nat] /\ \A z \in D \ {y} : g[z] = f[z]
        BY <1>2, <1>3, <1>4, <1>5, <1>6, <2>1
    <2>3. SumFunction(f) = f[y] + SumFunction(g) /\ SumFunction(g) \in Nat /\ SumFunction(f) \in Nat
        <3> HIDE MetricsAssumption
        <3> QED
            BY <2>2, SumWithout
    <2> QED
        BY <2>1, <2>3
<1>8. Adds(e)[s] \in Nat
    BY AddsIsNat
<1> QED
    BY <1>4, <1>5, <1>6, <1>7, <1>8 DEF more

LEMMA TotalIsNat == ASSUME NEW events \in Seq(Event), NEW s \in Sums PROVE Total(events, s) \in Nat
<1>1. CASE events = <<>>
    BY <1>1, TotalOfNone
<1>2. CASE events # <<>>
    <2>1. PICK front \in Seq(Event), e \in Event : events = Append(front, e)
        BY <1>2, SequenceEmptyOrAppend
    <2>2. Total(front, s) \in Nat /\ Total(events, s) = Total(front, s) + Adds(e)[s] /\ Adds(e)[s] \in Nat
        BY <2>1, TotalOfMore, AddsIsNat
    <2> QED
        BY <2>2
<1> QED
    BY <1>1, <1>2

(* Events queued after others.                                             *)
LEMMA TotalOfBoth ==
    ASSUME NEW events \in Seq(Event), NEW others \in Seq(Event), NEW s \in Sums
    PROVE  Total(events \o others, s) = Total(events, s) + Total(others, s)
<1> DEFINE Adding(more) == Total(events \o more, s) = Total(events, s) + Total(more, s)
           T == {n \in Nat : \A more \in Seq(Event) : Len(more) = n => Adding(more)}
<1>1. 0 \in T
    <2> SUFFICES ASSUME NEW more \in Seq(Event), Len(more) = 0 PROVE Adding(more)
        OBVIOUS
    <2>1. more = <<>> /\ events \o more = events
        BY ConcatEmptySeq, EmptySeq
    <2>2. Total(events, s) \in Nat
        BY TotalIsNat
    <2> QED
        BY <2>1, <2>2, TotalOfNone
<1>2. ASSUME NEW n \in Nat, n \in T, NEW more \in Seq(Event), Len(more) = n + 1 PROVE Adding(more)
    <2>1. more # <<>>
        BY <1>2
    <2>2. PICK front \in Seq(Event), e \in Event : more = Append(front, e)
        BY <2>1, SequenceEmptyOrAppend
    <2>3. Len(front) = n
        BY <1>2, <2>2
    <2>4. Total(events \o front, s) = Total(events, s) + Total(front, s)
        BY <1>2, <2>3
    <2>5. events \o more = Append(events \o front, e) /\ events \o front \in Seq(Event)
        BY <2>2, ConcatProperties, AppendProperties
    <2>6. Total(events \o more, s) = Total(events \o front, s) + Adds(e)[s]
        BY <2>5, TotalOfMore
    <2>7. Total(more, s) = Total(front, s) + Adds(e)[s] /\ Total(front, s) \in Nat /\ Total(events, s) \in Nat
        BY <2>2, TotalOfMore, TotalIsNat
    <2> QED
        BY <2>4, <2>6, <2>7, AddsIsNat
<1>3. \A n \in Nat : n \in T => n + 1 \in T
    <2> HIDE DEF Adding
    <2> QED
        BY <1>2
<1>4. \A n \in Nat : n \in T
    <2> HIDE DEF T
    <2> QED
        BY <1>1, <1>3, Induction
<1>5. Len(others) \in Nat
    OBVIOUS
<1>6. Adding(others)
    <2> HIDE DEF Adding
    <2> QED
        BY <1>4, <1>5
<1> QED
    BY <1>6

(* Absorbing a batch adds what its events add.                             *)
LEMMA AbsorbAdds ==
    ASSUME NEW T \in Tally, NEW e \in Event
    PROVE  Absorb(T, e) \in Tally /\ \A s \in Sums : Absorb(T, e).sum[s] = T.sum[s] + Adds(e)[s]
<1> DEFINE hashed == e.kind = "scan" /\ e.info # NoHash
           change == IF hashed /\ T.hash \notin {NoHash, e.info} THEN 1 ELSE 0
           hash == IF hashed THEN e.info ELSE T.hash
<1>1. Absorb(T, e) = [sum |-> [s \in Sums |-> T.sum[s] + Adds(e)[s]],
                      changes |-> T.changes + change, hash |-> hash]
    BY DEF Absorb
<1>2. e.info \in Infos /\ T.hash \in Infos /\ T.changes \in Nat /\ T.sum \in [Sums -> Nat]
    BY DEF Event, Tally
<1>3. hash \in Infos /\ change \in Nat
    BY <1>2
<1> HIDE DEF hash, change
<1>4. \A s \in Sums : T.sum[s] + Adds(e)[s] \in Nat
    BY <1>2, AddsIsNat
<1>5. T.changes + change \in Nat
    BY <1>2, <1>3
<1>6. [s \in Sums |-> T.sum[s] + Adds(e)[s]] \in [Sums -> Nat]
    BY <1>4
<1> QED
    BY <1>1, <1>3, <1>5, <1>6 DEF Tally

LEMMA BatchAbsorbed ==
    ASSUME NEW T \in Tally, NEW batch \in Seq(Event)
    PROVE  /\ AbsorbAll(T, batch) \in Tally
           /\ \A s \in Sums : AbsorbAll(T, batch).sum[s] = T.sum[s] + Total(batch, s)
<1> DEFINE n == Len(batch)
           step == [k \in 1 .. n |-> [a \in Tally |-> Absorb(a, batch[k])]]
           Iterates(it) == it = [S \in SUBSET DOMAIN batch |->
                                    IF S = {} THEN T ELSE Absorb(it[S \ {Max(S)}], batch[Max(S)])]
           it == CHOOSE it : Iterates(it)
           Absorbed(k) == /\ it[1 .. k] \in Tally
                          /\ \A s \in Sums : it[1 .. k].sum[s] = T.sum[s] + Total(SubSeq(batch, 1, k), s)
           Lengths == {k \in Nat : k <= n => Absorbed(k)}
<1>1. n \in Nat /\ DOMAIN batch = 1 .. n /\ \A k \in 1 .. n : batch[k] \in Event
    OBVIOUS
<1>2. step \in Advances(n, Tally)
    BY <1>1, AbsorbAdds DEF Advances
<1>3. \E f : Iterates(f)
    <2>1. PICK f \in [SUBSET (1 .. n) -> Tally] : Folds(f, T, n, step)
        <3> HIDE DEF step, n
        <3> QED
            BY <1>1, <1>2, Folding
    <2>2. ASSUME NEW S \in SUBSET (1 .. n), S # {}
          PROVE  f[S] = Absorb(f[S \ {Max(S)}], batch[Max(S)])
        <3>1. Max(S) \in 1 .. n
            BY <1>1, <2>2, Greatest
        <3>2. f[S \ {Max(S)}] \in Tally
            OBVIOUS
        <3>3. f[S] = step[Max(S)][f[S \ {Max(S)}]]
            BY <2>1, <2>2 DEF Folds
        <3> QED
            BY <3>1, <3>2, <3>3
    <2>3. f[{}] = T
        BY <2>1 DEF Folds
    <2>4. Iterates(f)
        <3> HIDE DEF n, step
        <3> QED
            BY <1>1, <2>2, <2>3
    <2> QED
        BY <2>4
<1>4. Iterates(it)
    BY <1>3
<1>5. AbsorbAll(T, batch) = it[DOMAIN batch]
    BY DEF AbsorbAll, FoldLeft, MapThenFoldSet
<1> HIDE DEF step, n, it
<1>6. 0 \in Lengths
    <2>1. 1 .. 0 = {}
        OBVIOUS
    <2>2. it[{}] = T
        BY <1>4
    <2>3. SubSeq(batch, 1, 0) = <<>>
        OBVIOUS
    <2>4. ASSUME NEW s \in Sums PROVE T.sum[s] = T.sum[s] + Total(<<>>, s)
        BY TotalOfNone DEF Tally
    <2>5. Absorbed(0)
        BY <2>1, <2>2, <2>3, <2>4
    <2> HIDE DEF Absorbed
    <2> QED
        BY <2>5
<1>7. ASSUME NEW k \in Nat, k \in Lengths, k + 1 <= n PROVE Absorbed(k + 1)
    <2>1. Max(1 .. k + 1) = k + 1 /\ (1 .. k + 1) \ {k + 1} = 1 .. k /\ 1 .. k + 1 # {}
        BY Initial
    <2>2. 1 .. k + 1 \in SUBSET DOMAIN batch
        BY <1>1, <1>7
    <2>3. it[1 .. k + 1] = Absorb(it[1 .. k], batch[k + 1])
        BY <1>4, <2>1, <2>2
    <2>4. Absorbed(k)
        BY <1>1, <1>7
    <2>5. SubSeq(batch, 1, k) \in Seq(Event) /\ batch[k + 1] \in Event
          /\ SubSeq(batch, 1, k + 1) = Append(SubSeq(batch, 1, k), batch[k + 1])
        BY <1>1, <1>7 DEF n
    <2>6. PICK a, e, before : a = it[1 .. k] /\ e = batch[k + 1] /\ before = SubSeq(batch, 1, k)
        OBVIOUS
    <2>7. a \in Tally /\ e \in Event /\ before \in Seq(Event) /\ \A s \in Sums : a.sum[s] = T.sum[s] + Total(before, s)
        BY <2>4, <2>5, <2>6
    <2>8. Absorb(a, e) \in Tally /\ \A s \in Sums : Absorb(a, e).sum[s] = a.sum[s] + Adds(e)[s]
        BY <2>7, AbsorbAdds
    <2>9. ASSUME NEW s \in Sums PROVE Absorb(a, e).sum[s] = T.sum[s] + Total(Append(before, e), s)
        <3>1. Total(Append(before, e), s) = Total(before, s) + Adds(e)[s] /\ Total(before, s) \in Nat
            BY <2>7, TotalOfMore
        <3>2. T.sum[s] \in Nat /\ Adds(e)[s] \in Nat
            BY <2>7, AddsIsNat DEF Tally
        <3> QED
            BY <2>7, <2>8, <3>1, <3>2
    <2> QED
        BY <2>3, <2>5, <2>6, <2>8, <2>9
<1>8. \A k \in Nat : k \in Lengths => k + 1 \in Lengths
    <2> SUFFICES ASSUME NEW k \in Nat, k \in Lengths, k + 1 <= n PROVE Absorbed(k + 1)
        BY <1>1
    <2> HIDE DEF Absorbed
    <2> QED
        BY <1>7
<1>9. Absorbed(n)
    <2>1. n \in Lengths
        <3> HIDE DEF Lengths
        <3> QED
            BY <1>1, <1>6, <1>8, Induction
    <2> HIDE DEF Absorbed
    <2> QED
        BY <1>1, <2>1
<1>10. SubSeq(batch, 1, n) = batch
    BY <1>1 DEF n
<1> QED
    BY <1>1, <1>5, <1>9, <1>10

-----------------------------------------------------------------------------
(* What the processes have recorded, and where it is now.  Who works on    *)
(* the files holds flush.lock, and between reading the totals and saving   *)
(* them they are what it read: nobody else saves in between.               *)
FlushPc == {"idle", "lock", "load", "append", "save", "compact"}
Task == [pc : FlushPc, batch : Seq(Event), loaded : Tally]

TallyTypes ==
    /\ clock \in 0 .. MaxClock /\ last \in 0 .. MaxEvents
    /\ totals \in Tally /\ recorded \in Tally
    /\ pending \in [Processes -> Seq(Event)] /\ task \in [Processes -> Task]
    /\ dropped \in Seq(Event)

HoldsFlush(p) == task[p].pc \in {"load", "append", "save", "compact"} => flushLock = p
BatchHeld(p) == task[p].pc \in {"idle", "compact"} <=> task[p].batch = <<>>
LoadedIsCurrent(p) == task[p].pc \in {"append", "save"} =>
    \A s \in Sums : task[p].loaded.sum[s] = totals.sum[s] + Total(task[p].batch, s)
Told(p) == mark[p].pc = "outcome" => mark[p].verdict # "clear"

TallyInv ==
    /\ TallyTypes
    /\ \A p \in Processes : HoldsFlush(p) /\ BatchHeld(p) /\ LoadedIsCurrent(p) /\ Told(p)
    /\ CountedOnce

LEMMA EmptyTask == IdleFlush \in Task /\ NoTotals \in Tally
<1>1. NoTotals \in Tally
    BY DEF NoTotals, Tally, Infos
<1> QED
    BY <1>1 DEF IdleFlush, Task, FlushPc

(* What one process has underway.                                          *)
Carried(q, t, s) == Total(q, s) + Total(t.batch, s)

LEMMA CarriedIsNat ==
    ASSUME NEW q \in Seq(Event), NEW t \in Task, NEW s \in Sums PROVE Carried(q, t, s) \in Nat
<1>1. t.batch \in Seq(Event)
    BY DEF Task
<1> QED
    BY <1>1, TotalIsNat DEF Carried

(* What is underway changes by what one process has.                       *)
LEMMA UnderwayChanges ==
    ASSUME TallyTypes, NEW p \in Processes, NEW queue \in Seq(Event), NEW t \in Task,
           pending' = [pending EXCEPT ![p] = queue], task' = [task EXCEPT ![p] = t], NEW s \in Sums
    PROVE  /\ Underway(s) \in Nat /\ Underway(s)' \in Nat
           /\ Underway(s)' + Carried(pending[p], task[p], s) = Underway(s) + Carried(queue, t, s)
<1> DEFINE f == [q \in Processes |-> Carried(pending[q], task[q], s)]
           h == [q \in Processes |-> Carried(pending'[q], task'[q], s)]
<1>1. Underway(s) = SumFunction(f) /\ Underway(s)' = SumFunction(h)
    BY DEF Underway, Carried
<1>2. pending' \in [Processes -> Seq(Event)] /\ task' \in [Processes -> Task]
      /\ pending'[p] = queue /\ task'[p] = t
      /\ \A q \in Processes \ {p} : pending'[q] = pending[q] /\ task'[q] = task[q]
    BY DEF TallyTypes
<1>3. f \in [Processes -> Nat]
    BY CarriedIsNat DEF TallyTypes
<1>4. h \in [Processes -> Nat]
    BY <1>2, CarriedIsNat
<1>5. f[p] = Carried(pending[p], task[p], s) /\ h[p] = Carried(queue, t, s)
    BY <1>2
<1>6. \A q \in Processes \ {p} : f[q] = h[q]
    BY <1>2
<1>7. IsFiniteSet(Processes)
    OBVIOUS
<1> HIDE DEF f, h
<1>8. /\ SumFunction(f) \in Nat /\ SumFunction(h) \in Nat
      /\ SumFunction(h) + f[p] = SumFunction(f) + h[p]
    <2> HIDE MetricsAssumption
    <2> QED
        BY <1>3, <1>4, <1>6, <1>7, SumChanges
<1> QED
    BY <1>1, <1>5, <1>8

(* A step of one process, seen from the sums: what it recorded is counted, *)
(* carried or dropped, and whoever is at the files has flush.lock.         *)
Typed ==
    /\ clock' \in 0 .. MaxClock /\ last' \in 0 .. MaxEvents /\ totals' \in Tally /\ recorded' \in Tally
    /\ dropped' \in Seq(Event)
Alone(p, t) ==
    /\ \A q \in Processes \ {p} : flushLock = q => flushLock' = q
    /\ t.pc \in {"load", "append", "save", "compact"} => flushLock' = p
    /\ totals' = totals \/ flushLock = p
Held(t) ==
    /\ t.pc \in {"idle", "compact"} <=> t.batch = <<>>
    /\ t.pc \in {"append", "save"} => \A s \in Sums : t.loaded.sum[s] = totals'.sum[s] + Total(t.batch, s)
Balanced(p, queue, t) == \A s \in Sums :
    recorded'.sum[s] + totals.sum[s] + Carried(pending[p], task[p], s) + Total(dropped, s)
        = recorded.sum[s] + totals'.sum[s] + Carried(queue, t, s) + Total(dropped', s)

LEMMA TallyStep ==
    ASSUME TallyInv, NEW p \in Processes, NEW queue \in Seq(Event), NEW t \in Task,
           pending' = [pending EXCEPT ![p] = queue], task' = [task EXCEPT ![p] = t],
           Typed, Alone(p, t), Held(t), Balanced(p, queue, t), \A q \in Processes : Told(q)'
    PROVE  TallyInv'
<1>1. TallyTypes'
    BY DEF TallyInv, TallyTypes, Typed
<1>2. task'[p] = t /\ \A q \in Processes \ {p} : task'[q] = task[q]
    BY DEF TallyInv, TallyTypes
<1>3. ASSUME NEW q \in Processes PROVE HoldsFlush(q)' /\ BatchHeld(q)' /\ LoadedIsCurrent(q)'
    <2>1. CASE q = p
        BY <1>2, <2>1 DEF HoldsFlush, BatchHeld, LoadedIsCurrent, Alone, Held
    <2>2. CASE q # p
        <3>1. task'[q] = task[q] /\ HoldsFlush(q) /\ BatchHeld(q) /\ LoadedIsCurrent(q)
            BY <1>2, <2>2 DEF TallyInv
        <3>2. HoldsFlush(q)' /\ BatchHeld(q)'
            BY <2>2, <3>1 DEF HoldsFlush, BatchHeld, Alone
        <3>3. task[q].pc \in {"append", "save"} => totals' = totals
            BY <2>2, <3>1 DEF HoldsFlush, Alone
        <3> QED
            BY <3>1, <3>2, <3>3 DEF LoadedIsCurrent
    <2> QED
        BY <2>1, <2>2
<1>4. ASSUME NEW s \in Sums
      PROVE  recorded'.sum[s] = totals'.sum[s] + Underway(s)' + Total(dropped', s)
    <2>1. recorded.sum[s] = totals.sum[s] + Underway(s) + Total(dropped, s)
        BY DEF TallyInv, CountedOnce
    <2>2. /\ Underway(s) \in Nat /\ Underway(s)' \in Nat
          /\ Underway(s)' + Carried(pending[p], task[p], s) = Underway(s) + Carried(queue, t, s)
        <3>1. TallyTypes
            BY DEF TallyInv
        <3> HIDE MetricsAssumption
        <3> QED
            BY <3>1, UnderwayChanges
    <2>3. /\ recorded.sum[s] \in Nat /\ totals.sum[s] \in Nat
          /\ recorded'.sum[s] \in Nat /\ totals'.sum[s] \in Nat
        BY DEF TallyInv, TallyTypes, Tally, Typed
    <2>4. Total(dropped, s) \in Nat /\ Total(dropped', s) \in Nat
        BY TotalIsNat DEF TallyInv, TallyTypes, Typed
    <2>5. Carried(queue, t, s) \in Nat /\ Carried(pending[p], task[p], s) \in Nat
        BY CarriedIsNat DEF TallyInv, TallyTypes
    <2>6. recorded'.sum[s] + totals.sum[s] + Carried(pending[p], task[p], s) + Total(dropped, s)
              = recorded.sum[s] + totals'.sum[s] + Carried(queue, t, s) + Total(dropped', s)
        BY DEF Balanced
    <2>7. PICK r, rr, o, oo, u, uu, c, cc, d, dd :
              /\ r = recorded.sum[s] /\ rr = recorded'.sum[s] /\ o = totals.sum[s] /\ oo = totals'.sum[s]
              /\ u = Underway(s) /\ uu = Underway(s)' /\ c = Carried(pending[p], task[p], s)
              /\ cc = Carried(queue, t, s) /\ d = Total(dropped, s) /\ dd = Total(dropped', s)
        BY DEF Balanced
    <2>8. /\ r \in Nat /\ rr \in Nat /\ o \in Nat /\ oo \in Nat /\ u \in Nat /\ uu \in Nat
          /\ c \in Nat /\ cc \in Nat /\ d \in Nat /\ dd \in Nat
        BY <2>2, <2>3, <2>4, <2>5, <2>7
    <2>9. r = o + u + d /\ uu + c = u + cc /\ rr + o + c + d = r + oo + cc + dd
        BY <2>1, <2>2, <2>6, <2>7
    <2>10. rr = oo + uu + dd
        BY ONLY <2>8, <2>9
    <2> QED
        BY <2>7, <2>10
<1>5. CountedOnce'
    BY <1>4 DEF CountedOnce
<1> QED
    BY <1>1, <1>3, <1>5 DEF TallyInv

(* Nothing is recorded or flushed at the start.                            *)
LEMMA TallyInit == Init => TallyInv
<1> SUFFICES ASSUME Init PROVE TallyInv
    OBVIOUS
<1>1. TallyTypes
    <2>1. <<>> \in Seq(Event) /\ clock \in 0 .. MaxClock
        BY DEF Init
    <2> QED
        BY <2>1, EmptyTask DEF Init, TallyTypes
<1>2. \A p \in Processes : HoldsFlush(p) /\ BatchHeld(p) /\ LoadedIsCurrent(p) /\ Told(p)
    BY DEF Init, HoldsFlush, BatchHeld, LoadedIsCurrent, Told, IdleFlush, IdleMark
<1>3. ASSUME NEW s \in Sums PROVE recorded.sum[s] = totals.sum[s] + Underway(s) + Total(dropped, s)
    <2> DEFINE f == [p \in Processes |-> Total(pending[p], s) + Total(task[p].batch, s)]
    <2>1. \A p \in Processes : f[p] = 0
        BY TotalOfNone DEF Init, IdleFlush
    <2>2. f \in [Processes -> Nat]
        BY <2>1
    <2>3. IsFiniteSet(Processes)
        OBVIOUS
    <2>4. SumFunction(f) = 0
        <3> HIDE MetricsAssumption
        <3> HIDE DEF f
        <3> QED
            BY <2>1, <2>2, <2>3, SumOfZeros
    <2>5. Underway(s) = 0
        BY <2>4 DEF Underway
    <2>6. recorded.sum[s] = 0 /\ totals.sum[s] = 0 /\ Total(dropped, s) = 0
        BY TotalOfNone DEF Init, NoTotals
    <2> QED
        BY <2>5, <2>6
<1> QED
    BY <1>1, <1>2, <1>3 DEF TallyInv, CountedOnce

(* A step that neither records nor flushes.                                *)
LEMMA TallyOfRest ==
    ASSUME TallyInv, UNCHANGED <<pending, task, flushLock, totals, recorded, dropped, last>>,
           clock' \in 0 .. MaxClock, \A q \in Processes : Told(q)'
    PROVE  TallyInv'
<1>1. TallyTypes'
    BY DEF TallyInv, TallyTypes
<1>2. \A q \in Processes : HoldsFlush(q)' /\ BatchHeld(q)' /\ LoadedIsCurrent(q)'
    BY DEF TallyInv, HoldsFlush, BatchHeld, LoadedIsCurrent
<1>3. CountedOnce'
    BY DEF TallyInv, CountedOnce, Underway
<1> QED
    BY <1>1, <1>2, <1>3 DEF TallyInv

LEMMA ToldOfCall ==
    ASSUME TallyInv, MarksOK, NEW p \in Processes, NEW c, mark' = [mark EXCEPT ![p] = c],
           c.pc = "outcome" => c.verdict # "clear"
    PROVE  \A q \in Processes : Told(q)'
<1> SUFFICES ASSUME NEW q \in Processes PROVE Told(q)'
    OBVIOUS
<1>1. CASE q = p
    BY <1>1 DEF MarksOK, Told
<1>2. CASE q # p
    <2>1. mark'[q] = mark[q] /\ Told(q)
        BY <1>2 DEF MarksOK, TallyInv
    <2> QED
        BY <2>1 DEF Told
<1> QED
    BY <1>1, <1>2

(* Recording queues the event.                                             *)
LEMMA TallyPushes ==
    ASSUME TallyInv, NEW p \in Processes,
           NEW kind \in Kinds, NEW n \in Nat, NEW info \in Infos,
           Push(p, kind, n, info), UNCHANGED Others, \A q \in Processes : Told(q)'
    PROVE  TallyInv'
<1> DEFINE e == [id |-> last + 1, ts |-> clock, kind |-> kind, n |-> n, info |-> info]
           queue == Append(pending[p], e)
           t == task[p]
<1>1. /\ last < MaxEvents /\ last' = last + 1 /\ recorded' = Absorb(recorded, e)
      /\ pending' = [pending EXCEPT ![p] = queue] /\ dropped' = dropped
    BY DEF Push
<1>2. /\ clock' = clock /\ task' = task /\ flushLock' = flushLock /\ totals' = totals
    BY DEF Others, files
<1>3. /\ clock \in 0 .. MaxClock /\ last \in 0 .. MaxEvents /\ totals \in Tally /\ recorded \in Tally
      /\ pending[p] \in Seq(Event) /\ t \in Task /\ dropped \in Seq(Event)
      /\ task \in [Processes -> Task]
    BY DEF TallyInv, TallyTypes
<1>4. last' \in 0 .. MaxEvents /\ last + 1 \in 1 .. MaxEvents
    BY <1>1, <1>3
<1>5. e \in Event
    BY <1>3, <1>4 DEF Event
<1> HIDE DEF e
<1>6. queue \in Seq(Event)
    BY <1>3, <1>5, AppendProperties
<1>7. recorded' \in Tally /\ \A s \in Sums : recorded'.sum[s] = recorded.sum[s] + Adds(e)[s]
    BY <1>1, <1>3, <1>5, AbsorbAdds
<1>8. ASSUME NEW s \in Sums
      PROVE  recorded'.sum[s] + totals.sum[s] + Carried(pending[p], task[p], s) + Total(dropped, s)
                 = recorded.sum[s] + totals'.sum[s] + Carried(queue, t, s) + Total(dropped', s)
    <2>1. Total(queue, s) = Total(pending[p], s) + Adds(e)[s] /\ Total(pending[p], s) \in Nat
        BY <1>3, <1>5, TotalOfMore
    <2>2. Carried(queue, t, s) = Carried(pending[p], t, s) + Adds(e)[s]
        <3>1. Total(t.batch, s) \in Nat
            BY <1>3, TotalIsNat DEF Task
        <3> QED
            BY <1>5, <2>1, <3>1, AddsIsNat DEF Carried
    <2>3. recorded.sum[s] \in Nat /\ totals.sum[s] \in Nat /\ Total(dropped, s) \in Nat
          /\ Adds(e)[s] \in Nat /\ Carried(pending[p], t, s) \in Nat
        BY <1>3, <1>5, AddsIsNat, TotalIsNat, CarriedIsNat DEF Tally
    <2>4. recorded'.sum[s] = recorded.sum[s] + Adds(e)[s] /\ totals' = totals /\ dropped' = dropped
        BY <1>1, <1>2, <1>7
    <2> QED
        BY <2>2, <2>3, <2>4
<1>9. task' = [task EXCEPT ![p] = t]
    BY <1>2, <1>3
<1>10. Alone(p, t) /\ Held(t)
    BY <1>2 DEF TallyInv, HoldsFlush, BatchHeld, LoadedIsCurrent, Alone, Held
<1>11. Typed
    BY <1>1, <1>2, <1>3, <1>4, <1>7 DEF Typed
<1>12. Balanced(p, queue, t)
    BY <1>8 DEF Balanced
<1> HIDE DEF queue, t
<1> QED
    BY <1>1, <1>3, <1>6, <1>9, <1>10, <1>11, <1>12, TallyStep

(* A flush records nothing: it moves what was recorded.                    *)
Moved(p, queue, t) == \A s \in Sums :
    totals.sum[s] + Carried(pending[p], task[p], s) + Total(dropped, s)
        = totals'.sum[s] + Carried(queue, t, s) + Total(dropped', s)

LEMMA FlushStep ==
    ASSUME TallyInv, FlushFrame, NEW p \in Processes, NEW queue \in Seq(Event), NEW t \in Task,
           pending' = [pending EXCEPT ![p] = queue], task' = [task EXCEPT ![p] = t],
           totals' \in Tally, dropped' \in Seq(Event), Alone(p, t), Held(t), Moved(p, queue, t)
    PROVE  TallyInv'
<1>1. recorded' = recorded /\ clock' = clock /\ last' = last /\ mark' = mark
    BY DEF FlushFrame, triaging
<1>2. Typed
    BY <1>1 DEF TallyInv, TallyTypes, Typed
<1>3. \A q \in Processes : Told(q)'
    BY <1>1 DEF TallyInv, Told
<1>4. ASSUME NEW s \in Sums
      PROVE  recorded'.sum[s] + totals.sum[s] + Carried(pending[p], task[p], s) + Total(dropped, s)
                 = recorded.sum[s] + totals'.sum[s] + Carried(queue, t, s) + Total(dropped', s)
    <2>1. totals.sum[s] + Carried(pending[p], task[p], s) + Total(dropped, s)
              = totals'.sum[s] + Carried(queue, t, s) + Total(dropped', s)
        BY DEF Moved
    <2>2. /\ recorded'.sum[s] \in Nat /\ recorded.sum[s] \in Nat /\ totals.sum[s] \in Nat /\ totals'.sum[s] \in Nat
          /\ recorded'.sum[s] = recorded.sum[s]
        BY <1>1 DEF TallyInv, TallyTypes, Tally
    <2>3. Total(dropped, s) \in Nat /\ Total(dropped', s) \in Nat
        BY TotalIsNat DEF TallyInv, TallyTypes
    <2>4. Carried(queue, t, s) \in Nat /\ Carried(pending[p], task[p], s) \in Nat
        BY CarriedIsNat DEF TallyInv, TallyTypes
    <2>5. PICK r, rr, o, oo, c, cc, d, dd :
              /\ r = recorded.sum[s] /\ rr = recorded'.sum[s] /\ o = totals.sum[s] /\ oo = totals'.sum[s]
              /\ c = Carried(pending[p], task[p], s) /\ cc = Carried(queue, t, s)
              /\ d = Total(dropped, s) /\ dd = Total(dropped', s)
        OBVIOUS
    <2>6. /\ r \in Nat /\ rr = r /\ o \in Nat /\ oo \in Nat
          /\ c \in Nat /\ cc \in Nat /\ d \in Nat /\ dd \in Nat
        BY <2>2, <2>3, <2>4, <2>5
    <2>7. o + c + d = oo + cc + dd
        BY <2>1, <2>5
    <2>8. rr + o + c + d = r + oo + cc + dd
        BY ONLY <2>6, <2>7
    <2> QED
        BY <2>5, <2>8
<1>5. Balanced(p, queue, t)
    BY <1>4 DEF Balanced
<1> QED
    BY <1>2, <1>3, <1>5, TallyStep

(* The queue becomes the batch.                                            *)
LEMMA TallyDrains ==
    ASSUME TallyInv, NEW p \in Processes, DrainPending(p) PROVE TallyInv'
<1>0. PICK t : t = [IdleFlush EXCEPT !.pc = "lock", !.batch = pending[p]]
    OBVIOUS
<1>1. t = [pc |-> "lock", batch |-> pending[p], loaded |-> NoTotals]
    BY <1>0 DEF IdleFlush
<1>2. /\ task[p].pc = "idle" /\ pending[p] # <<>> /\ task' = [task EXCEPT ![p] = t]
      /\ pending' = [pending EXCEPT ![p] = <<>>] /\ FlushFrame
      /\ totals' = totals /\ dropped' = dropped /\ flushLock' = flushLock
    BY <1>0 DEF DrainPending, files
<1>3. /\ pending[p] \in Seq(Event) /\ totals \in Tally /\ dropped \in Seq(Event)
      /\ task[p] \in Task /\ <<>> \in Seq(Event)
    BY DEF TallyInv, TallyTypes
<1>4. t \in Task /\ t.pc = "lock" /\ t.batch = pending[p]
    BY <1>1, <1>3, EmptyTask DEF Task, FlushPc
<1>5. task[p].batch = <<>>
    BY <1>2 DEF TallyInv, BatchHeld
<1>6. Alone(p, t) /\ Held(t)
    BY <1>2, <1>4 DEF Alone, Held
<1>7. ASSUME NEW s \in Sums PROVE Carried(<<>>, t, s) = Carried(pending[p], task[p], s)
    BY <1>3, <1>4, <1>5, TotalOfNone, TotalIsNat DEF Carried
<1>8. Moved(p, <<>>, t)
    BY <1>2, <1>7 DEF Moved
<1> QED
    BY <1>2, <1>3, <1>4, <1>6, <1>8, FlushStep

(* A step of the flush that keeps the queue, the batch, the totals and     *)
(* what is dropped.                                                        *)
LEMMA TallyKept ==
    ASSUME TallyInv, FlushFrame, NEW p \in Processes, NEW t \in Task,
           task' = [task EXCEPT ![p] = t], t.batch = task[p].batch, UNCHANGED <<pending, totals, dropped>>,
           Alone(p, t), Held(t)
    PROVE  TallyInv'
<1>1. /\ pending[p] \in Seq(Event) /\ totals' \in Tally /\ dropped' \in Seq(Event)
      /\ pending' = [pending EXCEPT ![p] = pending[p]]
    BY DEF TallyInv, TallyTypes
<1>2. Moved(p, pending[p], t)
    BY DEF Moved, Carried
<1> QED
    BY <1>1, <1>2, FlushStep

LEMMA TallyLocks ==
    ASSUME TallyInv, NEW p \in Processes, AcquireFlush(p) PROVE TallyInv'
<1> DEFINE t == [task[p] EXCEPT !.pc = "load"]
<1>1. task[p] \in Task
    BY DEF TallyInv, TallyTypes
<1>2. t \in Task /\ t.pc = "load" /\ t.batch = task[p].batch
    BY <1>1 DEF Task, FlushPc
<1>3. /\ task' = [task EXCEPT ![p] = t] /\ FlushFrame /\ UNCHANGED <<pending, totals, dropped>>
      /\ task[p].pc = "lock" /\ flushLock = Nobody /\ flushLock' = p
    BY DEF AcquireFlush, Goto, files
<1> HIDE DEF t
<1>4. Alone(p, t) /\ Held(t)
    BY <1>2, <1>3 DEF Alone, Held, TallyInv, BatchHeld
<1> QED
    BY <1>2, <1>3, <1>4, TallyKept

LEMMA TallyLoads ==
    ASSUME TallyInv, NEW p \in Processes, LoadTotals(p) PROVE TallyInv'
<1> DEFINE sums == AbsorbAll(totals, task[p].batch)
           t == [task[p] EXCEPT !.pc = "append", !.loaded = sums]
<1>1. task[p] \in Task /\ task[p].batch \in Seq(Event) /\ totals \in Tally
    BY DEF TallyInv, TallyTypes, Task
<1>2. sums \in Tally /\ \A s \in Sums : sums.sum[s] = totals.sum[s] + Total(task[p].batch, s)
    BY <1>1, BatchAbsorbed
<1>3. /\ task' = [task EXCEPT ![p] = t] /\ FlushFrame /\ UNCHANGED <<pending, totals, dropped, flushLock>>
      /\ task[p].pc = "load"
    BY DEF LoadTotals, files
<1> HIDE DEF sums
<1>4. t \in Task /\ t.pc = "append" /\ t.batch = task[p].batch /\ t.loaded = sums
    BY <1>1, <1>2 DEF Task, FlushPc
<1> HIDE DEF t
<1>5. Alone(p, t)
    BY <1>3, <1>4 DEF Alone, TallyInv, HoldsFlush
<1>6. Held(t)
    BY <1>2, <1>3, <1>4 DEF Held, TallyInv, BatchHeld
<1> QED
    BY <1>3, <1>4, <1>5, <1>6, TallyKept

LEMMA TallyAppends ==
    ASSUME TallyInv, NEW p \in Processes, AppendEvents(p) \/ AppendFails(p) PROVE TallyInv'
<1> DEFINE t == [task[p] EXCEPT !.pc = "save"]
<1>1. task[p] \in Task
    BY DEF TallyInv, TallyTypes
<1>2. t \in Task /\ t.pc = "save" /\ t.batch = task[p].batch /\ t.loaded = task[p].loaded
    BY <1>1 DEF Task, FlushPc
<1>3. /\ task' = [task EXCEPT ![p] = t] /\ FlushFrame /\ UNCHANGED <<pending, totals, dropped, flushLock>>
      /\ task[p].pc = "append"
    BY DEF AppendEvents, AppendFails, Goto, files
<1> HIDE DEF t
<1>4. Alone(p, t)
    BY <1>2, <1>3 DEF Alone, TallyInv, HoldsFlush
<1>5. Held(t)
    BY <1>2, <1>3 DEF Held, TallyInv, BatchHeld, LoadedIsCurrent
<1> QED
    BY <1>2, <1>3, <1>4, <1>5, TallyKept

LEMMA TallyCompacts ==
    ASSUME TallyInv, NEW p \in Processes, CompactEvents(p) PROVE TallyInv'
<1> DEFINE t == [task[p] EXCEPT !.pc = "idle"]
<1>1. task[p] \in Task
    BY DEF TallyInv, TallyTypes
<1>2. t \in Task /\ t.pc = "idle" /\ t.batch = task[p].batch
    BY <1>1 DEF Task, FlushPc
<1>3. /\ task' = [task EXCEPT ![p] = t] /\ FlushFrame /\ UNCHANGED <<pending, totals, dropped>>
      /\ task[p].pc = "compact" /\ flushLock' = Nobody
    BY DEF CompactEvents, Goto
<1> HIDE DEF t
<1>4. flushLock = p
    BY <1>3 DEF TallyInv, HoldsFlush
<1>5. Alone(p, t) /\ Held(t)
    BY <1>2, <1>3, <1>4 DEF Alone, Held, TallyInv, BatchHeld
<1> QED
    BY <1>2, <1>3, <1>5, TallyKept

(* What was read and added to becomes the totals.                          *)
LEMMA TallySaves ==
    ASSUME TallyInv, NEW p \in Processes, SaveTotals(p) PROVE TallyInv'
<1> DEFINE t == [IdleFlush EXCEPT !.pc = "compact"]
<1>1. t = [pc |-> "compact", batch |-> <<>>, loaded |-> NoTotals]
    BY DEF IdleFlush
<1>2. /\ task' = [task EXCEPT ![p] = t] /\ FlushFrame /\ UNCHANGED <<pending, dropped, flushLock>>
      /\ task[p].pc = "save" /\ totals' = task[p].loaded
    BY DEF SaveTotals
<1> HIDE DEF t
<1>3. /\ task[p] \in Task /\ task[p].batch \in Seq(Event) /\ task[p].loaded \in Tally /\ pending[p] \in Seq(Event)
      /\ totals \in Tally /\ dropped' \in Seq(Event) /\ pending' = [pending EXCEPT ![p] = pending[p]]
    BY <1>2 DEF TallyInv, TallyTypes, Task
<1>4. t \in Task /\ t.pc = "compact" /\ t.batch = <<>>
    <2>1. <<>> \in Seq(Event)
        OBVIOUS
    <2> QED
        BY <1>1, <2>1, EmptyTask DEF Task, FlushPc
<1>5. flushLock = p /\ \A s \in Sums : task[p].loaded.sum[s] = totals.sum[s] + Total(task[p].batch, s)
    BY <1>2 DEF TallyInv, HoldsFlush, LoadedIsCurrent
<1>6. Alone(p, t) /\ Held(t)
    BY <1>2, <1>4, <1>5 DEF Alone, Held
<1>7. ASSUME NEW s \in Sums
      PROVE  totals.sum[s] + Carried(pending[p], task[p], s) + Total(dropped, s)
                 = totals'.sum[s] + Carried(pending[p], t, s) + Total(dropped', s)
    <2>1. /\ Total(pending[p], s) \in Nat /\ Total(task[p].batch, s) \in Nat /\ Total(t.batch, s) = 0
          /\ Total(dropped, s) \in Nat /\ dropped' = dropped /\ totals.sum[s] \in Nat
        BY <1>2, <1>3, <1>4, TotalIsNat, TotalOfNone DEF Tally, TallyInv, TallyTypes
    <2>2. totals'.sum[s] = totals.sum[s] + Total(task[p].batch, s)
        BY <1>2, <1>5
    <2> QED
        BY <2>1, <2>2 DEF Carried
<1>8. Moved(p, pending[p], t)
    BY <1>7 DEF Moved
<1> QED
    BY <1>2, <1>3, <1>4, <1>6, <1>8, FlushStep

(* A batch that is let go: its lock was not got, or the totals could not   *)
(* be saved.                                                               *)
LEMMA TallyDrops ==
    ASSUME TallyInv, NEW p \in Processes, GiveUpFlush(p) \/ SaveFails(p) PROVE TallyInv'
<1>1. PICK pc \in {"idle", "compact"} :
          /\ pc = "compact" => task[p].pc = "save"
          /\ task' = [task EXCEPT ![p] = [IdleFlush EXCEPT !.pc = pc]]
    <2>1. CASE GiveUpFlush(p)
        <3>1. [IdleFlush EXCEPT !.pc = "idle"] = IdleFlush
            BY DEF IdleFlush
        <3> QED
            BY <2>1, <3>1 DEF GiveUpFlush
    <2>2. CASE SaveFails(p)
        BY <2>2 DEF SaveFails
    <2> QED
        BY <2>1, <2>2
<1>2. PICK t : t = [IdleFlush EXCEPT !.pc = pc]
    OBVIOUS
<1>3. t = [pc |-> pc, batch |-> <<>>, loaded |-> NoTotals]
    BY <1>2 DEF IdleFlush
<1>4. /\ task' = [task EXCEPT ![p] = t] /\ FlushFrame /\ UNCHANGED <<pending, totals, flushLock>>
      /\ dropped' = dropped \o task[p].batch
    BY <1>1, <1>2 DEF GiveUpFlush, SaveFails, files, Lost
<1>5. /\ task[p] \in Task /\ task[p].batch \in Seq(Event) /\ pending[p] \in Seq(Event) /\ totals' \in Tally
      /\ dropped \in Seq(Event) /\ pending' = [pending EXCEPT ![p] = pending[p]]
    BY <1>4 DEF TallyInv, TallyTypes, Task
<1>6. t \in Task /\ t.pc = pc /\ t.batch = <<>>
    <2>1. <<>> \in Seq(Event)
        OBVIOUS
    <2> QED
        BY <1>3, <2>1, EmptyTask DEF Task, FlushPc
<1>7. dropped' \in Seq(Event)
    BY <1>4, <1>5, ConcatProperties
<1>8. Alone(p, t) /\ Held(t)
    BY <1>1, <1>4, <1>6 DEF Alone, Held, TallyInv, HoldsFlush
<1>9. ASSUME NEW s \in Sums
      PROVE  totals.sum[s] + Carried(pending[p], task[p], s) + Total(dropped, s)
                 = totals'.sum[s] + Carried(pending[p], t, s) + Total(dropped', s)
    <2>1. /\ Total(pending[p], s) \in Nat /\ Total(task[p].batch, s) \in Nat /\ Total(t.batch, s) = 0
          /\ Total(dropped, s) \in Nat /\ totals.sum[s] \in Nat /\ totals' = totals
        BY <1>4, <1>5, <1>6, TotalIsNat, TotalOfNone DEF Tally
    <2>2. Total(dropped', s) = Total(dropped, s) + Total(task[p].batch, s)
        BY <1>4, <1>5, TotalOfBoth
    <2> QED
        BY <2>1, <2>2 DEF Carried
<1>10. Moved(p, pending[p], t)
    BY <1>9 DEF Moved
<1> QED
    BY <1>4, <1>5, <1>6, <1>7, <1>8, <1>10, FlushStep

(* A crash loses what the process carries.                                 *)
LEMMA TallyCrashes ==
    ASSUME TallyInv, MarksOK, NEW p \in Processes, Crash(p) PROVE TallyInv'
<1> DEFINE t == IdleFlush
<1>1. /\ task' = [task EXCEPT ![p] = t] /\ pending' = [pending EXCEPT ![p] = <<>>]
      /\ UNCHANGED <<clock, last, recorded, totals>>
      /\ dropped' = dropped \o (pending[p] \o task[p].batch)
      /\ mark' = [mark EXCEPT ![p] = IdleMark]
      /\ flushLock' = IF flushLock = p THEN Nobody ELSE flushLock
    BY DEF Crash, Lost
<1>2. /\ task[p] \in Task /\ task[p].batch \in Seq(Event) /\ pending[p] \in Seq(Event)
      /\ totals \in Tally /\ dropped \in Seq(Event) /\ <<>> \in Seq(Event)
    BY DEF TallyInv, TallyTypes, Task
<1>3. t \in Task /\ t.pc = "idle" /\ t.batch = <<>>
    BY EmptyTask DEF IdleFlush
<1> HIDE DEF t
<1>4. pending[p] \o task[p].batch \in Seq(Event) /\ dropped' \in Seq(Event)
    BY <1>1, <1>2, ConcatProperties
<1>5. Typed
    BY <1>1, <1>4 DEF Typed, TallyInv, TallyTypes
<1>6. Alone(p, t) /\ Held(t)
    BY <1>1, <1>3 DEF Alone, Held
<1>7. \A q \in Processes : Told(q)'
    BY <1>1, ToldOfCall DEF IdleMark
<1>8. ASSUME NEW s \in Sums
      PROVE  recorded'.sum[s] + totals.sum[s] + Carried(pending[p], task[p], s) + Total(dropped, s)
                 = recorded.sum[s] + totals'.sum[s] + Carried(<<>>, t, s) + Total(dropped', s)
    <2>1. /\ Total(pending[p], s) \in Nat /\ Total(task[p].batch, s) \in Nat /\ Total(t.batch, s) = 0
          /\ Total(dropped, s) \in Nat /\ totals.sum[s] \in Nat /\ recorded.sum[s] \in Nat
          /\ Total(<<>>, s) = 0
        BY <1>2, <1>3, TotalIsNat, TotalOfNone DEF Tally, TallyInv, TallyTypes
    <2>2. Total(dropped', s) = Total(dropped, s) + (Total(pending[p], s) + Total(task[p].batch, s))
        <3>1. Total(pending[p] \o task[p].batch, s) = Total(pending[p], s) + Total(task[p].batch, s)
            BY <1>2, TotalOfBoth
        <3>2. Total(dropped', s) = Total(dropped, s) + Total(pending[p] \o task[p].batch, s)
            BY <1>1, <1>2, <1>4, TotalOfBoth
        <3> QED
            BY <3>1, <3>2
    <2>3. recorded'.sum[s] = recorded.sum[s] /\ totals'.sum[s] = totals.sum[s]
        BY <1>1
    <2> QED
        BY <2>1, <2>2, <2>3 DEF Carried
<1>9. Balanced(p, <<>>, t)
    BY <1>8 DEF Balanced
<1> QED
    BY <1>1, <1>2, <1>3, <1>5, <1>6, <1>7, <1>9, TallyStep

(* Recording.                                                              *)
LEMMA TallyRecords ==
    ASSUME TallyInv, MarksOK, NEW p \in Processes, RecordScan(p) \/ RecordGateBlock(p) \/ RecordSearch(p)
    PROVE  TallyInv'
<1>1. \A q \in Processes : Told(q)'
    <2>1. mark' = mark
        BY DEF RecordScan, RecordGateBlock, RecordSearch, triaging
    <2> QED
        BY <2>1 DEF TallyInv, Told
<1>2. UNCHANGED Others
    BY DEF RecordScan, RecordGateBlock, RecordSearch
<1>3. CASE RecordScan(p)
    <2>1. PICK found \in SUBSET Findings :
              LET resolved == Cardinality({f \in prints \ found : verdicts[f] = "clear"}) IN
              \/ \E hash \in Hashes \cup {NoHash} : Push(p, "scan", resolved, hash)
              \/ resolved > 0 /\ Push(p, "auto_resolve", resolved, NoHash)
        BY <1>3 DEF RecordScan
    <2> DEFINE gone == {f \in prints \ found : verdicts[f] = "clear"}
    <2>2. Cardinality(gone) \in Nat
        <3>1. gone \subseteq Findings /\ IsFiniteSet(Findings)
            BY DEF MarksOK
        <3> QED
            BY <3>1, FS_Subset, FS_CardinalityType
    <2>3. PICK kind \in Kinds, info \in Infos : Push(p, kind, Cardinality(gone), info)
        <3>1. "scan" \in Kinds /\ "auto_resolve" \in Kinds /\ Hashes \cup {NoHash} \subseteq Infos
            BY DEF Kinds, Infos
        <3> HIDE DEF gone
        <3>2. \/ \E hash \in Hashes \cup {NoHash} : Push(p, "scan", Cardinality(gone), hash)
              \/ Push(p, "auto_resolve", Cardinality(gone), NoHash)
            BY <2>1 DEF gone
        <3> QED
            BY <3>1, <3>2
    <2> QED
        BY <1>1, <1>2, <2>2, <2>3, TallyPushes
<1>4. CASE RecordGateBlock(p) \/ RecordSearch(p)
    <2>2. CASE RecordGateBlock(p)
        <3>1. "gate_block" \in Kinds /\ NoHash \in Infos /\ Push(p, "gate_block", 0, NoHash)
            BY <2>2 DEF Kinds, Infos, RecordGateBlock
        <3> QED
            BY <1>1, <1>2, <3>1, TallyPushes
    <2>3. CASE RecordSearch(p)
        <3>1. PICK hits \in {0, 1}, info \in {"first", "again"} : Push(p, "search", hits, info)
            BY <2>3 DEF RecordSearch
        <3>2. "search" \in Kinds /\ info \in Infos
            BY DEF Kinds, Infos
        <3> QED
            BY <1>1, <1>2, <3>1, <3>2, TallyPushes
    <2> QED
        BY <1>4, <2>2, <2>3
<1> QED
    BY <1>3, <1>4

(* A brainz_triage call; only what it tells in the end is recorded.        *)
LEMMA TallyMarks ==
    ASSUME TallyInv, MarksOK, NEW p \in Processes,
           \/ MarkRead(p) \/ MarkLock(p) \/ MarkGiveUp(p) \/ MarkLoad(p)
           \/ MarkSave(p) \/ MarkSaveFails(p)
    PROVE  TallyInv'
<1>1. UNCHANGED <<pending, task, flushLock, totals, recorded, dropped, last>> /\ clock' = clock
    BY DEF MarkRead, MarkLock, MarkGiveUp, MarkLoad, MarkSave, MarkSaveFails, MarkStep, flushing, files, history
<1>2. PICK c : mark' = [mark EXCEPT ![p] = c] /\ (c.pc = "outcome" => c.verdict # "clear")
    <2>1. mark[p] \in Call
        BY DEF MarksOK
    <2>2. CASE MarkRead(p)
        <3>1. PICK matches \in (SUBSET prints) \ {{}}, verdict \in Given :
                  mark' = [mark EXCEPT ![p] =
                              [IdleMark EXCEPT !.pc = "lock", !.matches = matches, !.verdict = verdict]]
            BY <2>2 DEF MarkRead
        <3>2. PICK c : c = [IdleMark EXCEPT !.pc = "lock", !.matches = matches, !.verdict = verdict]
            OBVIOUS
        <3>3. c.pc = "lock"
            BY <3>2 DEF IdleMark
        <3> QED
            BY <3>1, <3>2, <3>3
    <2>3. CASE MarkLoad(p)
        <3>1. PICK c : c = [mark[p] EXCEPT !.pc = "save", !.loaded = verdicts]
            OBVIOUS
        <3>2. c.pc = "save"
            BY <2>1, <3>1 DEF Call
        <3>3. mark' = [mark EXCEPT ![p] = c]
            BY <2>3, <3>1 DEF MarkLoad
        <3> QED
            BY <3>2, <3>3
    <2>4. CASE MarkLock(p) \/ MarkGiveUp(p) \/ MarkSave(p) \/ MarkSaveFails(p)
        <3>1. PICK pc : /\ mark' = [mark EXCEPT ![p].pc = pc]
                        /\ pc = "outcome" => mark[p].verdict # "clear"
            BY <2>4 DEF MarkLock, MarkGiveUp, MarkSave, MarkSaveFails, MarkStep
        <3>2. PICK c : c = [mark[p] EXCEPT !.pc = pc]
            OBVIOUS
        <3>3. c.pc = pc /\ c.verdict = mark[p].verdict
            BY <2>1, <3>2 DEF Call
        <3> QED
            BY <3>1, <3>2, <3>3
    <2> QED
        BY <2>2, <2>3, <2>4
<1>3. \A q \in Processes : Told(q)'
    BY <1>2, ToldOfCall
<1> QED
    BY <1>1, <1>3, TallyOfRest DEF TallyInv, TallyTypes

LEMMA TallyOutcome ==
    ASSUME TallyInv, MarksOK, NEW p \in Processes, MarkOutcome(p) PROVE TallyInv'
<1>1. mark[p] \in Call /\ Told(p) /\ mark[p].pc = "outcome"
    BY DEF MarksOK, TallyInv, MarkOutcome
<1>2. mark[p].verdict \in Infos /\ Cardinality(mark[p].matches) \in Nat /\ "outcome" \in Kinds
    <2>1. mark[p].matches \subseteq Findings /\ IsFiniteSet(Findings)
        BY <1>1 DEF Call
    <2>2. mark[p].verdict \in {"debt", "false_positive"}
        BY <1>1 DEF Call, Verdicts, Told
    <2> QED
        BY <2>1, <2>2, FS_Subset, FS_CardinalityType DEF Infos, Kinds
<1>3. \A q \in Processes : Told(q)'
    BY ToldOfCall DEF MarkOutcome, IdleMark
<1>4. Push(p, "outcome", Cardinality(mark[p].matches), mark[p].verdict) /\ UNCHANGED Others
    BY DEF MarkOutcome
<1> QED
    BY <1>2, <1>3, <1>4, TallyPushes

LEMMA TallyNext == TallyInv /\ MarksOK /\ [Next]_vars => TallyInv'
<1> SUFFICES ASSUME TallyInv, MarksOK, [Next]_vars PROVE TallyInv'
    OBVIOUS
<1>1. CASE UNCHANGED vars
    <2>1. UNCHANGED <<pending, task, flushLock, totals, recorded, dropped, last>> /\ clock' = clock /\ mark' = mark
        BY <1>1 DEF vars, flushing, triaging, history, files
    <2> QED
        BY <2>1, TallyOfRest DEF TallyInv, TallyTypes, Told
<1>2. CASE Tick
    <2>1. UNCHANGED <<pending, task, flushLock, totals, recorded, dropped, last>> /\ mark' = mark
        BY <1>2 DEF Tick, flushing, triaging, history, files
    <2>2. clock' \in 0 .. MaxClock
        BY <1>2 DEF Tick, TallyInv, TallyTypes
    <2> QED
        BY <2>1, <2>2, TallyOfRest DEF TallyInv, Told
<1>3. ASSUME NEW p \in Processes, RecordScan(p) \/ RecordGateBlock(p) \/ RecordSearch(p)
      PROVE  TallyInv'
    BY <1>3, TallyRecords
<1>4. ASSUME NEW p \in Processes,
             \/ MarkRead(p) \/ MarkLock(p) \/ MarkGiveUp(p) \/ MarkLoad(p)
             \/ MarkSave(p) \/ MarkSaveFails(p)
      PROVE  TallyInv'
    BY <1>4, TallyMarks
<1>5. ASSUME NEW p \in Processes, MarkOutcome(p) PROVE TallyInv'
    BY <1>5, TallyOutcome
<1>6. ASSUME NEW p \in Processes, DrainPending(p) PROVE TallyInv'
    BY <1>6, TallyDrains
<1>7. ASSUME NEW p \in Processes, AcquireFlush(p) PROVE TallyInv'
    BY <1>7, TallyLocks
<1>8. ASSUME NEW p \in Processes, GiveUpFlush(p) \/ SaveFails(p) PROVE TallyInv'
    BY <1>8, TallyDrops
<1>9. ASSUME NEW p \in Processes, LoadTotals(p) PROVE TallyInv'
    BY <1>9, TallyLoads
<1>10. ASSUME NEW p \in Processes, AppendEvents(p) \/ AppendFails(p) PROVE TallyInv'
    BY <1>10, TallyAppends
<1>11. ASSUME NEW p \in Processes, SaveTotals(p) PROVE TallyInv'
    BY <1>11, TallySaves
<1>12. ASSUME NEW p \in Processes, CompactEvents(p) PROVE TallyInv'
    BY <1>12, TallyCompacts
<1>13. ASSUME NEW p \in Processes, Crash(p) PROVE TallyInv'
    BY <1>13, TallyCrashes
<1> QED
    BY <1>1, <1>2, <1>3, <1>4, <1>5, <1>6, <1>7, <1>8, <1>9, <1>10, <1>11, <1>12, <1>13 DEF Next

(* What the flushes of any number of processes add up to is what was       *)
(* recorded, less what a crash, a lock that was not got or a save that     *)
(* failed lost: totals.json is read, added to and replaced by the holder   *)
(* of flush.lock alone, and a batch is counted once (flush.rs, flush).     *)
THEOREM NoEventCountedTwice == Spec => []CountedOnce
<1>1. TallyInv => CountedOnce
    BY DEF TallyInv
<1>2. TriageInv => MarksOK
    BY DEF TriageInv
<1> QED
    BY <1>1, <1>2, TriageInit, TriageNext, TallyInit, TallyNext, PTL DEF Spec

(* The totals never show more than was recorded.                           *)
LEMMA NothingInvented ==
    ASSUME TallyInv, NEW s \in Sums
    PROVE  totals.sum[s] \in Nat /\ recorded.sum[s] \in Nat /\ totals.sum[s] <= recorded.sum[s]
<1>1. recorded.sum[s] = totals.sum[s] + Underway(s) + Total(dropped, s)
    BY DEF TallyInv, CountedOnce
<1>2. totals.sum[s] \in Nat /\ recorded.sum[s] \in Nat /\ Total(dropped, s) \in Nat
    BY TotalIsNat DEF TallyInv, TallyTypes, Tally
<1>3. Underway(s) \in Nat
    <2> DEFINE f == [q \in Processes |-> Carried(pending[q], task[q], s)]
    <2>1. f \in [Processes -> Nat] /\ IsFiniteSet(Processes)
        BY CarriedIsNat DEF TallyInv, TallyTypes
    <2>2. Underway(s) = SumFunction(f)
        BY DEF Underway, Carried
    <2> HIDE DEF f
    <2>3. PICK sum : AddsUp(sum, Processes, f) /\ SumFunction(f) = sum[Processes]
        BY <2>1, Summing
    <2> QED
        BY <2>2, <2>3 DEF AddsUp
<1> QED
    BY <1>1, <1>2, <1>3

(* A detector is called noisy only when that much was recorded about it    *)
(* and more than half of it was false, whatever was lost on the way: what  *)
(* a crash or a lock costs takes evidence away, and never adds any         *)
(* (report.rs, low_precision_detectors).                                   *)
THEOREM NoisyIsEarned == Spec => []NoisyNeedsEvidence
<1>1. TallyInv => NoisyNeedsEvidence
    <2> SUFFICES ASSUME TallyInv, LowPrecision(totals)
                 PROVE  /\ Adjudicated(recorded) >= MinAdjudicated
                        /\ 2 * recorded.sum["false_positive"] > MinAdjudicated
        BY DEF NoisyNeedsEvidence
    <2>1. "resolved" \in Sums /\ "debt" \in Sums /\ "false_positive" \in Sums
        BY DEF Sums
    <2>2. \A s \in {"resolved", "debt", "false_positive"} :
              totals.sum[s] \in Nat /\ recorded.sum[s] \in Nat /\ totals.sum[s] <= recorded.sum[s]
        BY <2>1, NothingInvented
    <2>3. MinAdjudicated \in Nat
        OBVIOUS
    <2> QED
        BY <2>2, <2>3 DEF LowPrecision, Adjudicated
<1>2. TriageInv => MarksOK
    BY DEF TriageInv
<1> QED
    BY <1>1, <1>2, TriageInit, TriageNext, TallyInit, TallyNext, PTL DEF Spec

-----------------------------------------------------------------------------
(* The log.  What the holder of the lock is about to count has been        *)
(* written, but for an append that failed or a torn line it was glued to;  *)
(* a crash tears one line at the most, and one event repairs it.           *)
LogTypes ==
    /\ log \in Seq(Event \cup {Garbage}) /\ tail \in BOOLEAN /\ counted \subseteq Event
    /\ IsFiniteSet(glued) /\ crashes \in Nat

GluedBound == Cardinality(glued) + (IF tail THEN 1 ELSE 0) <= crashes
Written(p) == task[p].pc = "save" => ToSet(task[p].batch) \subseteq ToSet(log) \cup glued \cup unlogged
Backed == \A e \in counted \ (glued \cup unlogged) : e.ts >= clock - Window => e \in ToSet(log)

LogInv == LogTypes /\ GluedBound /\ Backed /\ \A p \in Processes : Written(p)

LEMMA LogInit == Init => LogInv
<1> SUFFICES ASSUME Init PROVE LogInv
    OBVIOUS
<1>1. IsFiniteSet({}) /\ Cardinality({}) = 0 /\ <<>> \in Seq(Event \cup {Garbage})
    BY FS_EmptySet
<1>2. LogTypes /\ Backed
    BY <1>1 DEF Init, LogTypes, Backed
<1>3. GluedBound
    BY <1>1 DEF Init, GluedBound
<1>4. \A p \in Processes : Written(p)
    BY DEF Init, Written, IdleFlush
<1> QED
    BY <1>2, <1>3, <1>4 DEF LogInv

(* What the log implies of the events it has counted.                      *)
LEMMA LogBacks == LogInv => RecentIsLogged
<1> SUFFICES ASSUME LogInv PROVE RecentIsLogged
    OBVIOUS
<1>1. Cardinality(glued) <= crashes
    <2>1. Cardinality(glued) \in Nat /\ crashes \in Nat
        BY FS_CardinalityType DEF LogInv, LogTypes
    <2> QED
        BY <2>1 DEF LogInv, GluedBound
<1>2. ToSet(LoadEvents) = ToSet(log) \cap Event
    BY ThoseKept DEF LogInv, LogTypes, LoadEvents
<1> QED
    BY <1>1, <1>2 DEF RecentIsLogged, LogInv, LogTypes, Backed

(* A step that removes no line and counts nothing.                         *)
LEMMA LogGrows ==
    ASSUME LogInv, TallyInv, clock' \in Nat, clock <= clock',
           log' \in Seq(Event \cup {Garbage}), ToSet(log) \subseteq ToSet(log'), tail' \in BOOLEAN,
           counted' = counted, glued \subseteq glued', unlogged \subseteq unlogged', IsFiniteSet(glued'),
           crashes' \in Nat, GluedBound', \A p \in Processes : Written(p)'
    PROVE  LogInv'
<1>1. LogTypes'
    BY DEF LogInv, LogTypes
<1>2. ASSUME NEW e \in counted' \ (glued' \cup unlogged'), e.ts >= clock' - Window PROVE e \in ToSet(log')
    <2>1. e \in counted \ (glued \cup unlogged) /\ e.ts \in 0 .. MaxClock /\ clock \in 0 .. MaxClock
        BY DEF LogInv, LogTypes, Event, TallyInv, TallyTypes
    <2>2. Window \in Nat
        OBVIOUS
    <2>3. e.ts >= clock - Window
        BY <1>2, <2>1, <2>2
    <2> QED
        BY <2>1, <2>3 DEF LogInv, Backed
<1> QED
    BY <1>1, <1>2 DEF LogInv, Backed

(* The lines of a batch.                                                   *)
LEMMA SetOfBoth ==
    ASSUME NEW L, NEW a \in Seq(L), NEW b \in Seq(L)
    PROVE  a \o b \in Seq(L) /\ ToSet(a \o b) = ToSet(a) \cup ToSet(b)
<1>1. \A s : ToSet(s) = Range(s)
    BY DEF ToSet, Range
<1>2. a \o b \in Seq(L)
    BY ConcatProperties
<1>3. Range(a \o b) = Range(a) \cup Range(b)
    BY RangeConcatenation
<1> QED
    BY <1>1, <1>2, <1>3

LEMMA LinesWritten ==
    ASSUME LogTypes, NEW batch \in Seq(Event), tail => batch # <<>>
    PROVE  /\ Lines(batch) \in Seq(Event \cup {Garbage})
           /\ ToSet(log) \subseteq ToSet(Lines(batch))
           /\ ToSet(batch) \subseteq ToSet(Lines(batch)) \cup (IF tail THEN {Head(batch)} ELSE {})
<1> DEFINE L == Event \cup {Garbage}
<1>1. log \in Seq(L) /\ batch \in Seq(L)
    BY DEF LogTypes
<1> HIDE DEF L
<1>2. CASE tail
    <2>1. PICK first, rest : first = Head(batch) /\ rest = Tail(batch)
        OBVIOUS
    <2>2. first \in L /\ rest \in Seq(L) /\ batch = <<first>> \o rest /\ <<first>> \in Seq(L)
        BY <1>1, <1>2, <2>1, HeadTailProperties
    <2>3. Lines(batch) = log \o rest
        BY <1>2, <2>1 DEF Lines
    <2>4. log \o rest \in Seq(L) /\ ToSet(log \o rest) = ToSet(log) \cup ToSet(rest)
        BY <1>1, <2>2, SetOfBoth
    <2>5. PICK one : one = <<first>>
        OBVIOUS
    <2>6. ToSet(one) = {first} /\ one \in Seq(L)
        BY <2>2, <2>5 DEF ToSet
    <2>7. ToSet(one \o rest) = ToSet(one) \cup ToSet(rest)
        BY <2>2, <2>6, SetOfBoth
    <2> QED
        BY <1>2, <2>1, <2>2, <2>3, <2>4, <2>5, <2>6, <2>7 DEF L
<1>3. CASE ~ tail
    <2>1. Lines(batch) = log \o batch
        BY <1>3 DEF Lines
    <2> QED
        BY <1>1, <1>3, <2>1, SetOfBoth DEF L
<1> QED
    BY <1>2, <1>3

(* Steps that leave the log and what it owes alone.                        *)
LEMMA LogOfRest ==
    ASSUME LogInv, TallyInv, clock' \in Nat, clock <= clock',
           UNCHANGED <<log, tail, counted, glued, unlogged, crashes>>,
           \A p \in Processes : task'[p].pc = "save" => task'[p] = task[p]
    PROVE  LogInv'
<1>1. /\ log' \in Seq(Event \cup {Garbage}) /\ tail' \in BOOLEAN /\ IsFiniteSet(glued')
      /\ crashes' \in Nat /\ GluedBound'
    BY DEF LogInv, LogTypes, GluedBound
<1>2. \A p \in Processes : Written(p)'
    BY DEF LogInv, Written
<1> QED
    BY <1>1, <1>2, LogGrows

(* Appending writes the batch; the event glued to a torn line repairs it.  *)
LEMMA LogAppends ==
    ASSUME LogInv, TallyInv, NEW p \in Processes, AppendEvents(p) PROVE LogInv'
<1>1. /\ task[p].pc = "append" /\ log' = Lines(task[p].batch) /\ tail' = FALSE
      /\ glued' = IF tail THEN glued \cup {Head(task[p].batch)} ELSE glued
      /\ task' = [task EXCEPT ![p].pc = "save"]
      /\ clock' = clock /\ crashes' = crashes /\ UNCHANGED <<counted, unlogged>>
    BY DEF AppendEvents, Goto, FlushFrame
<1>2. /\ task[p].batch \in Seq(Event) /\ task[p].batch # <<>> /\ task \in [Processes -> Task] /\ clock \in Nat
      /\ flushLock = p
    BY <1>1 DEF TallyInv, TallyTypes, Task, BatchHeld, HoldsFlush
<1>3. LogTypes /\ GluedBound
    BY DEF LogInv
<1>4. /\ log' \in Seq(Event \cup {Garbage}) /\ ToSet(log) \subseteq ToSet(log')
      /\ ToSet(task[p].batch) \subseteq ToSet(log') \cup (IF tail THEN {Head(task[p].batch)} ELSE {})
    BY <1>1, <1>2, <1>3, LinesWritten
<1>5. IsFiniteSet(glued') /\ GluedBound'
    <2>1. Cardinality(glued) \in Nat /\ IsFiniteSet(glued) /\ crashes \in Nat
        BY <1>3, FS_CardinalityType DEF LogTypes
    <2>2. CASE tail
        <3>1. PICK first : glued' = glued \cup {first}
            BY <1>1, <2>2
        <3>2. IsFiniteSet(glued') /\ Cardinality(glued') \in {Cardinality(glued), Cardinality(glued) + 1}
            BY <2>1, <3>1, FS_AddElement
        <3> QED
            BY <1>1, <1>3, <2>1, <2>2, <3>2 DEF GluedBound
    <2>3. CASE ~ tail
        BY <1>1, <1>3, <2>1, <2>3 DEF GluedBound
    <2> QED
        BY <2>2, <2>3
<1>6. ASSUME NEW q \in Processes, task'[q].pc = "save"
      PROVE  ToSet(task'[q].batch) \subseteq ToSet(log') \cup glued' \cup unlogged'
    <2>1. CASE q = p
        <3>1. task'[q].batch = task[p].batch
            BY <1>1, <1>2, <2>1 DEF Task
        <3> QED
            BY <1>1, <1>4, <3>1
    <2>2. CASE q # p
        <3>1. task'[q] = task[q]
            BY <1>1, <1>2, <2>2
        <3> QED
            BY <1>2, <1>6, <2>2, <3>1 DEF TallyInv, HoldsFlush
    <2> QED
        BY <2>1, <2>2
<1>7. \A q \in Processes : Written(q)'
    BY <1>6 DEF Written
<1>8. tail' \in BOOLEAN /\ crashes' \in Nat /\ clock' \in Nat /\ clock <= clock'
    <2>1. crashes \in Nat /\ clock \in Nat
        BY <1>2, <1>3 DEF LogTypes
    <2>2. tail' = FALSE /\ crashes' = crashes
        BY <1>1
    <2>3. clock' = clock
        BY <1>1
    <2>4. clock <= clock'
        BY <2>1, <2>3
    <2> QED
        BY <2>1, <2>2, <2>3, <2>4
<1>9. glued \subseteq glued'
    <2>1. PICK first : glued' = IF tail THEN glued \cup {first} ELSE glued
        BY <1>1
    <2> QED
        BY <2>1
<1> QED
    BY <1>1, <1>4, <1>5, <1>7, <1>8, <1>9, LogGrows

(* A batch that could not be appended is known not to be in the log.       *)
LEMMA LogMisses ==
    ASSUME LogInv, TallyInv, NEW p \in Processes, AppendFails(p) PROVE LogInv'
<1>1. /\ task[p].pc = "append" /\ unlogged' = unlogged \cup ToSet(task[p].batch)
      /\ task' = [task EXCEPT ![p].pc = "save"]
      /\ clock' = clock /\ UNCHANGED <<log, tail, counted, glued, crashes>>
    BY DEF AppendFails, Goto, FlushFrame, files
<1>2. task \in [Processes -> Task] /\ clock' \in Nat /\ clock <= clock'
    BY <1>1 DEF TallyInv, TallyTypes
<1>3. ASSUME NEW q \in Processes, task'[q].pc = "save"
      PROVE  ToSet(task'[q].batch) \subseteq ToSet(log') \cup glued' \cup unlogged'
    <2>1. CASE q = p
        <3>1. task'[q].batch = task[p].batch
            BY <1>1, <1>2, <2>1 DEF Task
        <3> QED
            BY <1>1, <3>1
    <2>2. CASE q # p
        <3>1. task'[q] = task[q]
            BY <1>1, <1>2, <2>2
        <3> QED
            BY <1>1, <1>3, <3>1 DEF LogInv, Written
    <2> QED
        BY <2>1, <2>2
<1>4. /\ log' \in Seq(Event \cup {Garbage}) /\ tail' \in BOOLEAN /\ IsFiniteSet(glued')
      /\ crashes' \in Nat /\ GluedBound' /\ ToSet(log) \subseteq ToSet(log')
      /\ glued \subseteq glued' /\ unlogged \subseteq unlogged'
    BY <1>1 DEF LogInv, LogTypes, GluedBound
<1>5. \A q \in Processes : Written(q)'
    BY <1>3 DEF Written
<1> QED
    BY <1>1, <1>2, <1>4, <1>5, LogGrows

(* Counting the batch: it has been written.                                *)
LEMMA LogCounts ==
    ASSUME LogInv, TallyInv, NEW p \in Processes, SaveTotals(p) PROVE LogInv'
<1>1. /\ task[p].pc = "save" /\ counted' = counted \cup ToSet(task[p].batch)
      /\ task' = [task EXCEPT ![p] = [IdleFlush EXCEPT !.pc = "compact"]]
      /\ clock' = clock /\ UNCHANGED <<log, tail, glued, unlogged, crashes>>
    BY DEF SaveTotals, FlushFrame
<1>2. /\ task[p].batch \in Seq(Event) /\ task \in [Processes -> Task]
      /\ ToSet(task[p].batch) \subseteq ToSet(log) \cup glued \cup unlogged
    BY <1>1 DEF TallyInv, TallyTypes, Task, LogInv, Written
<1>3. ToSet(task[p].batch) \subseteq Event
    BY <1>2 DEF ToSet
<1>4. LogTypes' /\ GluedBound'
    BY <1>1, <1>3 DEF LogInv, LogTypes, GluedBound
<1>5. Backed'
    BY <1>1, <1>2 DEF LogInv, Backed
<1>6. ASSUME NEW q \in Processes PROVE Written(q)'
    <2>1. CASE q = p
        <3>1. task'[q].pc = "compact"
            BY <1>1, <1>2, <2>1 DEF IdleFlush
        <3> QED
            BY <3>1 DEF Written
    <2>2. CASE q # p
        <3>1. task'[q] = task[q]
            BY <1>1, <1>2, <2>2
        <3> QED
            BY <1>1, <3>1 DEF LogInv, Written
    <2> QED
        BY <2>1, <2>2
<1> QED
    BY <1>4, <1>5, <1>6 DEF LogInv

(* Compaction drops what no report of the window asks for.                 *)
LEMMA LogCompacts ==
    ASSUME LogInv, TallyInv, NEW p \in Processes, CompactEvents(p) PROVE LogInv'
<1>1. /\ task[p].pc = "compact" /\ task' = [task EXCEPT ![p].pc = "idle"]
      /\ clock' = clock /\ UNCHANGED <<counted, glued, unlogged, crashes>>
      /\ \/ log' = KeptEvents /\ tail' = FALSE
         \/ log' = log /\ tail' = tail
    BY DEF CompactEvents, Goto, FlushFrame
<1>2. task \in [Processes -> Task] /\ clock \in 0 .. MaxClock /\ flushLock = p
    BY <1>1 DEF TallyInv, TallyTypes, HoldsFlush
<1>3. ASSUME NEW q \in Processes PROVE task'[q].pc # "save"
    <2>1. CASE q = p
        BY <1>1, <1>2, <2>1 DEF Task
    <2>2. CASE q # p
        BY <1>1, <1>2, <2>2 DEF TallyInv, HoldsFlush
    <2> QED
        BY <2>1, <2>2
<1>4. \A q \in Processes : Written(q)'
    BY <1>3 DEF Written
<1>5. CASE log' = log /\ tail' = tail
    BY <1>1, <1>2, <1>3, <1>5, LogOfRest
<1>6. CASE log' = KeptEvents /\ tail' = FALSE
    <2> DEFINE recent == {e \in Event : e.ts >= clock - Kept}
    <2>1. LoadEvents \in Seq(Event) /\ ToSet(LoadEvents) = ToSet(log) \cap Event
        BY ThoseKept DEF LogInv, LogTypes, LoadEvents
    <2>2. log' \in Seq(recent) /\ ToSet(log') = ToSet(LoadEvents) \cap recent
        BY <1>6, <2>1, ThoseKept DEF KeptEvents
    <2>3. log' \in Seq(Event \cup {Garbage})
        <3>1. recent \subseteq Event \cup {Garbage}
            OBVIOUS
        <3> QED
            BY <2>2, <3>1, SeqMonotonic
    <2>4. LogTypes'
        BY <1>1, <1>6, <2>3 DEF LogInv, LogTypes
    <2>5. GluedBound'
        <3>1. Cardinality(glued) \in Nat /\ crashes \in Nat
            BY FS_CardinalityType DEF LogInv, LogTypes
        <3> QED
            BY <1>1, <1>6, <3>1 DEF LogInv, GluedBound
    <2>6. ASSUME NEW e \in counted' \ (glued' \cup unlogged'), e.ts >= clock' - Window PROVE e \in ToSet(log')
        <3>1. e \in Event /\ e \in ToSet(log)
            BY <1>1, <2>6 DEF LogInv, LogTypes, Backed
        <3>2. e.ts \in Nat /\ Window \in Nat /\ Kept \in Nat /\ Window <= Kept
            BY <3>1 DEF Event
        <3>3. e.ts >= clock - Kept
            BY <1>1, <1>2, <2>6, <3>2
        <3> QED
            BY <2>1, <2>2, <3>1, <3>3
    <2>7. Backed'
        BY <2>6 DEF Backed
    <2> QED
        BY <1>4, <2>4, <2>5, <2>7 DEF LogInv
<1> QED
    BY <1>1, <1>5, <1>6

(* A crash in the middle of an append leaves the lines before it, and the  *)
(* last one torn.                                                          *)
LEMMA LogCrashes ==
    ASSUME LogInv, TallyInv, NEW p \in Processes, Crash(p) PROVE LogInv'
<1>1. /\ task' = [task EXCEPT ![p] = IdleFlush] /\ crashes' = crashes + 1
      /\ clock' = clock /\ UNCHANGED <<counted, glued, unlogged>>
    BY DEF Crash
<1>2. task \in [Processes -> Task] /\ clock \in Nat /\ task[p].batch \in Seq(Event)
    BY DEF TallyInv, TallyTypes, Task
<1>3. /\ LogTypes /\ GluedBound /\ crashes \in Nat /\ Cardinality(glued) \in Nat
      /\ log \in Seq(Event \cup {Garbage})
    BY FS_CardinalityType DEF LogInv, LogTypes
<1>4. /\ log' \in Seq(Event \cup {Garbage}) /\ ToSet(log) \subseteq ToSet(log') /\ tail' \in BOOLEAN
    <2>1. CASE UNCHANGED <<log, tail>>
        BY <1>3, <2>1 DEF LogTypes
    <2>2. ASSUME NEW k \in 0 .. Len(task[p].batch) - 1, tail' = TRUE,
                 log' = IF tail /\ k = 0 THEN log
                        ELSE Append(Lines(SubSeq(task[p].batch, 1, k)), Garbage)
          PROVE  log' \in Seq(Event \cup {Garbage}) /\ ToSet(log) \subseteq ToSet(log')
        <3>1. CASE tail /\ k = 0
            BY <1>3, <2>2, <3>1
        <3>2. CASE ~ (tail /\ k = 0)
            <4>1. PICK part : part = SubSeq(task[p].batch, 1, k)
                OBVIOUS
            <4>2. part \in Seq(Event) /\ (tail => part # <<>>)
                <5>1. \A i \in 1 .. k : task[p].batch[i] \in Event
                    BY <1>2, <2>2
                <5>2. part \in Seq(Event) /\ Len(part) = IF 1 <= k THEN k ELSE 0
                    BY <2>2, <4>1, <5>1, SubSeqProperties
                <5>3. k # 0 => Len(part) # 0
                    BY <2>2, <5>2
                <5> QED
                    BY <3>2, <5>2, <5>3
            <4>3. PICK lines : lines = Lines(part)
                OBVIOUS
            <4>4. lines \in Seq(Event \cup {Garbage}) /\ ToSet(log) \subseteq ToSet(lines)
                BY <1>3, <4>2, <4>3, LinesWritten
            <4>5. log' = Append(lines, Garbage)
                BY <2>2, <3>2, <4>1, <4>3
            <4>6. log' \in Seq(Event \cup {Garbage}) /\ ToSet(lines) \subseteq ToSet(log')
                BY <4>4, <4>5, AppendProperties DEF ToSet
            <4> QED
                BY <4>4, <4>6
        <3> QED
            BY <3>1, <3>2
    <2>3. \/ UNCHANGED <<log, tail>>
          \/ /\ tail' = TRUE
             /\ \E k \in 0 .. Len(task[p].batch) - 1 :
                    log' = IF tail /\ k = 0 THEN log
                           ELSE Append(Lines(SubSeq(task[p].batch, 1, k)), Garbage)
        BY DEF Crash
    <2> QED
        BY <2>1, <2>2, <2>3
<1>5. GluedBound' /\ crashes' \in Nat
    <2>1. Cardinality(glued) <= crashes
        BY <1>3 DEF GluedBound
    <2>2. (IF tail' THEN 1 ELSE 0) \in {0, 1}
        OBVIOUS
    <2> QED
        BY <1>1, <1>3, <2>1, <2>2 DEF GluedBound
<1>6. ASSUME NEW q \in Processes PROVE Written(q)'
    <2>1. CASE q = p
        <3>1. task'[q].pc = "idle"
            BY <1>1, <1>2, <2>1 DEF IdleFlush
        <3> QED
            BY <3>1 DEF Written
    <2>2. CASE q # p
        <3>1. task'[q] = task[q]
            BY <1>1, <1>2, <2>2
        <3> QED
            BY <1>1, <1>4, <3>1 DEF LogInv, Written
    <2> QED
        BY <2>1, <2>2
<1>7. clock' \in Nat /\ clock <= clock' /\ IsFiniteSet(glued')
    BY <1>1, <1>2, <1>3 DEF LogTypes
<1> QED
    BY <1>1, <1>4, <1>5, <1>6, <1>7, LogGrows

LEMMA LogNext == LogInv /\ TallyInv /\ [Next]_vars => LogInv'
<1> SUFFICES ASSUME LogInv, TallyInv, [Next]_vars PROVE LogInv'
    OBVIOUS
<1>1. clock \in 0 .. MaxClock /\ clock <= clock /\ clock \in Nat /\ task \in [Processes -> Task]
    BY DEF TallyInv, TallyTypes
<1>2. ASSUME clock' = clock, task' = task, UNCHANGED <<log, tail, counted, glued, unlogged, crashes>>
      PROVE  LogInv'
    BY <1>1, <1>2, LogOfRest
<1>3. CASE UNCHANGED vars
    BY <1>2, <1>3 DEF vars, flushing, history, files
<1>4. CASE Tick
    <2>1. clock' = clock + 1 /\ UNCHANGED <<task, log, tail, counted, glued, unlogged, crashes>>
        BY <1>4 DEF Tick, flushing, history, files
    <2>2. clock' \in Nat /\ clock <= clock'
        BY <1>1, <2>1
    <2> QED
        BY <2>1, <2>2, LogOfRest
<1>5. ASSUME NEW p \in Processes, RecordScan(p) \/ RecordGateBlock(p) \/ RecordSearch(p) \/ MarkOutcome(p)
      PROVE  LogInv'
    BY <1>2, <1>5 DEF RecordScan, RecordGateBlock, RecordSearch, MarkOutcome, Push, Others, files
<1>6. ASSUME NEW p \in Processes,
             \/ MarkRead(p) \/ MarkLock(p) \/ MarkGiveUp(p) \/ MarkLoad(p)
             \/ MarkSave(p) \/ MarkSaveFails(p)
      PROVE  LogInv'
    BY <1>2, <1>6 DEF MarkRead, MarkLock, MarkGiveUp, MarkLoad, MarkSave, MarkSaveFails, MarkStep,
                      flushing, files, history
<1>7. ASSUME NEW p \in Processes,
             \/ DrainPending(p) \/ AcquireFlush(p) \/ GiveUpFlush(p) \/ LoadTotals(p) \/ SaveFails(p)
      PROVE  LogInv'
    <2>1. clock' = clock /\ UNCHANGED <<log, tail, counted, glued, unlogged, crashes>>
        BY <1>7 DEF DrainPending, AcquireFlush, GiveUpFlush, LoadTotals, SaveFails, FlushFrame, files
    <2>2. PICK t : task' = [task EXCEPT ![p] = t] /\ t.pc # "save"
        <3>1. task[p] \in Task
            BY <1>1
        <3>2. CASE DrainPending(p)
            <4>1. PICK t : t = [IdleFlush EXCEPT !.pc = "lock", !.batch = pending[p]]
                OBVIOUS
            <4>2. t.pc = "lock"
                BY <4>1 DEF IdleFlush
            <4>3. task' = [task EXCEPT ![p] = t]
                BY <3>2, <4>1 DEF DrainPending
            <4> QED
                BY <4>2, <4>3
        <3>3. CASE AcquireFlush(p)
            <4>1. PICK t : t = [task[p] EXCEPT !.pc = "load"]
                OBVIOUS
            <4>2. t.pc = "load"
                BY <3>1, <4>1 DEF Task
            <4>3. task' = [task EXCEPT ![p] = t]
                BY <3>3, <4>1 DEF AcquireFlush, Goto
            <4> QED
                BY <4>2, <4>3
        <3>4. CASE GiveUpFlush(p)
            <4>1. PICK t : t = IdleFlush
                OBVIOUS
            <4>2. t.pc = "idle"
                BY <4>1 DEF IdleFlush
            <4>3. task' = [task EXCEPT ![p] = t]
                BY <3>4, <4>1 DEF GiveUpFlush
            <4> QED
                BY <4>2, <4>3
        <3>5. CASE LoadTotals(p)
            <4>1. PICK t : t = [task[p] EXCEPT !.pc = "append", !.loaded = AbsorbAll(totals, task[p].batch)]
                OBVIOUS
            <4>2. t.pc = "append"
                BY <3>1, <4>1 DEF Task
            <4>3. task' = [task EXCEPT ![p] = t]
                BY <3>5, <4>1 DEF LoadTotals
            <4> QED
                BY <4>2, <4>3
        <3>6. CASE SaveFails(p)
            <4>1. PICK t : t = [IdleFlush EXCEPT !.pc = "compact"]
                OBVIOUS
            <4>2. t.pc = "compact"
                BY <4>1 DEF IdleFlush
            <4>3. task' = [task EXCEPT ![p] = t]
                BY <3>6, <4>1 DEF SaveFails
            <4> QED
                BY <4>2, <4>3
        <3> QED
            BY <1>7, <3>2, <3>3, <3>4, <3>5, <3>6
    <2>3. \A q \in Processes : task'[q].pc = "save" => task'[q] = task[q]
        BY <1>1, <2>2
    <2> QED
        BY <1>1, <2>1, <2>3, LogOfRest
<1>8. ASSUME NEW p \in Processes, AppendEvents(p) PROVE LogInv'
    BY <1>8, LogAppends
<1>9. ASSUME NEW p \in Processes, AppendFails(p) PROVE LogInv'
    BY <1>9, LogMisses
<1>10. ASSUME NEW p \in Processes, SaveTotals(p) PROVE LogInv'
    BY <1>10, LogCounts
<1>11. ASSUME NEW p \in Processes, CompactEvents(p) PROVE LogInv'
    BY <1>11, LogCompacts
<1>12. ASSUME NEW p \in Processes, Crash(p) PROVE LogInv'
    BY <1>12, LogCrashes
<1> QED
    BY <1>3, <1>4, <1>5, <1>6, <1>7, <1>8, <1>9, <1>10, <1>11, <1>12 DEF Next

(* Every event that the totals count and a report's window reaches can be  *)
(* read from the log, but for those whose append failed and at most one    *)
(* for every crash: the batch is appended before it is counted, a torn     *)
(* line costs the one event glued to it, and compaction keeps more than a  *)
(* report reads (store.rs, append_events and compact_events).              *)
THEOREM LogBacksTotals == Spec => []RecentIsLogged
<1>1. TriageInv => MarksOK
    BY DEF TriageInv
<1> QED
    BY <1>1, LogBacks, TriageInit, TriageNext, TallyInit, TallyNext, LogInit, LogNext, PTL DEF Spec

=============================================================================
