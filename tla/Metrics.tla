------------------------------ MODULE Metrics ------------------------------
(***************************************************************************)
(* The usage metrics of one repository.  Every sensez process queues the   *)
(* events it records in memory and flushes them now and then, under        *)
(* flush.lock, into two files all processes share: totals.json, running    *)
(* aggregates, and events.jsonl, an append-only log that is compacted when *)
(* it grows.  Human verdicts go to triage.json, under triage.lock.         *)
(*                                                                         *)
(* Totals are kept per detector; the model follows one detector.           *)
(***************************************************************************)
EXTENDS Lists, FiniteSets

CONSTANTS
    Processes,       \* sensez processes serving the repository
    Findings,        \* fingerprints of the detector followed
    Hashes,          \* hashes of the effective configurations in use
    NoHash,          \* the configuration could not be loaded
    Nobody,          \* nobody holds the lock
    Garbage,         \* a line of the log that does not parse
    Kept,            \* EVENTS_RETENTION_SECS, in units of the clock
    Window,          \* RECENT_WINDOW_SECS
    MaxLog,          \* EVENTS_MAX_BYTES, in lines
    MinAdjudicated,  \* MIN_ADJUDICATED
    Given,           \* verdicts the user may give, or clear
    MaxEvents,       \* bound: events recorded
    MaxMarks,        \* bound: brainz_triage calls
    MaxClock,        \* bound: the clock
    MaxFaults        \* bound: crashes and failed writes

ASSUME MetricsAssumption ==
    /\ Window \in Nat /\ Kept \in Nat /\ Window <= Kept
    /\ MaxLog \in Nat /\ MinAdjudicated \in Nat \ {0}
    /\ Given \subseteq {"clear", "debt", "false_positive"}
    /\ NoHash \notin Hashes /\ Nobody \notin Processes
    /\ IsFiniteSet(Processes) /\ IsFiniteSet(Findings)
    /\ MaxEvents \in Nat /\ MaxMarks \in Nat /\ MaxClock \in Nat \ {0} /\ MaxFaults \in Nat

VARIABLES
    clock,      \* the time
    session,    \* the totals of each process since it started
    pending,    \* the events each process has queued
    task,       \* the flush each process is in
    flushLock,  \* the holder of flush.lock
    totals,     \* totals.json
    log,        \* the lines of events.jsonl
    tail,       \* does its last line lack the newline?
    prints,     \* findings of the branch's baseline
    verdicts,   \* triage.json: the verdict on each finding, or "clear"
    mark,       \* the brainz_triage call of each process
    triageLock, \* the holder of triage.lock
    marks,      \* how many such calls were made
    last,       \* history: how many events were recorded
    recorded,   \* history: the totals of everything recorded by anyone
    dropped,    \* history: events lost to a crash, a lock or a failed save
    counted,    \* history: the events saved in totals.json
    unlogged,   \* history: the events whose append failed
    glued,      \* history: the events written to a torn line
    marked,     \* history: the verdict the last call that succeeded gave
    crashes,    \* how many processes crashed
    faults      \* crashes and failed writes

files == <<totals, log, tail>>
flushing == <<session, pending, task, flushLock, files>>
triaging == <<prints, verdicts, mark, marks, triageLock>>
history == <<last, recorded, dropped, counted, unlogged, glued, marked, crashes, faults>>
vars == <<clock, flushing, triaging, history>>

Kinds == {"scan", "search", "auto_resolve", "gate_block", "outcome"}
Infos == Hashes \cup {NoHash, "first", "again", "debt", "false_positive"}
Event == [id : 1 .. MaxEvents, ts : 0 .. MaxClock, kind : Kinds, n : Nat, info : Infos]
Sums == {"scans", "searches", "first_searches", "searches_zero_hit", "gate_blocks", "resolved",
         "debt", "false_positive"}

NoTotals == [sum |-> [s \in Sums |-> 0], changes |-> 0, hash |-> NoHash]

(* What an event adds to each of the sums.                                 *)
Adds(e) ==
    [s \in Sums |->
        CASE s = "scans" -> IF e.kind = "scan" THEN 1 ELSE 0
          [] s = "searches" -> IF e.kind = "search" THEN 1 ELSE 0
          [] s = "first_searches" -> IF e.kind = "search" /\ e.info = "first" THEN 1 ELSE 0
          [] s = "searches_zero_hit" -> IF e.kind = "search" /\ e.n = 0 THEN 1 ELSE 0
          [] s = "gate_blocks" -> IF e.kind = "gate_block" THEN 1 ELSE 0
          [] s = "resolved" -> IF e.kind \in {"scan", "auto_resolve"} THEN e.n ELSE 0
          [] OTHER -> IF e.kind = "outcome" /\ e.info = s THEN e.n ELSE 0]

(* `Totals::absorb`.  A configuration change is counted when two scans in a *)
(* row have a hash, and different ones.                                    *)
Absorb(T, e) ==
    LET hashed == e.kind = "scan" /\ e.info # NoHash IN
    [sum |-> [s \in Sums |-> T.sum[s] + Adds(e)[s]],
     changes |-> T.changes + (IF hashed /\ T.hash \notin {NoHash, e.info} THEN 1 ELSE 0),
     hash |-> IF hashed THEN e.info ELSE T.hash]

AbsorbAll(T, batch) == FoldLeft(Absorb, T, batch)

(* `low_precision_detectors`: is the detector noisy?  Real findings are    *)
(* those that were fixed and those the user called debt.                   *)
Adjudicated(T) == T.sum["resolved"] + T.sum["debt"] + T.sum["false_positive"]

\* Variant: the evidence is not weighed.
LowPrecisionAnyEvidence(T) == 2 * (T.sum["resolved"] + T.sum["debt"]) < Adjudicated(T)

LowPrecision(T) ==
    /\ Adjudicated(T) >= MinAdjudicated
    /\ 2 * (T.sum["resolved"] + T.sum["debt"]) < Adjudicated(T)

Clear == [f \in Findings |-> "clear"]
IdleFlush == [pc |-> "idle", batch |-> <<>>, loaded |-> NoTotals]
IdleMark == [pc |-> "idle", matches |-> {}, verdict |-> "clear", loaded |-> Clear]

TypeOK ==
    /\ clock \in 0 .. MaxClock
    /\ \A p \in Processes :
        /\ pending[p] \in Seq(Event) /\ task[p].batch \in Seq(Event)
        /\ session[p].sum \in [Sums -> Nat] /\ task[p].loaded.sum \in [Sums -> Nat]
        /\ task[p].pc \in {"idle", "lock", "load", "append", "save", "compact"}
        /\ mark[p].pc \in {"idle", "lock", "load", "save", "outcome"}
        /\ mark[p].matches \subseteq Findings
    /\ totals.sum \in [Sums -> Nat] /\ totals.changes \in Nat
    /\ \A i \in DOMAIN log : log[i] \in Event \cup {Garbage}
    /\ tail => log # <<>> /\ Last(log) = Garbage
    /\ flushLock \in Processes \cup {Nobody} /\ triageLock \in Processes \cup {Nobody}
    /\ prints \subseteq Findings
    /\ verdicts \in [Findings -> {"clear", "debt", "false_positive"}]
    /\ counted \subseteq Event /\ last \in 0 .. MaxEvents

(* The counters of events and triage calls only bound what is to come.     *)
Init ==
    /\ clock = 0 /\ last \in 0 .. MaxEvents /\ recorded = NoTotals /\ totals = NoTotals
    /\ session = [p \in Processes |-> NoTotals] /\ pending = [p \in Processes |-> <<>>]
    /\ task = [p \in Processes |-> IdleFlush] /\ flushLock = Nobody
    /\ log = <<>> /\ tail = FALSE
    /\ prints = Findings /\ verdicts = Clear /\ triageLock = Nobody /\ marks \in 0 .. MaxMarks
    /\ mark = [p \in Processes |-> IdleMark]
    /\ dropped = <<>> /\ counted = {} /\ unlogged = {} /\ glued = {} /\ marked = Clear
    /\ crashes = 0 /\ faults = 0

-----------------------------------------------------------------------------
(* Recording: `hub::push` adds the event to the session and the queue.     *)

Push(p, kind, n, info) ==
    LET e == [id |-> last + 1, ts |-> clock, kind |-> kind, n |-> n, info |-> info] IN
    /\ last < MaxEvents /\ last' = last + 1
    /\ session' = [session EXCEPT ![p] = Absorb(@, e)]
    /\ pending' = [pending EXCEPT ![p] = Append(@, e)]
    /\ recorded' = Absorb(recorded, e)
    /\ UNCHANGED <<dropped, counted, unlogged, glued, crashes, faults>>

Others == <<clock, task, flushLock, files>>

(* A scan replaces the baseline; what is gone and has no verdict counts as *)
(* resolved.  A recapture does the same, and tells when something is.      *)
RecordScan(p) == \E found \in SUBSET Findings :
    LET resolved == Cardinality({f \in prints \ found : verdicts[f] = "clear"}) IN
    /\ \/ \E hash \in Hashes \cup {NoHash} : Push(p, "scan", resolved, hash)
       \/ resolved > 0 /\ Push(p, "auto_resolve", resolved, NoHash)
    /\ prints' = found
    /\ UNCHANGED <<Others, verdicts, mark, marks, triageLock, marked>>

RecordGateBlock(p) ==
    /\ Push(p, "gate_block", 0, NoHash)
    /\ UNCHANGED <<Others, triaging, marked>>

(* A search is the first when neither the files nor the session know one.  *)
(* Looking and recording are one step: nothing below is about the moment   *)
(* between them.                                                           *)
RecordSearch(p) ==
    LET first == totals.sum["searches"] = 0 /\ session[p].sum["searches"] = 0 IN
    /\ \E hits \in {0, 1} : Push(p, "search", hits, IF first THEN "first" ELSE "again")
    /\ UNCHANGED <<Others, triaging, marked>>

-----------------------------------------------------------------------------
(* `brainz_triage`: the findings are matched before the lock is taken.     *)

MarkStep(p, pc, next) ==
    /\ mark[p].pc = pc
    /\ mark' = [mark EXCEPT ![p].pc = next]
    /\ UNCHANGED <<clock, flushing, prints, marks, last, recorded, dropped, counted, unlogged, glued, crashes>>

MarkRead(p) == \E matches \in (SUBSET prints) \ {{}}, verdict \in Given :
    /\ mark[p].pc = "idle" /\ marks < MaxMarks /\ marks' = marks + 1
    /\ mark' = [mark EXCEPT ![p] = [IdleMark EXCEPT !.pc = "lock", !.matches = matches, !.verdict = verdict]]
    /\ UNCHANGED <<clock, flushing, prints, verdicts, triageLock, history>>

\* Variant: triage.lock is not taken.
MarkNoLock(p) ==
    /\ MarkStep(p, "lock", "load")
    /\ UNCHANGED <<triageLock, verdicts, marked, faults>>

MarkLock(p) ==
    /\ MarkStep(p, "lock", "load")
    /\ triageLock = Nobody /\ triageLock' = p
    /\ UNCHANGED <<verdicts, marked, faults>>

MarkGiveUp(p) ==
    /\ MarkStep(p, "lock", "idle")
    /\ triageLock \notin {Nobody, p}
    /\ UNCHANGED <<verdicts, triageLock, marked, faults>>

MarkLoad(p) ==
    /\ mark[p].pc = "load"
    /\ mark' = [mark EXCEPT ![p].pc = "save", ![p].loaded = verdicts]
    /\ UNCHANGED <<clock, flushing, prints, verdicts, marks, triageLock, history>>

(* Saving replaces the file or fails, and gives up the lock.               *)
Verdict(p, before) ==
    [f \in Findings |-> IF f \in mark[p].matches THEN mark[p].verdict ELSE before[f]]
MarkSave(p) ==
    /\ MarkStep(p, "save", IF mark[p].verdict = "clear" THEN "idle" ELSE "outcome")
    /\ verdicts' = Verdict(p, mark[p].loaded) /\ marked' = Verdict(p, marked)
    /\ triageLock' = Nobody /\ UNCHANGED faults
MarkSaveFails(p) ==
    /\ MarkStep(p, "save", "idle")
    /\ faults < MaxFaults /\ faults' = faults + 1
    /\ triageLock' = Nobody /\ UNCHANGED <<verdicts, marked>>

MarkOutcome(p) ==
    /\ mark[p].pc = "outcome"
    /\ Push(p, "outcome", Cardinality(mark[p].matches), mark[p].verdict)
    /\ mark' = [mark EXCEPT ![p] = IdleMark]
    /\ UNCHANGED <<Others, prints, verdicts, marks, triageLock, marked>>

-----------------------------------------------------------------------------
(* `flush`, in the steps another process can come between.                 *)

FlushFrame == UNCHANGED <<clock, session, triaging, last, recorded, marked, crashes>>
Goto(p, pc) == task' = [task EXCEPT ![p].pc = pc]
Lost(batch) == dropped' = dropped \o batch

DrainPending(p) ==
    /\ task[p].pc = "idle" /\ pending[p] # <<>>
    /\ task' = [task EXCEPT ![p] = [IdleFlush EXCEPT !.pc = "lock", !.batch = pending[p]]]
    /\ pending' = [pending EXCEPT ![p] = <<>>]
    /\ FlushFrame /\ UNCHANGED <<flushLock, files, dropped, counted, unlogged, glued, faults>>

\* Variant: flush.lock is not taken.
AcquireFlushNoLock(p) ==
    /\ task[p].pc = "lock" /\ Goto(p, "load")
    /\ FlushFrame /\ UNCHANGED <<flushLock, pending, files, dropped, counted, unlogged, glued, faults>>

AcquireFlush(p) ==
    /\ task[p].pc = "lock" /\ flushLock = Nobody /\ flushLock' = p
    /\ Goto(p, "load")
    /\ FlushFrame /\ UNCHANGED <<pending, files, dropped, counted, unlogged, glued, faults>>

(* After GIVE_UP_AFTER the batch, already drained, is let go.              *)
GiveUpFlush(p) ==
    /\ task[p].pc = "lock" /\ flushLock \notin {Nobody, p}
    /\ Lost(task[p].batch) /\ task' = [task EXCEPT ![p] = IdleFlush]
    /\ FlushFrame /\ UNCHANGED <<flushLock, pending, files, counted, unlogged, glued, faults>>

LoadTotals(p) ==
    /\ task[p].pc = "load"
    /\ task' = [task EXCEPT ![p].pc = "append", ![p].loaded = AbsorbAll(totals, task[p].batch)]
    /\ FlushFrame /\ UNCHANGED <<flushLock, pending, files, dropped, counted, unlogged, glued, faults>>

(* What is written first to a line that a crash cut short joins it.        *)
Lines(batch) == IF tail THEN log \o Tail(batch) ELSE log \o batch

\* Variant: the last line is not ended.
AppendEventsTorn(p) ==
    /\ task[p].pc = "append" /\ Goto(p, "save")
    /\ log' = Lines(task[p].batch) /\ tail' = TRUE
    /\ glued' = IF tail THEN glued \cup {Head(task[p].batch)} ELSE glued
    /\ FlushFrame /\ UNCHANGED <<flushLock, pending, totals, dropped, counted, unlogged, faults>>

AppendEvents(p) ==
    /\ task[p].pc = "append" /\ Goto(p, "save")
    /\ log' = Lines(task[p].batch) /\ tail' = FALSE
    /\ glued' = IF tail THEN glued \cup {Head(task[p].batch)} ELSE glued
    /\ FlushFrame /\ UNCHANGED <<flushLock, pending, totals, dropped, counted, unlogged, faults>>

AppendFails(p) ==
    /\ task[p].pc = "append" /\ Goto(p, "save")
    /\ faults < MaxFaults /\ faults' = faults + 1
    /\ unlogged' = unlogged \cup ToSet(task[p].batch)
    /\ FlushFrame /\ UNCHANGED <<flushLock, pending, files, dropped, counted, glued>>

SaveTotals(p) ==
    /\ task[p].pc = "save"
    /\ totals' = task[p].loaded /\ counted' = counted \cup ToSet(task[p].batch)
    /\ task' = [task EXCEPT ![p] = [IdleFlush EXCEPT !.pc = "compact"]]
    /\ FlushFrame /\ UNCHANGED <<flushLock, pending, log, tail, dropped, unlogged, glued, faults>>

SaveFails(p) ==
    /\ task[p].pc = "save"
    /\ faults < MaxFaults /\ faults' = faults + 1
    /\ Lost(task[p].batch)
    /\ task' = [task EXCEPT ![p] = [IdleFlush EXCEPT !.pc = "compact"]]
    /\ FlushFrame /\ UNCHANGED <<flushLock, pending, files, counted, unlogged, glued>>

(* An oversize log keeps the events of the retention that parse.           *)
LoadEvents == Those(log, Event)

\* Variant: it keeps the newest that fit.
KeptNewest == SubSeq(LoadEvents, Len(LoadEvents) - MaxLog + 1, Len(LoadEvents))

KeptEvents == Those(LoadEvents, {e \in Event : e.ts >= clock - Kept})

CompactEvents(p) ==
    /\ task[p].pc = "compact"
    /\ IF Len(log) > MaxLog THEN log' = KeptEvents /\ tail' = FALSE ELSE UNCHANGED <<log, tail>>
    /\ flushLock' = Nobody /\ Goto(p, "idle")
    /\ FlushFrame /\ UNCHANGED <<pending, totals, dropped, counted, unlogged, glued, faults>>

-----------------------------------------------------------------------------
(* A process dies, in the middle of an append perhaps, and its locks with  *)
(* it; another one takes its place.                                        *)
Crash(p) ==
    /\ faults < MaxFaults /\ faults' = faults + 1 /\ crashes' = crashes + 1
    /\ Lost(pending[p] \o task[p].batch)
    /\ \/ /\ task[p].pc = "append"
          /\ \E k \in 0 .. Len(task[p].batch) - 1 :
                log' = IF tail /\ k = 0 THEN log
                       ELSE Append(Lines(SubSeq(task[p].batch, 1, k)), Garbage)
          /\ tail' = TRUE
       \/ UNCHANGED <<log, tail>>
    /\ session' = [session EXCEPT ![p] = NoTotals] /\ pending' = [pending EXCEPT ![p] = <<>>]
    /\ task' = [task EXCEPT ![p] = IdleFlush] /\ mark' = [mark EXCEPT ![p] = IdleMark]
    /\ flushLock' = IF flushLock = p THEN Nobody ELSE flushLock
    /\ triageLock' = IF triageLock = p THEN Nobody ELSE triageLock
    /\ UNCHANGED <<clock, totals, prints, verdicts, marks, last, recorded, counted, unlogged, glued, marked>>

Tick ==
    /\ clock < MaxClock /\ clock' = clock + 1
    /\ UNCHANGED <<flushing, triaging, history>>

Next ==
    \/ \E p \in Processes :
        \/ RecordScan(p) \/ RecordGateBlock(p) \/ RecordSearch(p)
        \/ MarkRead(p) \/ MarkLock(p) \/ MarkGiveUp(p) \/ MarkLoad(p)
        \/ MarkSave(p) \/ MarkSaveFails(p) \/ MarkOutcome(p)
        \/ DrainPending(p) \/ AcquireFlush(p) \/ GiveUpFlush(p) \/ LoadTotals(p)
        \/ AppendEvents(p) \/ AppendFails(p) \/ SaveTotals(p) \/ SaveFails(p) \/ CompactEvents(p)
        \/ Crash(p)
    \/ Tick

Spec == Init /\ [][Next]_vars

-----------------------------------------------------------------------------
(* Every event recorded is counted in totals.json exactly once, or on its  *)
(* way there, or lost with a crash, a lock that was not got or a save that *)
(* failed: flushes of several processes never overwrite each other's.      *)
Total(events, s) == SumFunction([i \in DOMAIN events |-> Adds(events[i])[s]])
Underway(s) == SumFunction([p \in Processes |-> Total(pending[p], s) + Total(task[p].batch, s)])

CountedOnce == \A s \in Sums :
    recorded.sum[s] = totals.sum[s] + Underway(s) + Total(dropped, s)

(* The log backs the totals: an event counted in totals.json that is of    *)
(* the reported window can be read from the log, unless appending it       *)
(* failed or it was written to a line that a crash had cut short, which    *)
(* costs one event per crash.                                              *)
RecentIsLogged ==
    /\ Cardinality(glued) <= crashes
    /\ \A e \in counted \ (glued \cup unlogged) :
            e.ts >= clock - Window => e \in ToSet(LoadEvents)

(* Verdicts given at the same time by several processes are all kept: what *)
(* triage.json says of a finding is what the last call that succeeded said.*)
VerdictsKept == verdicts = marked

(* A detector is noisy, and its findings ranked down, only on evidence: as *)
(* many of its findings as it takes have been adjudicated, and more than   *)
(* half as many called false, however often processes crash or flush past  *)
(* each other.                                                             *)
NoisyNeedsEvidence == LowPrecision(totals) =>
    /\ Adjudicated(recorded) >= MinAdjudicated
    /\ 2 * recorded.sum["false_positive"] > MinAdjudicated

=============================================================================
