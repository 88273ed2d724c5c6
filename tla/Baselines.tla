----------------------------- MODULE Baselines -----------------------------
(***************************************************************************)
(* The per-branch scan baselines of one repository and everything that     *)
(* writes them: `record_scan`, run by each tool or gate call that scans,   *)
(* and the automatic recapture of the server's periodic tick.  Several     *)
(* sensez processes work on the repository; they share the files under     *)
(* .sensez/local-metrics and the lock last-scan.lock.  In each of them one *)
(* request that records a scan and one recapture may run at a time.        *)
(*                                                                         *)
(* A baseline is the set of findings of the last recorded scan of a branch *)
(* (its prints) and the bank of the findings resolved since (its history). *)
(* Diffing a scan against them yields the tallies the metrics report: the  *)
(* findings resolved and the findings reintroduced.                        *)
(***************************************************************************)
EXTENDS Integers, FiniteSets

CONSTANTS
    Processes,      \* sensez processes serving the repository
    Branches,       \* its git branches
    Rank,           \* their names in order, that of the index's BTreeMap
    Detached,       \* HEAD when it names no branch
    Findings,       \* fingerprints a scan can report
    NoPrints,       \* the empty map that a missing branch file is read as
    Free,           \* nobody holds the lock
    MaxBranches,    \* MAX_BRANCHES
    ReintroWindow,  \* REINTRO_WINDOW_SECS
    MidScan,        \* may HEAD move between a scan and its recording?
    MaxClock,       \* bound: seconds in which something is stamped
    MaxStamps,      \* bound: recordings stamped
    MaxEdits,       \* bound: edits, checkouts and triage verdicts
    MaxCrashes      \* bound: crashes

Threads == Processes \X {"recorder", "recapture"}

ASSUME ConstantsAssumption ==
    /\ IsFiniteSet(Branches) /\ Rank \in [Branches -> Nat] /\ Detached \notin Branches
    /\ (\A S \in SUBSET Findings : NoPrints # S) /\ Free \notin Threads
    /\ MaxBranches \in Nat \ {0} /\ ReintroWindow \in Nat
    /\ MidScan \in BOOLEAN
    /\ MaxClock \in Nat \ {0, 1} /\ MaxStamps \in Nat /\ MaxEdits \in Nat /\ MaxCrashes \in Nat

VARIABLES
    tree,        \* the findings in the source of each branch, and of Detached
    head,        \* what HEAD names
    mtime,       \* newest modification time of a source file
    clock,       \* the time, in seconds
    edits,       \* how often the tree changed: the version that a scan sees
    ignored,     \* findings with a triage verdict: scans leave them out
    stamps,      \* the index: `updated` of every branch, 0 if not indexed
    inline,      \* indexed branches whose data is still in last-scan.json
    files,       \* the branch files
    lock,        \* the holder of last-scan.lock
    task,        \* what each thread is doing
    base,        \* the Baseline each process keeps; ts 0 if it has none
    resolvedFor, \* history: resolutions counted since a finding was recorded
    surplus,     \* history: resolutions minus reintroductions counted
    torn,        \* history: branches whose file is pruned, but not their entry
    raced,       \* history: branches stamped with the second a rescan compares with
    given,       \* how many stamps recordings were given
    crashes      \* how many processes crashed

world == <<tree, head, mtime, edits, ignored>>
disk == <<stamps, inline, files>>
history == <<resolvedFor, surplus, torn>>
vars == <<world, clock, disk, lock, task, base, history, raced, given, crashes>>

Time == 1 .. MaxClock + 1
Data == [prints : {NoPrints} \cup SUBSET Findings,
         bank : UNION {[S -> Time] : S \in SUBSET Findings},
         version : 0 .. MaxEdits]

(* What an absent branch file is read as, and a last-scan.json entry of an *)
(* earlier release.                                                        *)
EmptyBank == [f \in {} |-> 1]
NoData == [prints |-> NoPrints, bank |-> EmptyBank, version |-> 0]
LegacyData == [prints |-> Findings, bank |-> EmptyBank, version |-> 0]

Indexed == {b \in Branches : stamps[b] # 0}
Load(b) == IF b \notin Indexed THEN NoData ELSE IF b \in inline THEN LegacyData ELSE files[b]

Idle == [pc |-> "idle", branch |-> Detached, expected |-> 0, src |-> Detached, version |-> 0,
         found |-> {}, skip |-> {}, now |-> 0, prev |-> NoData, data |-> NoData,
         resolved |-> {}, back |-> {}]
NoBase == [ts |-> 0, branch |-> Detached]

(* A reading of the clock, in whole seconds: it may have moved on since    *)
(* another process read it, or not; it never moves back.                   *)
Now == {t \in {clock, clock + 1} : t <= MaxClock}
Stamped == given < MaxStamps /\ given' = given + 1

Become(t, r) == task' = [task EXCEPT ![t] = r]
Move(t, pc) == Become(t, [task[t] EXCEPT !.pc = pc])
At(t, pc) == task[t].pc = pc

TypeOK ==
    /\ tree \in [Branches \cup {Detached} -> SUBSET Findings]
    /\ head \in Branches \cup {Detached}
    /\ mtime \in Time /\ clock \in Time
    /\ raced \in SUBSET Branches /\ given \in 0 .. MaxStamps
    /\ edits \in 0 .. MaxEdits /\ ignored \in SUBSET Findings
    /\ stamps \in [Branches -> 0 .. MaxClock] /\ inline \in SUBSET Indexed
    /\ files \in [Branches -> Data]
    /\ lock \in Threads \cup {Free}
    /\ DOMAIN task = Threads
    /\ base \in [Processes -> [ts : 0 .. MaxClock, branch : Branches \cup {Detached}]]
    /\ crashes \in 0 .. MaxCrashes

Init ==
    /\ tree = [b \in Branches \cup {Detached} |-> IF b = Detached THEN {} ELSE Findings]
    /\ head \in Branches
    /\ clock = 2 /\ mtime = 1
    /\ edits = 0 /\ ignored = {} /\ crashes = 0
    /\ inline \in SUBSET Branches /\ Cardinality(inline) <= MaxBranches
    /\ stamps = [b \in Branches |-> IF b \in inline THEN 1 ELSE 0]
    /\ files = [b \in Branches |-> NoData]
    /\ lock = Free
    /\ task = [t \in Threads |-> Idle]
    /\ base = [p \in Processes |-> NoBase]
    /\ resolvedFor = [b \in Branches |-> [f \in Findings |-> 0]]
    /\ surplus = [b \in Branches |-> [f \in Findings |-> 0]]
    /\ torn = {} /\ raced = {} /\ given = 0

-----------------------------------------------------------------------------
(* The developer.  A checkout changes the tree and its modification times  *)
(* like an edit; a verdict takes a finding out of later scans or puts it   *)
(* back in.                                                                *)

Edit ==
    /\ edits < MaxEdits
    /\ \E f \in Findings :
         tree' = [tree EXCEPT ![head] = IF f \in @ THEN @ \ {f} ELSE @ \cup {f}]
    /\ mtime' = clock
    /\ edits' = edits + 1
    /\ UNCHANGED <<head, ignored, clock, disk, lock, task, base, history, raced, given, crashes>>

Scanning == {t \in Threads : task[t].pc \in {"candidate", "checked", "snapshot"}}

Checkout ==
    /\ edits < MaxEdits
    /\ MidScan \/ Scanning = {}
    /\ head' \in (Branches \cup {Detached}) \ {head}
    /\ mtime' = IF tree[head'] # tree[head] THEN clock ELSE mtime
    /\ edits' = edits + 1
    /\ UNCHANGED <<tree, ignored, clock, disk, lock, task, base, history, raced, given, crashes>>

Triage ==
    /\ edits < MaxEdits
    /\ \E f \in Findings : ignored' = IF f \in ignored THEN ignored \ {f} ELSE ignored \cup {f}
    /\ edits' = edits + 1
    /\ UNCHANGED <<tree, head, mtime, clock, disk, lock, task, base, history, raced, given, crashes>>

-----------------------------------------------------------------------------
(* `age`: diff a scan against the previous prints and the bank.            *)

Reported == tree[head] \ ignored

Since(t, ts) == IF t > ts THEN t - ts ELSE 0

(* Variant: a finding that came back stays in the bank.                    *)
AgeKeepsBank(prev, found, now, skip) ==
    LET old == IF prev.prints = NoPrints THEN {} ELSE prev.prints
        active == {f \in DOMAIN prev.bank : Since(now, prev.bank[f]) <= ReintroWindow}
        gone == (old \ found) \ skip
        banked == active \cup gone
    IN  [resolved |-> gone, back |-> active \cap found,
         bank |-> [f \in banked |-> IF f \in gone THEN now ELSE prev.bank[f]]]

Age(prev, found, now, skip) ==
    LET old == IF prev.prints = NoPrints THEN {} ELSE prev.prints
        active == {f \in DOMAIN prev.bank : Since(now, prev.bank[f]) <= ReintroWindow}
        gone == (old \ found) \ skip
        banked == (active \ found) \cup gone
    IN  [resolved |-> gone, back |-> active \cap found,
         bank |-> [f \in banked |-> IF f \in gone THEN now ELSE prev.bank[f]]]

(* The task with what it is about to commit, diffed against prev.          *)
Aged(r, prev, now, skip) ==
    LET a == Age(prev, r.found, now, skip)
    IN  [r EXCEPT !.found = {}, !.skip = {}, !.now = now, !.resolved = a.resolved,
                  !.back = a.back,
                  !.data = [prints |-> r.found, bank |-> a.bank, version |-> r.version]]

-----------------------------------------------------------------------------
(* `commit`, under the lock, one durable step at a time: the branch files, *)
(* then the files of the branches pruned, then the index.                  *)

(* Variant: the inline data of the other branches is not moved out.        *)
WriteDataAlone(t, r) ==
    /\ files' = [files EXCEPT ![r.branch] = r.data]
    /\ Become(t, [r EXCEPT !.pc = "written", !.expected = 0])
    /\ lock' = t
    /\ torn' = torn \ {r.branch}

WriteData(t, r) ==
    /\ files' = [b \in Branches |->
          IF b = r.branch THEN r.data ELSE IF b \in inline THEN LegacyData ELSE files[b]]
    /\ Become(t, [r EXCEPT !.pc = "written", !.expected = 0])
    /\ lock' = t
    /\ torn' = torn \ {r.branch}

(* The branches of index s beyond the MaxBranches most recent.             *)
Pruned(s) ==
    LET named == {b \in Branches : s[b] # 0}
        newer(b) == {c \in named : s[c] > s[b] \/ (s[c] = s[b] /\ Rank[c] > Rank[b])}
    IN  {b \in named : Cardinality(newer(b)) >= MaxBranches}

StampsWith(r) == [stamps EXCEPT ![r.branch] = r.now]

PruneFiles(t) ==
    /\ At(t, "written")
    /\ files' = [b \in Branches |->
          IF b \in Pruned(StampsWith(task[t])) THEN NoData ELSE files[b]]
    /\ torn' = torn \cup (Pruned(StampsWith(task[t])) \cap Indexed)
    /\ Move(t, "pruned")
    /\ UNCHANGED <<world, clock, stamps, inline, lock, base, resolvedFor, surplus, raced, given, crashes>>

(* The new index has no inline data: `take` moved it out.                  *)
TakeInline == inline' = {}

(* Rescan q has scanned, and cannot tell recording r of its branch from    *)
(* the baseline it knew: they were made in the same second.                *)
Misled(q, r) ==
    /\ q.pc \in {"rescanned", "fresh", "loaded", "waiting"}
    /\ q.branch = r.branch /\ q.expected = r.now

(* The last-scan.json that is then removed is never read again.            *)
WriteIndex(t) ==
    LET r == task[t]
        counted(f) == IF f \in r.resolved THEN 1 ELSE 0
        returned(f) == IF f \in r.back THEN 1 ELSE 0
    IN  /\ At(t, "pruned")
        /\ stamps' = [b \in Branches |->
              IF b \in Pruned(StampsWith(r)) THEN 0 ELSE StampsWith(r)[b]]
        /\ TakeInline
        /\ lock' = Free
        /\ resolvedFor' = [resolvedFor EXCEPT ![r.branch] =
              [f \in Findings |-> @[f] + counted(f)]]
        /\ surplus' = [surplus EXCEPT ![r.branch] =
              [f \in Findings |-> @[f] + counted(f) - returned(f)]]
        /\ torn' = torn \cap {b \in Branches : stamps'[b] # 0}
        /\ Become(t, [Idle EXCEPT !.pc = "committed", !.branch = r.branch, !.now = r.now])
        /\ raced' = raced \cup {b \in {r.branch} : \E u \in Threads : Misled(task[u], r)}
        /\ UNCHANGED <<world, clock, files, base, given, crashes>>

(* The file that now holds a finding starts a new count for it.            *)
Recorded(r) ==
    resolvedFor' = [resolvedFor EXCEPT ![r.branch] =
        [f \in Findings |-> IF f \in r.data.prints THEN 0 ELSE @[f]]]

-----------------------------------------------------------------------------
(* `record_scan`: a tool or gate call scans, asks for the branch, then     *)
(* diffs and commits under the lock, and keeps the time as its baseline.   *)

Recorder(p) == <<p, "recorder">>

Scan(p) ==
    /\ At(Recorder(p), "idle")
    /\ Become(Recorder(p), [Idle EXCEPT !.pc = "snapshot", !.found = Reported,
                                        !.src = head, !.version = edits])
    /\ UNCHANGED <<world, clock, disk, lock, base, history, raced, given, crashes>>

RecordDetached(p) ==
    /\ At(Recorder(p), "snapshot")
    /\ head = Detached
    /\ Become(Recorder(p), Idle)
    /\ UNCHANGED <<world, clock, disk, lock, base, history, raced, given, crashes>>

ResolveBranch(p) ==
    /\ At(Recorder(p), "snapshot")
    /\ head # Detached
    /\ \E now \in Now :
         /\ Become(Recorder(p), [task[Recorder(p)] EXCEPT !.pc = "waiting", !.branch = head,
                                                          !.now = now, !.skip = ignored])
         /\ clock' = now
    /\ Stamped
    /\ UNCHANGED <<world, disk, lock, base, history, raced, crashes>>

(* Variant: the baseline is diffed without holding the lock.               *)
UpdateUnlocked(p) ==
    LET r == task[Recorder(p)]
        aged == Aged(r, Load(r.branch), r.now, r.skip)
    IN  /\ At(Recorder(p), "waiting")
        /\ WriteData(Recorder(p), aged)
        /\ Recorded(aged)
        /\ UNCHANGED <<world, clock, stamps, inline, base, surplus, raced, given, crashes>>

UpdateFingerprints(p) ==
    LET r == task[Recorder(p)]
        aged == Aged(r, Load(r.branch), r.now, r.skip)
    IN  /\ At(Recorder(p), "waiting")
        /\ lock = Free
        /\ WriteData(Recorder(p), aged)
        /\ Recorded(aged)
        /\ UNCHANGED <<world, clock, stamps, inline, base, surplus, raced, given, crashes>>

(* After GIVE_UP_AFTER, ten seconds, the scan goes unrecorded, but its     *)
(* time is kept all the same.                                              *)
RecordGivesUp(p) ==
    /\ At(Recorder(p), "waiting")
    /\ lock # Free
    /\ clock <= MaxClock /\ clock' = clock + 1
    /\ Become(Recorder(p), [Idle EXCEPT !.pc = "committed", !.branch = task[Recorder(p)].branch,
                                        !.now = task[Recorder(p)].now])
    /\ UNCHANGED <<world, disk, lock, base, history, raced, given, crashes>>

SetBaseline(p) ==
    LET r == task[Recorder(p)]
    IN  /\ At(Recorder(p), "committed")
        /\ base' = [base EXCEPT ![p] = [ts |-> r.now, branch |-> r.branch]]
        /\ Become(Recorder(p), Idle)
        /\ UNCHANGED <<world, clock, disk, lock, history, raced, given, crashes>>

-----------------------------------------------------------------------------
(* The automatic recapture: it scans again if a file changed since the     *)
(* baseline, and commits only over the baseline it knows.                  *)

Recapture(p) == <<p, "recapture">>

MarkRescanned(p, ts) ==
    base' = IF base[p] = NoBase THEN base ELSE [base EXCEPT ![p].ts = ts]

(* A rescan that records nothing: only the baseline of its process moves.  *)
MarkOnly(p) ==
    \E ts \in Now : MarkRescanned(p, ts) /\ clock' = ts

(* branch_changed_since_baseline: an unindexed branch has not changed.     *)
Stale(r) == stamps[r.branch] \notin {0, r.expected}

(* Variant: recapture whatever branch is checked out.                      *)
BeginOnAnyBranch(p) ==
    /\ At(Recapture(p), "idle")
    /\ base[p] # NoBase
    /\ mtime >= base[p].ts
    /\ Become(Recapture(p), [Idle EXCEPT !.pc = "candidate", !.branch = base[p].branch,
                                         !.expected = base[p].ts])
    /\ UNCHANGED <<world, clock, disk, lock, base, history, raced, given, crashes>>

Begin(p) ==
    /\ At(Recapture(p), "idle")
    /\ base[p] # NoBase
    /\ mtime >= base[p].ts
    /\ head = base[p].branch
    /\ Become(Recapture(p), [Idle EXCEPT !.pc = "candidate", !.branch = base[p].branch,
                                         !.expected = base[p].ts])
    /\ UNCHANGED <<world, clock, disk, lock, base, history, raced, given, crashes>>

(* The stale test is made before the scan, and again after it.             *)
Abandon(p) ==
    /\ task[Recapture(p)].pc \in {"candidate", "rescanned"}
    /\ Stale(task[Recapture(p)])
    /\ MarkOnly(p)
    /\ Become(Recapture(p), Idle)
    /\ UNCHANGED <<world, disk, lock, history, raced, given, crashes>>

Confirm(p) ==
    /\ \E step \in {<<"candidate", "checked">>, <<"rescanned", "fresh">>} :
         At(Recapture(p), step[1]) /\ ~Stale(task[Recapture(p)]) /\ Move(Recapture(p), step[2])
    /\ UNCHANGED <<world, clock, disk, lock, base, history, raced, given, crashes>>

ScanAgain(p) ==
    /\ At(Recapture(p), "checked")
    /\ Become(Recapture(p), [task[Recapture(p)] EXCEPT !.pc = "rescanned", !.found = Reported,
                                                       !.src = head, !.version = edits])
    /\ UNCHANGED <<world, clock, disk, lock, base, history, raced, given, crashes>>

ScanFails(p) ==
    /\ At(Recapture(p), "checked")
    /\ Become(Recapture(p), Idle)
    /\ UNCHANGED <<world, clock, disk, lock, base, history, raced, given, crashes>>

(* The prints and the bank are two reads, neither under the lock.          *)
LoadPrints(p) ==
    LET r == task[Recapture(p)]
        prev == Load(r.branch)
    IN  /\ At(Recapture(p), "fresh")
        /\ Become(Recapture(p),
             IF prev.prints = NoPrints THEN Idle
             ELSE [r EXCEPT !.pc = "loaded", !.prev = [prev EXCEPT !.bank = EmptyBank]])
        /\ UNCHANGED <<world, clock, disk, lock, base, history, raced, given, crashes>>

LoadHistory(p) ==
    LET r == task[Recapture(p)]
        prev == [r.prev EXCEPT !.bank = Load(r.branch).bank]
    IN  /\ At(Recapture(p), "loaded")
        /\ \E now \in Now :
             /\ Become(Recapture(p), [Aged(r, prev, now, ignored) EXCEPT !.pc = "waiting", !.prev = prev])
             /\ clock' = now
        /\ Stamped
        /\ UNCHANGED <<world, disk, lock, base, history, raced, crashes>>

(* Variant: the baseline is overwritten whoever wrote it.                  *)
SaveAlways(p) ==
    LET r == task[Recapture(p)]
    IN  /\ At(Recapture(p), "waiting")
        /\ lock = Free
        /\ WriteData(Recapture(p), r)
        /\ Recorded(r)
        /\ UNCHANGED <<world, clock, stamps, inline, base, surplus, raced, given, crashes>>

SaveIfCurrent(p) ==
    LET r == task[Recapture(p)]
    IN  /\ At(Recapture(p), "waiting")
        /\ lock = Free
        /\ stamps[r.branch] = r.expected
        /\ WriteData(Recapture(p), r)
        /\ Recorded(r)
        /\ UNCHANGED <<world, clock, stamps, inline, base, surplus, raced, given, crashes>>

SaveRefused(p) ==
    LET r == task[Recapture(p)]
    IN  /\ At(Recapture(p), "waiting")
        /\ lock = Free
        /\ stamps[r.branch] # r.expected
        /\ MarkOnly(p)
        /\ Become(Recapture(p), Idle)
        /\ UNCHANGED <<world, disk, lock, history, raced, given, crashes>>

RecaptureGivesUp(p) ==
    /\ At(Recapture(p), "waiting")
    /\ lock # Free
    /\ clock <= MaxClock /\ clock' = clock + 1
    /\ Become(Recapture(p), Idle)
    /\ UNCHANGED <<world, disk, lock, base, history, raced, given, crashes>>

FinishRecapture(p) ==
    /\ At(Recapture(p), "committed")
    /\ MarkRescanned(p, task[Recapture(p)].now)
    /\ Become(Recapture(p), Idle)
    /\ UNCHANGED <<world, clock, disk, lock, history, raced, given, crashes>>

-----------------------------------------------------------------------------
(* A process dies: its memory is gone and the kernel releases its lock.    *)
Crash(p) ==
    /\ crashes < MaxCrashes
    /\ crashes' = crashes + 1
    /\ task' = [task EXCEPT ![Recorder(p)] = Idle, ![Recapture(p)] = Idle]
    /\ base' = [base EXCEPT ![p] = NoBase]
    /\ lock' = IF lock \in {Recorder(p), Recapture(p)} THEN Free ELSE lock
    /\ UNCHANGED <<world, clock, disk, history, raced, given>>

Record(p) ==
    \/ Scan(p) \/ RecordDetached(p) \/ ResolveBranch(p)
    \/ UpdateFingerprints(p) \/ RecordGivesUp(p) \/ SetBaseline(p)

Rescan(p) ==
    \/ Begin(p) \/ Abandon(p) \/ Confirm(p) \/ ScanAgain(p) \/ ScanFails(p)
    \/ LoadPrints(p) \/ LoadHistory(p) \/ SaveIfCurrent(p) \/ SaveRefused(p)
    \/ RecaptureGivesUp(p) \/ FinishRecapture(p)

Next ==
    \/ Edit \/ Checkout \/ Triage
    \/ \E p \in Processes : Record(p) \/ Rescan(p) \/ Crash(p)
    \/ \E t \in Threads : PruneFiles(t) \/ WriteIndex(t)

Spec == Init /\ [][Next]_vars

-----------------------------------------------------------------------------
(* A finding is counted as resolved at most once for each time it was      *)
(* recorded, however many processes scan, recapture or die: the lock       *)
(* (update_fingerprints) and the comparison of the stamps                  *)
(* (save_fingerprints_if_current) keep two threads from diffing the same   *)
(* baseline.  The one way out is a branch whose index entry is given, with *)
(* a rescan under way, the very second that rescan compares with.          *)
ResolvedOnce == \A b \in Branches \ raced, f \in Findings : resolvedFor[b][f] <= 1

(* Every reintroduction counted answers a resolution counted before it, as *)
(* long as no process dies in the middle of a commit and the branch was    *)
(* not raced: `age` takes what came back out of the bank, and only `age`   *)
(* puts anything in.                                                       *)
ReintroductionsPaired ==
    crashes = 0 => \A b \in Branches \ raced, f \in Findings : surplus[b][f] >= 0

(* A recapture diffs forward in time: its scan saw the tree no earlier     *)
(* than the scan whose findings it counts as resolved, however the scans   *)
(* of other processes and their recordings, in the same second or not,     *)
(* interleave with it.                                                     *)
RecaptureDiffsForward ==
    crashes = 0 => \A p \in Processes :
        LET r == task[Recapture(p)]
        IN  r.pc \in {"written", "pruned"} /\ r.branch \notin raced => r.prev.version <= r.version

(* An indexed branch has its data, in its file or inline, whenever and     *)
(* wherever a process dies: `commit` moves the legacy data out before the  *)
(* index forgets it.  Only a branch being pruned is without.               *)
IndexedHasData == \A b \in Indexed \ torn : Load(b).prints # NoPrints

(* Findings of one branch are never diffed against those of another        *)
(* (store_baselines.rs, BranchIndex: "Keying by branch stops               *)
(* resolved-tracking from cross-diffing findings when the working tree     *)
(* switches branches").                                                    *)
NoCrossDiff ==
    \A t \in Threads : task[t].pc \in {"written", "pruned"} =>
        task[t].src = task[t].branch
=============================================================================
