-------------------------- MODULE Baselines_proofs --------------------------
(***************************************************************************)
(* Theorems about `Baselines`, for any processes, branches and findings,   *)
(* and whatever their clocks show when they read them: a branch in the     *)
(* index has its data wherever a process dies; on a branch that is not     *)
(* raced, a finding is counted as resolved at most once for each time it   *)
(* was recorded; and unless a process dies in a commit, reintroductions    *)
(* answer resolutions there, and a recapture diffs forward in time.        *)
(*                                                                         *)
(* The argument about the histories: a recording that a rescan of its      *)
(* branch does not see either gives the branch another second than the one *)
(* that rescan expects, and it will not be saved, or it races the branch.  *)
(* So a recapture whose branch is not raced and still has the stamp it     *)
(* expects has seen what the branch holds now (unless a commit is under    *)
(* way, which the lock keeps away from the recapture's own).  Recordings   *)
(* that share a second need no exception of their own.                     *)
(***************************************************************************)
EXTENDS Baselines, TLAPS

USE ConstantsAssumption DEF ConstantsAssumption

(* A task is a record; of its fields only what was found has a type here.  *)
Fields == {"pc", "branch", "expected", "src", "version", "found", "skip", "now", "prev", "data",
           "resolved", "back"}
IsTask(r) == r = [d \in Fields |-> r[d]] /\ r.found \subseteq Findings

TasksOK ==
    /\ tree \in [Branches \cup {Detached} -> SUBSET Findings]
    /\ head \in Branches \cup {Detached}
    /\ stamps = [b \in Branches |-> stamps[b]]
    /\ task = [t \in Threads |-> task[t]]
    /\ \A t \in Threads : IsTask(task[t])

(* Who is between writing the branch files and writing the index holds     *)
(* last-scan.lock.                                                         *)
Committing(r) == r.pc \in {"written", "pruned"}
LockOK == \A t \in Threads : Committing(task[t]) => lock = t

(* A process has two threads, one for each job.                            *)
LEMMA ThreadsAre ==
    ASSUME NEW p \in Processes
    PROVE  Recorder(p) \in Threads /\ Recapture(p) \in Threads /\ Recorder(p) # Recapture(p)
BY DEF Threads, Recorder, Recapture

(* A thread at rest is a record, and has found nothing.                    *)
LEMMA IdleIsTask == IsTask(Idle) /\ Idle.pc = "idle"
BY DEF Idle, IsTask, Fields

(* A scan finds findings.                                                  *)
LEMMA ReportedAreFindings == TasksOK => Reported \subseteq Findings
BY DEF TasksOK, Reported

-----------------------------------------------------------------------------
(* What a step makes of a task.                                            *)

Kept(r, c) == /\ IsTask(c) /\ c.found = r.found /\ c.branch = r.branch /\ c.src = r.src
              /\ c.data = r.data /\ c.now = r.now /\ c.resolved = r.resolved /\ c.back = r.back

(* A task that only moves on keeps what it has.                            *)
LEMMA MovedTask ==
    ASSUME NEW r, IsTask(r), NEW pc
    PROVE  LET c == [r EXCEPT !.pc = pc] IN Kept(r, c) /\ c.pc = pc
BY DEF IsTask, Fields, Kept

(* A task that moves on with what it has read keeps the rest.              *)
LEMMA LoadedTask ==
    ASSUME NEW r, IsTask(r), NEW pc, NEW prev
    PROVE  LET c == [r EXCEPT !.pc = pc, !.prev = prev] IN Kept(r, c) /\ c.pc = pc
BY DEF IsTask, Fields, Kept

(* A task that starts writing keeps what it writes.                        *)
LEMMA WritingTask ==
    ASSUME NEW r, IsTask(r)
    PROVE  LET c == [r EXCEPT !.pc = "written", !.expected = 0] IN Kept(r, c) /\ c.pc = "written"
BY DEF IsTask, Fields, Kept

(* Diffing keeps the branches, and what was found is what is to be written. *)
LEMMA AgedTask ==
    ASSUME NEW r, IsTask(r), NEW prev, NEW now, NEW skip
    PROVE  LET c == Aged(r, prev, now, skip)
           IN  IsTask(c) /\ c.branch = r.branch /\ c.src = r.src /\ c.data.prints = r.found
BY DEF IsTask, Fields, Aged

-----------------------------------------------------------------------------
(* The steps, by what they do to the files and the lock.                   *)

Prepared(t, r) == t[2] = "recapture" /\ r.pc = "waiting" => r.data.prints \subseteq Findings

(* A thread goes on, and neither writes nor takes the lock.                *)
QuietStep(t, c) ==
    /\ task' = [task EXCEPT ![t] = c] /\ IsTask(c)
    /\ UNCHANGED <<tree, head, disk, lock, torn>>
    /\ ~Committing(task[t]) /\ ~Committing(c)
    /\ Prepared(t, c)

(* A thread takes the lock and writes the branch files.                    *)
WriteStep(t, r) ==
    /\ WriteData(t, r) /\ IsTask(r) /\ lock = Free
    /\ UNCHANGED <<tree, head, stamps, inline>>
    /\ ~Committing(task[t])
    /\ r.data.prints \subseteq Findings

(* Giving up or being done is a quiet step.                                *)
LEMMA QuietIdle ==
    ASSUME NEW t \in Threads, ~Committing(task[t]), Become(t, Idle),
           UNCHANGED <<tree, head, disk, lock, torn>>
    PROVE  QuietStep(t, Idle)
BY IdleIsTask DEF QuietStep, Become, Committing, Prepared

(* Of record_scan, only update_fingerprints writes.                        *)
LEMMA RecorderQuiet ==
    ASSUME TasksOK, NEW p \in Processes,
           Scan(p) \/ RecordDetached(p) \/ ResolveBranch(p) \/ RecordGivesUp(p) \/ SetBaseline(p)
    PROVE  \E t \in Threads : \E c : QuietStep(t, c)
<1> DEFINE t == Recorder(p)
<1>1. t \in Threads /\ IsTask(task[t]) /\ t[2] # "recapture"
    BY ThreadsAre DEF TasksOK, Recorder
<1>2. CASE Scan(p)
    <2> DEFINE c == [Idle EXCEPT !.pc = "snapshot", !.found = Reported, !.src = head, !.version = edits]
    <2>1. IsTask(c) /\ c.pc = "snapshot" /\ c.src = head
        BY ReportedAreFindings DEF Idle, IsTask, Fields
    <2>2. Become(t, c) /\ ~Committing(task[t]) /\ UNCHANGED <<tree, head, disk, lock, torn>>
        BY <1>2 DEF Scan, At, Committing, world, history
    <2>3. QuietStep(t, c)
        BY <1>1, <2>1, <2>2 DEF QuietStep, Become, Committing, Prepared
    <2> QED
        BY <1>1, <2>3
<1>3. CASE ResolveBranch(p)
    <2>1. PICK now :
              Become(t, [task[t] EXCEPT !.pc = "waiting", !.branch = head, !.now = now, !.skip = ignored])
        BY <1>3 DEF ResolveBranch
    <2> DEFINE c == [task[t] EXCEPT !.pc = "waiting", !.branch = head, !.now = now, !.skip = ignored]
    <2>2. IsTask(c) /\ c.pc = "waiting" /\ c.branch = head /\ c.src = task[t].src
        BY <1>1 DEF IsTask, Fields
    <2>3. task[t].pc = "snapshot" /\ UNCHANGED <<tree, head, disk, lock, torn>>
        BY <1>3 DEF ResolveBranch, At, world, history
    <2>4. QuietStep(t, c)
        BY <1>1, <2>1, <2>2, <2>3 DEF QuietStep, Become, Committing, Prepared
    <2> QED
        BY <1>1, <2>4
<1>4. CASE RecordGivesUp(p)
    <2> DEFINE c == [Idle EXCEPT !.pc = "committed", !.branch = task[t].branch, !.now = task[t].now]
    <2>1. IsTask(c) /\ c.pc = "committed"
        BY DEF Idle, IsTask, Fields
    <2>2. Become(t, c) /\ task[t].pc = "waiting" /\ UNCHANGED <<tree, head, disk, lock, torn>>
        BY <1>4 DEF RecordGivesUp, At, world, history
    <2>3. QuietStep(t, c)
        BY <1>1, <2>1, <2>2 DEF QuietStep, Become, Committing, Prepared
    <2> QED
        BY <1>1, <2>3
<1>5. CASE RecordDetached(p) \/ SetBaseline(p)
    <2>1. Become(t, Idle) /\ ~Committing(task[t]) /\ UNCHANGED <<tree, head, disk, lock, torn>>
        BY <1>5 DEF RecordDetached, SetBaseline, At, Committing, world, history
    <2> QED
        BY <1>1, <2>1, QuietIdle
<1> QED
    BY <1>2, <1>3, <1>4, <1>5

(* Of the recapture, only save_fingerprints_if_current writes.             *)
LEMMA RecaptureQuiet ==
    ASSUME TasksOK, NEW p \in Processes,
           \/ Begin(p) \/ Abandon(p) \/ Confirm(p) \/ ScanAgain(p) \/ ScanFails(p) \/ LoadPrints(p)
           \/ LoadHistory(p) \/ SaveRefused(p) \/ RecaptureGivesUp(p) \/ FinishRecapture(p)
    PROVE  \E t \in Threads : \E c : QuietStep(t, c)
<1> DEFINE t == Recapture(p)
<1>1. t \in Threads /\ IsTask(task[t])
    BY ThreadsAre DEF TasksOK
<1>2. CASE Begin(p)
    <2> DEFINE c == [Idle EXCEPT !.pc = "candidate", !.branch = base[p].branch, !.expected = base[p].ts]
    <2>1. IsTask(c) /\ c.pc = "candidate" /\ c.branch = base[p].branch
        BY DEF Idle, IsTask, Fields
    <2>2. /\ Become(t, c) /\ task[t].pc = "idle" /\ head = base[p].branch
          /\ UNCHANGED <<tree, head, disk, lock, torn>>
        BY <1>2 DEF Begin, At, world, history
    <2>3. QuietStep(t, c)
        BY <1>1, <2>1, <2>2 DEF QuietStep, Become, Committing, Prepared
    <2> QED
        BY <1>1, <2>3
<1>3. CASE Confirm(p)
    <2>1. PICK step \in {<<"candidate", "checked">>, <<"rescanned", "fresh">>} :
              task[t].pc = step[1] /\ Become(t, [task[t] EXCEPT !.pc = step[2]])
        BY <1>3 DEF Confirm, At, Move
    <2> DEFINE c == [task[t] EXCEPT !.pc = step[2]]
    <2>2. Kept(task[t], c) /\ c.pc = step[2]
        BY <1>1, MovedTask
    <2>3. UNCHANGED <<tree, head, disk, lock, torn>>
        BY <1>3 DEF Confirm, world, history
    <2>4. QuietStep(t, c)
        BY <1>1, <2>1, <2>2, <2>3 DEF QuietStep, Become, Committing, Prepared, Kept
    <2> QED
        BY <1>1, <2>4
<1>4. CASE ScanAgain(p)
    <2> DEFINE c == [task[t] EXCEPT !.pc = "rescanned", !.found = Reported, !.src = head, !.version = edits]
    <2>1. IsTask(c) /\ c.pc = "rescanned" /\ c.src = head /\ c.branch = task[t].branch
        BY <1>1, ReportedAreFindings DEF IsTask, Fields
    <2>2. Become(t, c) /\ task[t].pc = "checked" /\ UNCHANGED <<tree, head, disk, lock, torn>>
        BY <1>4 DEF ScanAgain, At, world, history
    <2>3. QuietStep(t, c)
        BY <1>1, <2>1, <2>2 DEF QuietStep, Become, Committing, Prepared
    <2> QED
        BY <1>1, <2>3
<1>5. CASE LoadPrints(p)
    <2> DEFINE prev == [Load(task[t].branch) EXCEPT !.bank = EmptyBank]
               c == [task[t] EXCEPT !.pc = "loaded", !.prev = prev]
    <2>1. task[t].pc = "fresh" /\ UNCHANGED <<tree, head, disk, lock, torn>>
        BY <1>5 DEF LoadPrints, At, world, history
    <2>2. Become(t, Idle) \/ Become(t, c)
        BY <1>5 DEF LoadPrints
    <2>3. CASE Become(t, Idle)
        BY <1>1, <2>1, <2>3, QuietIdle DEF Committing
    <2>4. CASE Become(t, c)
        <3>1. Kept(task[t], c) /\ c.pc = "loaded"
            BY <1>1, LoadedTask
        <3>2. QuietStep(t, c)
            BY <1>1, <2>1, <2>4, <3>1 DEF QuietStep, Become, Committing, Prepared, Kept
        <3> QED
            BY <1>1, <3>2
    <2> QED
        BY <2>2, <2>3, <2>4
<1>6. CASE LoadHistory(p)
    <2>1. PICK prev, now :
              Become(t, [Aged(task[t], prev, now, ignored) EXCEPT !.pc = "waiting", !.prev = prev])
        BY <1>6 DEF LoadHistory
    <2> DEFINE a == Aged(task[t], prev, now, ignored)
               c == [a EXCEPT !.pc = "waiting", !.prev = prev]
    <2>2. IsTask(a) /\ a.branch = task[t].branch /\ a.src = task[t].src /\ a.data.prints = task[t].found
        BY <1>1, AgedTask
    <2>3. Kept(a, c) /\ c.pc = "waiting"
        <3> HIDE DEF a
        <3> QED
            BY <2>2 DEF IsTask, Fields, Kept
    <2>4. task[t].pc = "loaded" /\ UNCHANGED <<tree, head, disk, lock, torn>>
        BY <1>6 DEF LoadHistory, At, world, history
    <2>5. c.data.prints \subseteq Findings
        BY <1>1, <2>2, <2>3 DEF Kept, IsTask
    <2>6. task' = [task EXCEPT ![t] = c]
        BY <2>1 DEF Become
    <2>7. QuietStep(t, c)
        <3> HIDE DEF c, a
        <3> QED
            BY <2>2, <2>3, <2>4, <2>5, <2>6 DEF QuietStep, Committing, Prepared, Kept
    <2> QED
        BY <1>1, <2>7
<1>7. CASE Abandon(p) \/ ScanFails(p) \/ SaveRefused(p) \/ RecaptureGivesUp(p) \/ FinishRecapture(p)
    <2>1. Become(t, Idle) /\ ~Committing(task[t]) /\ UNCHANGED <<tree, head, disk, lock, torn>>
        BY <1>7 DEF Abandon, ScanFails, SaveRefused, RecaptureGivesUp, FinishRecapture, At, Committing,
                    world, history
    <2> QED
        BY <1>1, <2>1, QuietIdle
<1> QED
    BY <1>2, <1>3, <1>4, <1>5, <1>6, <1>7

(* What is written are findings: those of the scan, or those a recapture   *)
(* prepared.                                                               *)
LEMMA Writes ==
    ASSUME TasksOK, NEW p \in Processes, Prepared(Recapture(p), task[Recapture(p)]),
           UpdateFingerprints(p) \/ SaveIfCurrent(p)
    PROVE  \E t \in Threads : \E r : WriteStep(t, r)
<1>1. CASE UpdateFingerprints(p)
    <2> DEFINE t == Recorder(p)
               r == Aged(task[t], Load(task[t].branch), task[t].now, task[t].skip)
    <2>1. t \in Threads /\ IsTask(task[t])
        BY ThreadsAre DEF TasksOK
    <2>2. IsTask(r) /\ r.branch = task[t].branch /\ r.src = task[t].src /\ r.data.prints = task[t].found
        BY <2>1, AgedTask
    <2>3. /\ task[t].pc = "waiting" /\ lock = Free /\ WriteData(t, r)
          /\ UNCHANGED <<tree, head, stamps, inline>>
        BY <1>1 DEF UpdateFingerprints, At, world
    <2>4. r.data.prints \subseteq Findings
        BY <2>1, <2>2 DEF IsTask
    <2>5. WriteStep(t, r)
        <3> HIDE DEF r
        <3> QED
            BY <2>2, <2>3, <2>4 DEF WriteStep, Committing
    <2> QED
        BY <2>1, <2>5
<1>2. CASE SaveIfCurrent(p)
    <2> DEFINE t == Recapture(p)
    <2>1. t \in Threads /\ IsTask(task[t]) /\ t[2] = "recapture"
        BY ThreadsAre DEF TasksOK, Recapture
    <2>2. /\ task[t].pc = "waiting" /\ lock = Free /\ WriteData(t, task[t])
          /\ UNCHANGED <<tree, head, stamps, inline>>
        BY <1>2 DEF SaveIfCurrent, At, world
    <2>3. WriteStep(t, task[t])
        BY <2>1, <2>2 DEF WriteStep, Committing, Prepared
    <2> QED
        BY <2>1, <2>3
<1> QED
    BY <1>1, <1>2
-----------------------------------------------------------------------------
(* What every step says of the tasks.                                      *)

(* A step changes the task of one thread.                                  *)
LEMMA TasksAfter ==
    ASSUME TasksOK, NEW t \in Threads, NEW c, IsTask(c), task' = [task EXCEPT ![t] = c]
    PROVE  /\ task' = [u \in Threads |-> task'[u]]
           /\ task'[t] = c /\ IsTask(task[t])
           /\ \A u \in Threads : IsTask(task'[u])
           /\ \A u \in Threads \ {t} : task'[u] = task[u]
BY DEF TasksOK

(* Being a record depends on the task alone.                               *)
LEMMA IsTaskAfter ==
    ASSUME NEW u, IsTask(task'[u]) PROVE IsTask(task[u])'
BY DEF IsTask

(* The files are written by whoever holds the lock, and only it is writing. *)
DoomedBy(r) == Pruned(StampsWith(r))
HasData(b) == files[b].prints # NoPrints
Written(t) == LET r == task[t] IN
    /\ r.pc = "written" => \A b \in Branches : b \in inline \/ b = r.branch => HasData(b)
    /\ r.pc = "pruned" => /\ DoomedBy(r) \cap Indexed \subseteq torn
                          /\ \A b \in Branches \ DoomedBy(r) : b \in inline \/ b = r.branch => HasData(b)
DiskInv ==
    /\ TasksOK /\ LockOK
    /\ \A t \in Threads : Prepared(t, task[t]) /\ Written(t)
    /\ \A b \in Indexed \ (inline \cup torn) : HasData(b)

(* The index points to no branch without data.                             *)
LEMMA DiskImplies == DiskInv => IndexedHasData
<1> SUFFICES ASSUME DiskInv, NEW b \in Indexed \ torn PROVE Load(b).prints # NoPrints
    BY DEF IndexedHasData
<1>1. CASE b \in inline
    BY <1>1 DEF Load, LegacyData
<1>2. CASE b \notin inline
    BY <1>2 DEF Load, DiskInv, HasData
<1> QED
    BY <1>1, <1>2

(* At the start all data is still inline.                                  *)
LEMMA DiskInit == Init => DiskInv
<1> SUFFICES ASSUME Init PROVE DiskInv
    OBVIOUS
<1>1. TasksOK
    BY IdleIsTask DEF Init, TasksOK
<1>2. \A t \in Threads : task[t] = Idle
    BY DEF Init
<1>3. Indexed \subseteq inline
    BY DEF Init, Indexed
<1> QED
    BY <1>1, <1>2, <1>3, IdleIsTask DEF DiskInv, LockOK, Committing, Prepared, Written

(* Nobody is writing, or its lock is not given away, and the files stay.   *)
LEMMA DiskQuiet ==
    ASSUME DiskInv, NEW t \in Threads, NEW c, QuietStep(t, c) PROVE DiskInv'
<1>1. /\ task' = [u \in Threads |-> task'[u]]
      /\ task'[t] = c
      /\ \A u \in Threads : IsTask(task'[u])
      /\ \A u \in Threads \ {t} : task'[u] = task[u]
    BY TasksAfter DEF QuietStep, DiskInv
<1>2. TasksOK'
    BY <1>1, IsTaskAfter DEF QuietStep, DiskInv, TasksOK, disk
<1>3. LockOK'
    BY <1>1 DEF QuietStep, DiskInv, LockOK, Committing
<1>4. ASSUME NEW u \in Threads PROVE Prepared(u, task[u])'
    BY <1>1 DEF QuietStep, DiskInv, Prepared
<1>5. ASSUME NEW u \in Threads PROVE Written(u)'
    <2>1. CASE u = t
        BY <1>1, <2>1 DEF QuietStep, Committing, Written
    <2>2. CASE u # t
        BY ZenonT(30), <1>1, <2>2 DEF QuietStep, DiskInv, Written, HasData, DoomedBy, StampsWith, Indexed, disk
    <2> QED
        BY <2>1, <2>2
<1>6. (\A b \in Indexed \ (inline \cup torn) : HasData(b))'
    BY DEF QuietStep, DiskInv, HasData, Indexed, disk
<1> QED
    BY <1>2, <1>3, <1>4, <1>5, <1>6 DEF DiskInv

(* Taking the lock and writing: the data of inline branches moves out.     *)
LEMMA DiskWrite ==
    ASSUME DiskInv, NEW t \in Threads, NEW r, WriteStep(t, r) PROVE DiskInv'
<1> DEFINE c == [r EXCEPT !.pc = "written", !.expected = 0]
<1>1. Kept(r, c) /\ c.pc = "written" /\ task' = [task EXCEPT ![t] = c]
    BY WritingTask DEF WriteStep, WriteData, Become
<1> HIDE DEF c
<1>2. /\ task' = [u \in Threads |-> task'[u]]
      /\ task'[t] = c
      /\ \A u \in Threads : IsTask(task'[u])
      /\ \A u \in Threads \ {t} : task'[u] = task[u]
    BY <1>1, TasksAfter DEF Kept, DiskInv
<1>3. TasksOK'
    BY <1>2, IsTaskAfter DEF WriteStep, DiskInv, TasksOK
<1>4. \A u \in Threads \ {t} : ~Committing(task'[u])
    <2>1. \A u \in Threads : ~Committing(task[u])
        BY DEF DiskInv, LockOK, WriteStep
    <2> QED
        BY <1>2, <2>1
<1>5. lock' = t
    BY DEF WriteStep, WriteData
<1>6. LockOK'
    BY <1>4, <1>5 DEF LockOK, Committing
<1>7. ASSUME NEW u \in Threads PROVE Prepared(u, task[u])'
    BY <1>1, <1>2 DEF DiskInv, Prepared
<1>8. \A b \in Branches : b \in inline \/ b = r.branch => files'[b].prints # NoPrints
    BY DEF WriteStep, WriteData, LegacyData
<1>9. ASSUME NEW u \in Threads PROVE Written(u)'
    <2>1. CASE u = t
        BY <1>1, <1>2, <1>8, <2>1 DEF Written, HasData, Kept, WriteStep
    <2>2. CASE u # t
        BY <1>4, <2>2 DEF Written, Committing
    <2> QED
        BY <2>1, <2>2
<1>10. (\A b \in Indexed \ (inline \cup torn) : HasData(b))'
    <2> SUFFICES ASSUME NEW b \in Indexed', b \notin inline', b \notin torn' PROVE HasData(b)'
        OBVIOUS
    <2>1. b \in Branches /\ b \in Indexed /\ b \notin inline
        BY DEF WriteStep, Indexed
    <2>2. CASE b = r.branch
        BY <1>8, <2>1, <2>2 DEF HasData
    <2>3. CASE b # r.branch
        <3>1. b \notin torn
            BY <2>3 DEF WriteStep, WriteData
        <3>2. files'[b] = files[b]
            BY <2>1, <2>3 DEF WriteStep, WriteData
        <3> QED
            BY <2>1, <3>1, <3>2 DEF DiskInv, HasData
    <2> QED
        BY <2>2, <2>3
<1> QED
    BY <1>3, <1>6, <1>7, <1>9, <1>10 DEF DiskInv

(* Only the holder of the lock prunes, and what it prunes is torn.         *)
LEMMA DiskPrune ==
    ASSUME DiskInv, NEW t \in Threads, PruneFiles(t) PROVE DiskInv'
<1> DEFINE c == [task[t] EXCEPT !.pc = "pruned"]
           P == DoomedBy(task[t])
<1>1. IsTask(task[t]) /\ Kept(task[t], c) /\ c.pc = "pruned" /\ task' = [task EXCEPT ![t] = c]
    BY MovedTask DEF PruneFiles, Move, Become, DiskInv, TasksOK
<1> HIDE DEF c
<1>2. /\ task' = [u \in Threads |-> task'[u]]
      /\ task'[t] = c
      /\ \A u \in Threads : IsTask(task'[u])
      /\ \A u \in Threads \ {t} : task'[u] = task[u]
    BY <1>1, TasksAfter DEF Kept, DiskInv
<1>3. task[t].pc = "written" /\ UNCHANGED <<tree, head, stamps, inline, lock>>
    BY DEF PruneFiles, At, world
<1>4. TasksOK'
    BY <1>2, <1>3, IsTaskAfter DEF DiskInv, TasksOK
<1>5. LockOK' /\ \A u \in Threads \ {t} : ~Committing(task'[u])
    <2>1. lock = t
        BY <1>3 DEF DiskInv, LockOK, Committing
    <2> QED
        BY <1>2, <1>3, <2>1 DEF DiskInv, LockOK, Committing
<1>6. ASSUME NEW u \in Threads PROVE Prepared(u, task[u])'
    BY <1>1, <1>2 DEF DiskInv, Prepared
<1>7. /\ files' = [b \in Branches |-> IF b \in P THEN NoData ELSE files[b]]
      /\ torn' = torn \cup (P \cap Indexed)
    BY DEF PruneFiles, DoomedBy
<1>8. DoomedBy(task[t])' = P /\ Indexed' = Indexed
    BY <1>1, <1>2, <1>3 DEF DoomedBy, StampsWith, Indexed, Kept
<1> HIDE DEF P
<1>9. ASSUME NEW u \in Threads PROVE Written(u)'
    <2>1. CASE u = t
        <3>1. \A b \in Branches \ P : b \in inline \/ b = task[t].branch => files'[b].prints # NoPrints
            BY <1>3, <1>7 DEF DiskInv, Written, HasData
        <3>2. task'[t].branch = task[t].branch /\ task'[t].pc = "pruned"
            BY <1>1, <1>2 DEF Kept
        <3> QED
            BY <1>3, <1>7, <1>8, <2>1, <3>1, <3>2 DEF Written, HasData
    <2>2. CASE u # t
        BY <1>5, <2>2 DEF Written, Committing
    <2> QED
        BY <2>1, <2>2
<1>10. (\A b \in Indexed \ (inline \cup torn) : HasData(b))'
    <2> SUFFICES ASSUME NEW b \in Indexed', b \notin inline', b \notin torn' PROVE HasData(b)'
        OBVIOUS
    <2>1. b \in Indexed /\ b \notin inline /\ b \notin torn /\ b \notin P /\ b \in Branches
        BY <1>3, <1>7, <1>8 DEF Indexed
    <2> QED
        BY <1>7, <2>1 DEF DiskInv, HasData
<1> QED
    BY <1>4, <1>5, <1>6, <1>9, <1>10 DEF DiskInv

(* The index names a branch only if the branch keeps its file.             *)
LEMMA DiskIndex ==
    ASSUME DiskInv, NEW t \in Threads, WriteIndex(t) PROVE DiskInv'
<1> DEFINE c == [Idle EXCEPT !.pc = "committed", !.branch = task[t].branch, !.now = task[t].now]
           P == DoomedBy(task[t])
<1>1. IsTask(c) /\ c.pc = "committed" /\ task' = [task EXCEPT ![t] = c]
    BY DEF WriteIndex, Become, Idle, IsTask, Fields
<1> HIDE DEF c
<1>2. /\ task' = [u \in Threads |-> task'[u]]
      /\ task'[t] = c
      /\ \A u \in Threads : IsTask(task'[u])
      /\ \A u \in Threads \ {t} : task'[u] = task[u]
    BY <1>1, TasksAfter DEF DiskInv
<1>3. /\ task[t].pc = "pruned" /\ UNCHANGED <<tree, head, files>> /\ inline' = {}
      /\ stamps' = [b \in Branches |-> IF b \in P THEN 0 ELSE StampsWith(task[t])[b]]
      /\ torn' = torn \cap {b \in Branches : stamps'[b] # 0}
    BY DEF WriteIndex, At, TakeInline, world, DoomedBy
<1> HIDE DEF P
<1>4. \A u \in Threads : ~Committing(task'[u])
    <2>1. lock = t
        BY <1>3 DEF DiskInv, LockOK, Committing
    <2> QED
        BY <1>1, <1>2, <2>1 DEF DiskInv, LockOK, Committing
<1>5. \A u \in Threads : Prepared(u, task[u])' /\ Written(u)'
    BY <1>1, <1>2, <1>4 DEF DiskInv, Prepared, Written, Committing
<1>6. (\A b \in Indexed \ (inline \cup torn) : HasData(b))'
    <2> SUFFICES ASSUME NEW b \in Indexed', b \notin torn' PROVE HasData(b)'
        OBVIOUS
    <2>1. b \in Branches /\ stamps'[b] # 0 /\ b \notin P /\ b \notin torn
        BY <1>3 DEF Indexed
    <2>2. CASE b = task[t].branch \/ b \in inline
        BY <1>3, <2>1, <2>2 DEF DiskInv, Written, HasData, P
    <2>3. CASE b # task[t].branch /\ b \notin inline
        <3>1. b \in Indexed
            BY <1>3, <2>1, <2>3 DEF Indexed, StampsWith, DiskInv, TasksOK
        <3> QED
            BY <1>3, <2>1, <2>3, <3>1 DEF DiskInv, HasData
    <2> QED
        BY <2>2, <2>3
<1>7. TasksOK'
    <2>1. stamps' = [b \in Branches |-> stamps'[b]]
        BY <1>3
    <2> QED
        BY <1>2, <1>3, <2>1, IsTaskAfter DEF DiskInv, TasksOK
<1> QED
    BY <1>4, <1>5, <1>6, <1>7 DEF DiskInv, LockOK

(* The developer's steps write no file and leave the tasks alone.          *)
DeveloperStep ==
    /\ UNCHANGED <<disk, lock, task, torn>>
    /\ tree' \in [Branches \cup {Detached} -> SUBSET Findings]
    /\ head' \in Branches \cup {Detached}

(* What the developer's steps leave alone.                                 *)
LEMMA Developing ==
    ASSUME TasksOK, Edit \/ Checkout \/ Triage \/ UNCHANGED vars
    PROVE  DeveloperStep
<1>1. CASE Edit
    <2>1. PICK f \in Findings :
              tree' = [tree EXCEPT ![head] = IF f \in @ THEN @ \ {f} ELSE @ \cup {f}]
        BY <1>1 DEF Edit
    <2>2. tree' \in [Branches \cup {Detached} -> SUBSET Findings]
        BY <2>1 DEF TasksOK
    <2> QED
        BY <1>1, <2>2 DEF Edit, TasksOK, DeveloperStep, history
<1>2. CASE Checkout \/ Triage \/ UNCHANGED vars
    BY <1>2 DEF Checkout, Triage, vars, world, TasksOK, DeveloperStep, history
<1> QED
    BY <1>1, <1>2

(* The developer disturbs no file of the store.                            *)
LEMMA DiskDeveloper ==
    ASSUME DiskInv, DeveloperStep PROVE DiskInv'
<1>1. TasksOK'
    BY DEF DiskInv, TasksOK, IsTask, DeveloperStep, disk
<1>2. \A t \in Threads : Prepared(t, task[t])' /\ Written(t)'
    BY DEF DiskInv, Prepared, Written, HasData, DoomedBy, StampsWith, Indexed, DeveloperStep, disk
<1>3. (\A b \in Indexed \ (inline \cup torn) : HasData(b))' /\ LockOK'
    BY DEF DiskInv, LockOK, Committing, HasData, Indexed, DeveloperStep, disk
<1> QED
    BY <1>1, <1>2, <1>3 DEF DiskInv

(* A process dies: its threads are idle, and the lock is free if it held it. *)
CrashStep(p) ==
    /\ task' = [task EXCEPT ![Recorder(p)] = Idle, ![Recapture(p)] = Idle]
    /\ lock' = IF lock \in {Recorder(p), Recapture(p)} THEN Free ELSE lock
    /\ UNCHANGED <<tree, head, disk, torn>>

(* What a crash leaves alone.                                              *)
LEMMA Crashing ==
    ASSUME NEW p \in Processes, Crash(p) PROVE CrashStep(p)
BY DEF Crash, CrashStep, world, history

(* A crash leaves the files as they are, whatever was half done.           *)
LEMMA DiskCrash ==
    ASSUME DiskInv, NEW p \in Processes, CrashStep(p) PROVE DiskInv'
<1>1. /\ task' = [u \in Threads |-> task'[u]]
      /\ \A u \in Threads : task'[u] = IF u \in {Recorder(p), Recapture(p)} THEN Idle ELSE task[u]
    BY ThreadsAre DEF DiskInv, TasksOK, CrashStep
<1>2. TasksOK'
    <2>1. \A u \in Threads : IsTask(task'[u])
        BY <1>1, IdleIsTask DEF DiskInv, TasksOK
    <2> QED
        BY <1>1, <2>1, IsTaskAfter DEF DiskInv, TasksOK, CrashStep, disk
<1>3. LockOK'
    BY <1>1, IdleIsTask DEF DiskInv, LockOK, Committing, CrashStep
<1>4. ASSUME NEW u \in Threads PROVE Prepared(u, task[u])' /\ Written(u)'
    <2>1. CASE u \in {Recorder(p), Recapture(p)}
        <3>1. task'[u] = Idle /\ task'[u].pc = "idle"
            BY <1>1, <2>1, IdleIsTask
        <3> QED
            BY <3>1 DEF Prepared, Written
    <2>2. CASE u \notin {Recorder(p), Recapture(p)}
        <3>1. Prepared(u, task[u]) /\ Written(u) /\ task'[u] = task[u]
            BY <1>1, <2>2 DEF DiskInv
        <3>2. UNCHANGED <<files, stamps, inline, torn>>
            BY DEF CrashStep, disk
        <3>3. (DoomedBy(task[u]) \cap Indexed)' = DoomedBy(task[u]) \cap Indexed /\ DoomedBy(task[u])' = DoomedBy(task[u])
            BY <3>1, <3>2 DEF DoomedBy, StampsWith, Indexed
        <3> QED
            BY <3>1, <3>2, <3>3 DEF Prepared, Written, HasData
    <2> QED
        BY <2>1, <2>2
<1>5. (\A b \in Indexed \ (inline \cup torn) : HasData(b))'
    BY DEF DiskInv, HasData, Indexed, CrashStep, disk
<1> QED
    BY <1>2, <1>3, <1>4, <1>5 DEF DiskInv

(* Every step is of one of these kinds.                                    *)
LEMMA Steps ==
    ASSUME TasksOK, [Next]_vars, \A t \in Threads : Prepared(t, task[t])
    PROVE  \/ DeveloperStep
           \/ \E t \in Threads : \E c : QuietStep(t, c)
           \/ \E t \in Threads : \E r : WriteStep(t, r)
           \/ \E t \in Threads : PruneFiles(t) \/ WriteIndex(t)
           \/ \E p \in Processes : CrashStep(p)
<1>1. CASE Edit \/ Checkout \/ Triage \/ UNCHANGED vars
    BY <1>1, Developing
<1>2. ASSUME NEW p \in Processes,
             Scan(p) \/ RecordDetached(p) \/ ResolveBranch(p) \/ RecordGivesUp(p) \/ SetBaseline(p)
      PROVE  \E t \in Threads : \E c : QuietStep(t, c)
    BY <1>2, RecorderQuiet
<1>3. ASSUME NEW p \in Processes,
             \/ Begin(p) \/ Abandon(p) \/ Confirm(p) \/ ScanAgain(p) \/ ScanFails(p) \/ LoadPrints(p)
             \/ LoadHistory(p) \/ SaveRefused(p) \/ RecaptureGivesUp(p) \/ FinishRecapture(p)
      PROVE  \E t \in Threads : \E c : QuietStep(t, c)
    BY <1>3, RecaptureQuiet
<1>4. ASSUME NEW p \in Processes, UpdateFingerprints(p) \/ SaveIfCurrent(p)
      PROVE  \E t \in Threads : \E r : WriteStep(t, r)
    BY <1>4, Writes, ThreadsAre
<1>5. ASSUME NEW p \in Processes, Crash(p) PROVE CrashStep(p)
    BY <1>5, Crashing
<1> QED
    BY <1>1, <1>2, <1>3, <1>4, <1>5 DEF Next, Record, Rescan

(* Every step keeps the index and the files consistent.                    *)
LEMMA DiskNext == DiskInv /\ [Next]_vars => DiskInv'
<1> SUFFICES ASSUME DiskInv, [Next]_vars PROVE DiskInv'
    OBVIOUS
<1>1. \/ DeveloperStep
      \/ \E t \in Threads : \E c : QuietStep(t, c)
      \/ \E t \in Threads : \E r : WriteStep(t, r)
      \/ \E t \in Threads : PruneFiles(t) \/ WriteIndex(t)
      \/ \E p \in Processes : CrashStep(p)
    BY Steps DEF DiskInv
<1> QED
    BY <1>1, DiskDeveloper, DiskQuiet, DiskWrite, DiskPrune, DiskIndex, DiskCrash

(* Wherever processes die between the steps of `commit`, a branch that the *)
(* index names has its data, in its file or inline, unless it was being    *)
(* pruned (store_baselines.rs, take and commit).                           *)
THEOREM IndexKeepsData == Spec => []IndexedHasData
BY DiskInit, DiskNext, DiskImplies, PTL DEF Spec

-----------------------------------------------------------------------------
(* The prints of what was stored; none if there was no file.               *)
Prints(d) == IF d.prints = NoPrints THEN {} ELSE d.prints

IsData(d) ==
    /\ d = [prints |-> d.prints, bank |-> d.bank, version |-> d.version]
    /\ Prints(d) \subseteq Findings /\ DOMAIN d.bank \subseteq Findings
    /\ d.version \in 0 .. edits

(* A task still to commit at its second, and one that keeps the second.    *)
Owes(r) == r.pc \in {"waiting", "written", "pruned"}
Pending(r) == Owes(r) \/ r.pc = "committed"

(* A recapture under way, that has not written yet.                        *)
Rescanning(r) == r.pc \in {"candidate", "checked", "rescanned", "fresh", "loaded"}
Ready(t) == t[2] = "recapture" /\ task[t].pc = "waiting"
Diffed(t) == Ready(t) \/ Committing(task[t])

(* What `age` gives: no finding both counts and is in the prints, or comes *)
(* back and stays in the bank.                                             *)
Outcome(r) ==
    /\ IsData(r.data) /\ r.resolved \subseteq Findings /\ r.back \subseteq Findings
    /\ r.resolved \cap Prints(r.data) = {}
    /\ r.back \cap r.resolved = {} /\ r.back \cap DOMAIN r.data.bank = {}

(* The files while their writer holds the lock.                            *)
Held(r) ==
    \A b \in Branches :
        \/ files[b] = NoData
        \/ /\ b = r.branch => files[b] = r.data
           /\ b # r.branch /\ b \in inline => files[b] = LegacyData

Named(r) == r.pc \notin {"idle", "snapshot"} => r.branch \in Branches

DataTask(t) ==
    LET r == task[t] IN
    /\ Named(r) /\ r.version \in 0 .. edits
    /\ r.pc = "loaded" \/ Ready(t) => IsData(r.prev)
    /\ Diffed(t) => Outcome(r)
    /\ Committing(r) => Held(r)

DataInv ==
    /\ edits \in Nat /\ crashes \in Nat
    /\ files = [b \in Branches |-> files[b]] /\ inline \subseteq Branches
    /\ resolvedFor \in [Branches -> [Findings -> Nat]]
    /\ surplus \in [Branches -> [Findings -> Int]]
    /\ \A b \in Branches : IsData(files[b])
    /\ \A t \in Threads : DataTask(t)

StampInv ==
    /\ clock \in Nat \ {0}
    /\ base = [p \in Processes |-> base[p]]
    /\ \A p \in Processes :
        /\ base[p] = [ts |-> base[p].ts, branch |-> base[p].branch]
        /\ base[p].ts \in Nat
        /\ base[p] # NoBase => base[p].ts # 0 /\ base[p].branch \in Branches
    /\ \A t \in Threads :
        /\ task[t].expected \in Nat
        /\ Rescanning(task[t]) \/ Ready(t) => task[t].expected # 0
        /\ Pending(task[t]) => task[t].now \in Nat \ {0}

(* Findings whose resolution was not counted since they were recorded.     *)
Uncounted(b, S) == \A f \in S : resolvedFor[b][f] = 0
Current(r) == stamps[r.branch] = r.expected

OnceTask(t) ==
    LET r == task[t] IN
    r.branch \notin raced =>
        /\ r.pc = "loaded" /\ Current(r) => Uncounted(r.branch, Prints(r.prev))
        /\ Ready(t) /\ Current(r) => Uncounted(r.branch, r.resolved)
        /\ Committing(r) => Uncounted(r.branch, r.resolved) /\ Uncounted(r.branch, Prints(r.data))

OnceInv ==
    /\ ResolvedOnce
    /\ \A b \in Branches \ raced :
          Uncounted(b, Prints(Load(b))) /\ (b \in inline => Uncounted(b, Findings))
    /\ \A t \in Threads : OnceTask(t)

(* Findings with a resolution that no reintroduction has answered yet.     *)
Owed(b, S) == \A f \in S : surplus[b][f] >= 1
InFlight(b) == \E t \in Threads : Committing(task[t]) /\ task[t].branch = b
Settled(r) == Current(r) /\ ~InFlight(r.branch)

PairTask(t) ==
    LET r == task[t] IN
    r.branch \notin raced /\ ((Ready(t) /\ Settled(r)) \/ Committing(r)) =>
        Owed(r.branch, r.back) /\ Owed(r.branch, DOMAIN r.data.bank \ r.resolved)

PairInv ==
    crashes = 0 =>
        /\ \A b \in Branches \ raced, f \in Findings : surplus[b][f] >= 0
        /\ \A b \in Branches \ raced : ~InFlight(b) => Owed(b, DOMAIN Load(b).bank)
        /\ \A t \in Threads : PairTask(t)

ForwardTask(t) ==
    LET r == task[t] IN
    r.branch \notin raced =>
        /\ r.pc \in {"rescanned", "fresh"} /\ Settled(r) => Load(r.branch).version <= r.version
        /\ (r.pc = "loaded" \/ Ready(t)) /\ Settled(r) => r.prev.version <= r.version
        /\ t[2] = "recapture" /\ Committing(r) => r.prev.version <= r.version

ForwardInv == crashes = 0 => \A t \in Threads : ForwardTask(t)

-----------------------------------------------------------------------------
(* What a step that writes no file makes of a task, and of the seconds.    *)

QuietFrame(t, c) ==
    /\ task' = [task EXCEPT ![t] = c] /\ IsTask(c)
    /\ UNCHANGED <<disk, lock, resolvedFor, surplus, edits, raced, crashes>>
    /\ ~Committing(task[t]) /\ ~Committing(c)
    /\ Named(c) /\ c.version \in 0 .. edits

Same(r, c) == c.branch = r.branch /\ c.expected = r.expected /\ c.version = r.version

(* What a recapture counts comes from what it loaded.                      *)
FromPrev(c) ==
    /\ c.resolved \subseteq Prints(c.prev) /\ c.back \subseteq DOMAIN c.prev.bank
    /\ DOMAIN c.data.bank \ c.resolved \subseteq DOMAIN c.prev.bank

AtEase(t, c) ==
    \/ c.pc \in {"idle", "snapshot", "candidate", "checked", "committed"}
    \/ c.pc = "waiting" /\ t[2] # "recapture"
Rescans(r, c) == r.pc = "checked" /\ c.pc = "rescanned" /\ c.version = edits
Confirms(r, c) == r.pc = "rescanned" /\ c.pc = "fresh" /\ Same(r, c)
Loads(r, c) == r.pc = "fresh" /\ c.pc = "loaded" /\ Same(r, c) /\ c.prev = [Load(r.branch) EXCEPT !.bank = EmptyBank]
Prepares(r, c) ==
    /\ r.pc = "loaded" /\ c.pc = "waiting" /\ Same(r, c)
    /\ c.prev = [r.prev EXCEPT !.bank = Load(r.branch).bank]
    /\ IsData(c.prev) => Outcome(c) /\ FromPrev(c)

QuietKind(t, c) ==
    \/ AtEase(t, c)
    \/ Rescans(task[t], c) \/ Confirms(task[t], c) \/ Loads(task[t], c) \/ Prepares(task[t], c)

(* A task goes on with the second and the baseline it had, or gives them up. *)
Continues(t, c) ==
    LET r == task[t] IN
    /\ base' = base
    /\ Pending(c) => Pending(r) /\ c.now = r.now
    /\ c.expected \in {0, r.expected}
    /\ Rescanning(c) \/ (t[2] = "recapture" /\ c.pc = "waiting") => Rescanning(r) /\ c.expected = r.expected

(* A recapture begins: it expects the baseline of its process.             *)
Begins(t, c) ==
    /\ base' = base
    /\ c.pc = "candidate"
    /\ \E p \in Processes : base[p] # NoBase /\ c.expected = base[p].ts

(* A recording gets a second.                                              *)
Stamps(t, c) ==
    /\ base' = base
    /\ c.pc = "waiting" /\ c.now \in Nat \ {0} /\ c.expected = task[t].expected
    /\ t[2] = "recapture" => Rescanning(task[t])

(* A task is over, and the baseline of its process may move to a second.   *)
BaseMoves(p, ts) ==
    \/ base' = base
    \/ \E x \in Branches : base' = [base EXCEPT ![p] = [ts |-> ts, branch |-> x]]
Closes(t, c) == c = Idle /\ \E p \in Processes, ts \in Nat \ {0} : BaseMoves(p, ts)

ClockKind(t, c) ==
    /\ clock' \in Nat \ {0}
    /\ Continues(t, c) \/ Begins(t, c) \/ Stamps(t, c) \/ Closes(t, c)

QuietMove(t, c) == QuietFrame(t, c) /\ QuietKind(t, c) /\ ClockKind(t, c)

(* What is known before a step.                                            *)
Known == DiskInv /\ DataInv /\ StampInv

-----------------------------------------------------------------------------
(* `age` counts what was in the prints and is not found, and what was in   *)
(* the bank and is found; the bank keeps the rest.                         *)
LEMMA AgeIs ==
    ASSUME NEW prev, NEW found, NEW now, NEW skip
    PROVE  LET a == Age(prev, found, now, skip)
           IN  /\ a.resolved = (Prints(prev) \ found) \ skip
               /\ a.back \subseteq DOMAIN prev.bank /\ a.back \subseteq found
               /\ DOMAIN a.bank \subseteq (DOMAIN prev.bank \ found) \cup a.resolved
BY DEF Age, Prints

(* What diffing makes of a task.                                           *)
LEMMA AgedIs ==
    ASSUME NEW r, IsTask(r), r.version \in 0 .. edits, NEW prev, NEW now, NEW skip
    PROVE  LET c == Aged(r, prev, now, skip)
           IN  /\ IsTask(c) /\ Same(r, c) /\ c.now = now
               /\ IsData(prev) => Outcome(c)
               /\ c.data.prints = r.found /\ c.data.version = r.version
               /\ c.resolved \subseteq Prints(prev) /\ c.back \subseteq DOMAIN prev.bank
               /\ DOMAIN c.data.bank \ c.resolved \subseteq DOMAIN prev.bank
<1> DEFINE a == Age(prev, r.found, now, skip)
           c == Aged(r, prev, now, skip)
<1>1. /\ a.resolved = (Prints(prev) \ r.found) \ skip
      /\ a.back \subseteq DOMAIN prev.bank /\ a.back \subseteq r.found
      /\ DOMAIN a.bank \subseteq (DOMAIN prev.bank \ r.found) \cup a.resolved
    BY AgeIs
<1>2. c = [r EXCEPT !.found = {}, !.skip = {}, !.now = now, !.resolved = a.resolved, !.back = a.back,
                    !.data = [prints |-> r.found, bank |-> a.bank, version |-> r.version]]
    BY DEF Aged
<1> HIDE DEF a, c
<1>3. /\ IsTask(c) /\ Same(r, c) /\ c.now = now /\ c.resolved = a.resolved /\ c.back = a.back
      /\ c.data = [prints |-> r.found, bank |-> a.bank, version |-> r.version]
    BY <1>2 DEF IsTask, Fields, Same
<1>4. Prints(c.data) = r.found /\ r.found \subseteq Findings
    <2>1. r.found \in SUBSET Findings /\ c.data.prints = r.found
        BY <1>3 DEF IsTask
    <2>2. r.found # NoPrints
        BY <2>1
    <2> QED
        BY <2>1, <2>2 DEF Prints
<1>5. IsData(prev) => Outcome(c)
    <2> SUFFICES ASSUME IsData(prev) PROVE Outcome(c)
        OBVIOUS
    <2>1. DOMAIN a.bank \subseteq Findings /\ a.resolved \subseteq Findings /\ a.back \subseteq Findings
        BY <1>1 DEF IsData
    <2>2. IsData(c.data)
        BY <1>3, <1>4, <2>1 DEF IsData
    <2> QED
        BY <1>1, <1>3, <1>4, <2>1, <2>2 DEF Outcome
<1> QED
    BY <1>1, <1>3, <1>5 DEF c

(* Clocks show a second.                                                   *)
LEMMA NowIs ==
    ASSUME StampInv, NEW now \in Now PROVE now \in Nat \ {0}
BY DEF Now, StampInv

(* What a thread at rest has.                                              *)
LEMMA IdleIs == /\ IsTask(Idle) /\ Idle.pc = "idle" /\ Idle.expected = 0 /\ Idle.version = 0
                /\ Named(Idle) /\ ~Committing(Idle) /\ ~Pending(Idle) /\ ~Rescanning(Idle)
BY DEF Idle, IsTask, Fields, Named, Committing, Pending, Owes, Rescanning

(* Giving up is a quiet step.                                              *)
LEMMA GivesUp ==
    ASSUME Known, NEW t \in Threads, ~Committing(task[t]), Become(t, Idle), clock' \in Nat \ {0},
           UNCHANGED <<disk, lock, resolvedFor, surplus, edits, raced, crashes, base>>
    PROVE  QuietMove(t, Idle)
<1>1. QuietFrame(t, Idle)
    BY IdleIs DEF QuietFrame, Become, Known, DataInv
<1>2. QuietKind(t, Idle)
    BY IdleIs DEF QuietKind, AtEase
<1>3. ClockKind(t, Idle)
    BY IdleIs DEF ClockKind, Continues, Pending, Owes
<1> QED
    BY <1>1, <1>2, <1>3 DEF QuietMove

(* The steps of record_scan that write no file.                            *)
LEMMA RecorderMoves ==
    ASSUME Known, NEW p \in Processes,
           Scan(p) \/ RecordDetached(p) \/ ResolveBranch(p) \/ RecordGivesUp(p) \/ SetBaseline(p)
    PROVE  \E t \in Threads : \E c : QuietMove(t, c)
<1> DEFINE t == Recorder(p)
<1>1. t \in Threads /\ IsTask(task[t]) /\ t[2] # "recapture"
    BY ThreadsAre DEF Known, DiskInv, TasksOK, Recorder
<1>2. CASE Scan(p)
    <2> DEFINE c == [Idle EXCEPT !.pc = "snapshot", !.found = Reported, !.src = head, !.version = edits]
    <2>1. IsTask(c) /\ c.pc = "snapshot" /\ c.version = edits /\ c.expected = 0
        BY ReportedAreFindings DEF Idle, IsTask, Fields, Known, DiskInv
    <2>2. /\ task' = [task EXCEPT ![t] = c] /\ ~Committing(task[t])
          /\ UNCHANGED <<disk, lock, resolvedFor, surplus, edits, raced, crashes, base, clock>>
        BY <1>2 DEF Scan, At, Committing, world, history, Become
    <2> HIDE DEF c
    <2>3. QuietFrame(t, c) /\ QuietKind(t, c)
        BY <2>1, <2>2 DEF QuietFrame, QuietKind, AtEase, Committing, Named, Known, DataInv
    <2>4. ClockKind(t, c)
        BY <2>1, <2>2 DEF ClockKind, Continues, Pending, Owes, Rescanning, Known, StampInv
    <2> QED
        BY <1>1, <2>3, <2>4 DEF QuietMove
<1>3. CASE ResolveBranch(p)
    <2>1. PICK now \in Now :
              /\ Become(t, [task[t] EXCEPT !.pc = "waiting", !.branch = head, !.now = now, !.skip = ignored])
              /\ clock' = now
        BY <1>3 DEF ResolveBranch
    <2> DEFINE c == [task[t] EXCEPT !.pc = "waiting", !.branch = head, !.now = now, !.skip = ignored]
    <2>2. /\ IsTask(c) /\ c.pc = "waiting" /\ c.branch = head /\ c.now = now
          /\ c.version = task[t].version /\ c.expected = task[t].expected
        BY <1>1 DEF IsTask, Fields
    <2>3. /\ task' = [task EXCEPT ![t] = c] /\ ~Committing(task[t]) /\ head \in Branches
          /\ UNCHANGED <<disk, lock, resolvedFor, surplus, edits, raced, crashes, base>>
        BY <1>3, <2>1 DEF ResolveBranch, At, Committing, world, history, Become, Known, DiskInv, TasksOK
    <2>4. now \in Nat \ {0} /\ clock' \in Nat \ {0}
        BY <2>1, NowIs DEF Known
    <2> HIDE DEF c
    <2>5. QuietFrame(t, c) /\ QuietKind(t, c)
        BY <1>1, <2>2, <2>3 DEF QuietFrame, QuietKind, AtEase, Committing, Named, Known, DataInv, DataTask
    <2>6. ClockKind(t, c)
        BY <1>1, <2>1, <2>2, <2>3, <2>4 DEF ClockKind, Stamps
    <2> QED
        BY <1>1, <2>5, <2>6 DEF QuietMove
<1>4. CASE RecordGivesUp(p)
    <2> DEFINE c == [Idle EXCEPT !.pc = "committed", !.branch = task[t].branch, !.now = task[t].now]
    <2>1. /\ IsTask(c) /\ c.pc = "committed" /\ c.branch = task[t].branch /\ c.now = task[t].now
          /\ c.version = 0 /\ c.expected = 0
        BY DEF Idle, IsTask, Fields
    <2>2. /\ task' = [task EXCEPT ![t] = c] /\ task[t].pc = "waiting" /\ clock' = clock + 1
          /\ UNCHANGED <<disk, lock, resolvedFor, surplus, edits, raced, crashes, base>>
        BY <1>4 DEF RecordGivesUp, At, world, history, Become
    <2> HIDE DEF c
    <2>3. QuietFrame(t, c) /\ QuietKind(t, c)
        BY <1>1, <2>1, <2>2 DEF QuietFrame, QuietKind, AtEase, Committing, Named, Known, DataInv, DataTask
    <2>4. ClockKind(t, c)
        BY <1>1, <2>1, <2>2 DEF ClockKind, Continues, Pending, Owes, Rescanning, Known, StampInv
    <2> QED
        BY <1>1, <2>3, <2>4 DEF QuietMove
<1>5. CASE RecordDetached(p)
    <2>1. /\ Become(t, Idle) /\ ~Committing(task[t]) /\ clock' = clock
          /\ UNCHANGED <<disk, lock, resolvedFor, surplus, edits, raced, crashes, base>>
        BY <1>5 DEF RecordDetached, At, Committing, world, history
    <2> QED
        BY <1>1, <2>1, GivesUp DEF Known, StampInv
<1>6. CASE SetBaseline(p)
    <2>1. /\ Become(t, Idle) /\ task[t].pc = "committed" /\ clock' = clock
          /\ base' = [base EXCEPT ![p] = [ts |-> task[t].now, branch |-> task[t].branch]]
          /\ UNCHANGED <<disk, lock, resolvedFor, surplus, edits, raced, crashes>>
        BY <1>6 DEF SetBaseline, At, world, history
    <2>2. QuietFrame(t, Idle) /\ QuietKind(t, Idle)
        BY <1>1, <2>1, IdleIs DEF QuietFrame, QuietKind, AtEase, Become, Committing, Known, DataInv
    <2>3. task[t].branch \in Branches
        BY <1>1, <2>1 DEF Known, DataInv, DataTask, Named
    <2>4. BaseMoves(p, task[t].now)
        BY <2>1, <2>3 DEF BaseMoves
    <2>5. ClockKind(t, Idle)
        BY <1>1, <2>1, <2>4 DEF ClockKind, Closes, Pending, Known, StampInv
    <2> QED
        BY <1>1, <2>2, <2>5 DEF QuietMove
<1> QED
    BY <1>2, <1>3, <1>4, <1>5, <1>6

(* mark_rescanned moves the time of a baseline, if there is one.           *)
LEMMA Marked ==
    ASSUME StampInv, NEW p \in Processes, NEW ts, MarkRescanned(p, ts) PROVE BaseMoves(p, ts)
<1>1. CASE base[p] = NoBase
    BY <1>1 DEF MarkRescanned, BaseMoves
<1>2. CASE base[p] # NoBase
    <2>1. base' = [base EXCEPT ![p] = [base[p] EXCEPT !.ts = ts]]
        BY <1>2 DEF MarkRescanned
    <2>2. base[p] = [ts |-> base[p].ts, branch |-> base[p].branch] /\ base[p].branch \in Branches
        BY <1>2 DEF StampInv
    <2>3. [base[p] EXCEPT !.ts = ts] = [ts |-> ts, branch |-> base[p].branch]
        BY <2>2
    <2> QED
        BY <2>1, <2>2, <2>3 DEF BaseMoves
<1> QED
    BY <1>1, <1>2

(* The recapture's steps that write no file.                               *)
LEMMA RecaptureMoves ==
    ASSUME Known, NEW p \in Processes,
           \/ Begin(p) \/ Abandon(p) \/ Confirm(p) \/ ScanAgain(p) \/ ScanFails(p) \/ LoadPrints(p)
           \/ LoadHistory(p) \/ SaveRefused(p) \/ RecaptureGivesUp(p) \/ FinishRecapture(p)
    PROVE  \E t \in Threads : \E c : QuietMove(t, c)
<1> DEFINE t == Recapture(p)
           r == task[t]
<1>1. t \in Threads /\ IsTask(r) /\ t[2] = "recapture" /\ Named(r) /\ r.version \in 0 .. edits
    BY ThreadsAre DEF Known, DiskInv, TasksOK, Recapture, DataInv, DataTask
<1>2. clock \in Nat \ {0} /\ clock + 1 \in Nat \ {0}
    BY DEF Known, StampInv
<1>3. CASE Begin(p)
    <2> DEFINE c == [Idle EXCEPT !.pc = "candidate", !.branch = base[p].branch, !.expected = base[p].ts]
    <2>1. /\ IsTask(c) /\ c.pc = "candidate" /\ c.branch = base[p].branch /\ c.expected = base[p].ts
          /\ c.version = 0
        BY DEF Idle, IsTask, Fields
    <2>2. /\ task' = [task EXCEPT ![t] = c] /\ ~Committing(task[t]) /\ base[p] # NoBase
          /\ UNCHANGED <<disk, lock, resolvedFor, surplus, edits, raced, crashes, base, clock>>
        BY <1>3 DEF Begin, At, Committing, world, history, Become
    <2> HIDE DEF c
    <2>3. QuietFrame(t, c) /\ QuietKind(t, c)
        BY <2>1, <2>2 DEF QuietFrame, QuietKind, AtEase, Committing, Named, Known, DataInv, StampInv
    <2>4. ClockKind(t, c)
        BY <1>2, <2>1, <2>2 DEF ClockKind, Begins
    <2> QED
        BY <1>1, <2>3, <2>4 DEF QuietMove
<1>4. CASE Confirm(p)
    <2>1. PICK step \in {<<"candidate", "checked">>, <<"rescanned", "fresh">>} :
              r.pc = step[1] /\ Become(t, [r EXCEPT !.pc = step[2]])
        BY <1>4 DEF Confirm, At, Move
    <2> DEFINE c == [r EXCEPT !.pc = step[2]]
    <2>2. IsTask(c) /\ c.pc = step[2] /\ Same(r, c) /\ c.now = r.now
        BY <1>1 DEF IsTask, Fields, Same
    <2>3. /\ task' = [task EXCEPT ![t] = c]
          /\ UNCHANGED <<disk, lock, resolvedFor, surplus, edits, raced, crashes, base, clock>>
        BY <1>4, <2>1 DEF Confirm, world, history, Become
    <2> HIDE DEF c
    <2>4. QuietFrame(t, c)
        BY <1>1, <2>1, <2>2, <2>3 DEF QuietFrame, Committing, Named, Same
    <2>5. QuietKind(t, c)
        BY <2>1, <2>2 DEF QuietKind, AtEase, Confirms
    <2>6. ClockKind(t, c)
        BY <1>2, <2>1, <2>2, <2>3 DEF ClockKind, Continues, Pending, Owes, Rescanning, Same
    <2> QED
        BY <1>1, <2>4, <2>5, <2>6 DEF QuietMove
<1>5. CASE ScanAgain(p)
    <2> DEFINE c == [r EXCEPT !.pc = "rescanned", !.found = Reported, !.src = head, !.version = edits]
    <2>1. /\ IsTask(c) /\ c.pc = "rescanned" /\ c.branch = r.branch /\ c.expected = r.expected
          /\ c.version = edits
        BY <1>1, ReportedAreFindings DEF IsTask, Fields, Known, DiskInv
    <2>2. /\ task' = [task EXCEPT ![t] = c] /\ r.pc = "checked"
          /\ UNCHANGED <<disk, lock, resolvedFor, surplus, edits, raced, crashes, base, clock>>
        BY <1>5 DEF ScanAgain, At, world, history, Become
    <2> HIDE DEF c
    <2>3. QuietFrame(t, c) /\ QuietKind(t, c)
        BY <1>1, <2>1, <2>2 DEF QuietFrame, QuietKind, Rescans, Committing, Named, Known, DataInv
    <2>4. ClockKind(t, c)
        BY <1>2, <2>1, <2>2 DEF ClockKind, Continues, Pending, Owes, Rescanning
    <2> QED
        BY <1>1, <2>3, <2>4 DEF QuietMove
<1>6. CASE LoadPrints(p)
    <2> DEFINE prev == [Load(r.branch) EXCEPT !.bank = EmptyBank]
               c == [r EXCEPT !.pc = "loaded", !.prev = prev]
    <2>1. /\ r.pc = "fresh" /\ clock' = clock
          /\ UNCHANGED <<disk, lock, resolvedFor, surplus, edits, raced, crashes, base>>
        BY <1>6 DEF LoadPrints, At, world, history
    <2>2. Become(t, Idle) \/ Become(t, c)
        BY <1>6 DEF LoadPrints
    <2>3. CASE Become(t, Idle)
        BY <1>1, <1>2, <2>1, <2>3, GivesUp DEF Committing
    <2>4. CASE Become(t, c)
        <3> HIDE DEF prev
        <3>1. IsTask(c) /\ c.pc = "loaded" /\ Same(r, c) /\ c.prev = prev /\ c.now = r.now
            BY <1>1 DEF IsTask, Fields, Same
        <3>2. task' = [task EXCEPT ![t] = c]
            BY <2>4 DEF Become
        <3> HIDE DEF c
        <3>3. QuietFrame(t, c)
            BY <1>1, <2>1, <3>1, <3>2 DEF QuietFrame, Committing, Named, Same
        <3>4. QuietKind(t, c)
            BY <2>1, <3>1 DEF QuietKind, Loads, prev
        <3>5. ClockKind(t, c)
            BY <1>2, <2>1, <3>1 DEF ClockKind, Continues, Pending, Owes, Rescanning, Same
        <3> QED
            BY <1>1, <3>3, <3>4, <3>5 DEF QuietMove
    <2> QED
        BY <2>2, <2>3, <2>4
<1>7. CASE LoadHistory(p)
    <2> DEFINE prev == [r.prev EXCEPT !.bank = Load(r.branch).bank]
    <2>1. PICK now \in Now :
              /\ Become(t, [Aged(r, prev, now, ignored) EXCEPT !.pc = "waiting", !.prev = prev])
              /\ clock' = now
        BY <1>7 DEF LoadHistory
    <2> DEFINE a == Aged(r, prev, now, ignored)
               c == [a EXCEPT !.pc = "waiting", !.prev = prev]
    <2> HIDE DEF prev
    <2>2. /\ IsTask(a) /\ Same(r, a) /\ a.now = now /\ (IsData(prev) => Outcome(a))
          /\ a.resolved \subseteq Prints(prev) /\ a.back \subseteq DOMAIN prev.bank
          /\ DOMAIN a.data.bank \ a.resolved \subseteq DOMAIN prev.bank
        BY <1>1, AgedIs
    <2> HIDE DEF a
    <2>3. /\ IsTask(c) /\ c.pc = "waiting" /\ Same(a, c) /\ c.now = now /\ c.prev = prev
          /\ c.resolved = a.resolved /\ c.back = a.back /\ c.data = a.data
        BY <2>2 DEF IsTask, Fields, Same
    <2>4. /\ task' = [task EXCEPT ![t] = c] /\ r.pc = "loaded"
          /\ UNCHANGED <<disk, lock, resolvedFor, surplus, edits, raced, crashes, base>>
        BY <1>7, <2>1 DEF LoadHistory, At, world, history, Become, a
    <2> HIDE DEF c
    <2>5. now \in Nat \ {0} /\ clock' \in Nat \ {0}
        BY <2>1, NowIs DEF Known
    <2>6. QuietFrame(t, c)
        BY <1>1, <2>2, <2>3, <2>4 DEF QuietFrame, Committing, Named, Same
    <2>7. QuietKind(t, c)
        <3>1. IsData(c.prev) => Outcome(c) /\ FromPrev(c)
            BY <2>2, <2>3 DEF Outcome, FromPrev
        <3>2. Same(r, c)
            BY <2>2, <2>3 DEF Same
        <3> QED
            BY <2>3, <2>4, <3>1, <3>2 DEF QuietKind, Prepares, prev
    <2>8. ClockKind(t, c)
        BY <1>1, <2>1, <2>2, <2>3, <2>4, <2>5 DEF ClockKind, Stamps, Rescanning, Same
    <2> QED
        BY <1>1, <2>6, <2>7, <2>8 DEF QuietMove
<1>8. CASE ScanFails(p) \/ RecaptureGivesUp(p)
    <2>1. /\ Become(t, Idle) /\ ~Committing(task[t]) /\ clock' \in {clock, clock + 1}
          /\ UNCHANGED <<disk, lock, resolvedFor, surplus, edits, raced, crashes, base>>
        BY <1>8 DEF ScanFails, RecaptureGivesUp, At, Committing, world, history
    <2> QED
        BY <1>1, <1>2, <2>1, GivesUp
<1>9. CASE Abandon(p) \/ SaveRefused(p)
    <2>1. /\ Become(t, Idle) /\ r.pc \in {"candidate", "rescanned", "waiting"} /\ MarkOnly(p)
          /\ UNCHANGED <<disk, lock, resolvedFor, surplus, edits, raced, crashes>>
        BY <1>9 DEF Abandon, SaveRefused, At, world, history
    <2>2. QuietFrame(t, Idle) /\ QuietKind(t, Idle)
        BY <1>1, <2>1, IdleIs DEF QuietFrame, QuietKind, AtEase, Become, Committing, Known, DataInv
    <2>3. PICK ts \in Now : MarkRescanned(p, ts) /\ clock' = ts
        BY <2>1 DEF MarkOnly
    <2>4. ts \in Nat \ {0} /\ clock' \in Nat \ {0}
        BY <2>3, NowIs DEF Known
    <2>5. BaseMoves(p, ts)
        BY <2>3, Marked DEF Known
    <2>6. ClockKind(t, Idle)
        BY <2>3, <2>4, <2>5 DEF ClockKind, Closes
    <2> QED
        BY <1>1, <2>2, <2>6 DEF QuietMove
<1>10. CASE FinishRecapture(p)
    <2>1. /\ Become(t, Idle) /\ r.pc = "committed" /\ MarkRescanned(p, r.now)
          /\ UNCHANGED <<disk, lock, resolvedFor, surplus, edits, raced, crashes, clock>>
        BY <1>10 DEF FinishRecapture, At, world, history
    <2>2. QuietFrame(t, Idle) /\ QuietKind(t, Idle)
        BY <1>1, <2>1, IdleIs DEF QuietFrame, QuietKind, AtEase, Become, Committing, Known, DataInv
    <2>3. BaseMoves(p, r.now)
        BY <2>1, Marked DEF Known
    <2>4. ClockKind(t, Idle)
        BY <1>1, <1>2, <2>1, <2>3 DEF ClockKind, Closes, Pending, Known, StampInv
    <2> QED
        BY <1>1, <2>2, <2>4 DEF QuietMove
<1> QED
    BY <1>3, <1>4, <1>5, <1>6, <1>7, <1>8, <1>9, <1>10

-----------------------------------------------------------------------------
(* What the clocks showed.                                                 *)

(* No process has a baseline at the start.                                 *)
LEMMA StampInit == Init => StampInv
<1> SUFFICES ASSUME Init PROVE StampInv
    OBVIOUS
<1>1. \A t \in Threads : task[t] = Idle
    BY DEF Init
<1>2. \A p \in Processes : base[p] = NoBase
    BY DEF Init
<1>3. NoBase.ts = 0 /\ NoBase = [ts |-> NoBase.ts, branch |-> NoBase.branch]
    BY DEF NoBase
<1>4. base = [p \in Processes |-> base[p]] /\ clock = 2
    BY DEF Init
<1> QED
    BY <1>1, <1>2, <1>3, <1>4, IdleIs DEF StampInv, Ready, Pending, Owes

(* A task and a baseline have a second, or none, when they move.           *)
LEMMA StampMove ==
    ASSUME TasksOK, StampInv, NEW t \in Threads, NEW c, IsTask(c), task' = [task EXCEPT ![t] = c],
           ClockKind(t, c)
    PROVE  StampInv'
<1>1. task'[t] = c /\ \A u \in Threads : u # t => task'[u] = task[u]
    BY TasksAfter
<1>2. ASSUME NEW u \in Threads
      PROVE  /\ task'[u].expected \in Nat
             /\ Rescanning(task[u])' \/ Ready(u)' => task'[u].expected # 0
             /\ Pending(task[u])' => task'[u].now \in Nat \ {0}
    <2>1. CASE u # t
        BY <1>1, <2>1 DEF StampInv, Rescanning, Ready, Pending, Owes
    <2>2. CASE u = t /\ Continues(t, c)
        BY <1>1, <2>2 DEF StampInv, Continues, Rescanning, Ready, Pending, Owes
    <2>3. CASE u = t /\ Begins(t, c)
        BY <1>1, <2>3 DEF StampInv, Begins, Pending, Owes
    <2>4. CASE u = t /\ Stamps(t, c)
        BY <1>1, <2>4 DEF StampInv, Stamps, Rescanning, Ready
    <2>5. CASE u = t /\ Closes(t, c)
        BY <1>1, <2>5, IdleIs DEF Closes, Rescanning, Ready, Pending
    <2> QED
        BY <2>1, <2>2, <2>3, <2>4, <2>5 DEF ClockKind
<1>3. /\ base' = [q \in Processes |-> base'[q]]
      /\ \A q \in Processes :
            base'[q] = base[q] \/ \E x \in Branches, ts \in Nat \ {0} : base'[q] = [ts |-> ts, branch |-> x]
    BY DEF ClockKind, Continues, Begins, Stamps, Closes, BaseMoves, StampInv
<1>4. ASSUME NEW q \in Processes
      PROVE  /\ base'[q] = [ts |-> base'[q].ts, branch |-> base'[q].branch]
             /\ base'[q].ts \in Nat
             /\ base'[q] # NoBase => base'[q].ts # 0 /\ base'[q].branch \in Branches
    <2>1. CASE base'[q] = base[q]
        BY <2>1 DEF StampInv
    <2>2. CASE base'[q] # base[q]
        <3>1. PICK x \in Branches, ts \in Nat \ {0} : base'[q] = [ts |-> ts, branch |-> x]
            BY <1>3, <2>2
        <3> QED
            BY <3>1
    <2> QED
        BY <2>1, <2>2
<1> QED
    BY <1>2, <1>3, <1>4 DEF StampInv, ClockKind

(* Nor does it matter when a process dies, or the developer works.         *)
LEMMA StampOthers ==
    ASSUME TasksOK, StampInv,
           (\E p \in Processes : Crash(p)) \/ Edit \/ Checkout \/ Triage \/ UNCHANGED vars
    PROVE  StampInv'
<1>1. CASE \E p \in Processes : Crash(p)
    <2>1. PICK p \in Processes : Crash(p)
        BY <1>1
    <2>2. /\ \A u \in Threads : task'[u] = task[u] \/ task'[u] = Idle
          /\ base' = [base EXCEPT ![p] = NoBase]
          /\ clock' = clock
        BY <2>1, ThreadsAre DEF Crash, TasksOK
    <2>3. base' = [q \in Processes |-> base'[q]] /\ \A q \in Processes : base'[q] = base[q] \/ base'[q] = NoBase
        BY <2>2 DEF StampInv
    <2>4. NoBase.ts = 0 /\ NoBase = [ts |-> NoBase.ts, branch |-> NoBase.branch]
        BY DEF NoBase
    <2>5. ASSUME NEW q \in Processes
          PROVE  /\ base'[q] = [ts |-> base'[q].ts, branch |-> base'[q].branch]
                 /\ base'[q].ts \in Nat
                 /\ base'[q] # NoBase => base'[q].ts # 0 /\ base'[q].branch \in Branches
        BY <2>3, <2>4 DEF StampInv
    <2>6. ASSUME NEW u \in Threads
          PROVE  /\ task'[u].expected \in Nat
                 /\ Rescanning(task[u])' \/ Ready(u)' => task'[u].expected # 0
                 /\ Pending(task[u])' => task'[u].now \in Nat \ {0}
        <3>1. CASE task'[u] = Idle
            BY <3>1, IdleIs DEF Rescanning, Ready, Pending, Owes
        <3>2. CASE task'[u] = task[u]
            BY <3>2 DEF StampInv, Rescanning, Ready, Pending, Owes
        <3> QED
            BY <2>2, <3>1, <3>2
    <2> QED
        BY <2>2, <2>3, <2>5, <2>6 DEF StampInv
<1>2. CASE Edit \/ Checkout \/ Triage \/ UNCHANGED vars
    <2>1. UNCHANGED <<clock, base, task>>
        BY <1>2 DEF Edit, Checkout, Triage, vars
    <2> QED
        BY <2>1 DEF StampInv, Rescanning, Ready, Pending, Owes
<1> QED
    BY <1>1, <1>2

-----------------------------------------------------------------------------
(* What tasks and files look like, and what is counted so far.             *)

(* All that has to hold before a step.                                     *)
HistoryInv == Known /\ OnceInv /\ PairInv /\ ForwardInv

(* What no file holds is no finding's.                                     *)
LEMMA NoDataIs ==
    /\ Prints(NoData) = {} /\ DOMAIN NoData.bank = {} /\ NoData.version = 0
    /\ NoData = [prints |-> NoData.prints, bank |-> NoData.bank, version |-> NoData.version]
    /\ LegacyData.prints = Findings /\ DOMAIN LegacyData.bank = {} /\ LegacyData.version = 0
    /\ LegacyData = [prints |-> LegacyData.prints, bank |-> LegacyData.bank, version |-> LegacyData.version]
BY DEF NoData, LegacyData, Prints, EmptyBank

(* What is loaded is data, wherever it comes from.                         *)
LEMMA LoadIsData ==
    ASSUME DataInv, NEW b PROVE IsData(Load(b))
<1>1. Load(b) \in {NoData, LegacyData} \/ (b \in Branches /\ Load(b) = files[b])
    BY DEF Load, Indexed
<1>2. IsData(NoData)
    BY NoDataIs DEF IsData, DataInv
<1>3. IsData(LegacyData)
    BY NoDataIs DEF IsData, DataInv, Prints
<1> QED
    BY <1>1, <1>2, <1>3 DEF DataInv

(* At the start nothing is counted, and all data is still inline.          *)
LEMMA HistoryInit == Init => HistoryInv
<1> SUFFICES ASSUME Init PROVE HistoryInv
    OBVIOUS
<1>1. \A t \in Threads : task[t] = Idle /\ ~Ready(t) /\ ~Diffed(t)
    BY IdleIs DEF Init, Ready, Diffed
<1>2. edits = 0 /\ crashes = 0 /\ files = [b \in Branches |-> NoData] /\ inline \subseteq Branches
    BY DEF Init
<1>3. /\ resolvedFor = [b \in Branches |-> [f \in Findings |-> 0]]
      /\ surplus = [b \in Branches |-> [f \in Findings |-> 0]]
    BY DEF Init
<1>4. \A b \in Branches : IsData(files[b])
    BY <1>2, NoDataIs DEF IsData
<1>5. DataInv
    BY <1>1, <1>2, <1>3, <1>4, IdleIs DEF DataInv, DataTask
<1>6. OnceInv
    <2>1. ResolvedOnce
        BY <1>3 DEF ResolvedOnce
    <2>2. \A b \in Branches, S \in SUBSET Findings : Uncounted(b, S)
        BY <1>3 DEF Uncounted
    <2>3. \A b \in Branches : Prints(Load(b)) \subseteq Findings
        BY <1>5, LoadIsData DEF IsData
    <2> QED
        BY <1>1, <2>1, <2>2, <2>3, IdleIs DEF OnceInv, OnceTask
<1>7. PairInv
    <2>1. \A b \in Branches : Indexed \subseteq inline /\ DOMAIN Load(b).bank = {}
        BY <1>2, NoDataIs DEF Init, Load, Indexed
    <2> QED
        BY <1>1, <1>3, <2>1, IdleIs DEF PairInv, PairTask, Owed
<1>8. ForwardInv
    BY <1>1, IdleIs DEF ForwardInv, ForwardTask
<1> QED
    BY <1>5, <1>6, <1>7, <1>8, DiskInit, StampInit DEF HistoryInv, Known

(* A task that another's step leaves alone still has its data, if the      *)
(* files stay.                                                             *)
LEMMA DataApart ==
    ASSUME NEW u \in Threads, task'[u] = task[u], UNCHANGED disk, edits \in Nat, edits' \in Nat, edits' >= edits,
           DataTask(u)
    PROVE  DataTask(u)'
BY DEF DataTask, IsData, Outcome, Held, Diffed, Ready, disk, Named

(* The data stays data.                                                    *)
LEMMA DataAfter ==
    ASSUME NEW d, IsData(d), edits \in Nat, edits' \in Nat, edits' >= edits
    PROVE  /\ d = [prints |-> d.prints, bank |-> d.bank, version |-> d.version]
           /\ Prints(d) \subseteq Findings /\ DOMAIN d.bank \subseteq Findings /\ d.version \in 0 .. edits'
BY DEF IsData

(* What a quiet step leaves alone.                                         *)
LEMMA QuietLeaves ==
    ASSUME HistoryInv, NEW t \in Threads, NEW c, QuietMove(t, c)
    PROVE  /\ task'[t] = c /\ \A u \in Threads : u # t => task'[u] = task[u]
           /\ \A b : Load(b)' = Load(b) /\ (InFlight(b)' <=> InFlight(b))
           /\ UNCHANGED <<disk, stamps, files, inline, resolvedFor, surplus, edits, raced, crashes>>
<1>1. task'[t] = c /\ \A u \in Threads : u # t => task'[u] = task[u]
    BY TasksAfter DEF QuietMove, QuietFrame, HistoryInv, Known, DiskInv
<1>2. UNCHANGED <<disk, stamps, files, inline, resolvedFor, surplus, edits, raced, crashes>>
    BY DEF QuietMove, QuietFrame, disk
<1>3. \A b : Load(b)' = Load(b)
    BY <1>2 DEF Load, Indexed
<1>4. \A b : InFlight(b)' <=> InFlight(b)
    BY <1>1 DEF InFlight, QuietMove, QuietFrame, Committing
<1> QED
    BY <1>1, <1>2, <1>3, <1>4

(* A quiet step keeps the data in order.                                   *)
LEMMA DataQuiet ==
    ASSUME HistoryInv, NEW t \in Threads, NEW c, QuietMove(t, c) PROVE DataInv'
<1>1. /\ task'[t] = c /\ \A u \in Threads : u # t => task'[u] = task[u]
      /\ UNCHANGED <<disk, stamps, files, inline, resolvedFor, surplus, edits, raced, crashes>>
    BY QuietLeaves
<1>2. DataInv /\ edits \in Nat /\ \A u \in Threads : DataTask(u)
    BY DEF HistoryInv, Known, DataInv
<1>3. ASSUME NEW u \in Threads, u # t PROVE DataTask(u)'
    BY <1>1, <1>2, <1>3, DataApart
<1>4. DataTask(t)'
    <2>1. IsTask(c) /\ Named(c) /\ c.version \in 0 .. edits /\ ~Committing(c)
        BY DEF QuietMove, QuietFrame
    <2>2. CASE AtEase(t, c)
        BY <1>1, <2>1, <2>2 DEF DataTask, AtEase, Diffed, Ready, Named
    <2>3. CASE Rescans(task[t], c) \/ Confirms(task[t], c)
        BY <1>1, <2>1, <2>3 DEF DataTask, Rescans, Confirms, Diffed, Ready, Named
    <2>4. CASE Loads(task[t], c)
        <3>1. IsData(Load(task[t].branch))
            BY <1>2, LoadIsData
        <3>2. IsData(c.prev)
            BY <2>4, <3>1 DEF Loads, IsData, EmptyBank, Prints
        <3> QED
            BY <1>1, <2>1, <2>4, <3>2 DEF DataTask, Loads, Diffed, Ready, Named, IsData
    <2>5. CASE Prepares(task[t], c)
        <3>1. IsData(Load(task[t].branch)) /\ IsData(task[t].prev)
            BY <1>2, <2>5, LoadIsData DEF Prepares, DataTask
        <3>2. IsData(c.prev)
            BY <2>5, <3>1 DEF Prepares, IsData, Prints
        <3>3. Outcome(c)
            BY <2>5, <3>2 DEF Prepares
        <3> QED
            BY <1>1, <2>1, <2>5, <3>2, <3>3 DEF DataTask, Prepares, Diffed, Ready, Named, IsData, Outcome
    <2> QED
        BY <2>2, <2>3, <2>4, <2>5 DEF QuietMove, QuietKind
<1>5. \A b \in Branches : IsData(files[b])'
    BY <1>1, <1>2 DEF DataInv, IsData
<1> QED
    BY <1>1, <1>2, <1>3, <1>4, <1>5 DEF DataInv

(* A quiet step counts nothing: what a recapture loads is uncounted.       *)
LEMMA OnceQuiet ==
    ASSUME HistoryInv, NEW t \in Threads, NEW c, QuietMove(t, c) PROVE OnceInv'
<1>1. /\ task'[t] = c /\ \A u \in Threads : u # t => task'[u] = task[u]
      /\ UNCHANGED <<disk, stamps, files, inline, resolvedFor, surplus, edits, raced, crashes>>
      /\ \A b : Load(b)' = Load(b)
    BY QuietLeaves
<1>2. OnceInv /\ DataInv /\ OnceTask(t) /\ DataTask(t)
    BY DEF HistoryInv, Known, DataInv, OnceInv
<1>3. ASSUME NEW u \in Threads, u # t PROVE OnceTask(u)'
    BY <1>1, <1>2, <1>3 DEF OnceInv, OnceTask, Uncounted, Current, Ready
<1>4. OnceTask(t)'
    <2>1. ~Committing(c) /\ Named(c)
        BY DEF QuietMove, QuietFrame
    <2>2. CASE AtEase(t, c)
        BY <1>1, <2>1, <2>2 DEF OnceTask, AtEase, Ready
    <2>3. CASE Rescans(task[t], c) \/ Confirms(task[t], c)
        BY <1>1, <2>1, <2>3 DEF OnceTask, Rescans, Confirms, Ready
    <2>4. CASE Loads(task[t], c)
        <3>1. c.branch \in Branches /\ c.pc = "loaded" /\ c.branch = task[t].branch
            BY <2>1, <2>4 DEF Loads, Named, Same
        <3>2. IsData(Load(c.branch))
            BY <1>2, LoadIsData
        <3>3. Prints(c.prev) = Prints(Load(c.branch))
            BY <2>4, <3>1, <3>2 DEF Loads, IsData, Prints
        <3>4. c.branch \notin raced => Uncounted(c.branch, Prints(c.prev))
            BY <1>2, <3>1, <3>3 DEF OnceInv
        <3> QED
            BY <1>1, <2>1, <3>1, <3>4 DEF OnceTask, Ready, Uncounted
    <2>5. CASE Prepares(task[t], c)
        <3>1. c.pc = "waiting" /\ Same(task[t], c) /\ task[t].pc = "loaded" /\ IsData(task[t].prev)
            BY <1>2, <2>5 DEF Prepares, DataTask
        <3>2. IsData(c.prev) /\ Prints(c.prev) = Prints(task[t].prev)
            <4>1. IsData(Load(task[t].branch))
                BY <1>2, LoadIsData
            <4> QED
                BY <2>5, <3>1, <4>1 DEF Prepares, IsData, Prints
        <3>3. c.resolved \subseteq Prints(task[t].prev)
            BY <2>5, <3>2 DEF Prepares, FromPrev
        <3>4. c.branch \notin raced /\ Current(c) => Uncounted(c.branch, c.resolved)
            BY <1>2, <3>1, <3>3 DEF OnceTask, Current, Uncounted, Same
        <3> QED
            BY <1>1, <2>1, <3>1, <3>4 DEF OnceTask, Ready, Uncounted, Current
    <2> QED
        BY <2>2, <2>3, <2>4, <2>5 DEF QuietMove, QuietKind
<1>5. /\ ResolvedOnce'
      /\ \A b \in Branches \ raced : (Uncounted(b, Prints(Load(b))) /\ (b \in inline => Uncounted(b, Findings)))'
    BY <1>1, <1>2 DEF OnceInv, ResolvedOnce, Uncounted, Prints
<1> QED
    BY <1>1, <1>3, <1>4, <1>5 DEF OnceInv

(* What a recapture loads from the bank is still owed.                     *)
LEMMA PairQuiet ==
    ASSUME HistoryInv, NEW t \in Threads, NEW c, QuietMove(t, c) PROVE PairInv'
<1> SUFFICES ASSUME crashes' = 0 PROVE PairInv'
    BY DEF PairInv
<1>1. /\ task'[t] = c /\ \A u \in Threads : u # t => task'[u] = task[u]
      /\ UNCHANGED <<disk, stamps, files, inline, resolvedFor, surplus, edits, raced, crashes>>
      /\ \A b : Load(b)' = Load(b) /\ (InFlight(b)' <=> InFlight(b))
    BY QuietLeaves
<1>2. /\ \A b \in Branches \ raced : ~InFlight(b) => Owed(b, DOMAIN Load(b).bank)
      /\ \A b \in Branches \ raced, f \in Findings : surplus[b][f] >= 0
      /\ \A u \in Threads : PairTask(u)
      /\ DataTask(t)
    BY <1>1 DEF HistoryInv, PairInv, Known, DataInv
<1>3. ASSUME NEW u \in Threads, u # t PROVE PairTask(u)'
    <2>1. Settled(task[u])' <=> Settled(task[u])
        BY <1>1, <1>3 DEF Settled, Current
    <2> QED
        BY <1>1, <1>2, <1>3, <2>1 DEF PairTask, Owed, Ready
<1>4. PairTask(t)'
    <2>1. ~Committing(c) /\ Named(c)
        BY DEF QuietMove, QuietFrame
    <2>2. CASE ~Prepares(task[t], c)
        BY <1>1, <2>1, <2>2 DEF PairTask, Ready, QuietMove, QuietKind, AtEase, Rescans, Confirms, Loads
    <2>3. CASE Prepares(task[t], c)
        <3>1. /\ c.pc = "waiting" /\ Same(task[t], c) /\ task[t].pc = "loaded" /\ IsData(task[t].prev)
              /\ c.branch \in Branches
            BY <1>2, <2>1, <2>3 DEF Prepares, DataTask, Named
        <3>2. IsData(c.prev) /\ c.prev.bank = Load(c.branch).bank
            <4>1. IsData(Load(task[t].branch))
                BY LoadIsData DEF HistoryInv, Known
            <4> QED
                BY <2>3, <3>1, <4>1 DEF Prepares, IsData, Prints, Same
        <3>3. FromPrev(c)
            BY <2>3, <3>2 DEF Prepares
        <3>4. c.branch \notin raced /\ ~InFlight(c.branch) =>
                  Owed(c.branch, c.back) /\ Owed(c.branch, DOMAIN c.data.bank \ c.resolved)
            BY <1>2, <3>1, <3>2, <3>3 DEF FromPrev, Owed
        <3>5. Settled(c)' => ~InFlight(c.branch)
            BY <1>1 DEF Settled
        <3> QED
            BY <1>1, <2>1, <3>1, <3>4, <3>5 DEF PairTask, Owed, Settled
    <2> QED
        BY <2>2, <2>3
<1> QED
    BY <1>1, <1>2, <1>3, <1>4 DEF PairInv, Owed

(* What a recapture loads is no newer than its scan.                       *)
LEMMA ForwardQuiet ==
    ASSUME HistoryInv, NEW t \in Threads, NEW c, QuietMove(t, c) PROVE ForwardInv'
<1> SUFFICES ASSUME crashes' = 0 PROVE \A u \in Threads : ForwardTask(u)'
    BY DEF ForwardInv
<1>1. /\ task'[t] = c /\ \A u \in Threads : u # t => task'[u] = task[u]
      /\ UNCHANGED <<disk, stamps, files, inline, resolvedFor, surplus, edits, raced, crashes>>
      /\ \A b : Load(b)' = Load(b) /\ (InFlight(b)' <=> InFlight(b))
    BY QuietLeaves
<1>2. /\ \A u \in Threads : ForwardTask(u)
      /\ DataTask(t) /\ edits \in Nat /\ IsData(Load(task[t].branch)) /\ IsData(Load(c.branch))
    BY <1>1, LoadIsData DEF HistoryInv, ForwardInv, Known, DataInv
<1>3. ASSUME NEW u \in Threads, u # t PROVE ForwardTask(u)'
    <2>1. Settled(task[u])' <=> Settled(task[u])
        BY <1>1, <1>3 DEF Settled, Current
    <2> QED
        BY <1>1, <1>2, <1>3, <2>1 DEF ForwardTask, Ready
<1>4. ForwardTask(t)'
    <2>1. ~Committing(c)
        BY DEF QuietMove, QuietFrame
    <2>2. Same(task[t], c) => (Settled(c)' <=> Settled(task[t]))
        BY <1>1 DEF Settled, Current, Same
    <2>3. CASE AtEase(t, c)
        BY <1>1, <2>1, <2>3 DEF ForwardTask, AtEase, Ready
    <2>4. CASE Rescans(task[t], c)
        BY <1>1, <1>2, <2>1, <2>4 DEF ForwardTask, Rescans, Ready, IsData
    <2>5. CASE Confirms(task[t], c)
        BY <1>1, <1>2, <2>1, <2>2, <2>5 DEF ForwardTask, Confirms, Ready, Same
    <2>6. CASE Loads(task[t], c)
        <3>1. c.prev.version = Load(task[t].branch).version
            BY <1>2, <2>6 DEF Loads, IsData
        <3> QED
            BY <1>1, <1>2, <2>1, <2>2, <2>6, <3>1 DEF ForwardTask, Loads, Ready, Same
    <2>7. CASE Prepares(task[t], c)
        <3>1. c.prev.version = task[t].prev.version
            BY <1>2, <2>7 DEF Prepares, IsData, DataTask
        <3> QED
            BY <1>1, <1>2, <2>1, <2>2, <2>7, <3>1 DEF ForwardTask, Prepares, Ready, Same
    <2> QED
        BY <2>3, <2>4, <2>5, <2>6, <2>7 DEF QuietMove, QuietKind
<1> QED
    BY <1>3, <1>4

-----------------------------------------------------------------------------
(* Taking the lock and writing.                                            *)

(* What is written is diffed against what the branch holds now.            *)
Writing(t, r) ==
    /\ WriteData(t, r) /\ Recorded(r) /\ lock = Free /\ task[t].pc = "waiting"
    /\ IsTask(r) /\ Same(task[t], r) /\ r.now = task[t].now
    /\ Outcome(r)
    /\ r.branch \notin raced => Uncounted(r.branch, r.resolved)
    /\ crashes = 0 /\ r.branch \notin raced =>
          /\ Owed(r.branch, r.back) /\ Owed(r.branch, DOMAIN r.data.bank \ r.resolved)
          /\ t[2] = "recapture" => r.prev.version <= r.version
    /\ UNCHANGED <<stamps, inline, surplus, edits, raced, crashes, base, clock>>

(* While the lock is free nothing is in flight.                            *)
LEMMA FreeIsSettled ==
    ASSUME DiskInv, lock = Free PROVE \A t \in Threads : ~Committing(task[t])
BY DEF DiskInv, LockOK

(* The recorder diffs under the lock; the recapture's stamp is current.    *)
LEMMA Writers ==
    ASSUME HistoryInv, NEW p \in Processes, UpdateFingerprints(p) \/ SaveIfCurrent(p)
    PROVE  \E t \in Threads : \E r : Writing(t, r)
<1>1. DiskInv /\ DataInv /\ OnceInv /\ PairInv /\ ForwardInv
    BY DEF HistoryInv, Known
<1>2. CASE UpdateFingerprints(p)
    <2> DEFINE t == Recorder(p)
               b == task[t].branch
               r == Aged(task[t], Load(b), task[t].now, task[t].skip)
    <2>1. t \in Threads /\ IsTask(task[t]) /\ t[2] # "recapture" /\ task[t].version \in 0 .. edits /\ Named(task[t])
        BY <1>1, ThreadsAre DEF DiskInv, TasksOK, Recorder, DataInv, DataTask
    <2>2. /\ WriteData(t, r) /\ Recorded(r) /\ lock = Free /\ task[t].pc = "waiting"
          /\ UNCHANGED <<stamps, inline, surplus, edits, raced, crashes, base, clock>>
        BY <1>2 DEF UpdateFingerprints, At, world
    <2>3. IsData(Load(b)) /\ b \in Branches
        BY <1>1, <2>1, <2>2, LoadIsData DEF Named
    <2>4. /\ IsTask(r) /\ Same(task[t], r) /\ r.now = task[t].now /\ Outcome(r)
          /\ r.resolved \subseteq Prints(Load(b)) /\ r.back \subseteq DOMAIN Load(b).bank
          /\ DOMAIN r.data.bank \ r.resolved \subseteq DOMAIN Load(b).bank
        BY <2>1, <2>3, AgedIs
    <2> HIDE DEF r
    <2>5. (b \notin raced => Uncounted(b, Prints(Load(b)))) /\ ~InFlight(b)
        BY <1>1, <2>2, <2>3, FreeIsSettled DEF OnceInv, InFlight
    <2>6. crashes = 0 /\ b \notin raced => Owed(b, DOMAIN Load(b).bank)
        BY <1>1, <2>3, <2>5 DEF PairInv
    <2>7. r.branch = b /\ (b \notin raced => Uncounted(b, r.resolved))
        BY <2>4, <2>5 DEF Uncounted, Same
    <2>8. crashes = 0 /\ b \notin raced => Owed(b, r.back) /\ Owed(b, DOMAIN r.data.bank \ r.resolved)
        BY <2>4, <2>6 DEF Owed
    <2> QED
        BY <2>1, <2>2, <2>4, <2>7, <2>8 DEF Writing
<1>3. CASE SaveIfCurrent(p)
    <2> DEFINE t == Recapture(p)
               r == task[t]
    <2>1. t \in Threads /\ IsTask(r) /\ t[2] = "recapture"
        BY <1>1, ThreadsAre DEF DiskInv, TasksOK, Recapture
    <2>2. /\ WriteData(t, r) /\ Recorded(r) /\ lock = Free /\ r.pc = "waiting" /\ Current(r)
          /\ UNCHANGED <<stamps, inline, surplus, edits, raced, crashes, base, clock>>
        BY <1>3 DEF SaveIfCurrent, At, world, Current
    <2>3. Ready(t) /\ Settled(r)
        BY <1>1, <2>1, <2>2, FreeIsSettled DEF Ready, Settled, InFlight
    <2>4. Outcome(r) /\ (r.branch \notin raced => Uncounted(r.branch, r.resolved))
        BY <1>1, <2>1, <2>2, <2>3 DEF DataInv, DataTask, Diffed, OnceInv, OnceTask
    <2>5. crashes = 0 /\ r.branch \notin raced =>
              Owed(r.branch, r.back) /\ Owed(r.branch, DOMAIN r.data.bank \ r.resolved)
        BY <1>1, <2>1, <2>3 DEF PairInv, PairTask
    <2>6. crashes = 0 /\ r.branch \notin raced => r.prev.version <= r.version
        BY <1>1, <2>1, <2>3 DEF ForwardInv, ForwardTask
    <2> QED
        BY <2>1, <2>2, <2>4, <2>5, <2>6 DEF Writing, Same
<1> QED
    BY <1>2, <1>3

(* What writing changes: one task, and the file of its branch.             *)
LEMMA WritingDoes ==
    ASSUME HistoryInv, NEW t \in Threads, NEW r, Writing(t, r)
    PROVE  LET c == task'[t] IN
           /\ task' = [task EXCEPT ![t] = c] /\ IsTask(c) /\ c.pc = "written" /\ c.expected = 0
           /\ c.branch = r.branch /\ c.version = r.version /\ c.now = r.now /\ c.prev = r.prev
           /\ c.data = r.data /\ c.resolved = r.resolved /\ c.back = r.back
           /\ \A u \in Threads : u # t => task'[u] = task[u]
           /\ \A u \in Threads : ~Committing(task[u])
           /\ r.branch \in Branches /\ r.version \in 0 .. edits
<1> DEFINE e == [r EXCEPT !.pc = "written", !.expected = 0]
<1>1. task' = [task EXCEPT ![t] = e] /\ IsTask(r)
    BY DEF Writing, WriteData, Become
<1>2. /\ IsTask(e) /\ e.pc = "written" /\ e.expected = 0
      /\ e.branch = r.branch /\ e.version = r.version /\ e.now = r.now /\ e.prev = r.prev
      /\ e.data = r.data /\ e.resolved = r.resolved /\ e.back = r.back
    BY <1>1 DEF IsTask, Fields
<1> HIDE DEF e
<1>3. task'[t] = e /\ \A u \in Threads : u # t => task'[u] = task[u]
    BY <1>1, <1>2, TasksAfter DEF HistoryInv, Known, DiskInv
<1>4. \A u \in Threads : ~Committing(task[u])
    BY FreeIsSettled DEF Writing, HistoryInv, Known
<1>5. r.branch \in Branches /\ r.version \in 0 .. edits
    BY DEF Writing, Same, HistoryInv, Known, DataInv, DataTask, Named
<1> QED
    BY <1>1, <1>2, <1>3, <1>4, <1>5

(* Where the files are written, what is loaded changes for one branch.     *)
LEMMA LoadAfterWriting ==
    ASSUME HistoryInv, NEW t \in Threads, NEW r, Writing(t, r), NEW b \in Branches
    PROVE  Load(b)' = Load(b) \/ (b = r.branch /\ Load(b)' = r.data)
BY DEF Writing, WriteData, Load, Indexed

(* A writer has the data it was to write.                                  *)
LEMMA DataWriting ==
    ASSUME HistoryInv, NEW t \in Threads, NEW r, Writing(t, r) PROVE DataInv'
<1> DEFINE c == task'[t]
<1>1. /\ c.pc = "written" /\ c.branch = r.branch /\ c.version = r.version
      /\ c.data = r.data /\ c.resolved = r.resolved /\ c.back = r.back
      /\ \A u \in Threads : u # t => task'[u] = task[u]
      /\ \A u \in Threads : ~Committing(task[u])
      /\ r.branch \in Branches /\ r.version \in 0 .. edits
    BY WritingDoes
<1>2. /\ UNCHANGED <<stamps, inline, surplus, edits, crashes>> /\ Outcome(r)
      /\ files' = [b \in Branches |->
            IF b = r.branch THEN r.data ELSE IF b \in inline THEN LegacyData ELSE files[b]]
    BY DEF Writing, WriteData
<1>3. DataInv /\ edits \in Nat
    BY DEF HistoryInv, Known, DataInv
<1>4. ASSUME NEW u \in Threads, u # t PROVE DataTask(u)'
    BY <1>1, <1>2, <1>3, <1>4 DEF DataInv, DataTask, IsData, Outcome, Diffed, Ready, Named, Committing
<1>5. DataTask(t)'
    BY <1>1, <1>2, <1>3 DEF DataTask, Named, Diffed, Ready, Outcome, IsData, Held, Committing
<1>6. ASSUME NEW b \in Branches PROVE IsData(files[b])'
    <2>1. IsData(files'[b])
        <3>1. IsData(LegacyData)
            BY <1>3, NoDataIs DEF IsData, Prints
        <3> QED
            BY <1>2, <1>3, <3>1 DEF DataInv, Outcome
    <2> QED
        BY <1>2, <2>1 DEF IsData
<1>7. resolvedFor' \in [Branches -> [Findings -> Nat]]
    BY <1>3 DEF Writing, Recorded, DataInv
<1> QED
    BY <1>2, <1>3, <1>4, <1>5, <1>6, <1>7 DEF DataInv

(* The file that holds a finding starts a new count for it.                *)
LEMMA OnceWriting ==
    ASSUME HistoryInv, NEW t \in Threads, NEW r, Writing(t, r) PROVE OnceInv'
<1> DEFINE c == task'[t]
<1>1. /\ c.pc = "written" /\ c.branch = r.branch /\ c.data = r.data /\ c.resolved = r.resolved
      /\ \A u \in Threads : u # t => task'[u] = task[u]
      /\ \A u \in Threads : ~Committing(task[u])
      /\ r.branch \in Branches
    BY WritingDoes
<1>2. /\ UNCHANGED <<stamps, inline, edits, raced>> /\ Outcome(r)
      /\ r.branch \notin raced => Uncounted(r.branch, r.resolved)
      /\ DataInv /\ OnceInv
    BY DEF Writing, HistoryInv, Known
<1>3. /\ \A b \in Branches, f \in Findings : resolvedFor'[b][f] \in {0, resolvedFor[b][f]}
      /\ \A f \in Findings : f \in r.data.prints => resolvedFor'[r.branch][f] = 0
    BY <1>1, <1>2 DEF Writing, Recorded, DataInv
<1>4. ASSUME NEW b \in Branches, NEW S \in SUBSET Findings, Uncounted(b, S) PROVE Uncounted(b, S)'
    BY <1>3, <1>4 DEF Uncounted
<1>5. Uncounted(r.branch, Prints(r.data))'
    BY <1>2, <1>3 DEF Uncounted, Prints, Outcome, IsData
<1>6. ResolvedOnce'
    BY <1>2, <1>3 DEF OnceInv, ResolvedOnce, DataInv
<1>7. ASSUME NEW b \in Branches \ raced
      PROVE  (Uncounted(b, Prints(Load(b))) /\ (b \in inline => Uncounted(b, Findings)))'
    <2>1. IsData(Load(b)) /\ Uncounted(b, Prints(Load(b))) /\ (b \in inline => Uncounted(b, Findings))
        BY <1>2, LoadIsData DEF OnceInv
    <2>2. CASE Load(b)' = Load(b)
        <3>1. Uncounted(b, Prints(Load(b)))'
            BY <1>4, <2>1, <2>2 DEF IsData, Uncounted, Prints
        <3> QED
            BY <1>2, <1>4, <2>1, <3>1
    <2>3. CASE b = r.branch /\ Load(b)' = r.data
        BY <1>2, <1>4, <1>5, <2>1, <2>3 DEF Uncounted, Prints
    <2> QED
        BY <2>2, <2>3, LoadAfterWriting
<1>8. ASSUME NEW u \in Threads, u # t PROVE OnceTask(u)'
    <2>1. OnceTask(u) /\ DataTask(u) /\ task'[u] = task[u] /\ ~Committing(task[u])
        BY <1>1, <1>2, <1>8 DEF OnceInv, DataInv
    <2>2. task[u].pc = "loaded" \/ Ready(u) => task[u].branch \in Branches
        BY <2>1 DEF DataTask, Named, Ready
    <2>3. task[u].pc = "loaded" /\ Current(task[u]) /\ task[u].branch \notin raced =>
              Uncounted(task[u].branch, Prints(task[u].prev))'
        BY <1>4, <2>1, <2>2 DEF OnceTask, DataTask, IsData, Uncounted, Prints
    <2>4. Ready(u) /\ Current(task[u]) /\ task[u].branch \notin raced =>
              Uncounted(task[u].branch, task[u].resolved)'
        BY <1>4, <2>1, <2>2 DEF OnceTask, DataTask, Diffed, Outcome, Uncounted
    <2> QED
        BY <1>2, <2>1, <2>3, <2>4 DEF OnceTask, Ready, Current, Committing
<1>9. OnceTask(t)'
    <2>1. r.branch \notin raced => Uncounted(r.branch, r.resolved)'
        BY <1>1, <1>2, <1>4 DEF Outcome, Uncounted
    <2> QED
        BY <1>1, <1>2, <1>5, <2>1 DEF OnceTask, Ready, Uncounted, Prints
<1> QED
    BY <1>2, <1>6, <1>7, <1>8, <1>9 DEF OnceInv

(* The branch that is written is in flight; nothing is counted yet.        *)
LEMMA PairWriting ==
    ASSUME HistoryInv, NEW t \in Threads, NEW r, Writing(t, r) PROVE PairInv' /\ ForwardInv'
<1> SUFFICES ASSUME crashes' = 0 PROVE PairInv' /\ ForwardInv'
    BY DEF PairInv, ForwardInv
<1> DEFINE c == task'[t]
<1>1. /\ c.pc = "written" /\ c.branch = r.branch /\ c.version = r.version /\ c.prev = r.prev
      /\ c.data = r.data /\ c.resolved = r.resolved /\ c.back = r.back
      /\ \A u \in Threads : u # t => task'[u] = task[u]
      /\ \A u \in Threads : ~Committing(task[u])
      /\ r.branch \in Branches
    BY WritingDoes
<1>2. /\ UNCHANGED <<stamps, surplus, raced>> /\ crashes = 0
      /\ r.branch \notin raced =>
            /\ Owed(r.branch, r.back) /\ Owed(r.branch, DOMAIN r.data.bank \ r.resolved)
            /\ t[2] = "recapture" => r.prev.version <= r.version
    BY DEF Writing
<1>3. /\ \A b \in Branches \ raced, f \in Findings : surplus[b][f] >= 0
      /\ \A b \in Branches \ raced : ~InFlight(b) => Owed(b, DOMAIN Load(b).bank)
      /\ \A u \in Threads : PairTask(u) /\ ForwardTask(u)
    BY <1>2 DEF HistoryInv, PairInv, ForwardInv
<1>4. InFlight(r.branch)' /\ \A b : ~InFlight(b)
    BY <1>1 DEF InFlight, Committing
<1>5. \A b \in Branches : b # r.branch => Load(b)' = Load(b)
    BY LoadAfterWriting
<1>6. \A b \in Branches \ raced : ~InFlight(b)' => Owed(b, DOMAIN Load(b).bank)'
    BY <1>2, <1>3, <1>4, <1>5 DEF Owed
<1>7. ASSUME NEW u \in Threads, u # t PROVE PairTask(u)' /\ ForwardTask(u)'
    <2>1. task'[u] = task[u] /\ ~Committing(task[u]) /\ PairTask(u) /\ ForwardTask(u)
        BY <1>1, <1>3, <1>7
    <2>2. Settled(task[u])' => Settled(task[u]) /\ task[u].branch # r.branch
        BY <1>2, <1>4, <2>1 DEF Settled, Current
    <2>3. PairTask(u)'
        BY <1>2, <2>1, <2>2 DEF PairTask, Owed, Ready, Committing
    <2>4. task[u].pc \in {"rescanned", "fresh"} => task[u].branch \in Branches
        BY DEF HistoryInv, Known, DataInv, DataTask, Named
    <2>5. ForwardTask(u)'
        BY <1>2, <1>5, <2>1, <2>2, <2>4 DEF ForwardTask, Ready, Committing
    <2> QED
        BY <2>3, <2>5
<1>8. PairTask(t)' /\ ForwardTask(t)'
    BY <1>1, <1>2 DEF PairTask, ForwardTask, Ready, Owed, Committing
<1> QED
    BY <1>2, <1>3, <1>6, <1>7, <1>8 DEF PairInv, ForwardInv

(* Writing goes on at the second it had.                                   *)
LEMMA StampWriting ==
    ASSUME HistoryInv, NEW t \in Threads, NEW r, Writing(t, r) PROVE StampInv'
<1> DEFINE c == task'[t]
<1>1. task' = [task EXCEPT ![t] = c] /\ IsTask(c) /\ c.pc = "written" /\ c.expected = 0 /\ c.now = r.now
    BY WritingDoes
<1>2. UNCHANGED <<base, clock>> /\ task[t].pc = "waiting" /\ r.now = task[t].now
    BY DEF Writing
<1> HIDE DEF c
<1>3. ClockKind(t, c)
    BY <1>1, <1>2 DEF ClockKind, Continues, Owes, Pending, Rescanning, HistoryInv, Known, StampInv
<1> QED
    BY <1>1, <1>3, StampMove DEF HistoryInv, Known, DiskInv

-----------------------------------------------------------------------------
(* Pruning.                                                                *)

(* Pruning takes files away, and moves the task on.                        *)
LEMMA PruneDoes ==
    ASSUME HistoryInv, NEW t \in Threads, PruneFiles(t)
    PROVE  LET c == task'[t]
               r == task[t]
           IN  /\ task' = [task EXCEPT ![t] = c] /\ IsTask(c) /\ c.pc = "pruned" /\ r.pc = "written"
               /\ c.branch = r.branch /\ c.version = r.version /\ c.now = r.now /\ c.prev = r.prev
               /\ c.data = r.data /\ c.resolved = r.resolved /\ c.back = r.back /\ c.expected = r.expected
               /\ \A u \in Threads : u # t => task'[u] = task[u]
               /\ UNCHANGED <<stamps, inline, resolvedFor, surplus, edits, raced, crashes, base, clock>>
               /\ files' = [b \in Branches |-> files'[b]]
               /\ \A b \in Branches : files'[b] = files[b] \/ files'[b] = NoData
               /\ \A b \in Branches : Load(b)' = Load(b) \/ Load(b)' = NoData
               /\ \A b : InFlight(b)' <=> InFlight(b)
<1> DEFINE e == [task[t] EXCEPT !.pc = "pruned"]
<1>1. task' = [task EXCEPT ![t] = e] /\ task[t].pc = "written" /\ IsTask(task[t])
    BY DEF PruneFiles, Move, Become, At, HistoryInv, Known, DiskInv, TasksOK
<1>2. /\ IsTask(e) /\ e.pc = "pruned"
      /\ e.branch = task[t].branch /\ e.version = task[t].version /\ e.now = task[t].now
      /\ e.prev = task[t].prev /\ e.data = task[t].data /\ e.resolved = task[t].resolved
      /\ e.back = task[t].back /\ e.expected = task[t].expected
    BY <1>1 DEF IsTask, Fields
<1> HIDE DEF e
<1>3. task'[t] = e /\ \A u \in Threads : u # t => task'[u] = task[u]
    BY <1>1, <1>2, TasksAfter DEF HistoryInv, Known, DiskInv
<1>4. /\ UNCHANGED <<stamps, inline, resolvedFor, surplus, edits, raced, crashes, base, clock>>
      /\ files' = [b \in Branches |-> files'[b]]
      /\ \A b \in Branches : files'[b] = files[b] \/ files'[b] = NoData
    BY DEF PruneFiles, world
<1>5. \A b \in Branches : Load(b)' = Load(b) \/ Load(b)' = NoData
    BY <1>4 DEF Load, Indexed
<1>6. \A b : InFlight(b)' <=> InFlight(b)
    BY <1>1, <1>2, <1>3 DEF InFlight, Committing
<1> QED
    BY <1>1, <1>2, <1>3, <1>4, <1>5, <1>6

(* Nothing is left to count, or to owe, for what is pruned.                *)
LEMMA HistoryPrune ==
    ASSUME HistoryInv, NEW t \in Threads, PruneFiles(t)
    PROVE  DataInv' /\ OnceInv' /\ PairInv' /\ ForwardInv' /\ StampInv'
<1> DEFINE c == task'[t]
           r == task[t]
<1>1. /\ task' = [task EXCEPT ![t] = c] /\ IsTask(c) /\ c.pc = "pruned" /\ r.pc = "written"
      /\ c.branch = r.branch /\ c.version = r.version /\ c.now = r.now /\ c.prev = r.prev
      /\ c.data = r.data /\ c.resolved = r.resolved /\ c.back = r.back /\ c.expected = r.expected
      /\ \A u \in Threads : u # t => task'[u] = task[u]
    BY PruneDoes
<1>2. UNCHANGED <<stamps, inline, resolvedFor, surplus, edits, raced, crashes, base, clock>>
    BY PruneDoes
<1>3. /\ files' = [b \in Branches |-> files'[b]]
      /\ \A b \in Branches : files'[b] = files[b] \/ files'[b] = NoData
      /\ \A b \in Branches : Load(b)' = Load(b) \/ Load(b)' = NoData
      /\ \A b : InFlight(b)' <=> InFlight(b)
    BY PruneDoes
<1>4. DataInv /\ OnceInv /\ StampInv /\ TasksOK /\ edits \in Nat
    BY DEF HistoryInv, Known, DataInv, DiskInv
<1> HIDE DEF c
<1>5. DataInv'
    <2>1. ASSUME NEW u \in Threads PROVE DataTask(u)'
        <3>1. CASE u = t
            <4>1. Named(r) /\ r.version \in 0 .. edits /\ Outcome(r) /\ Held(r)
                BY <1>1, <1>4 DEF DataInv, DataTask, Diffed, Committing
            <4>2. Outcome(task[t])'
                BY <1>1, <1>2, <4>1 DEF c, Outcome, IsData
            <4>3. Held(task[t])'
                BY <1>1, <1>2, <1>3, <4>1 DEF c, Held
            <4>4. Named(task[t])' /\ c.version \in 0 .. edits'
                BY <1>1, <1>2, <4>1 DEF c, Named
            <4> QED
                BY <1>1, <3>1, <4>2, <4>3, <4>4 DEF c, DataTask, Ready
        <3>2. CASE u # t
            <4>1. DataTask(u) /\ task'[u] = task[u] /\ edits' = edits
                BY <1>1, <1>2, <1>4, <3>2 DEF DataInv
            <4>2. Held(task[u]) => Held(task[u])'
                BY <1>2, <1>3, <4>1 DEF Held
            <4> QED
                BY <4>1, <4>2 DEF DataTask, IsData, Outcome, Diffed, Ready, Named, Committing
        <3> QED
            BY <3>1, <3>2
    <2>2. ASSUME NEW b \in Branches PROVE IsData(files[b])'
        <3>1. edits' = edits /\ IsData(files[b]) /\ IsData(NoData)
            BY <1>2, <1>4, NoDataIs DEF DataInv, IsData
        <3>2. IsData(files'[b])
            BY <1>3, <3>1
        <3> QED
            BY <3>1, <3>2 DEF IsData
    <2> QED
        BY <1>2, <1>3, <1>4, <2>1, <2>2 DEF DataInv
<1>6. OnceInv'
    <2>1. ASSUME NEW u \in Threads PROVE OnceTask(u)'
        <3>1. CASE u = t
            <4>1. r.branch \notin raced => Uncounted(r.branch, r.resolved) /\ Uncounted(r.branch, Prints(r.data))
                BY <1>1, <1>4 DEF OnceInv, OnceTask, Committing
            <4> QED
                BY <1>1, <1>2, <3>1, <4>1 DEF c, OnceTask, Uncounted, Ready, Prints
        <3>2. CASE u # t
            <4>1. OnceTask(u) /\ task'[u] = task[u] /\ UNCHANGED <<stamps, resolvedFor, raced>>
                BY <1>1, <1>2, <1>4, <3>2 DEF OnceInv
            <4> QED
                BY <4>1 DEF OnceTask, Uncounted, Current, Ready, Prints, Committing
        <3> QED
            BY <3>1, <3>2
    <2>2. ASSUME NEW b \in Branches \ raced
          PROVE  (Uncounted(b, Prints(Load(b))) /\ (b \in inline => Uncounted(b, Findings)))'
        BY <1>2, <1>3, <1>4, NoDataIs DEF OnceInv, Uncounted, Prints
    <2> QED
        BY <1>2, <1>4, <2>1, <2>2 DEF OnceInv, ResolvedOnce
<1>7. PairInv'
    <2> SUFFICES ASSUME crashes' = 0 PROVE PairInv'
        BY DEF PairInv
    <2>1. /\ \A b \in Branches \ raced, f \in Findings : surplus[b][f] >= 0
          /\ \A b \in Branches \ raced : ~InFlight(b) => Owed(b, DOMAIN Load(b).bank)
          /\ \A u \in Threads : PairTask(u)
        BY <1>2 DEF HistoryInv, PairInv
    <2>2. ASSUME NEW u \in Threads PROVE PairTask(u)'
        <3>1. CASE u = t
            BY <1>1, <1>2, <2>1, <3>1 DEF c, PairTask, Owed, Ready, Committing
        <3>2. CASE u # t
            <4>1. Settled(task[u])' => Settled(task[u])
                BY <1>1, <1>2, <1>3, <3>2 DEF Settled, Current
            <4> QED
                BY <1>1, <1>2, <2>1, <3>2, <4>1 DEF PairTask, Owed, Ready, Committing
        <3> QED
            BY <3>1, <3>2
    <2>3. \A b \in Branches \ raced : ~InFlight(b)' => Owed(b, DOMAIN Load(b).bank)'
        BY <1>2, <1>3, <2>1, NoDataIs DEF Owed
    <2> QED
        BY <1>2, <2>1, <2>2, <2>3 DEF PairInv
<1>8. ForwardInv'
    <2> SUFFICES ASSUME crashes' = 0, NEW u \in Threads PROVE ForwardTask(u)'
        BY DEF ForwardInv
    <2>1. ForwardTask(u) /\ ForwardTask(t) /\ DataTask(u)
        BY <1>2 DEF HistoryInv, ForwardInv, Known, DataInv
    <2>2. CASE u = t
        BY <1>1, <1>2, <2>1, <2>2 DEF c, ForwardTask, Ready, Committing
    <2>3. CASE u # t
        <3>1. Settled(task[u])' => Settled(task[u])
            BY <1>1, <1>2, <1>3, <2>3 DEF Settled, Current
        <3>2. task[u].pc \in {"rescanned", "fresh"} => task[u].branch \in Branches /\ task[u].version \in Nat
            BY <1>4, <2>1 DEF DataTask, Named
        <3> QED
            BY <1>1, <1>2, <1>3, <2>1, <2>3, <3>1, <3>2, NoDataIs DEF ForwardTask, Ready, Committing
    <2> QED
        BY <2>2, <2>3
<1>9. StampInv'
    <2>1. ClockKind(t, c)
        BY <1>1, <1>2, <1>4 DEF ClockKind, Continues, Owes, Pending, Rescanning, StampInv
    <2> QED
        BY <1>1, <1>4, <2>1, StampMove
<1> QED
    BY <1>5, <1>6, <1>7, <1>8, <1>9

-----------------------------------------------------------------------------
(* The index: what was diffed is counted, and the branch gets its stamp.   *)

CountedIn(r, f) == IF f \in r.resolved THEN 1 ELSE 0
ReturnedIn(r, f) == IF f \in r.back THEN 1 ELSE 0

(* What the index says after a commit, and what is then loaded.            *)
LEMMA IndexDoes ==
    ASSUME HistoryInv, NEW t \in Threads, WriteIndex(t)
    PROVE  LET c == task'[t]
               r == task[t]
           IN  /\ task' = [task EXCEPT ![t] = c] /\ IsTask(c) /\ c.pc = "committed" /\ r.pc = "pruned"
               /\ c.branch = r.branch /\ c.version = 0 /\ c.now = r.now /\ c.expected = 0
               /\ r.branch \in Branches
               /\ \A u \in Threads : u # t => task'[u] = task[u]
               /\ \A u \in Threads : u # t => ~Committing(task[u])
               /\ \A u \in Threads : ~Committing(task'[u])
               /\ UNCHANGED <<files, edits, crashes, base, clock>> /\ inline' = {}
               /\ raced \subseteq raced'
               /\ \A u \in Threads : Misled(task[u], r) => r.branch \in raced'
               /\ \A b \in Branches : stamps'[b] = 0 \/ stamps'[b] = IF b = r.branch THEN r.now ELSE stamps[b]
               /\ \A b \in Branches : Load(b)' \in {NoData, IF b = r.branch THEN r.data ELSE Load(b)}
<1> DEFINE e == [Idle EXCEPT !.pc = "committed", !.branch = task[t].branch, !.now = task[t].now]
<1>1. task' = [task EXCEPT ![t] = e] /\ task[t].pc = "pruned"
    BY DEF WriteIndex, Become, At
<1>2. /\ IsTask(e) /\ e.pc = "committed" /\ e.branch = task[t].branch /\ e.version = 0
      /\ e.now = task[t].now /\ e.expected = 0
    BY DEF Idle, IsTask, Fields
<1> HIDE DEF e
<1>3. task'[t] = e /\ \A u \in Threads : u # t => task'[u] = task[u]
    BY <1>1, <1>2, TasksAfter DEF HistoryInv, Known, DiskInv
<1>4. \A u \in Threads : u # t => ~Committing(task[u])
    BY <1>1 DEF HistoryInv, Known, DiskInv, LockOK, Committing
<1>5. \A u \in Threads : ~Committing(task'[u])
    BY <1>2, <1>3, <1>4 DEF Committing
<1>6. UNCHANGED <<files, edits, crashes, base, clock>> /\ inline' = {}
    BY DEF WriteIndex, world, TakeInline
<1>7. task[t].branch \in Branches /\ Held(task[t])
    BY <1>1 DEF HistoryInv, Known, DataInv, DataTask, Named, Committing
<1>8. \A b \in Branches : stamps'[b] = 0 \/ stamps'[b] = IF b = task[t].branch THEN task[t].now ELSE stamps[b]
    BY DEF WriteIndex, StampsWith, HistoryInv, Known, DiskInv, TasksOK
<1>9. raced \subseteq raced' /\ \A u \in Threads : Misled(task[u], task[t]) => task[t].branch \in raced'
    BY DEF WriteIndex
<1>10. ASSUME NEW b \in Branches
      PROVE  Load(b)' \in {NoData, IF b = task[t].branch THEN task[t].data ELSE Load(b)}
    <2>1. CASE stamps'[b] = 0
        BY <2>1 DEF Load, Indexed
    <2>2. CASE stamps'[b] # 0
        <3>1. Load(b)' = files[b]
            BY <1>6, <2>2 DEF Load, Indexed
        <3>2. CASE b = task[t].branch
            BY <1>7, <3>1, <3>2 DEF Held
        <3>3. CASE b # task[t].branch
            <4>1. stamps[b] # 0
                BY <1>8, <2>2, <3>3
            <4> QED
                BY <1>7, <3>1, <3>3, <4>1 DEF Held, Load, Indexed
        <3> QED
            BY <3>2, <3>3
    <2> QED
        BY <2>1, <2>2
<1> QED
    BY <1>1, <1>2, <1>3, <1>4, <1>5, <1>6, <1>7, <1>8, <1>9, <1>10

(* A recapture that still finds the stamp it expects has not been          *)
(* overtaken, or its branch is raced.                                      *)
Rescanned(r) == r.pc \in {"rescanned", "fresh", "loaded"}
LEMMA NotOvertaken ==
    ASSUME HistoryInv, NEW t \in Threads, WriteIndex(t), NEW u \in Threads, u # t,
           Rescanned(task[u]) \/ Ready(u), Current(task[u])', task[u].branch \notin raced'
    PROVE  /\ task[u].branch # task[t].branch /\ task[u].branch \in Branches
           /\ Settled(task[u])
<1>1. /\ task[t].pc = "pruned" /\ task'[u] = task[u] /\ \A v \in Threads : v # t => ~Committing(task[v])
      /\ Misled(task[u], task[t]) => task[t].branch \in raced'
      /\ \A b \in Branches : \/ stamps'[b] = 0
                             \/ stamps'[b] = IF b = task[t].branch THEN task[t].now ELSE stamps[b]
    BY IndexDoes
<1>2. task[u].branch \in Branches
    BY DEF HistoryInv, Known, DataInv, DataTask, Named, Rescanned, Ready
<1>3. task[u].expected # 0
    BY DEF HistoryInv, Known, StampInv, Rescanning, Rescanned
<1>4. stamps'[task[u].branch] = task[u].expected
    BY <1>1 DEF Current
<1>5. task[u].branch = task[t].branch => task[u].expected # task[t].now
    BY <1>1 DEF Misled, Rescanned, Ready
<1> QED
    BY <1>1, <1>2, <1>3, <1>4, <1>5 DEF Settled, Current, InFlight

(* A commit counts each finding it resolved once, from naught.             *)
LEMMA HistoryIndex ==
    ASSUME HistoryInv, NEW t \in Threads, WriteIndex(t)
    PROVE  DataInv' /\ OnceInv' /\ PairInv' /\ ForwardInv' /\ StampInv'
<1> DEFINE c == task'[t]
<1> PICK r : r = task[t]
    OBVIOUS
<1>1. /\ task' = [task EXCEPT ![t] = c] /\ IsTask(c) /\ c.pc = "committed" /\ r.pc = "pruned"
      /\ c.branch = r.branch /\ c.version = 0 /\ c.now = r.now /\ c.expected = 0
      /\ r.branch \in Branches
    BY IndexDoes
<1>2. /\ \A u \in Threads : u # t => task'[u] = task[u] /\ ~Committing(task[u])
      /\ \A u \in Threads : ~Committing(task'[u])
      /\ UNCHANGED <<files, edits, crashes, base, clock>> /\ inline' = {}
    BY IndexDoes
<1>3. raced \subseteq raced' /\ \A b \in Branches : Load(b)' \in {NoData, IF b = r.branch THEN r.data ELSE Load(b)}
    BY IndexDoes
<1>4. DataInv /\ OnceInv /\ StampInv /\ TasksOK /\ edits \in Nat /\ Outcome(r) /\ Committing(r)
    BY <1>1 DEF HistoryInv, Known, DataInv, DiskInv, DataTask, Diffed, Committing
<1>5. /\ resolvedFor' = [resolvedFor EXCEPT ![r.branch] = [f \in Findings |-> @[f] + CountedIn(r, f)]]
      /\ surplus' = [surplus EXCEPT ![r.branch] = [f \in Findings |-> @[f] + CountedIn(r, f) - ReturnedIn(r, f)]]
    BY DEF WriteIndex, CountedIn, ReturnedIn
<1>6. /\ \A b \in Branches : b # r.branch => resolvedFor'[b] = resolvedFor[b] /\ surplus'[b] = surplus[b]
      /\ \A f \in Findings : /\ resolvedFor'[r.branch][f] = resolvedFor[r.branch][f] + CountedIn(r, f)
                             /\ surplus'[r.branch][f] = surplus[r.branch][f] + CountedIn(r, f) - ReturnedIn(r, f)
      /\ resolvedFor' \in [Branches -> [Findings -> Nat]] /\ surplus' \in [Branches -> [Findings -> Int]]
    <2>1. \A f \in Findings : CountedIn(r, f) \in Nat /\ ReturnedIn(r, f) \in Nat
        BY DEF CountedIn, ReturnedIn
    <2>2. resolvedFor \in [Branches -> [Findings -> Nat]] /\ surplus \in [Branches -> [Findings -> Int]]
        BY <1>4 DEF DataInv
    <2> QED
        BY <1>1, <1>5, <2>1, <2>2
<1> HIDE DEF c
<1>7. DataInv'
    <2>1. ASSUME NEW u \in Threads PROVE DataTask(u)'
        <3>1. CASE u = t
            BY <1>1, <1>2, <1>4, <3>1 DEF c, DataTask, Diffed, Ready, Named, Committing
        <3>2. CASE u # t
            <4>1. task'[u] = task[u] /\ ~Committing(task'[u])
                BY <1>2, <3>2
            <4> QED
                BY <1>2, <1>4, <4>1 DEF DataInv, DataTask, IsData, Outcome, Diffed, Ready, Named, Committing
        <3> QED
            BY <3>1, <3>2
    <2>2. ASSUME NEW b \in Branches PROVE IsData(files[b])'
        BY <1>2, <1>4 DEF DataInv, IsData
    <2> QED
        BY <1>2, <1>4, <1>6, <2>1, <2>2 DEF DataInv
<1>8. OnceInv'
    <2>1. /\ r.branch \notin raced' => Uncounted(r.branch, r.resolved) /\ Uncounted(r.branch, Prints(r.data))
          /\ r.resolved \cap Prints(r.data) = {}
        BY <1>3, <1>4 DEF OnceInv, OnceTask, Outcome
    <2>2. ResolvedOnce'
        <3> SUFFICES ASSUME NEW b \in Branches, b \notin raced', NEW f \in Findings PROVE resolvedFor'[b][f] <= 1
            BY DEF ResolvedOnce
        <3>1. resolvedFor[b][f] <= 1
            BY <1>3, <1>4 DEF OnceInv, ResolvedOnce
        <3>2. CASE b # r.branch
            BY <1>6, <3>1, <3>2
        <3>3. CASE b = r.branch /\ f \in r.resolved
            BY <1>6, <2>1, <3>3 DEF CountedIn, Uncounted
        <3>4. CASE b = r.branch /\ f \notin r.resolved
            BY <1>4, <1>6, <3>1, <3>4 DEF CountedIn, DataInv
        <3> QED
            BY <3>2, <3>3, <3>4
    <2>3. ASSUME NEW b \in Branches, b \notin raced' PROVE Uncounted(b, Prints(Load(b)))'
        <3>1. CASE Load(b)' = NoData
            BY <3>1, NoDataIs DEF Uncounted, Prints
        <3>2. CASE b # r.branch /\ Load(b)' = Load(b)
            BY <1>3, <1>4, <1>6, <2>3, <3>2 DEF OnceInv, Uncounted, Prints
        <3>3. CASE b = r.branch /\ Load(b)' = r.data
            <4>1. Prints(r.data) \subseteq Findings
                BY <1>4 DEF Outcome, IsData
            <4>2. \A f \in Prints(r.data) : resolvedFor'[r.branch][f] = 0
                BY <1>6, <2>1, <2>3, <3>3, <4>1 DEF Uncounted, CountedIn
            <4> QED
                BY <3>3, <4>2 DEF Uncounted, Prints
        <3> QED
            BY <1>3, <3>1, <3>2, <3>3
    <2>4. ASSUME NEW u \in Threads PROVE OnceTask(u)'
        <3>1. CASE u = t
            BY <1>1, <1>2, <3>1 DEF c, OnceTask, Ready
        <3>2. CASE u # t
            <4>1. task'[u] = task[u] /\ ~Committing(task'[u]) /\ OnceTask(u)
                BY <1>2, <1>4, <3>2 DEF OnceInv
            <4>2. (task[u].pc = "loaded" \/ Ready(u)) /\ Current(task[u])' /\ task[u].branch \notin raced' =>
                    Current(task[u]) /\ resolvedFor'[task[u].branch] = resolvedFor[task[u].branch]
                BY <1>6, <3>2, NotOvertaken DEF Rescanned, Settled
            <4> QED
                BY <1>3, <4>1, <4>2 DEF OnceTask, Uncounted, Ready
        <3> QED
            BY <3>1, <3>2
    <2> QED
        BY <1>2, <2>2, <2>3, <2>4 DEF OnceInv
<1>9. PairInv'
    <2> SUFFICES ASSUME crashes' = 0 PROVE PairInv'
        BY DEF PairInv
    <2>1. /\ \A b \in Branches \ raced, f \in Findings : surplus[b][f] >= 0
          /\ \A b \in Branches \ raced : ~InFlight(b) => Owed(b, DOMAIN Load(b).bank)
          /\ \A u \in Threads : PairTask(u)
        BY <1>2 DEF HistoryInv, PairInv
    <2>2. r.branch \notin raced' => Owed(r.branch, r.back) /\ Owed(r.branch, DOMAIN r.data.bank \ r.resolved)
        BY <1>3, <1>4, <2>1 DEF PairTask
    <2>3. ASSUME NEW b \in Branches, b \notin raced', NEW f \in Findings PROVE surplus'[b][f] >= 0
        <3>1. surplus[b][f] \in Int /\ surplus[b][f] >= 0
            BY <1>3, <1>4, <2>1, <2>3 DEF DataInv
        <3>2. CASE b # r.branch
            BY <1>6, <3>1, <3>2
        <3>3. CASE b = r.branch /\ f \in r.back
            BY <1>6, <2>2, <2>3, <3>1, <3>3 DEF Owed, CountedIn, ReturnedIn
        <3>4. CASE b = r.branch /\ f \notin r.back
            BY <1>6, <3>1, <3>4 DEF CountedIn, ReturnedIn
        <3> QED
            BY <3>2, <3>3, <3>4
    <2>4. ASSUME r.branch \notin raced' PROVE Owed(r.branch, DOMAIN r.data.bank)'
        <3> SUFFICES ASSUME NEW f \in DOMAIN r.data.bank PROVE surplus'[r.branch][f] >= 1
            BY DEF Owed
        <3>1. f \in Findings /\ f \notin r.back
            BY <1>4 DEF Outcome, IsData
        <3>2. surplus[r.branch][f] \in Int /\ surplus[r.branch][f] >= 0
            BY <1>1, <1>3, <1>4, <2>1, <2>4, <3>1 DEF DataInv
        <3>3. CASE f \in r.resolved
            BY <1>6, <3>1, <3>2, <3>3 DEF CountedIn, ReturnedIn
        <3>4. CASE f \notin r.resolved
            BY <1>6, <2>2, <2>4, <3>1, <3>2, <3>4 DEF CountedIn, ReturnedIn, Owed
        <3> QED
            BY <3>3, <3>4
    <2>5. ASSUME NEW b \in Branches, b \notin raced' PROVE Owed(b, DOMAIN Load(b).bank)'
        <3>1. CASE Load(b)' = NoData
            BY <3>1, NoDataIs DEF Owed
        <3>2. CASE b # r.branch /\ Load(b)' = Load(b)
            <4>1. ~InFlight(b)
                BY <1>2, <3>2 DEF InFlight
            <4> QED
                BY <1>3, <1>6, <2>1, <2>5, <3>2, <4>1 DEF Owed
        <3>3. CASE b = r.branch /\ Load(b)' = r.data
            BY <2>4, <2>5, <3>3 DEF Owed
        <3> QED
            BY <1>3, <3>1, <3>2, <3>3
    <2>6. ASSUME NEW u \in Threads PROVE PairTask(u)'
        <3>1. CASE u = t
            BY <1>1, <1>2, <3>1 DEF c, PairTask, Ready
        <3>2. CASE u # t
            <4>1. task'[u] = task[u] /\ ~Committing(task'[u]) /\ PairTask(u)
                BY <1>2, <2>1, <3>2
            <4>2. Ready(u) /\ Current(task[u])' /\ task[u].branch \notin raced' =>
                    Settled(task[u]) /\ surplus'[task[u].branch] = surplus[task[u].branch]
                BY <1>6, <3>2, NotOvertaken
            <4> QED
                BY <1>3, <4>1, <4>2 DEF PairTask, Owed, Ready, Settled
        <3> QED
            BY <3>1, <3>2
    <2> QED
        BY <2>3, <2>5, <2>6 DEF PairInv
<1>10. ForwardInv'
    <2> SUFFICES ASSUME crashes' = 0, NEW u \in Threads PROVE ForwardTask(u)'
        BY DEF ForwardInv
    <2>1. CASE u = t
        BY <1>1, <1>2, <2>1 DEF c, ForwardTask, Ready
    <2>2. CASE u # t
        <3>1. task'[u] = task[u] /\ ~Committing(task'[u]) /\ ForwardTask(u) /\ DataTask(u)
            BY <1>2, <2>2 DEF HistoryInv, ForwardInv, Known, DataInv
        <3>2. (Rescanned(task[u]) \/ Ready(u)) /\ Current(task[u])' /\ task[u].branch \notin raced' =>
                Settled(task[u]) /\ task[u].branch \in Branches /\ task[u].branch # task[t].branch
            BY <2>2, NotOvertaken
        <3>3. PICK b : b = task[u].branch
            OBVIOUS
        <3>4. b \in Branches /\ b # task[t].branch => Load(b)' \in {NoData, Load(b)}
            BY <1>3
        <3>5. task[u].version \in Nat /\ task'[u].branch = b
            BY <1>4, <3>1, <3>3 DEF DataTask
        <3>6. task[u].pc \in {"rescanned", "fresh"} /\ Settled(task[u])' /\ b \notin raced' =>
                  Load(b)'.version <= task[u].version
            BY <1>3, <3>1, <3>2, <3>3, <3>4, <3>5, NoDataIs DEF ForwardTask, Settled, Rescanned
        <3> QED
            BY <1>3, <3>1, <3>2, <3>3, <3>5, <3>6 DEF ForwardTask, Ready, Settled, Rescanned
    <2> QED
        BY <2>1, <2>2
<1>11. StampInv'
    <2>1. ClockKind(t, c)
        BY <1>1, <1>2, <1>4 DEF ClockKind, Continues, Owes, Pending, Rescanning, StampInv
    <2> QED
        BY <1>1, <1>4, <2>1, StampMove
<1> QED
    BY <1>7, <1>8, <1>9, <1>10, <1>11

-----------------------------------------------------------------------------
(* The developer's steps and crashes.                                      *)

(* What a crash or the developer leaves alone: the files and all counts.   *)
LEMMA OthersDo ==
    ASSUME HistoryInv,
           (\E p \in Processes : Crash(p)) \/ Edit \/ Checkout \/ Triage \/ UNCHANGED vars
    PROVE  /\ UNCHANGED <<disk, stamps, files, inline, resolvedFor, surplus, raced>>
           /\ edits' \in Nat /\ edits' >= edits /\ crashes' \in Nat
           /\ \A u \in Threads : task'[u] = task[u] \/ task'[u] = Idle
           /\ crashes' = 0 => crashes = 0 /\ task' = task
<1>0. edits \in Nat /\ crashes \in Nat /\ TasksOK
    BY DEF HistoryInv, Known, DataInv, DiskInv
<1>1. CASE \E p \in Processes : Crash(p)
    <2>1. PICK p \in Processes : Crash(p)
        BY <1>1
    <2>2. /\ UNCHANGED <<disk, stamps, files, inline, resolvedFor, surplus, raced, edits>> /\ crashes' = crashes + 1
          /\ task' = [task EXCEPT ![Recorder(p)] = Idle, ![Recapture(p)] = Idle]
        BY <2>1 DEF Crash, disk, history, world
    <2>3. \A u \in Threads : task'[u] = task[u] \/ task'[u] = Idle
        BY <1>0, <2>2, ThreadsAre DEF TasksOK
    <2>4. crashes' \in Nat /\ crashes' # 0 /\ edits' \in Nat /\ edits' >= edits
        BY <1>0, <2>2
    <2> QED
        BY <2>2, <2>3, <2>4
<1>2. CASE Edit \/ Checkout \/ Triage \/ UNCHANGED vars
    BY <1>0, <1>2 DEF Edit, Checkout, Triage, vars, disk, history, world
<1> QED
    BY <1>1, <1>2

(* Crashes and the developer count nothing; a crash ends what is asked of  *)
(* the reintroductions and of the recaptures.                              *)
LEMMA HistoryOthers ==
    ASSUME HistoryInv,
           (\E p \in Processes : Crash(p)) \/ Edit \/ Checkout \/ Triage \/ UNCHANGED vars
    PROVE  DataInv' /\ OnceInv' /\ PairInv' /\ ForwardInv' /\ StampInv'
<1>1. /\ UNCHANGED <<disk, stamps, files, inline, resolvedFor, surplus, raced>>
      /\ edits' \in Nat /\ edits' >= edits /\ crashes' \in Nat
      /\ \A u \in Threads : task'[u] = task[u] \/ task'[u] = Idle
      /\ crashes' = 0 => crashes = 0 /\ task' = task
    BY OthersDo
<1>2. DataInv /\ OnceInv /\ StampInv /\ TasksOK /\ edits \in Nat
    BY DEF HistoryInv, Known, DataInv, DiskInv
<1>3. \A b : Load(b)' = Load(b)
    BY <1>1 DEF Load, Indexed
<1>4. DataInv'
    <2>1. ASSUME NEW u \in Threads PROVE DataTask(u)'
        <3>1. CASE task'[u] = task[u]
            BY <1>1, <1>2, <3>1, DataApart DEF DataInv
        <3>2. CASE task'[u] = Idle
            BY <1>1, <3>2, IdleIs DEF DataTask, Diffed, Ready, Named, Committing
        <3> QED
            BY <1>1, <3>1, <3>2
    <2>2. ASSUME NEW b \in Branches PROVE IsData(files[b])'
        <3>1. IsData(files[b]) /\ files' = files
            BY <1>1, <1>2 DEF DataInv
        <3> QED
            BY <1>1, <1>2, <3>1, DataAfter DEF IsData
    <2> QED
        BY <1>1, <1>2, <2>1, <2>2 DEF DataInv
<1>5. OnceInv'
    <2>1. ASSUME NEW u \in Threads PROVE OnceTask(u)'
        <3>1. CASE task'[u] = task[u]
            <4>1. OnceTask(u) /\ UNCHANGED <<stamps, resolvedFor, raced>>
                BY <1>1, <1>2 DEF OnceInv
            <4> QED
                BY <3>1, <4>1 DEF OnceTask, Uncounted, Current, Ready, Prints, Committing
        <3>2. CASE task'[u] = Idle
            BY <3>2, IdleIs DEF OnceTask, Ready, Committing
        <3> QED
            BY <1>1, <3>1, <3>2
    <2>2. ASSUME NEW b \in Branches \ raced
          PROVE  (Uncounted(b, Prints(Load(b))) /\ (b \in inline => Uncounted(b, Findings)))'
        BY <1>1, <1>2, <1>3 DEF OnceInv, Uncounted, Prints
    <2> QED
        BY <1>1, <1>2, <2>1, <2>2 DEF OnceInv, ResolvedOnce
<1>6. PairInv'
    <2> SUFFICES ASSUME crashes' = 0 PROVE PairInv'
        BY DEF PairInv
    <2>1. task' = task /\ UNCHANGED <<surplus, stamps, raced>> /\ PairInv /\ crashes = 0
        BY <1>1 DEF HistoryInv
    <2>2. \A b : InFlight(b)' <=> InFlight(b)
        BY <2>1 DEF InFlight, Committing
    <2>3. ASSUME NEW u \in Threads PROVE PairTask(u)'
        <3>1. PairTask(u) /\ (Settled(task[u])' <=> Settled(task[u]))
            BY <2>1, <2>2 DEF PairInv, Settled, Current
        <3> QED
            BY <2>1, <3>1 DEF PairTask, Owed, Ready, Committing
    <2> QED
        BY <1>3, <2>1, <2>2, <2>3 DEF PairInv, Owed
<1>7. ForwardInv'
    <2> SUFFICES ASSUME crashes' = 0, NEW u \in Threads PROVE ForwardTask(u)'
        BY DEF ForwardInv
    <2>1. task' = task /\ UNCHANGED <<stamps, raced>> /\ ForwardTask(u)
        BY <1>1 DEF HistoryInv, ForwardInv
    <2>2. InFlight(task[u].branch)' <=> InFlight(task[u].branch)
        BY <2>1 DEF InFlight, Committing
    <2>3. Settled(task[u])' <=> Settled(task[u])
        BY <2>1, <2>2 DEF Settled, Current
    <2> QED
        BY <1>3, <2>1, <2>3 DEF ForwardTask, Ready, Committing
<1>8. StampInv'
    BY <1>2, StampOthers
<1> QED
    BY <1>4, <1>5, <1>6, <1>7, <1>8

(* Every step keeps all of it.                                             *)
LEMMA HistoryNext ==
    ASSUME HistoryInv, [Next]_vars PROVE HistoryInv'
<1>1. DiskInv' /\ Known /\ DiskInv /\ TasksOK /\ StampInv
    BY DiskNext DEF HistoryInv, Known, DiskInv
<1>2. ASSUME NEW t \in Threads, NEW c, QuietMove(t, c) PROVE HistoryInv'
    <2>1. StampInv'
        BY <1>1, <1>2, StampMove DEF QuietMove, QuietFrame
    <2> QED
        BY <1>1, <1>2, <2>1, DataQuiet, OnceQuiet, PairQuiet, ForwardQuiet DEF HistoryInv, Known
<1>3. ASSUME NEW t \in Threads, NEW r, Writing(t, r) PROVE HistoryInv'
    BY <1>1, <1>3, DataWriting, OnceWriting, PairWriting, StampWriting DEF HistoryInv, Known
<1>4. ASSUME NEW p \in Processes, Record(p) \/ Rescan(p) PROVE HistoryInv'
    <2>1. CASE UpdateFingerprints(p) \/ SaveIfCurrent(p)
        BY <1>3, <2>1, Writers
    <2>2. CASE Scan(p) \/ RecordDetached(p) \/ ResolveBranch(p) \/ RecordGivesUp(p) \/ SetBaseline(p)
        BY <1>1, <1>2, <2>2, RecorderMoves
    <2>3. CASE \/ Begin(p) \/ Abandon(p) \/ Confirm(p) \/ ScanAgain(p) \/ ScanFails(p) \/ LoadPrints(p)
               \/ LoadHistory(p) \/ SaveRefused(p) \/ RecaptureGivesUp(p) \/ FinishRecapture(p)
        BY <1>1, <1>2, <2>3, RecaptureMoves
    <2> QED
        BY <1>4, <2>1, <2>2, <2>3 DEF Record, Rescan
<1>5. ASSUME NEW t \in Threads, PruneFiles(t) \/ WriteIndex(t) PROVE HistoryInv'
    BY <1>1, <1>5, HistoryPrune, HistoryIndex DEF HistoryInv, Known
<1>6. CASE (\E p \in Processes : Crash(p)) \/ Edit \/ Checkout \/ Triage \/ UNCHANGED vars
    BY <1>1, <1>6, HistoryOthers DEF HistoryInv, Known
<1> QED
    BY <1>4, <1>5, <1>6 DEF Next

(* What is known of the histories holds at all times.                      *)
LEMMA HistoryHolds == Spec => []HistoryInv
<1>1. HistoryInv /\ [Next]_vars => HistoryInv'
    BY HistoryNext
<1> QED
    BY <1>1, HistoryInit, PTL DEF Spec

(* On a branch that is not raced a finding counts as resolved at most once *)
(* for each time it was recorded, whatever processes record, recapture and *)
(* die, and whatever their clocks show, the same second included           *)
(* (store_baselines.rs, update_fingerprints and                            *)
(* save_fingerprints_if_current).                                          *)
THEOREM CountedAtMostOnce == Spec => []ResolvedOnce
<1>1. HistoryInv => ResolvedOnce
    BY DEF HistoryInv, OnceInv
<1> QED
    BY <1>1, HistoryHolds, PTL

(* Unless a process dies, a reintroduction is counted, on a branch that is *)
(* not raced, only for a resolution counted before it (aging.rs, age).     *)
THEOREM ReintroductionsAnswerResolutions == Spec => []ReintroductionsPaired
<1>1. HistoryInv => ReintroductionsPaired
    BY DEF HistoryInv, PairInv, ReintroductionsPaired
<1> QED
    BY <1>1, HistoryHolds, PTL

(* Unless a process dies, a recapture writes over a branch that is not     *)
(* raced only findings of a scan no later than its own                     *)
(* (store_baselines.rs, save_fingerprints_if_current): the comparison of   *)
(* whole seconds keeps every older rescan out, but for the one race.       *)
THEOREM RecapturesDiffForward == Spec => []RecaptureDiffsForward
<1>1. HistoryInv => RecaptureDiffsForward
    BY ThreadsAre DEF HistoryInv, ForwardInv, ForwardTask, RecaptureDiffsForward, Committing, Recapture
<1> QED
    BY <1>1, HistoryHolds, PTL
=============================================================================
