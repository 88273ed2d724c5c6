---------------------------- MODULE LspScheduler ----------------------------
(***************************************************************************)
(* The LSP server (src/src/lsp): one loop that turns editor messages and   *)
(* finished scans into new scans, at most MaxScans at a time, and scan     *)
(* threads that read the workspace on their own and answer over a channel. *)
(*                                                                         *)
(* A message handler of the loop is one action, with the launch_pending    *)
(* that ends it.  A scan thread reads the sources in a step of its own, so *)
(* a file may be saved after the read and before the result is handled.    *)
(*                                                                         *)
(* A file's content is a value of Contents; a diagnostic stands at a file  *)
(* that has a duplicate in the same workspace (the findings that matter    *)
(* here are those that depend on more than one file).                      *)
(***************************************************************************)
EXTENDS Naturals, FiniteSets

CONSTANTS
    Roots,       \* workspace roots the client opened
    Rank,        \* their place in path order, the order of the BTreeMap
    MaxScans,    \* MAX_CONCURRENT_SCANS
    Files,       \* source files
    Contents,    \* what a file can hold
    Under,       \* Under[r]: the files a scan of root r reads
    Owner,       \* Owner[f]: the deepest root that holds f
    MaxEvents    \* bound: saves, configuration changes and rescans in a behaviour

Levels == {"shown", "off"}   \* the display level: everything, or nothing
NoStatus == "none"
Statuses == {NoStatus, "scanning", "idle", "error"}

ASSUME RootsAssumption == IsFiniteSet(Roots)
ASSUME RankAssumption ==
    /\ Rank \in [Roots -> 1 .. Cardinality(Roots)]
    /\ \A q, r \in Roots : Rank[q] = Rank[r] => q = r
ASSUME MaxScansAssumption == MaxScans \in Nat \ {0}
ASSUME FilesAssumption ==
    /\ Under \in [Roots -> SUBSET Files]
    /\ Owner \in [Files -> Roots]
    /\ \A f \in Files : f \in Under[Owner[f]]
ASSUME MaxEventsAssumption == MaxEvents \in Nat

VARIABLES
    phase,       \* "serving", "joining" the scan threads, or "ended"
    generation,  \* per root: bumped by every request to scan it
    running,     \* per root: a scan was spawned and its result not handled yet
    pending,     \* per root: to be scanned again when capacity allows
    published,   \* per root: the files it last published diagnostics for
    level,       \* the current settings
    scans,       \* spawned scans whose result the loop has not taken
    disk,        \* file contents
    unreported,  \* files saved but not yet reported by the client
    shown,       \* the files the editor shows diagnostics at
    status,      \* per root: the last sensez/status the editor was sent
    events       \* how many client events happened

serverVars == <<generation, running, pending, published, level, scans>>
editorVars == <<shown, status>>
vars == <<phase, serverVars, disk, unreported, editorVars, events>>

(* A live scan thread, or its result waiting in the channel.               *)
Scan == [root : Roots, gen : Nat, level : Levels,
         state : {"reading", "ok", "failed"}, found : SUBSET Files]

Running(run) == {r \in Roots : run[r]}

(* The candidates that get a slot when they are tried in path order.       *)
FirstFree(run, candidates) ==
    {r \in candidates :
        Cardinality(Running(run))
          + Cardinality({q \in candidates : Rank[q] < Rank[r]}) < MaxScans}

Findings(r, tree, lvl) ==
    {f \in Under[r] : lvl = "shown" /\ \E g \in Under[r] \ {f} : tree[g] = tree[f]}

NewScan(r, gen, lvl) ==
    [root |-> r, gen |-> gen, level |-> lvl, state |-> "reading", found |-> {}]

(* serve and run before the loop: the client lists its folders in any      *)
(* order, and may list one twice; the first MaxScans of them start.        *)
Init ==
    /\ phase = "serving"
    /\ \E S, twice \in SUBSET Roots :
        /\ Cardinality(S) = IF Cardinality(Roots) < MaxScans
                            THEN Cardinality(Roots) ELSE MaxScans
        /\ generation = [r \in Roots |-> IF r \in twice THEN 2 ELSE 1]
        /\ running = [r \in Roots |-> r \in S]
        /\ pending = [r \in Roots |-> r \notin S \/ r \in twice]
        /\ status = [r \in Roots |-> IF r \in S THEN "scanning" ELSE NoStatus]
        /\ level \in Levels
        /\ scans = {NewScan(r, 1, level) : r \in S}
    /\ published = [r \in Roots |-> {}]
    /\ disk \in [Files -> Contents]
    /\ unreported = {}
    /\ shown = {}
    /\ events = 0

(* Variant: a request for a root that is running is folded into that scan. *)
QueueAllFolds(D, lvl) ==
    LET starting == FirstFree(running, {r \in D : ~running[r]})
    IN /\ generation' = [r \in Roots |->
                IF r \in D /\ ~running[r] THEN generation[r] + 1 ELSE generation[r]]
       /\ running' = [r \in Roots |-> running[r] \/ r \in starting]
       /\ pending' = [r \in Roots |-> pending[r] \/ (r \in D \ starting /\ ~running[r])]
       /\ scans' = scans \union {NewScan(r, generation[r] + 1, lvl) : r \in starting}
       /\ status' = [r \in Roots |-> IF r \in starting THEN "scanning" ELSE status[r]]

(* Queue every root of D: mark_dirty for each in path order, a scan thread *)
(* with the settings of that moment for those it lets start.               *)
QueueAll(D, lvl) ==
    LET starting == FirstFree(running, {r \in D : ~running[r]})
    IN /\ generation' = [r \in Roots |-> IF r \in D THEN generation[r] + 1 ELSE generation[r]]
       /\ running' = [r \in Roots |-> running[r] \/ r \in starting]
       /\ pending' = [r \in Roots |-> pending[r] \/ r \in D \ starting]
       /\ scans' = scans \union {NewScan(r, generation[r] + 1, lvl) : r \in starting}
       /\ status' = [r \in Roots |-> IF r \in starting THEN "scanning" ELSE status[r]]

(* The user saves f; the client has not told the server yet.               *)
SaveFile(f, c) ==
    /\ phase = "serving"
    /\ events < MaxEvents
    /\ disk[f] # c
    /\ disk' = [disk EXCEPT ![f] = c]
    /\ unreported' = unreported \union {f}
    /\ events' = events + 1
    /\ UNCHANGED <<phase, serverVars, editorVars>>

(* rescan_affected: the roots to scan again when the files of F change.    *)
Affected(F) == {Owner[f] : f \in F}

(* didSave or didChangeWatchedFiles arrives.                               *)
FilesReported(F) ==
    /\ phase = "serving"
    /\ F \subseteq unreported
    /\ QueueAll(Affected(F), level)
    /\ unreported' = unreported \ F
    /\ UNCHANGED <<phase, published, level, disk, shown, events>>

(* didChangeConfiguration: the new settings, then rescan_all.              *)
ChangeConfiguration(lvl) ==
    /\ phase = "serving"
    /\ events < MaxEvents
    /\ level' = lvl
    /\ QueueAll(Roots, lvl)
    /\ events' = events + 1
    /\ UNCHANGED <<phase, published, disk, unreported, shown>>

(* The sensez.rescan command.                                              *)
Rescan ==
    /\ phase = "serving"
    /\ events < MaxEvents
    /\ QueueAll(Roots, level)
    /\ events' = events + 1
    /\ UNCHANGED <<phase, published, level, disk, unreported, shown>>

(* A scan thread reads the sources and sends its result; analysis or git   *)
(* may fail.  The thread outlives the loop: serve joins it.                *)
ScanCompletes(s) ==
    /\ s.state = "reading"
    /\ \E done \in {[s EXCEPT !.state = "ok", !.found = Findings(s.root, disk, s.level)],
                    [s EXCEPT !.state = "failed"]} :
        scans' = (scans \ {s}) \union {done}
    /\ UNCHANGED <<phase, generation, running, pending, published, level, disk,
                   unreported, editorVars, events>>

(* Variant: launch_pending only after results that are published.          *)
RelaunchedUnlessPending(r) ==
    LET freed == [running EXCEPT ![r] = FALSE]
    IN IF pending[r] THEN {} ELSE FirstFree(freed, {q \in Roots : pending[q] /\ ~freed[q]})

(* Variant: take_pending without the capacity test.                        *)
RelaunchedAll(r) == {q \in Roots : pending[q] /\ (~running[q] \/ q = r)}

(* The roots launch_pending starts once r's slot is free: take_pending     *)
(* until it gives none.                                                    *)
Relaunched(r) ==
    LET freed == [running EXCEPT ![r] = FALSE]
    IN FirstFree(freed, {q \in Roots : pending[q] /\ ~freed[q]})

(* Variant: the diagnostics a rescan no longer finds are not cleared.      *)
RepublishedNoClear(r, next) == shown \union next

(* What the editor shows once root r publishes next over what it had.      *)
Republished(r, next) == (shown \ (published[r] \ next)) \union next

(* apply_result, then launch_pending: a result of an older generation      *)
(* frees the slot and is otherwise dropped; a failure leaves the           *)
(* diagnostics of the root as they were.                                   *)
HandleResult(s) ==
    LET r == s.root
        starting == Relaunched(r)
        current == s.gen = generation[r]
    IN /\ phase = "serving"
       /\ s.state # "reading"
       /\ running' = [q \in Roots |-> (running[q] /\ q # r) \/ q \in starting]
       /\ pending' = [q \in Roots |-> pending[q] /\ q \notin starting]
       /\ scans' = (scans \ {s}) \union {NewScan(q, generation[q], level) : q \in starting}
       /\ status' = [q \in Roots |->
             IF q \in starting THEN "scanning"
             ELSE IF q = r /\ current THEN (IF s.state = "ok" THEN "idle" ELSE "error")
             ELSE status[q]]
       /\ IF current /\ s.state = "ok"
          THEN /\ published' = [published EXCEPT ![r] = s.found]
               /\ shown' = Republished(r, s.found)
          ELSE UNCHANGED <<published, shown>>
       /\ UNCHANGED <<phase, generation, level, disk, unreported, events>>

(* exit, shutdown or a closed connection: the loop is left for good.       *)
Exit ==
    /\ phase = "serving"
    /\ phase' = "joining"
    /\ UNCHANGED <<serverVars, disk, unreported, editorVars, events>>

(* Variant: shutdown waits for results the loop no longer takes.           *)
JoinAllDrained ==
    /\ phase = "joining"
    /\ scans = {}
    /\ phase' = "ended"
    /\ UNCHANGED <<serverVars, disk, unreported, editorVars, events>>

(* join_all returns once every scan thread has ended.                      *)
JoinAll ==
    /\ phase = "joining"
    /\ \A s \in scans : s.state # "reading"
    /\ phase' = "ended"
    /\ UNCHANGED <<serverVars, disk, unreported, editorVars, events>>

(* The process is gone.                                                    *)
Ended == phase = "ended" /\ UNCHANGED vars

Next ==
    \/ \E f \in Files, c \in Contents : SaveFile(f, c)
    \/ \E F \in (SUBSET Files) \ {{}} : FilesReported(F)
    \/ \E lvl \in Levels : ChangeConfiguration(lvl)
    \/ Rescan
    \/ \E s \in scans : ScanCompletes(s)
    \/ \E s \in scans : HandleResult(s)
    \/ Exit
    \/ JoinAll
    \/ Ended

Spec == Init /\ [][Next]_vars

(* A scan thread ends, the loop takes what its channel holds, the client   *)
(* reports what it saved and join_all returns.  Nothing makes a user save  *)
(* or the client exit.                                                     *)
Fairness ==
    /\ \A r \in Roots : WF_vars(\E s \in scans : s.root = r /\ ScanCompletes(s))
    /\ \A r \in Roots : WF_vars(\E s \in scans : s.root = r /\ HandleResult(s))
    /\ WF_vars(\E F \in (SUBSET Files) \ {{}} : FilesReported(F))
    /\ WF_vars(JoinAll)

FairSpec == Spec /\ Fairness

-----------------------------------------------------------------------------

TypeOK ==
    /\ phase \in {"serving", "joining", "ended"}
    /\ generation \in [Roots -> Nat]
    /\ running \in [Roots -> BOOLEAN]
    /\ pending \in [Roots -> BOOLEAN]
    /\ published \in [Roots -> SUBSET Files]
    /\ level \in Levels
    /\ scans \subseteq Scan
    /\ disk \in [Files -> Contents]
    /\ unreported \subseteq Files
    /\ shown \subseteq Files
    /\ status \in [Roots -> Statuses]
    /\ events \in Nat

(* Every running flag stands for exactly one scan thread or undelivered    *)
(* result, and there is never a second one for a root: a slot is neither   *)
(* leaked nor handed out twice, whatever order results and edits come in.  *)
SlotsMatchScans ==
    /\ \A r \in Roots : running[r] <=> \E s \in scans : s.root = r
    /\ \A s, t \in scans : s.root = t.root => s = t

(* The pool is never overbooked, and no root waits while a slot is free:   *)
(* launch_pending after each result is enough, no handler that queues a    *)
(* root needs it.                                                          *)
PoolWellFilled ==
    /\ Cardinality(Running(running)) <= MaxScans
    /\ \A r \in Roots : pending[r] /\ ~running[r] =>
            Cardinality(Running(running)) = MaxScans

(* A scan that will be dropped as stale, or that was started with settings *)
(* that no longer hold, has its root pending: its request is not lost.     *)
SupersededIsPending ==
    \A s \in scans :
        s.gen # generation[s.root] \/ s.level # level => pending[s.root]

(* No file is scanned for two roots.                                       *)
DisjointRoots == \A f \in Files, r \in Roots : f \in Under[r] => r = Owner[f]

(* The last scan of r succeeded and nothing is owed to r.                  *)
Settled(r) == ~running[r] /\ ~pending[r] /\ status[r] = "idle"

(* "Diagnostics are refreshed after saves": a settled root publishes what  *)
(* a scan of the files as they are now and with the settings of now would  *)
(* find, unless a save is still to be reported.  The scan may have read    *)
(* the files before that save.                                             *)
SettledIsFresh ==
    \A r \in Roots : Settled(r) /\ unreported \intersect Under[r] = {} =>
        published[r] = Findings(r, disk, level)

(* The editor shows diagnostics at a file exactly if some root still has   *)
(* it as published: clearing what a rescan no longer finds leaves nothing  *)
(* behind and takes nothing of another root.                               *)
ShownIsPublished == shown = UNION {published[r] : r \in Roots}

(* Once saves stop, every root comes to rest with nothing owed to it       *)
(* unless the server exits: no request is forgotten and no slot is stuck.  *)
RootsComeToRest ==
    <>[](phase = "serving" => \A r \in Roots : ~running[r] /\ ~pending[r])

(* After exit the server ends although scans were running.                 *)
ExitEnds == phase = "joining" ~> phase = "ended"

(* The scheduler implements the abstract pool.                             *)
JobOf(r) ==
    IF running[r] THEN (IF pending[r] THEN "rerun" ELSE "running")
                  ELSE (IF pending[r] THEN "queued" ELSE "idle")

Pool == INSTANCE ScanPool
            WITH job <- [r \in Roots |-> JobOf(r)], open <- phase = "serving"

ImplementsPool == Pool!PoolSpec

=============================================================================
