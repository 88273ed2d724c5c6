---------------------------- MODULE ScanSession ----------------------------
(***************************************************************************)
(* How the scans of a long-lived server get their parse facts.  With the   *)
(* cache on, an AnalysisSession keeps the facts of the workspaces used     *)
(* last; otherwise each scan runs in a child process, which keeps facts on *)
(* disk, under .sensez/parse-cache, and the server scans by itself when    *)
(* the child cannot.  Scans of several threads overlap, files change, and  *)
(* the sensez binary may be replaced while the server runs.                *)
(*                                                                         *)
(* What a file parses to is abstracted to what it depends on: the build    *)
(* that parsed it, its path, its content and the file_id stamped on its    *)
(* spans, the position of the file among the sources.                      *)
(***************************************************************************)
EXTENDS Integers, Sequences, FiniteSets, SequencesExt

CONSTANTS
    Threads,        \* threads of the server that scan
    Roots,          \* workspaces
    SourceFiles,    \* the sources of a workspace, a set of numbers: their order
    Contents,       \* what a file may contain
    Deep,           \* a content the parser rejects
    Configs,        \* configurations
    Cached,         \* those with [cache] enabled
    NoRoot,         \* not a workspace: no scan
    MaxWorkspaces,  \* MAX_WORKSPACES
    Budget,         \* BUDGET_BYTES, in entries
    Builds,         \* bound: builds of the binary, 1 .. n
    MaxEdits,       \* bound: edits of sources, configuration and entries
    MaxFaults       \* bound: panics, kills of children and failed spawns

ASSUME SessionAssumption ==
    /\ IsFiniteSet(Threads) /\ IsFiniteSet(SourceFiles) /\ SourceFiles \subseteq Nat /\ Deep \in Contents
    /\ Cached \subseteq Configs /\ MaxWorkspaces \in Nat \ {0} /\ Budget \in Nat
    /\ Builds \in Nat \ {0} /\ MaxEdits \in Nat /\ MaxFaults \in Nat

VARIABLES
    tree,      \* the sources of each workspace: a function on the files present
    config,    \* the configuration
    build,     \* the build of the binary on disk; the server is build 1
    recent,    \* the session's workspaces, least recently used first
    states,    \* the parse cache states, by number
    disk,      \* the entries of each workspace's parse cache, oldest first
    scan,      \* the scan of each thread
    edits, faults

vars == <<tree, config, build, recent, states, disk, scan, edits, faults>>

Numbers == 1 .. MaxWorkspaces + Cardinality(Threads)
Nothing == [f \in {} |-> 0]
Maps(S) == UNION {[F -> S] : F \in SUBSET SourceFiles}

(* `parse_loaded_source` of each source: the file's facts, or an issue.    *)
FileId(src, f) == Cardinality({g \in DOMAIN src : g < f})
Facts(b, src, f) == [build |-> b, file |-> f, content |-> src[f], id |-> FileId(src, f)]
Parses(src) == {f \in DOMAIN src : src[f] # Deep}
FullParse(b, src) == [f \in Parses(src) |-> Facts(b, src, f)]

(* A parse cache state: the facts kept of the last scan, each under its    *)
(* path and content hash.                                                  *)
EmptyState == [kept |-> {}, poisoned |-> FALSE]

\* Variant: the file_id of the earlier scan stays.
RestoreAsIs(fact, id) == fact

(* `CachedFile::restore` stamps the file_id anew.                          *)
Restore(fact, id) == [fact EXCEPT !.id = id]

Hit(kept, src, f) == {fact \in kept : fact.file = f /\ fact.content = src[f]}
Reusable(kept, src) == {f \in DOMAIN src : Hit(kept, src, f) # {}}

(* `parse_sources_incremental`: restore what is kept, parse the rest.      *)
Incremental(b, kept, src) ==
    [f \in Parses(src) |->
        IF f \in Reusable(kept, src)
        THEN Restore(CHOOSE fact \in Hit(kept, src, f) : TRUE, FileId(src, f))
        ELSE Facts(b, src, f)]

(* `ParseCacheState::replace`                                              *)
Replace(s, batch) == [s EXCEPT !.kept = {batch[f] : f \in DOMAIN batch}]

Idle == [pc |-> "idle", root |-> NoRoot, config |-> CHOOSE c \in Configs : TRUE,
         build |-> 1, src |-> Nothing, state |-> 0, batch |-> Nothing, reused |-> {}]

TypeOK ==
    /\ tree \in [Roots -> Maps(Contents)]
    /\ config \in Configs /\ build \in 1 .. Builds
    /\ Len(recent) <= MaxWorkspaces /\ IsInjective([i \in DOMAIN recent |-> recent[i].root])
    /\ \A i \in DOMAIN recent : recent[i].root \in Roots /\ recent[i].state \in Numbers
    /\ DOMAIN states = Numbers
    /\ \A n \in Numbers : states[n].poisoned \in BOOLEAN
    /\ \A t \in Threads :
        /\ scan[t].pc \in {"idle", "spawn", "store", "evict", "workspace", "parse", "done"}
        /\ scan[t].src \in Maps(Contents) /\ scan[t].state \in Numbers \cup {0}
        /\ scan[t].root \in Roots \cup {NoRoot}
    /\ edits \in 0 .. MaxEdits /\ faults \in 0 .. MaxFaults

Init ==
    /\ tree \in [Roots -> Maps(Contents)] /\ config \in Configs /\ build = 1
    /\ recent = <<>> /\ states = [n \in Numbers |-> EmptyState]
    /\ disk = [r \in Roots |-> <<>>]
    /\ scan = [t \in Threads |-> Idle]
    /\ edits \in 0 .. MaxEdits /\ faults \in 0 .. MaxFaults   \* what is left bounds what is to come

-----------------------------------------------------------------------------
Become(t, s) == scan' = [scan EXCEPT ![t] = s]
Move(t, pc) == Become(t, [scan[t] EXCEPT !.pc = pc])
At(t, pc) == scan[t].pc = pc
Finish(t, batch, reused) ==
    Become(t, [scan[t] EXCEPT !.pc = "done", !.state = 0, !.batch = batch, !.reused = reused])
Fail == faults < MaxFaults /\ faults' = faults + 1

(* A scan of the service loads the configuration.  If that enables the     *)
(* cache, it reads and hashes the sources (`load_project`) for the session;*)
(* if not, it goes to the child.                                           *)
StartScan(t, r) ==
    /\ At(t, "idle")
    /\ Become(t, IF config \in Cached
                 THEN [Idle EXCEPT !.pc = "workspace", !.root = r, !.config = config, !.src = tree[r]]
                 ELSE [Idle EXCEPT !.pc = "spawn", !.root = r, !.config = config])
    /\ UNCHANGED <<tree, config, build, recent, states, disk, edits, faults>>

(* Without the cache, the server parses every file.                        *)
ScanUncached(t) ==
    LET src == tree[scan[t].root] IN
    Become(t, [scan[t] EXCEPT !.pc = "done", !.build = 1, !.src = src, !.batch = FullParse(1, src), !.reused = {}])

(* `AnalysisSession::workspace`: the state of the root, most recently used *)
(* from now on; a new root takes the place of the least recently used one. *)
(* The state itself lives on as long as a scan holds it.                   *)
Position(r) == {i \in DOMAIN recent : recent[i].root = r}
InUse(order) == {order[i].state : i \in DOMAIN order} \cup {scan[t].state : t \in Threads}

MakeRoom == IF Len(recent) < MaxWorkspaces THEN recent ELSE Tail(recent)

Workspace(t) ==
    /\ At(t, "workspace")
    /\ \E order \in {IF Position(scan[t].root) = {} THEN MakeRoom
                     ELSE RemoveAt(recent, CHOOSE i \in Position(scan[t].root) : TRUE)} :
         LET free == Numbers \ InUse(order)
             n == IF Position(scan[t].root) = {} THEN CHOOSE k \in free : \A j \in free : k <= j
                  ELSE recent[CHOOSE i \in Position(scan[t].root) : TRUE].state IN
         /\ recent' = Append(order, [root |-> scan[t].root, state |-> n])
         /\ states' = [k \in Numbers |-> IF k \in InUse(order) \cup {n} THEN states[k] ELSE EmptyState]
         /\ Become(t, [scan[t] EXCEPT !.pc = "parse", !.state = n])
    /\ UNCHANGED <<tree, config, build, disk, edits, faults>>

(* `AnalysisSession::parse` under the lock of the state, which is of no    *)
(* use any more once a scan has panicked with it.                          *)
Parse(t) ==
    LET s == states[scan[t].state]
        src == scan[t].src
        batch == Incremental(1, s.kept, src) IN
    /\ At(t, "parse")
    /\ IF s.poisoned
       THEN Finish(t, FullParse(1, src), {}) /\ UNCHANGED states
       ELSE /\ Finish(t, batch, Reusable(s.kept, src))
            /\ states' = [states EXCEPT ![scan[t].state] = Replace(s, batch)]
    /\ UNCHANGED <<tree, config, build, recent, disk, edits, faults>>

Panic(t) ==
    /\ At(t, "parse") /\ ~states[scan[t].state].poisoned
    /\ states' = [states EXCEPT ![scan[t].state].poisoned = TRUE]
    /\ Fail /\ Become(t, Idle)
    /\ UNCHANGED <<tree, config, build, recent, disk, edits>>

-----------------------------------------------------------------------------
(* The scan child.  It loads the configuration itself.  Entries are keyed  *)
(* by the build, the configuration, the path and the content.              *)
Key(b, c, src, f) == [build |-> b, config |-> c, file |-> f, content |-> src[f]]

\* Variant: every build and configuration reads the entries of any other.
SoundForAny(entry, key) == entry.key.file = key.file /\ entry.key.content = key.content /\ entry.sound

(* An entry that is truncated or whose checksum is wrong does not count.   *)
Sound(entry, key) == entry.key = key /\ entry.sound

ReadEntries(r, b, c, src) ==
    {entry \in ToSet(disk[r]) : \E f \in DOMAIN src : Sound(entry, Key(b, c, src, f))}

(* The child runs and restores what it can, or it cannot run.              *)
Spawn(t) ==
    LET r == scan[t].root
        src == tree[r]
        kept == {entry.fact : entry \in ReadEntries(r, build, config, src)} IN
    /\ At(t, "spawn")
    /\ \/ /\ Become(t, [scan[t] EXCEPT !.pc = "store", !.config = config, !.build = build, !.src = src,
                                       !.reused = Reusable(kept, src),
                                       !.batch = Incremental(build, kept, src)])
          /\ UNCHANGED faults
       \/ Fail /\ ScanUncached(t)
    /\ UNCHANGED <<tree, config, build, recent, states, disk, edits>>

(* A miss is written to a file of its own name and renamed: replaced as a  *)
(* whole, by now the newest, or not at all.                                *)
EntryOf(s, f) == [key |-> Key(s.build, s.config, s.src, f), fact |-> s.batch[f], sound |-> TRUE]
Stored(entries, entry) == Append(RemoveFirstMatch(entries, LAMBDA e : e.key = entry.key), entry)
StoredAll(entries, new) == FoldLeft(Stored, entries, SetToSeq(new))

(* A child that is killed meanwhile has written some of its misses, and    *)
(* fails the scan.                                                         *)
Store(t) ==
    LET s == scan[t]
        misses == DOMAIN s.batch \ s.reused IN
    /\ At(t, "store")
    /\ \E written \in SUBSET misses :
        /\ disk' = [disk EXCEPT ![s.root] = StoredAll(@, {EntryOf(s, f) : f \in written})]
        /\ \/ /\ written = misses
              /\ Move(t, IF misses = {} THEN "done" ELSE "evict")
              /\ UNCHANGED faults
           \/ Fail /\ Become(t, Idle)
    /\ UNCHANGED <<tree, config, build, recent, states, edits>>

(* `DiskCache::evict`: the oldest entries that the scan does not use go    *)
(* until the rest fit.                                                     *)
Current(s) == {Key(s.build, s.config, s.src, f) : f \in DOMAIN s.src}

\* Variant: the scan's own entries go as well.
EvictAny(entries, current) ==
    SubSeq(entries, 1 + (IF Len(entries) > Budget THEN Len(entries) - Budget ELSE 0), Len(entries))

Evict(entries, current) ==
    LET Drop(kept, e) == IF e.key \notin current /\ Len(entries) - Budget > kept.gone
                         THEN [kept EXCEPT !.gone = @ + 1] ELSE [kept EXCEPT !.left = Append(@, e)] IN
    FoldLeft(Drop, [left |-> <<>>, gone |-> 0], entries).left

EvictEntries(t) ==
    /\ At(t, "evict")
    /\ disk' = [disk EXCEPT ![scan[t].root] = Evict(@, Current(scan[t]))]
    /\ Move(t, "done")
    /\ UNCHANGED <<tree, config, build, recent, states, edits, faults>>

(* The server takes the child's report; it cannot read what a binary       *)
(* installed since it started writes in another format, and scans itself.  *)
Unreadable(t) ==
    /\ At(t, "done") /\ scan[t].build # 1 /\ ScanUncached(t)
    /\ UNCHANGED <<tree, config, build, recent, states, disk, edits, faults>>

Report(t) ==
    /\ At(t, "done") /\ Become(t, Idle)
    /\ UNCHANGED <<tree, config, build, recent, states, disk, edits, faults>>

-----------------------------------------------------------------------------
Edit ==
    /\ edits < MaxEdits /\ edits' = edits + 1
    /\ \/ \E r \in Roots, src \in Maps(Contents) :
            /\ \E f \in SourceFiles : \A g \in SourceFiles \ {f} :
                    (g \in DOMAIN src <=> g \in DOMAIN tree[r]) /\ (g \in DOMAIN src => src[g] = tree[r][g])
            /\ src # tree[r] /\ tree' = [tree EXCEPT ![r] = src]
            /\ UNCHANGED <<config, disk>>
       \/ /\ config' \in Configs \ {config}
          /\ UNCHANGED <<tree, disk>>
       \/ \E r \in Roots : \E i \in DOMAIN disk[r] :
            /\ disk[r][i].sound /\ disk' = [disk EXCEPT ![r][i].sound = FALSE]
            /\ UNCHANGED <<tree, config>>
    /\ UNCHANGED <<build, recent, states, scan, faults>>

(* A new binary is installed while no child runs the old one.              *)
Install ==
    /\ build < Builds /\ build' = build + 1
    /\ \A t \in Threads : scan[t].pc \notin {"store", "evict"}
    /\ UNCHANGED <<tree, config, recent, states, disk, scan, edits, faults>>

Next ==
    \/ \E t \in Threads :
        \/ \E r \in Roots : StartScan(t, r)
        \/ Workspace(t) \/ Parse(t) \/ Panic(t)
        \/ Spawn(t) \/ Store(t) \/ EvictEntries(t)
        \/ Unreadable(t) \/ Report(t)
    \/ Edit \/ Install

Spec == Init /\ [][Next]_vars

-----------------------------------------------------------------------------
(* Whatever was cached, evicted, poisoned, damaged or written by others    *)
(* meanwhile, a scan ends with what parsing the sources it read afresh     *)
(* would give.                                                             *)
ReusedIsFresh == \A t \in Threads : At(t, "done") =>
    scan[t].batch = FullParse(scan[t].build, scan[t].src)

(* A child that evicts leaves every entry its own scan uses, and beyond    *)
(* these no more than the budget.                                          *)
SparesOwn(before, after, own) ==
    /\ \A e \in ToSet(before) : e.key \in own => e \in ToSet(after)
    /\ Len(after) <= Budget \/ \A e \in ToSet(after) : e.key \in own

EvictionSparesOwn ==
    [][\A t \in Threads : At(t, "evict") /\ scan'[t].pc = "done" =>
        SparesOwn(disk[scan[t].root], disk'[scan[t].root], Current(scan[t]))]_vars

=============================================================================
