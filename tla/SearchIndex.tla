---------------------------- MODULE SearchIndex ----------------------------
(***************************************************************************)
(* The search index and the vectors of semantic duplication (src/eyez).    *)
(* Several processes on one workspace - searches, rebuilds, scans - load   *)
(* the same two caches under .sensez, embed what is new to them and write  *)
(* each cache back: to a file beside it, whose name they share, that is    *)
(* then renamed.  Nothing is locked, and a process may die at any point.   *)
(*                                                                         *)
(* A source file is [language, items, functions, source]; an item is a     *)
(* comment or string [form, leading, scope, owner, line, text].  The       *)
(* functions and their rows' text are those of SemanticCopies.             *)
(***************************************************************************)
EXTENDS SemanticCopies

CONSTANTS
    Searchers,      \* processes
    Paths,          \* the files, in the order of the crawl
    Trees,          \* the contents the workspace may have
    Older,          \* what another version may have left in a cache, by cache
    TextLikeness(_, _), \* of two texts, in percent
    Offline, ModelDir,  \* SENSEZ_OFFLINE, SENSEZ_EYEZ_MODEL_DIR
    MaxChanges,     \* bound: changes of the workspace
    MaxRuns,        \* bound: operations started
    MaxCrashes      \* bound: processes that die

VARIABLES
    sources, caches, inode, hub, job, changes, runs, crashes,
    unhurried   \* history: the processes that read nothing that changed since

indexVars == <<sources, caches, inode, hub, job, changes, runs, crashes, unhurried>>

Caches == {"docs", "semantic"}
ModelFiles == {"config.json", "tokenizer.json", "model.safetensors"}
MODEL_ID == "potion-code-16M-v2"
Version(c) == IF c = "docs" THEN <<MODEL_ID>> ELSE <<"1", MODEL_ID>>

-----------------------------------------------------------------------------
(* Documents.  What counts as one depends on the language (eyez/capture).  *)
KindOf(language, item) ==
    CASE language = "python" /\ item.form = "string" -> IF item.leading THEN "docstring" ELSE "none"
      [] item.form = "string" -> "none"
      [] language = "rust" /\ item.form = "doc_comment" -> "docstring"
      [] OTHER -> "comment"

DocsOf(path, file) ==
    LET Kind(i) == KindOf(file.language, i)
        items == Those(file.items, {i \in ToSet(file.items) : Kind(i) # "none" /\ i.text # << >>})
        Symbol(i) == IF file.language = "javascript" THEN i.scope \o i.owner ELSE i.scope IN
    [n \in DOMAIN items |-> [file |-> path, line |-> items[n].line, symbol |-> Symbol(items[n]),
                             kind |-> Kind(items[n]), text |-> items[n].text]]

\* Variant: the key of a document leaves its text out.
KeyOfSymbol(doc) == <<doc.file, doc.symbol, doc.kind>>

(* `key`: the line is not in it.                                           *)
KeyOf(doc) == <<doc.file, doc.symbol, doc.kind, doc.text>>

Distinct(docs) ==
    LET first == {i \in DOMAIN docs : \A j \in 1 .. i - 1 : KeyOf(docs[j]) # KeyOf(docs[i])}
        order == SetToSortSeq(first, <) IN
    [n \in DOMAIN order |-> docs[order[n]]]

(* A vector is that of a text, by the files the model was loaded from.     *)
Vector(model, text) == <<model, text>>
Cosine(v, w) == TextLikeness(v[2], w[2])

-----------------------------------------------------------------------------
(* A cache that does not decode, and one that is not there, are empty.     *)
Torn == [version |-> <<"torn">>]
NoCache == [version |-> << >>]
Have(c, cache) ==
    IF cache.version # Version(c) THEN << >>
    ELSE IF c = "semantic" THEN cache.vectors
    ELSE [k \in {KeyOf(cache.docs[i]) : i \in DOMAIN cache.docs} |->
            cache.vectors[CHOOSE i \in DOMAIN cache.docs : KeyOf(cache.docs[i]) = k]]

(* `SystemCache::refresh`                                                  *)
Refresh(cache, docs, model) ==
    LET have == Have("docs", cache)
        wanted == Distinct(docs) IN
    [version |-> Version("docs"), docs |-> wanted,
     vectors |-> [i \in DOMAIN wanted |->
        IF KeyOf(wanted[i]) \in DOMAIN have THEN have[KeyOf(wanted[i])] ELSE Vector(model, wanted[i].text)]]

(* `semantic_cache::vectors`: by text; what is not asked for is dropped.   *)
RefreshTexts(cache, texts, model) ==
    LET have == Have("semantic", cache) IN
    [version |-> Version("semantic"),
     vectors |-> [t \in texts |-> IF t \in DOMAIN have THEN have[t] ELSE Vector(model, t)]]
AllHad(cache, texts) == texts \subseteq DOMAIN Have("semantic", cache)

-----------------------------------------------------------------------------
(* What a process does, in order.  Persisting writes the file beside the   *)
(* cache and renames it.                                                   *)
Persisting(c) == <<<<"begin", c>>, <<"finish", c>>, <<"rename", c>>>>
Open == <<<<"model", "docs">>, <<"load", "docs">>>>
            \o [i \in DOMAIN Paths |-> <<"collect", Paths[i]>>]
            \o <<<<"refresh", "docs">>>> \o Persisting("docs")
Scan == <<<<"parse", "all">>, <<"units", "all">>, <<"load", "semantic">>, <<"embed", "all">>>>
            \o Persisting("semantic")
Clear == <<<<"clear", "docs">>, <<"clear", "semantic">>>>
Steps(op) ==
    CASE op = "search" -> Open
      [] op = "scan" -> Scan
      [] op = "reindex" -> Open \o Scan
      [] op = "force" -> Clear \o Open \o Scan

NoJob == [op |-> "none", steps |-> << >>, cache |-> NoCache, docs |-> << >>, parsed |-> << >>,
         units |-> << >>, fd |-> 0, index |-> << >>, found |-> << >>]
StepOf(p) == job[p].steps[1]
Comes(p, kind) == job[p].steps # << >> /\ StepOf(p)[1] = kind
Do(p, r) == job' = [job EXCEPT ![p] = [r EXCEPT !.steps = Tail(@)]]
GiveUp(p) == job' = [job EXCEPT ![p] = NoJob]

(* A semantic pass that fails is an issue of the scan, and found nothing.  *)
WithoutPass(p) == job' = [job EXCEPT ![p].steps = << >>, ![p].fd = 0]
Missed(p) == IF StepOf(p)[2] = "docs" THEN GiveUp(p) ELSE WithoutPass(p)

Ids == 1 .. 4 + Cardinality(Searchers)
Referenced(d, r) == (UNION {{d[c].cache, d[c].tmp} : c \in Caches}) \cup {r[p].fd : p \in Searchers}
Content(id) == IF id = 0 THEN NoCache ELSE inode[id]
Keep(content) == inode' = [i \in Ids |-> IF i \in Referenced(caches', job') THEN content[i] ELSE Torn]

(* A search's vectors are those of the whole model, and so are the vectors *)
(* that a cache of this version holds.                                     *)
Fresh(text) == Vector(ModelFiles, text)
IsSound(cache) ==
    /\ cache.version = Version("docs") =>
            cache.vectors = [i \in DOMAIN cache.docs |-> Fresh(cache.docs[i].text)]
    /\ cache.version = Version("semantic") => cache.vectors = [t \in DOMAIN cache.vectors |-> Fresh(t)]

(* What the constants stand for: the words and shingles of a file have a   *)
(* place in an order, as its functions and comments have a row.            *)
ItemsIn(file) ==
    UNION ({f.shingles : f \in ToSet(file.functions)} \cup {ToSet(f.signature) : f \in ToSet(file.functions)}
            \cup {ToSet(i.text) : i \in ToSet(file.items)})
FileIsWell(file) ==
    /\ IsList(file.items) /\ \A i \in ToSet(file.items) : IsList(i.text) /\ i.line \in Nat
    /\ IsList(file.functions)
    /\ \A f \in ToSet(file.functions) : IsList(f.signature) /\ IsFiniteSet(f.shingles) /\ f.start \in Nat
    /\ \A a \in ItemsIn(file) : Order(a) \in Nat
IndexAssumption ==
    /\ IsFiniteSet(Searchers) /\ IsList(Paths) /\ MinShape \in Nat
    /\ \A c \in Caches : \A cache \in Older[c] : IsSound(cache)
    /\ \A t \in Trees : \A path \in ToSet(Paths) : FileIsWell(t[path])

IndexInit ==
    /\ sources \in Trees /\ hub \in SUBSET ModelFiles
    /\ \E was \in [Caches -> 0 .. 1] :
        \E left \in [Caches -> UNION {Older[c] : c \in Caches}] :
            /\ \A c \in Caches : left[c] \in Older[c]
            /\ caches = [c \in Caches |-> [cache |-> IF was[c] = 0 THEN 0 ELSE IF c = "docs" THEN 1 ELSE 2, tmp |-> 0]]
            /\ inode = [i \in Ids |-> IF i = caches["docs"].cache THEN left["docs"]
                                      ELSE IF i = caches["semantic"].cache THEN left["semantic"] ELSE Torn]
    /\ job = [p \in Searchers |-> NoJob]
    /\ changes = 0 /\ runs = 0 /\ crashes = 0 /\ unhurried = Searchers

Begin(p, op) ==
    /\ job[p].op = "none" /\ runs < MaxRuns /\ runs' = runs + 1
    /\ job' = [job EXCEPT ![p] = [NoJob EXCEPT !.op = op, !.steps = Steps(op)]]
    /\ unhurried' = unhurried \cup {p}
    /\ UNCHANGED <<sources, caches, inode, hub, changes, crashes>>

(* `model_dir`: a directory of the user's, or the pinned revision once all *)
(* its files are there; they are fetched one by one.                       *)
Whole == ModelFiles \subseteq hub
Loaded == ModelDir \/ Whole
Weights == IF ModelDir THEN ModelFiles ELSE hub \cap ModelFiles

NeedsModel(p) == Comes(p, "model") \/ (Comes(p, "embed") /\ ~AllHad(job[p].cache, TextsOf(job[p].units, CandidatePairs(job[p].units))))

Fetch(p) ==
    /\ NeedsModel(p) /\ ~Loaded
    /\ IF Offline THEN Missed(p) /\ UNCHANGED hub
       ELSE hub' = hub \cup {CHOOSE f \in ModelFiles : f \notin hub} /\ UNCHANGED job
    /\ UNCHANGED <<sources, caches, inode, changes, runs, crashes, unhurried>>

LoadModel(p) ==
    /\ Comes(p, "model") /\ Loaded
    /\ Do(p, job[p])
    /\ UNCHANGED <<sources, caches, inode, hub, changes, runs, crashes, unhurried>>

Forget(p) ==
    /\ Comes(p, "clear")
    /\ caches' = [caches EXCEPT ![StepOf(p)[2]].cache = 0]
    /\ Do(p, job[p]) /\ Keep(inode)
    /\ UNCHANGED <<sources, hub, changes, runs, crashes, unhurried>>

Load(p) ==
    /\ Comes(p, "load")
    /\ Do(p, [job[p] EXCEPT !.cache = IF Content(caches[StepOf(p)[2]].cache) = Torn THEN NoCache
                                      ELSE Content(caches[StepOf(p)[2]].cache)])
    /\ UNCHANGED <<sources, caches, inode, hub, changes, runs, crashes, unhurried>>

(* `collect` reads the files one after the other.                          *)
Collect(p) ==
    /\ Comes(p, "collect")
    /\ Do(p, [job[p] EXCEPT !.docs = @ \o DocsOf(StepOf(p)[2], sources[StepOf(p)[2]])])
    /\ UNCHANGED <<sources, caches, inode, hub, changes, runs, crashes, unhurried>>

RefreshDocs(p) ==
    /\ Comes(p, "refresh")
    /\ Do(p, [job[p] EXCEPT !.cache = Refresh(@, job[p].docs, Weights)])
    /\ UNCHANGED <<sources, caches, inode, hub, changes, runs, crashes, unhurried>>

(* A scan has parsed every file before `collect_units` reads it again.     *)
ParseAll(p) ==
    /\ Comes(p, "parse")
    /\ Do(p, [job[p] EXCEPT !.parsed = [f \in ToSet(Paths) |->
                  [docs |-> DocsOf(f, sources[f]), functions |-> sources[f].functions]]])
    /\ UNCHANGED <<sources, caches, inode, hub, changes, runs, crashes, unhurried>>

UnitsIn(parsed, t) == FlattenSeq([n \in DOMAIN Paths |-> UnitsOf(Paths[n], parsed[Paths[n]], t[Paths[n]].source)])

CollectUnits(p) ==
    /\ Comes(p, "units")
    /\ LET units == UnitsIn(job[p].parsed, sources) IN
       IF CandidatePairs(units) = {}
       THEN job' = [job EXCEPT ![p].steps = << >>, ![p].units = units, ![p].found = <<{}>>]
       ELSE Do(p, [job[p] EXCEPT !.units = units])
    /\ UNCHANGED <<sources, caches, inode, hub, changes, runs, crashes, unhurried>>

Embed(p) ==
    /\ Comes(p, "embed") /\ (Loaded \/ ~NeedsModel(p))
    /\ Do(p, [job[p] EXCEPT !.cache = RefreshTexts(@, TextsOf(job[p].units, CandidatePairs(job[p].units)), Weights)])
    /\ UNCHANGED <<sources, caches, inode, hub, changes, runs, crashes, unhurried>>

(* `write_atomic`: opening the file empties it, whoever else writes it.    *)
FileFor(c) == IF caches[c].tmp # 0 THEN caches[c].tmp ELSE CHOOSE i \in Ids : i \notin Referenced(caches, job)
BeginWrite(p) ==
    LET c == StepOf(p)[2]
        id == FileFor(c) IN
    /\ Comes(p, "begin")
    /\ caches' = [caches EXCEPT ![c].tmp = id]
    /\ Do(p, [job[p] EXCEPT !.fd = id])
    /\ Keep([inode EXCEPT ![id] = Torn])
    /\ UNCHANGED <<sources, hub, changes, runs, crashes, unhurried>>

FinishWrite(p) ==
    /\ Comes(p, "finish")
    /\ Do(p, [job[p] EXCEPT !.fd = 0])
    /\ UNCHANGED caches
    /\ Keep([inode EXCEPT ![job[p].fd] = job[p].cache])
    /\ UNCHANGED <<sources, hub, changes, runs, crashes, unhurried>>

(* Another process may have renamed it already: that fails.  What was      *)
(* refreshed is used once it is kept.                                      *)
VectorIn(cache, text) == cache.vectors[text]
FoundWith(cache, units) == Judged(units, CandidatePairs(units), LAMBDA t : VectorIn(cache, t), Cosine)
Rename(p) ==
    LET c == StepOf(p)[2] IN
    /\ Comes(p, "rename")
    /\ IF caches[c].tmp = 0 THEN Missed(p) /\ UNCHANGED caches
       ELSE /\ caches' = [caches EXCEPT ![c] = [cache |-> caches[c].tmp, tmp |-> 0]]
            /\ Do(p, IF c = "docs" THEN [job[p] EXCEPT !.index = <<job[p].cache>>]
                     ELSE [job[p] EXCEPT !.found = <<FoundWith(job[p].cache, job[p].units)>>])
    /\ Keep(inode)
    /\ UNCHANGED <<sources, hub, changes, runs, crashes, unhurried>>

Leave(p) ==
    /\ job[p].op # "none" /\ job[p].steps = << >>
    /\ GiveUp(p)
    /\ UNCHANGED <<sources, caches, inode, hub, changes, runs, crashes, unhurried>>

(* A process dies, or gives up on an error of the file system, the network *)
(* or the configuration.                                                   *)
Abort(p) ==
    /\ job[p].op # "none" /\ crashes < MaxCrashes /\ crashes' = crashes + 1
    /\ GiveUp(p) /\ UNCHANGED caches /\ Keep(inode)
    /\ UNCHANGED <<sources, hub, changes, runs, unhurried>>

ChangeTree ==
    /\ changes < MaxChanges /\ changes' = changes + 1
    /\ sources' \in Trees \ {sources}
    /\ unhurried' = {p \in Searchers : job[p].op = "none"}
    /\ UNCHANGED <<caches, inode, hub, job, runs, crashes>>

IndexNext ==
    \/ \E p \in Searchers :
        \/ \E op \in {"search", "scan", "reindex", "force"} : Begin(p, op)
        \/ Fetch(p) \/ LoadModel(p) \/ Forget(p) \/ Load(p) \/ Collect(p) \/ RefreshDocs(p)
        \/ ParseAll(p) \/ CollectUnits(p) \/ Embed(p)
        \/ BeginWrite(p) \/ FinishWrite(p) \/ Rename(p) \/ Leave(p) \/ Abort(p)
    \/ ChangeTree

IndexSpec == IndexInit /\ [][IndexNext]_indexVars

-----------------------------------------------------------------------------
(* A search answers from what building the index anew from the files it    *)
(* read would give, each document once, at its present line, with the      *)
(* vector of its own text by the whole model: whatever other processes     *)
(* wrote to the cache in between or left there when they died.             *)
AllDocs(t) == FlattenSeq([n \in DOMAIN Paths |-> DocsOf(Paths[n], t[Paths[n]])])
IndexIsExact ==
    \A p \in Searchers : job[p].index # << >> =>
        LET index == job[p].index[1] IN
        /\ index.docs = Distinct(job[p].docs)
        /\ index.vectors = [i \in DOMAIN index.docs |-> Fresh(index.docs[i].text)]
        /\ p \in unhurried => job[p].docs = AllDocs(sources)

(* A scan reports every two functions that have as much in common as the   *)
(* thresholds ask and whose texts are as alike, and no others: neither the *)
(* index of rare items nor the cached vectors lose or add one.             *)
RewritesAreFound ==
    \A p \in Searchers : job[p].found # << >> /\ p \in unhurried =>
        LET parsed == [f \in ToSet(Paths) |-> [docs |-> DocsOf(f, sources[f]), functions |-> sources[f].functions]]
            units == UnitsIn(parsed, sources)
            Exact(pairs) == Judged(units, pairs, Fresh, Cosine) IN
        /\ Exact(Alike(units)) \subseteq job[p].found[1]
        /\ job[p].found[1] \subseteq Exact({q \in (DOMAIN units) \X (DOMAIN units) :
                                              q[1] < q[2] /\ SizeCompatible(units[q[1]], units[q[2]])})
=============================================================================
