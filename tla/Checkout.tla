------------------------------ MODULE Checkout ------------------------------
(***************************************************************************)
(* A repository under change: the tree of HEAD, the working tree and the   *)
(* paths added to git's index, as a developer writes, deletes, adds and    *)
(* commits files.  In every state it is asked what the analyses of the     *)
(* source tree promise: the scan's cycles and dead code, the report of the *)
(* change, and the tests reflexez runs for it.                             *)
(*                                                                         *)
(* What they are compared with is defined here from the statements alone,  *)
(* the way the languages read them, without the module graph.              *)
(***************************************************************************)
EXTENDS ChangeReport, TestImpact

CONSTANTS
    Repositories,  \* the tree each starts from, and the texts of its paths
    MaxEdits       \* bound: writes, deletions and additions

(* A text is a list of statements, an import's names a list; what is       *)
(* defined or accessed has a name.                                         *)
IsText(text) ==
    /\ IsList(text)
    /\ \A s \in ToSet(text) :
        /\ s.kind = "import" => /\ IsList(s.target) /\ IsList(s.symbols) /\ IsList(s.bindings)
                                /\ "" \notin ToSet(s.symbols) \cup ToSet(s.bindings)
                                /\ s.phase \in TYPE_LEVEL
        /\ s.kind \in {"def", "attr"} => s.name \notin {"", "*"}
        /\ s.kind \in {"hint", "returns"} => IsList(s.types)
        /\ s.kind = "class" => IsFiniteSet(s.bases)
IsTree(tree) == \A p \in DOMAIN tree : IsText(tree[p])

ASSUME RepositoriesAssumption ==
    \A r \in Repositories :
        IsTree(r.start) /\ \A p \in DOMAIN r.texts : \A text \in ToSet(r.texts[p]) : IsText(text)

VARIABLES
    repository,  \* the one under change
    head, work,  \* the trees
    added,       \* the paths of work that git's index has and HEAD has not
    edits

vars == <<repository, head, work, added, edits>>

OnPaths(tree, S) == [p \in DOMAIN tree \cap S |-> tree[p]]

Init ==
    /\ repository \in Repositories
    /\ head = repository.start
    /\ work = head
    /\ added = {}
    /\ edits = 0

Edited == edits < MaxEdits /\ edits' = edits + 1

Write(p, text) ==
    /\ Edited
    /\ p \in DOMAIN work => work[p] # text
    /\ work' = [q \in DOMAIN work \cup {p} |-> IF q = p THEN text ELSE work[q]]
    /\ UNCHANGED <<repository, head, added>>

Delete(p) ==
    /\ Edited
    /\ p \in DOMAIN work
    /\ work' = OnPaths(work, DOMAIN work \ {p})
    /\ added' = added \ {p}
    /\ UNCHANGED <<repository, head>>

Add(p) ==
    /\ Edited
    /\ p \in DOMAIN work \ (DOMAIN head \cup added)
    /\ added' = added \cup {p}
    /\ UNCHANGED <<repository, head, work>>

Commit ==
    /\ head' = OnPaths(work, DOMAIN head \cup added)
    /\ head' # head
    /\ added' = {}
    /\ UNCHANGED <<repository, work, edits>>

Next ==
    \/ \E p \in DOMAIN repository.texts : \E text \in ToSet(repository.texts[p]) : Write(p, text)
    \/ \E p \in DOMAIN work : Delete(p) \/ Add(p)
    \/ Commit

Spec == Init /\ [][Next]_vars

(***************************************************************************)
(* What the languages read                                                 *)
(***************************************************************************)
Existing(tree) == Sources \cap DOMAIN tree

(* Every file has its node: it parses, and its module name is its own.     *)
Whole(tree) == Nodes(Parsed(tree)) = Existing(tree)

(* The file a module name means to p: of its own language and root, or     *)
(* under the path it imports.                                              *)
Named(tree, p, n) ==
    {q \in Existing(tree) :
        IF p \in DOMAIN PathKey THEN q \in DOMAIN PathKey /\ PathKey[q] = n
        ELSE Language[q] = Language[p] /\ Root[q] = Root[p] /\ LogicalName[q] = n}

Package(p) == IF p \in PackageIndex THEN LogicalName[p] ELSE Front(LogicalName[p])
Absolute(p, s) ==
    IF s.dots = 0 THEN s.target
    ELSE SubSeq(Package(p), 1, Len(Package(p)) - (s.dots - 1)) \o s.target

(* What the import s of p takes: pairs of a file and a name of it, "" for  *)
(* the file as a whole.  A name that is a submodule is the file itself, of *)
(* which the attributes of the name bound to it are taken.                 *)
Taken(tree, p, s) ==
    LET n == Absolute(p, s)
        Sub(i) == IF HasSubmodules(p) THEN Named(tree, p, Append(n, s.symbols[i])) ELSE {}
        Attrs(b) == {a.name : a \in {x \in ToSet(Statements(tree, p, "attr")) : x.of = b}}
        Members(i) ==
            IF s.symbols[i] = "*" /\ i \in DOMAIN s.bindings /\ ~s.reexport
               /\ s.bindings[i] \notin Names(tree, p, "use")
            THEN Attrs(s.bindings[i]) ELSE {s.symbols[i]}
        Of(files, names) == files \X ({""} \cup names)
    IN  (IF s.symbols = << >>
         THEN Of(Named(tree, p, n), UNION {Attrs(s.bindings[i]) : i \in DOMAIN s.bindings \cap {1}})
         ELSE {})
        \cup UNION {IF Sub(i) = {} THEN Of(Named(tree, p, n), Members(i))
                    ELSE Of(Sub(i), Attrs(Binding(s, i))) : i \in DOMAIN s.symbols}

ImportsOf(tree, p) == ToSet(Statements(tree, p, "import"))
Loads(tree, p, s) == {t[1] : t \in Taken(tree, p, s)}

(* Pairs of files, by the imports of a kind.                               *)
Linked(tree, Kind(_)) ==
    UNION {UNION {{p} \X Loads(tree, p, s) : s \in {x \in ImportsOf(tree, p) : Kind(x)}} :
           p \in Existing(tree)}

(* An import of a module missing from a package that is there: it fails.   *)
Dangling(tree) ==
    \E p \in Existing(tree) : HasSubmodules(p) /\ \E s \in ImportsOf(tree, p) :
        /\ Named(tree, p, Absolute(p, s)) = {}
        /\ \E q \in Existing(tree) :
            Language[q] = Language[p] /\ IsStrictPrefix(LogicalName[q], Absolute(p, s))

IsStatic(s) == ~s.computed
AtLoad(s) == ~s.computed /\ ~s.inline /\ ~s.decl /\ s.phase = "runtime"
Runtime(s) == s.phase = "runtime"

(***************************************************************************)
(* Cycles                                                                  *)
(***************************************************************************)
Rotates(loop) ==
    \A i \in DOMAIN loop : loop[i].to = loop[IF i = Len(loop) THEN 1 ELSE i + 1].from

ImportsAtLoad(tree) == {l \in Linked(tree, AtLoad) : l[1] # l[2]}

CyclesMatch(g, found, links) ==
    LET Group(p) == {q \in Reach(links, {p}) : p \in Reach(links, {q})}
        FilesOf(c) == {FileOf(g, n) : n \in c.modules}
        warned == {c \in found : c.action = "warning"}
    IN  /\ {FilesOf(c) : c \in warned} =
                {G \in {Group(p) : p \in Existing(g.tree)} :
                    Cardinality(G) > 1 /\ ~(G \subseteq CycleExclude)}
        /\ \A c \in found :
            /\ Len(c.edges) > 1 /\ Rotates(c.edges)
            /\ Cardinality({e.from : e \in ToSet(c.edges)}) = Len(c.edges)
            /\ \A e \in ToSet(c.edges) :
                /\ e.file \in FilesOf(c) /\ ~e.import.inline
                /\ c \in warned => <<e.file, FileOf(g, e.to)>> \in links

(* The imports at load time that the module graph holds.                   *)
LinksAtLoad(g) ==
    {<<e.file, FileOf(g, e.to)>> : e \in {x \in ToSet(CycleEdges(g, RUNTIME)) : x.to \in Internal(g)}}

(* The files of a cycle warning import each other while they load, they    *)
(* are all that do, and the loop shown is real and passes no module twice; *)
(* every such group is warned of unless excluded (noze/cycles.rs).  Where  *)
(* no import is known to fail, the graph holds what loads what.  What must *)
(* not slip: imports in functions, the edges a search may follow out of    *)
(* the group and back, and names two files share.                          *)
CyclesAreExact ==
    LET Match(g, links) ==
            /\ CyclesMatch(g, Cycles(g), links)
            /\ ~Dangling(work) => LinksAtLoad(g) = links
    IN  Whole(work) => Match(Build(work, FALSE), ImportsAtLoad(work))

(***************************************************************************)
(* Dead code                                                               *)
(***************************************************************************)
(* Where a name of a file comes from: itself, or through re-exports.       *)
Origin(tree) ==
    LET names(q) == (UNION {Words(s) : s \in ToSet(tree[q])}) \cup {"*", "default"}
        From(q, s, i) ==
            LET targets == Named(tree, q, Absolute(q, s))
                exported == IF i \in DOMAIN s.bindings THEN s.bindings[i] ELSE s.symbols[i]
            IN  IF s.symbols[i] = "*" /\ i \notin DOMAIN s.bindings
                THEN UNION {{<< <<q, n>>, <<r, n>> >> :
                             n \in UNION {names(f) : f \in Existing(tree)}} : r \in targets}
                ELSE {<< <<q, n>>, <<r, s.symbols[i]>> >> : n \in {exported, "*"}, r \in targets}
    IN  UNION {UNION {UNION {From(q, s, i) : i \in DOMAIN s.symbols} :
                      s \in {x \in ImportsOf(tree, q) : x.reexport}} : q \in Existing(tree)}

(* The names asked for by files production runs: those its entry points    *)
(* reach, and those reached by a file nothing imports and no test runner   *)
(* runs.                                                                   *)
ProductionFiles(tree) ==
    LET links == Linked(tree, IsStatic)
        imported == {l[2] : l \in {k \in links : k[1] # k[2]}}
    IN  Reach(links, (Entries \cup ConfigFiles \cup ((Sources \ TestSources) \ imported))
                        \cap Existing(tree))

UsedNames(tree) ==
    LET asked(p) == UNION {Taken(tree, p, s) :
                            s \in {x \in ImportsOf(tree, p) : IsStatic(x) /\ ~x.reexport}}
    IN  Reach(Origin(tree), UNION {asked(p) : p \in ProductionFiles(tree)})

Rooted(tree) ==
    Reach(Linked(tree, IsStatic), (Entries \cup ConfigFiles \cup TestSources) \cap Existing(tree))

(* The members of classes that files of S may access: of the classes a     *)
(* file says a thing has, and of theirs below; of any class, where it      *)
(* says nothing.  Members inherited from above are left out, as they are   *)
(* by the analysis.                                                        *)
UsedMembers(tree, S) ==
    LET Facts(kind) == UNION {ToSet(Statements(tree, p, kind)) : p \in S}
        classes == {c.name : c \in Facts("class")}
        below == UNION {c.bases \X {c.name} : c \in Facts("class")}
        Known(p, name) == classes \cap UNION {ToSet(h.types) :
                            h \in {x \in ToSet(Statements(tree, p, "hint")) : x.name = name}}
        Having(p, name) == IF Known(p, name) = {} THEN classes ELSE Reach(below, Known(p, name))
        anywhere == {s.name : s \in Facts("self") \cup Facts("path") \cup Facts("result") \cup Facts("string")}
    IN  (classes \X anywhere)
        \cup UNION {UNION {Having(p, a.of) \X {a.name} : a \in ToSet(Statements(tree, p, "attr"))} :
                    p \in S}

(* Nothing that is used is reported unreferenced, however production gets  *)
(* there - by name, as an attribute of a module, under an alias, through   *)
(* re-exports of re-exports or as a default export -, no module a root     *)
(* reaches is reported unreachable, and no import, method or property that *)
(* some file may use outside of tests (noze/dead_code).  In a tree with a  *)
(* file that has no node the imports of that file are not seen.            *)
NothingUsedIsDead ==
    LET SymbolRight(f, used) ==
            /\ f.reached = "orphan" => f.file \notin Rooted(work)
            /\ f.reached = "tests" => f.file \notin ProductionFiles(work)
            /\ \A s \in ToSet(Statements(work, f.file, "def")) :
                s.name \in f.symbols =>
                    {<<f.file, n>> : n \in {s.name, "*"} \cup IF s.default THEN {"default"} ELSE {}}
                        \cap used = {}
        ImportRight(f) ==
            f.symbols \cap (Names(work, f.file, "use") \cup Names(work, f.file, "all")
                            \cup {a.of : a \in ToSet(Statements(work, f.file, "attr"))}) = {}
        MemberRight(f, used) == {f.at.class} \X f.symbols \cap used = {}
        InUse == [method |-> UsedMembers(work, Existing(work) \ TestSources),
                  property |-> UsedMembers(work, Existing(work) \ IgnoredSources)]
        Right(f, used, members) ==
            CASE f.reached = "import" -> ImportRight(f)
              [] f.reached \in DOMAIN members -> MemberRight(f, members[f.reached])
              [] OTHER -> SymbolRight(f, used)
        AllRight(found, used, members) == \A f \in found : Right(f, used, members)
    IN  Whole(work) => AllRight(Detect(Build(work, FALSE)), UsedNames(work), InUse)

(***************************************************************************)
(* The report of the change                                                *)
(***************************************************************************)
(* An import of both trees loads a file of both that it did not load.      *)
Retargeted(old, new) ==
    \E p \in Existing(old) \cap Existing(new) :
        \E s \in ImportsOf(old, p) \cap ImportsOf(new, p) :
            ~(Loads(new, p, s) \cap Existing(old) \subseteq Loads(old, p, s))

KeepsIntroduced(before, after, kept) ==
    LET FilesOf(report, c) == {FileOf(report.graph, n) : n \in c.modules}
        Mentions(tree, f, n) ==
            {s \in UNION {ToSet(tree[p]) : p \in Existing(tree) \ {f}} : n \in Words(s)}
    IN  /\ \A c \in after.cycles \ kept.cycles :
            \E b \in before.cycles : FilesOf(after, c) \subseteq FilesOf(before, b)
        /\ \A v \in after.boundaries \ kept.boundaries :
            v.edge.file \in DOMAIN head /\ v.edge.import \in ToSet(head[v.edge.file])
        /\ \A f \in after.deadCode \ kept.deadCode :
            \A n \in f.symbols : f.symbols = {n} =>
                (Mentions(head, f.file, n) # {} => Mentions(work, f.file, n) # {})

(* What the change brings is in its report (diff/filter.rs): a cycle of    *)
(* modules that were in none together, a forbidden import written in the   *)
(* change, and a definition whose last mention outside its file the change *)
(* removed.  git shows no hunk of a file that was only renamed, nor of one *)
(* whose imports mean another file since the change.                       *)
IntroducedIsKept ==
    LET Keeps(after) ==
            KeepsIntroduced(Report(head), after, Apply(after, ChangedLines(head, work, added)))
    IN  Whole(head) /\ Whole(work) /\ Renames(head, work, added) = {}
            /\ ~Retargeted(head, work) => Keeps(Report(work))

(***************************************************************************)
(* Test selection                                                          *)
(***************************************************************************)
(* What runs with p: the files its imports load when they run, literal and *)
(* computed ones, and beside them its globs, assets, and where it cannot   *)
(* be told what it imports, any source that changed.  A package's own      *)
(* __init__ is left out, as it is by the module graph.                     *)
RunsBeside(tree, changed, p) ==
    LET globs == UNION {s.matches : s \in ToSet(Statements(tree, p, "glob"))}
        assets == {a \in DOMAIN AssetName : \E s \in ImportsOf(tree, p) :
                                                Runtime(s) /\ Absolute(p, s) = AssetName[a]}
        unresolved == IF Statements(tree, p, "opaque") # << >> THEN Tested \cap DOMAIN tree \cap changed ELSE {}
    IN  (globs \cap Existing(tree)) \cup assets \cup unresolved
Runs(tree, changed) ==
    Linked(tree, Runtime) \cup UNION {{p} \X RunsBeside(tree, changed, p) : p \in Existing(tree)}

(* What runs before every test: the setup files and what they import.      *)
SetupLoads(tree) == Reach(Linked(tree, Runtime), Setup \cap Existing(tree))

TestsOf(tree) == Tests \cap DOMAIN tree

(* What each test runs of a change in a tree.                              *)
Affects(tree, runs, setup, changed) == [t \in TestsOf(tree) |-> (Reach(runs, {t}) \cup setup) \cap changed]

(* A test that runs a changed file, in HEAD or in the working tree, is     *)
(* selected, unless the change cannot be placed in the graph, which the    *)
(* plan then says (reflexez).  Imports that changed with their file,       *)
(* computed imports, deletions, renames and files that do not parse must   *)
(* not hide a test, where no import is known to fail.                      *)
AffectedTestsSelected ==
    LET Missed(plan, affects) ==
            {t \in DOMAIN affects \cap TestsOf(work) :
                t \notin plan.selected /\ ~(affects[t] \subseteq plan.unmapped)}
        changed == ChangedPaths(head, work)
        In(tree) == Missed(Plan(head, work), Affects(tree, Runs(tree, changed), SetupLoads(tree), changed))
    IN  Nodes(Parsed(work)) = Parsed(work) /\ ~Dangling(work) => In(work) \cup In(head) = {}

(* A narrowed plan is narrow: every test of it runs a changed file of the  *)
(* working tree, or may.                                                   *)
SelectedAreAffected ==
    LET Narrow(plan, affects) == ~plan.full => \A t \in plan.selected : affects[t] # {}
    IN  Whole(work) =>
            Narrow(Plan(head, work),
                   Affects(work, Runs(work, ChangedPaths(head, work)), {}, ChangedPaths(head, work)))
=============================================================================
