---------------------------- MODULE ImportGraph ----------------------------
(***************************************************************************)
(* The module graph every analysis of a scan works on, the import cycles   *)
(* found in it and the boundary rules checked against it.                  *)
(*                                                                         *)
(* A source tree is a function from the paths that exist to their texts,   *)
(* and a text is a sequence of statements, of which the analyses tell      *)
(* apart: imports, definitions, uses of a name, attribute accesses,        *)
(* `__all__`, dynamic imports, and one that does not parse.  A statement   *)
(* stands for its own line.  A module name is a sequence of segments.      *)
(***************************************************************************)
EXTENDS Naturals, Sequences, FiniteSets, SequencesExt, Lists

CONSTANTS
    Files,         \* the paths of sources, a sequence in the crawl's order
    Language,      \* the language of each
    Root,          \* the root its logical name is relative to
    LogicalName,   \* `module_name`
    UniqueName,    \* `disambiguated_module_name`: LogicalName if there is none
    PathKey,       \* `path_key`, for the files of languages that have one
    PackageIndex,  \* `__init__.py` and `index` files
    NameOrder,     \* module names in the order of their strings
    CycleExclude,  \* [cycles] exclude
    IncludeTypeOnly,  \* [cycles] include_type_only
    Rules          \* [boundaries] forbidden: pairs of sides, each a prefix or a glob

Sources == ToSet(Files)

ASSUME GraphAssumption ==
    /\ IsList(Files) /\ IsList(NameOrder)
    /\ \A i, j \in DOMAIN Files : Files[i] = Files[j] => i = j
    /\ Sources \subseteq DOMAIN LogicalName /\ Sources \subseteq DOMAIN UniqueName
    /\ \A p \in Sources : IsList(LogicalName[p])
    /\ DOMAIN PathKey \subseteq Sources /\ IncludeTypeOnly \in BOOLEAN
    /\ \A p \in DOMAIN PathKey : Language[p] \notin {"python", "rust"}
    /\ {LogicalName[p] : p \in Sources} \cup {UniqueName[p] : p \in Sources}
            \subseteq ToSet(NameOrder)

Position(p) == CHOOSE i \in DOMAIN Files : Files[i] = p
Statements(tree, p, kind) == Those(tree[p], {s \in ToSet(tree[p]) : s.kind = kind})
Names(tree, p, kind) == {s.name : s \in ToSet(Statements(tree, p, kind))}

(* `parse_files`: a file that does not parse is an issue, not a module.    *)
Parsed(tree) == {p \in Sources \cap DOMAIN tree : Statements(tree, p, "broken") = << >>}

(***************************************************************************)
(* Module identities                                                       *)
(***************************************************************************)
Duplicate(files, p) ==
    \E q \in files \ {p} : Language[q] = Language[p] /\ LogicalName[q] = LogicalName[p]

Identity(files, p) == IF Duplicate(files, p) THEN UniqueName[p] ELSE LogicalName[p]

(* Pass 1 of `build`: the first file of a name has its node.               *)
Nodes(files) ==
    {p \in files : \A q \in files : Identity(files, q) = Identity(files, p)
                                        => Position(q) >= Position(p)}

(***************************************************************************)
(* Pass 2 of `build`: an edge or several per import.  The graph under      *)
(* construction holds the tree, the node of each file by its name, the     *)
(* names known so far and the edges, oldest first.                         *)
(***************************************************************************)
LastOf(S) == CHOOSE p \in S : \A q \in S : Position(q) <= Position(p)

(* `containing_package` and `resolve_target`: each dot beyond the first    *)
(* goes up one package.                                                    *)
Resolve(g, p, s) ==
    LET package == IF p \in PackageIndex THEN g.name[p] ELSE Front(g.name[p])
    IN  IF s.dots = 0 THEN s.target
        ELSE SubSeq(package, 1, Len(package) - (s.dots - 1)) \o s.target

(* The file an import names by path, else by a name of its own root.       *)
Keyed(g, p, target) ==
    {q \in DOMAIN g.name \cap DOMAIN PathKey : p \in DOMAIN PathKey /\ PathKey[q] = target}
Scoped(g, p, n) ==
    {q \in DOMAIN g.name : Language[q] = Language[p] /\ Root[q] = Root[p] /\ LogicalName[q] = n}
NameOr(g, found, otherwise) == IF found = {} THEN otherwise ELSE g.name[LastOf(found)]

TargetName(g, p, s) ==
    NameOr(g, Keyed(g, p, s.target), NameOr(g, Scoped(g, p, Resolve(g, p, s)), Resolve(g, p, s)))

(* `submodule_candidate` and `is_containment` of the profiles.             *)
HasSubmodules(p) == Language[p] \in {"python", "rust"}
IsContainment(p, from, to) == Language[p] = "rust" /\ IsStrictPrefix(from, to)

Edge(g, p, to, symbols, s) ==
    [from |-> g.name[p], to |-> to, symbols |-> symbols, import |-> s, file |-> p,
     decl |-> s.decl \/ IsContainment(p, g.name[p], to)]

Accessed(g, p, binding) ==
    {s.name : s \in {a \in ToSet(Statements(g.tree, p, "attr")) : a.of = binding}}

Binding(s, i) == IF i \in DOMAIN s.bindings THEN s.bindings[i] ELSE s.symbols[i]

(* `narrow`: a namespace import whose binding is only read as `ns.member`  *)
(* names nothing itself, the members are attributes of the binding.        *)
Narrowed(tree, p, s) ==
    IF /\ ~s.reexport /\ s.symbols = <<"*">> /\ Len(s.bindings) = 1
       /\ s.bindings[1] \notin Names(tree, p, "use")
    THEN << >> ELSE s.symbols

(* `add_import_edges`: an edge to each submodule taken, and one to the      *)
(* target for the other symbols or for the module as a whole.              *)
ImportEdges(g, p, s, target, symbols) ==
    LET Sub(i) == Append(target, symbols[i])
        IsSub(i) == symbols[i] # "*" /\ HasSubmodules(p) /\ Sub(i) \in g.known
        rest == {symbols[i] : i \in {j \in DOMAIN symbols : ~IsSub(j)}}
        OfFirst == IF s.bindings = << >> THEN {} ELSE Accessed(g, p, Head(s.bindings))
        Qualified(i) == Edge(g, p, Sub(i), Accessed(g, p, Binding(s, i)), s)
        subs == Those([i \in DOMAIN symbols |-> i], {i \in DOMAIN symbols : IsSub(i)})
    IN  [k \in DOMAIN subs |-> Qualified(subs[k])]
        \o CASE symbols = << >> -> <<Edge(g, p, target, OfFirst, s)>>
             [] symbols # << >> /\ rest # {} -> <<Edge(g, p, target, rest, s)>>
             [] OTHER -> << >>

(* `node_for_target` makes a node of each name an edge goes to.            *)
Extended(g, added) ==
    [g EXCEPT !.edges = @ \o added, !.known = @ \cup {e.to : e \in ToSet(added)}]

AddImport(g, p, s) ==
    Extended(g, ImportEdges(g, p, s, TargetName(g, p, s), Narrowed(g.tree, p, s)))

(* Pass 1: the nodes of the files, and no edge yet.                        *)
NodesOf(tree, files) ==
    [tree |-> tree, name |-> [p \in Nodes(files) |-> Identity(files, p)],
     known |-> {Identity(files, p) : p \in files}, edges |-> << >>]

AddImports(g, p, computed) ==
    LET imports == Those(g.tree[p], {s \in ToSet(g.tree[p]) : s.kind = "import" /\ (computed \/ ~s.computed)})
    IN  FoldLeft(LAMBDA h, s : AddImport(h, p, s), g, imports)

(* `build`; the computed imports of `add_dynamic_imports` are in the graph *)
(* of test selection only.                                                 *)
Build(tree, computed) ==
    FoldLeft(LAMBDA g, p : IF p \in DOMAIN g.name THEN AddImports(g, p, computed) ELSE g,
             NodesOf(tree, Parsed(tree)), Files)

Internal(g) == {g.name[p] : p \in DOMAIN g.name}
FileOf(g, n) == CHOOSE p \in DOMAIN g.name : g.name[p] = n

(* What the pairs of R reach from S, S included.                           *)
Reach(R, S) ==
    LET grow[k \in 0 .. Cardinality(R)] ==
            IF k = 0 THEN S
            ELSE LET T == grow[k - 1] IN T \cup {r[2] : r \in {q \in R : q[1] \in T}}
    IN  grow[Cardinality(R)]

Links(edges) == {<<e.from, e.to>> : e \in edges}

(***************************************************************************)
(* Import cycles (noze/cycles.rs)                                          *)
(***************************************************************************)
RUNTIME == {"runtime"}
TYPE_LEVEL == {"runtime", "types"}

IsCycleEdge(e, phases) ==
    e.from # e.to /\ ~e.import.inline /\ ~e.decl /\ e.import.phase \in phases

CycleEdges(g, phases) == Those(g.edges, {e \in ToSet(g.edges) : IsCycleEdge(e, phases)})

(* petgraph's tarjan_scc, by what it returns; those of two modules or      *)
(* more, one of them not excluded.                                         *)
Components(g, phases) ==
    LET R == Links(ToSet(CycleEdges(g, phases)))
        reach == [n \in g.known |-> Reach(R, {n})]
        Component(n) == {m \in reach[n] : n \in reach[m]}
    IN  {C \in {Component(n) : n \in g.known} :
            Cardinality(C) >= 2 /\ \E n \in C : FileOf(g, n) \notin CycleExclude}

(* `unwind`: from the closing edge back to the start.                      *)
Unwind(prev, closing, start) ==
    LET back[k \in 0 .. Cardinality(DOMAIN prev)] ==
            IF k = 0 THEN <<closing>>
            ELSE LET path == back[k - 1]
                 IN  IF Head(path).from = start THEN path
                     ELSE <<prev[Head(path).from]>> \o path
    IN  back[Cardinality(DOMAIN prev)]

\* Variant: the search leaves the component.
SearchAnywhere(g, members, phases, n) ==
    LET edges == CycleEdges(g, phases) IN Those(edges, {e \in ToSet(edges) : e.from = n})

(* The edges the search follows from n: petgraph gives the newest first.   *)
SearchEdges(g, members, phases, n) ==
    LET edges == CycleEdges(g, phases)
    IN  Those(Reverse(edges), {e \in ToSet(edges) : e.from = n /\ e.to \in members})

Rank(n) == CHOOSE i \in DOMAIN NameOrder : NameOrder[i] = n

(* `shortest_cycle`: breadth first from the member whose name sorts first. *)
Start(members) == CHOOSE n \in members : \A m \in members : Rank(n) <= Rank(m)

Follow(start, b, e) ==
    CASE b.loop # << >> -> b
      [] b.loop = << >> /\ e.to = start -> [b EXCEPT !.loop = Unwind(b.prev, e, start)]
      [] b.loop = << >> /\ e.to # start /\ e.to \in DOMAIN b.prev -> b
      [] OTHER -> [b EXCEPT !.queue = Append(@, e.to),
                            !.prev = [n \in DOMAIN @ \cup {e.to} |-> IF n = e.to THEN e ELSE b.prev[n]]]

FollowAll(start, b, edges) == FoldLeft(LAMBDA a, e : Follow(start, a, e), b, edges)

Visit(g, members, phases, b) ==
    FollowAll(Start(members), [b EXCEPT !.queue = Tail(@)],
              SearchEdges(g, members, phases, Head(b.queue)))

ShortestCycle(g, members, phases) ==
    LET bfs[k \in 0 .. Cardinality(members)] ==
            IF k = 0 THEN [queue |-> <<Start(members)>>, prev |-> [n \in {} |-> n], loop |-> << >>]
            ELSE LET b == bfs[k - 1]
                 IN  IF b.loop # << >> \/ b.queue = << >> THEN b ELSE Visit(g, members, phases, b)
    IN  bfs[Cardinality(members)].loop

HasTypeOnlyEdge(g, C) ==
    \E e \in ToSet(CycleEdges(g, TYPE_LEVEL)) :
        e.from \in C /\ e.to \in C /\ e.import.phase = "types"

(* `detect`                                                                *)
CyclesIn(g, runtime, typed) ==
    LET Finding(C, phases, action) ==
            [modules |-> C, edges |-> ShortestCycle(g, C, phases), action |-> action]
    IN  {Finding(C, RUNTIME, "warning") : C \in runtime}
        \cup {Finding(C, TYPE_LEVEL, "info") :
                C \in {D \in typed \ runtime : IncludeTypeOnly /\ HasTypeOnlyEdge(g, D)}}
Cycles(g) == CyclesIn(g, Components(g, RUNTIME), Components(g, TYPE_LEVEL))

(***************************************************************************)
(* Boundaries (bonez/mod.rs): a plain side of a rule matches a module and  *)
(* its submodules, a glob the names it matches, as they are written or by  *)
(* their file; `to` also matches the name the import resolved to.          *)
(***************************************************************************)
Matches(side, n) ==
    IF side.is_glob THEN n \in side.matched ELSE IsPrefix(side.prefix, n)

Violations(g) ==
    {v \in [rule : Rules, edge : ToSet(g.edges)] :
        Matches(v.rule.from, v.edge.from) /\ Matches(v.rule.to, v.edge.to)}

UnmatchedRules(g) == {r \in Rules : \A n \in Internal(g) : ~Matches(r.from, n)}
=============================================================================
