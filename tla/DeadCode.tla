------------------------------ MODULE DeadCode ------------------------------
(***************************************************************************)
(* Unreferenced symbols: a walk from production and test roots over the    *)
(* import graph, what each module's importers ask of it, forwarded through *)
(* re-exports, and the definitions nobody asks for.                        *)
(***************************************************************************)
EXTENDS ImportGraph

CONSTANTS
    Entries,        \* files production enters: manifest entries, entry globs
    ConfigFiles,    \* tool configurations, entered too
    TestSources,    \* files a test runner runs
    TestSupport,    \* files whose test importers count
    Directory,      \* the directories above each file
    EntrypointBases, \* bases whose subclasses a framework makes
    OrphanModules, UnusedVariables, \* the settings of [dead_code] ...
    UnimportedDirShare,             \* ... and the share in percent, 0 to disable
    MinUnimported,    \* MIN_UNIMPORTED
    MinRegistrations  \* MIN_REGISTRATIONS

ASSUME DeadCodeAssumption ==
    /\ Entries \cup ConfigFiles \cup TestSources \cup TestSupport \subseteq Sources
    /\ OrphanModules \in BOOLEAN /\ UnusedVariables \in BOOLEAN
    /\ UnimportedDirShare \in 0 .. 100 /\ MinUnimported \in Nat /\ MinRegistrations \in Nat

Edges(g) == ToSet(g.edges)
ModulesOf(g) == DOMAIN g.name
Into(g, p) == {e \in Edges(g) : e.to = g.name[p]}
FileLinks(g) ==
    {<<e.file, FileOf(g, e.to)>> : e \in {x \in Edges(g) : x.to \in Internal(g)}}

(***************************************************************************)
(* Roots (roots.rs, loaded_dirs.rs)                                        *)
(***************************************************************************)
FirstRole(p) ==
    CASE p \in Entries \cup ConfigFiles -> "root"
      [] p \notin Entries \cup ConfigFiles /\ p \in TestSources -> "test"
      [] OTHER -> "module"

HasRuntimeImporter(g, p) ==
    \E e \in Into(g, p) :
        e.file # p /\ e.import.phase = "runtime" /\ FirstRole(e.file) # "test"

(* `promote`: modules nothing imports, under a directory with enough of    *)
(* them, are roots.                                                        *)
Promoted(g) ==
    LET modules == {p \in ModulesOf(g) : FirstRole(p) = "module"}
        unimported == {p \in modules : ~HasRuntimeImporter(g, p)}
        Under(S, d) == Cardinality({p \in S : d \in Directory[p]})
        Loaded(d) == /\ Under(unimported, d) >= MinUnimported
                     /\ Under(unimported, d) * 100 >= UnimportedDirShare * Under(modules, d)
    IN  IF UnimportedDirShare = 0 THEN {}
        ELSE {p \in unimported : \E d \in Directory[p] : Loaded(d)}

Roles(g) ==
    LET promoted == Promoted(g)
    IN  [p \in ModulesOf(g) |-> IF p \in promoted THEN "root" ELSE FirstRole(p)]

(***************************************************************************)
(* Reachability (reach.rs)                                                 *)
(***************************************************************************)
HasInternalImporter(g, p) == \E e \in Into(g, p) : e.file # p

(* `walk`                                                                  *)
Walk(g, role) ==
    LET With(r) == {p \in ModulesOf(g) : role[p] = r}
        unimported == {p \in With("module") : ~HasInternalImporter(g, p)}
        prod == Reach(FileLinks(g), With("root") \cup unimported)
        islands == With("module") \ (prod \cup Reach(FileLinks(g), With("test")))
    IN  [prod |-> prod \cup islands, orphans |-> unimported \cup islands]

(***************************************************************************)
(* Demand (demand.rs).  What is asked of a module: names, "*" for all.     *)
(***************************************************************************)
NoDemand == [prod |-> {}, test |-> {}, typeStar |-> FALSE, opaque |-> FALSE, config |-> FALSE]
Asks(demand, name) == "*" \in demand \/ name \in demand

Absorb(d, e) ==
    [prod |-> d.prod \cup e.prod, test |-> d.test \cup e.test,
     typeStar |-> d.typeStar \/ e.typeStar, opaque |-> d.opaque \/ e.opaque,
     config |-> d.config \/ e.config]

IsTestImporter(role, reach, p) == role[p] = "test" \/ p \notin reach.prod

IsOpaque(e) ==
    (e.symbols = {} \/ e.import.bindings = << >>) /\ ~e.decl /\ "*" \notin e.symbols

(* `add_direct`                                                            *)
Direct(role, reach, e) ==
    LET types == "*" \in e.symbols /\ e.import.phase = "types"
        asked == IF types THEN e.symbols \ {"*"} ELSE e.symbols
        test == IsTestImporter(role, reach, e.file)
    IN  [prod |-> IF test THEN {} ELSE asked, test |-> IF test THEN asked ELSE {},
         typeStar |-> types, opaque |-> ~test /\ IsOpaque(e),
         config |-> ~test /\ e.file \in ConfigFiles]

(* `forward_side` of one name: `*` with a binding is a namespace, without  *)
(* one it passes everything on.                                            *)
PassesAll(s, i) == s.symbols[i] = "*" /\ i \notin DOMAIN s.bindings
Forwards(s, name) ==
    {IF PassesAll(s, i) THEN name ELSE s.symbols[i] :
        i \in {j \in DOMAIN s.symbols : PassesAll(s, j) \/ name \in {"*", Binding(s, j)}}}

(* `forwards_everything`                                                   *)
ForwardsAll(g, role, reach) == {p \in ModulesOf(g) : role[p] = "root"} \cup reach.orphans

(* `forwarded`, of what one re-export passes on.                           *)
Forwarded(d, s, all) ==
    LET Side(names) == UNION {Forwards(s, n) : n \in names}
    IN  [d EXCEPT !.prod = Side(d.prod \cup all), !.test = Side(d.test)]

\* Variant: re-exports are forwarded once, oldest first.
InboundOnce(g, role, reach) ==
    LET Direct1(d, e) ==
            IF e.to \notin Internal(g) THEN d
            ELSE LET q == FileOf(g, e.to)
                 IN  [d EXCEPT ![q] = Absorb(@,
                        IF e.import.reexport
                        THEN Forwarded(d[e.file], e.import,
                                       IF e.file \in ForwardsAll(g, role, reach) THEN {"*"} ELSE {})
                        ELSE Direct(role, reach, e))]
    IN  FoldLeft(Direct1, [p \in ModulesOf(g) |-> NoDemand], g.edges)

(* `inbound`: direct imports, then re-exports to a fixed point.            *)
Inbound(g, role, reach) ==
    LET inner == {e \in Edges(g) : e.to \in Internal(g)}
        reexports == {e \in inner : e.import.reexport /\ e.from # e.to}
        direct == {<<FileOf(g, e.to), Direct(role, reach, e)>> : e \in {x \in inner : ~x.import.reexport}}
        names == {"*"} \cup UNION {e.symbols \cup ToSet(e.import.symbols) : e \in inner}
        Passed(e, n) == {FileOf(g, e.to)} \X Forwards(e.import, n)
        passes == UNION {UNION {{<<e.file, n>>} \X Passed(e, n) : n \in names} : e \in reexports}
        all == UNION {Passed(e, "*") : e \in {x \in reexports : x.file \in ForwardsAll(g, role, reach)}}
        prod == Reach(passes, all \cup UNION {{d[1]} \X d[2].prod : d \in direct})
        test == Reach(passes, UNION {{d[1]} \X d[2].test : d \in direct})
        Spread(modules) == Reach({<<e.file, FileOf(g, e.to)>> : e \in reexports}, modules)
        typeStar == Spread({d[1] : d \in {x \in direct : x[2].typeStar}})
        opaque == Spread({d[1] : d \in {x \in direct : x[2].opaque}})
        config == Spread({d[1] : d \in {x \in direct : x[2].config}})
    IN  [p \in ModulesOf(g) |->
            [prod |-> {n \in names : <<p, n>> \in prod}, test |-> {n \in names : <<p, n>> \in test},
             typeStar |-> p \in typeStar, opaque |-> p \in opaque, config |-> p \in config]]

(***************************************************************************)
(* Findings (modules.rs, reachability.rs, confidence.rs)                   *)
(***************************************************************************)
(* `ManifestCallees`: what initializes enough exports of modules a type    *)
(* manifest exposes.                                                       *)
ManifestCallees(g, inbound) ==
    LET exposed == {p \in ModulesOf(g) : inbound[p].typeStar}
        Uses(c) == UNION {{<<p, s>> : s \in {x \in ToSet(Statements(g.tree, p, "def")) :
                                               x.variable /\ x.callee = c}} : p \in exposed}
        callees == UNION {{s.callee : s \in ToSet(Statements(g.tree, p, "def"))} : p \in exposed}
    IN  {c \in callees \ {"none"} : Cardinality(Uses(c)) >= MinRegistrations}

Counted(d, p) == IF p \in TestSupport THEN d.prod \cup d.test ELSE d.prod

(* `is_asked`: by name, or as the default export.                          *)
IsAsked(s, demand) == Asks(demand, s.name) \/ (s.default /\ Asks(demand, "default"))

(* `skip_symbol`: private, exported by `__all__`, used in the file, asked. *)
SkipSymbol(g, p, s, demand) ==
    \/ s.private
    \/ s.name \in Names(g.tree, p, "all") \cup Names(g.tree, p, "use")
    \/ IsAsked(s, demand)

Reached(reach, p) ==
    CASE p \in reach.orphans -> "orphan"
      [] p \notin reach.orphans \cup reach.prod /\ p \notin TestSupport -> "tests"
      [] OTHER -> "root"

(* `grade`                                                                 *)
Grade(reached, d, s) ==
    CASE reached = "orphan" -> [confidence |-> "medium", reason |-> "unreachable_module"]
      [] reached # "orphan" /\ (reached = "tests" \/ IsAsked(s, d.test)) ->
            [confidence |-> "medium", reason |-> "test_only"]
      [] OTHER ->
            [confidence |-> IF s.default \/ d.opaque \/ d.typeStar \/ d.config
                            THEN "medium" ELSE "high",
             reason |-> ""]

(* `ClassEntrypoints`: the classes of such bases, through others of the    *)
(* file.                                                                   *)
DynamicClasses(tree, p) ==
    LET classes == ToSet(Statements(tree, p, "class"))
        inherited == UNION {c.bases \X {c.name} : c \in classes}
    IN  Reach(inherited, EntrypointBases) \cap {c.name : c \in classes}

(* `findings` of one module; one finding for a module no production root   *)
(* reaches, at its first unused symbol.                                    *)
ModuleFindings(g, p, reach, d, callees) ==
    LET reached == Reached(reach, p)
        counted == Counted(d, p)
        IsDead(s) ==
            /\ s.kind = "def" /\ (s.variable => UnusedVariables)
            /\ s.decorator = "none" /\ ~(d.typeStar /\ s.callee \in callees)
            /\ ~s.entrypoint /\ s.name \notin DynamicClasses(g.tree, p) /\ ~SkipSymbol(g, p, s, counted)
        dead == Those(g.tree[p], {s \in ToSet(g.tree[p]) : IsDead(s)})
        Finding(s, symbols) == [file |-> p, at |-> s, symbols |-> symbols, reached |-> reached,
                                grade |-> Grade(reached, d, s)]
        unwanted == reached = "orphan" /\ (~OrphanModules \/ p \in TestSupport)
    IN  IF unwanted \/ "*" \in counted \/ dead = << >> THEN {}
        ELSE IF reached = "root" THEN {Finding(s, {s.name}) : s \in ToSet(dead)}
        ELSE {Finding(Head(dead), {s.name : s \in ToSet(dead)})}

(* `detect`; the report leaves out what is below medium confidence.        *)
DeadCodeFindings(g) ==
    LET role == Roles(g)
        reach == Walk(g, role)
        inbound == Inbound(g, role, reach)
        callees == ManifestCallees(g, inbound)
    IN  UNION {ModuleFindings(g, p, reach, inbound[p], callees) :
                p \in {q \in ModulesOf(g) : role[q] = "module"}}
=============================================================================
