----------------------------- MODULE TestImpact -----------------------------
(***************************************************************************)
(* Which tests reflexez runs for a change: those that reach a changed file *)
(* against the direction of the imports, or all of them where the change   *)
(* could affect tests the import graph does not show.                      *)
(***************************************************************************)
EXTENDS ImportGraph

CONSTANTS
    Tests,           \* what test discovery finds, if it exists
    Setup,           \* configured test setup files
    GlobalTriggers,  \* manifests, conftest.py, runner configuration ...
    AssetName,       \* module name that names an asset file, by asset
    Full,            \* --full
    StrictDynamic,   \* --strict-dynamic
    UnreadableConfig \* a key of a runner's configuration that only running it tells

ASSUME ImpactAssumption ==
    /\ Tests \cup Setup \subseteq Sources
    /\ DOMAIN AssetName \cap Sources = {} /\ IsFiniteSet(DOMAIN AssetName)
    /\ Full \in BOOLEAN /\ StrictDynamic \in BOOLEAN /\ UnreadableConfig \in BOOLEAN

(* `is_source`: a language whose profile names a test runner.              *)
Tested == {p \in Sources : Language[p] # "rust"}

(***************************************************************************)
(* The change scope (diff/git.rs): paths that differ from HEAD, untracked  *)
(* ones among them; a rename is a deletion and an addition.                *)
(***************************************************************************)
Deleted(head, work) == DOMAIN head \ DOMAIN work
ChangedPaths(head, work) ==
    Deleted(head, work)
    \cup {p \in DOMAIN work : p \in DOMAIN head => head[p] # work[p]}

(* `fallback_reasons`                                                      *)
ChangeFallback(head, work) ==
    \/ Deleted(head, work) \cap Tested # {}
    \/ ChangedPaths(head, work) \cap GlobalTriggers # {}

(* `hides_tests` of a file that does not parse                             *)
MayImport(work, p) == \E s \in ToSet(work[p]) : s.kind \in {"import", "glob", "opaque"}
HidesTests(head, work) ==
    \E p \in (Sources \cap DOMAIN work) \ Parsed(work) :
        p \in ChangedPaths(head, work) \/ MayImport(work, p)

(***************************************************************************)
(* Impact traversal (spine/impact): files linked by imports that are not   *)
(* type-only.                                                              *)
(***************************************************************************)
RuntimeLinks(g) ==
    {<<e.file, FileOf(g, e.to)>> :
        e \in {x \in ToSet(g.edges) : x.to \in Internal(g) /\ x.import.phase = "runtime"}}

(* `reachable_files` towards dependencies.                                 *)
Dependencies(g, S) == Reach(RuntimeLinks(g), S \cap DOMAIN g.name)

(* `setup_fallback`                                                        *)
SetupFallback(g, changed) ==
    \E p \in Setup : p \in changed \/ changed \cap Dependencies(g, {p}) # {}

(***************************************************************************)
(* The walk (reach.rs, selector_dynamic.rs)                                *)
(***************************************************************************)
\* Variant: type-only imports run what they import.
ReverseEdgesWithTypes(g) ==
    LET globs(p) == UNION {s.matches : s \in ToSet(Statements(g.tree, p, "glob"))}
    IN  {<<e.to, e.from>> : e \in ToSet(g.edges)}
        \cup UNION {{<<g.name[q], g.name[p]>> : q \in globs(p) \cap DOMAIN g.name} :
                    p \in DOMAIN g.name}

(* Nodes are named here: assets are external nodes.  `reverse_edges`: each *)
(* node's importers, and those whose globs match it.                       *)
ReverseEdges(g) ==
    LET globs(p) == UNION {s.matches : s \in ToSet(Statements(g.tree, p, "glob"))}
    IN  {<<e.to, e.from>> : e \in {x \in ToSet(g.edges) : x.import.phase # "types"}}
        \cup UNION {{<<g.name[q], g.name[p]>> : q \in globs(p) \cap DOMAIN g.name} :
                    p \in DOMAIN g.name}

(* `opaque_files`                                                          *)
Opaque(work) == {p \in Tested \cap DOMAIN work : Statements(work, p, "opaque") # << >>}

(* `place`: what a changed path seeds.                                     *)
IsAsset(g, p) == p \in DOMAIN AssetName /\ AssetName[p] \in g.known \ Internal(g)

Place(g, work, p) ==
    LET placed == DOMAIN g.name \cup {a \in DOMAIN AssetName : IsAsset(g, a)}
    IN  CASE p \in DOMAIN g.name -> [seeds |-> {g.name[p]}, as |-> "graph"]
          [] p \notin DOMAIN g.name /\ IsAsset(g, p) -> [seeds |-> {AssetName[p]}, as |-> "assets"]
          [] p \in Tested \ (placed \cup DOMAIN work) -> [seeds |-> {}, as |-> "missing"]
          [] p \in DOMAIN work \ (placed \cup GlobalTriggers) -> [seeds |-> {}, as |-> "unmapped"]
          [] OTHER -> [seeds |-> {}, as |-> "ignored"]

\* Variant: files with an import that cannot be resolved are no seeds.
SeedsWithoutOpaque(g, work, changed) == UNION {Place(g, work, p).seeds : p \in changed}

(* Changed files, and with a changed source every file that may load it    *)
(* through an import that could not be resolved.                           *)
Seeds(g, work, changed) ==
    (UNION {Place(g, work, p).seeds : p \in changed})
    \cup (IF changed \cap Tested # {}
          THEN {g.name[p] : p \in Opaque(work) \cap DOMAIN g.name} ELSE {})

(* `walk_reverse`, without the distances that word the reasons.            *)
Affected(g, work, changed) ==
    LET reached == Reach(ReverseEdges(g), Seeds(g, work, changed))
    IN  {t \in Tests \cap DOMAIN g.name : g.name[t] \in reached}
        \cup (Tests \cap changed \cap DOMAIN work)

Placed(g, work, changed, as) == {p \in changed : Place(g, work, p).as = as}

(* `strict_reasons`                                                        *)
StrictFallback(g, work, changed) ==
    \/ Opaque(work) # {}
    \/ UnreadableConfig
    \/ Placed(g, work, changed, "unmapped") \cap Tested # {}

(* `plan`: the tests to run, whether all of them, and what it could not    *)
(* place.                                                                  *)
PlanOn(g, head, work, changed) ==
    LET full == \/ ChangeFallback(head, work)
                \/ HidesTests(head, work)
                \/ Full
                \/ SetupFallback(g, changed)
                \/ Placed(g, work, changed, "missing") # {}
                \/ StrictDynamic /\ StrictFallback(g, work, changed)
    IN  [selected |-> IF full THEN Tests \cap DOMAIN work ELSE Affected(g, work, changed),
         full |-> full,
         unmapped |-> Placed(g, work, changed, "unmapped")]
Plan(head, work) == PlanOn(Build(work, TRUE), head, work, ChangedPaths(head, work))
=============================================================================
