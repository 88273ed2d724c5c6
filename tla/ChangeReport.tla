---------------------------- MODULE ChangeReport ----------------------------
(***************************************************************************)
(* The report of a change (diff/): of all findings of the working tree     *)
(* those the change from HEAD touches.  A line is its statement: git's     *)
(* hunks of a file are the statements one side has and the other has not.  *)
(***************************************************************************)
EXTENDS DeadMembers

(* What git takes for a rename: a path removed and one added with the same *)
(* text.  It prints no hunk for it.  A path git does not track cannot be   *)
(* the new name.                                                           *)
Renames(head, work, added) ==
    {r \in (DOMAIN head \ DOMAIN work) \X (added \ DOMAIN head) : head[r[1]] = work[r[2]]}

(* Untracked files count as changed from the first line to the last.       *)
Untracked(head, work, added) == DOMAIN work \ (DOMAIN head \cup added)

(* `changed_vs_head`: the lines changed by file, and the lines removed.    *)
ChangedLines(head, work, added) ==
    LET old(p) == IF p \in DOMAIN head THEN ToSet(head[p]) ELSE {}
        new(p) == IF p \in DOMAIN work THEN ToSet(work[p]) ELSE {}
        renamed == Renames(head, work, added)
        quiet == {r[1] : r \in renamed} \cup {r[2] : r \in renamed}
        shown == (DOMAIN head \cup added) \ quiet
    IN  [whole |-> Untracked(head, work, added) \cap Sources,
         touched |-> [p \in {q \in shown : new(q) \ old(q) # {}} |-> new(p) \ old(p)],
         removed |-> UNION {old(p) \ new(p) : p \in shown}]

Touches(changed, p, s) ==
    p \in changed.whole \/ (p \in DOMAIN changed.touched /\ s \in changed.touched[p])
TouchesFile(changed, p) == p \in changed.whole \cup DOMAIN changed.touched

(* The identifiers of a line.                                              *)
Words(s) ==
    CASE s.kind = "import" ->
            ToSet(s.target) \cup ToSet(s.symbols) \cup ToSet(s.bindings)
      [] s.kind \in {"attr", "path", "result"} -> {s.of, s.name}
      [] s.kind \in {"def", "use", "all", "self", "method", "property", "string"} -> {s.name}
      [] s.kind = "class" -> {s.name} \cup s.bases
      [] s.kind \in {"hint", "returns"} -> {s.name} \cup ToSet(s.types)
      [] OTHER -> {}

RemovedMentions(changed, symbol) == \E s \in changed.removed : symbol \in Words(s)

(* `dead_code_provenance`; the symbol of a whole-module finding is a list, *)
(* which is a word only when it has one element.                           *)
DeadCodeKept(f, changed) ==
    \/ Touches(changed, f.file, f.at)
    \/ \E symbol \in f.symbols : f.symbols = {symbol} /\ RemovedMentions(changed, symbol)

\* Variant: a cycle is kept when its first file is touched.
CycleKeptByFirst(g, c, changed) == TouchesFile(changed, Head(c.edges).file)

(* `cycle_module_touches_diff`                                             *)
CycleKept(g, c, changed) == \E n \in c.modules : TouchesFile(changed, FileOf(g, n))

(* `boundary_import_touches_diff`                                          *)
BoundaryKept(v, changed) == Touches(changed, v.edge.file, v.edge.import)

(* `analyze_path` and `apply`.                                             *)
ReportOn(g) ==
    [graph |-> g, cycles |-> Cycles(g), boundaries |-> Violations(g),
     deadCode |-> Detect(g)]
Report(tree) == ReportOn(Build(tree, FALSE))

Apply(report, changed) ==
    [report EXCEPT
        !.cycles = {c \in @ : CycleKept(report.graph, c, changed)},
        !.boundaries = {v \in @ : BoundaryKept(v, changed)},
        !.deadCode = {f \in @ : DeadCodeKept(f, changed)}]
=============================================================================
