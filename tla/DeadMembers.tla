---------------------------- MODULE DeadMembers ----------------------------
(***************************************************************************)
(* The opt-in passes of dead code: imports nobody reads in their file, and *)
(* methods and properties of classes that nothing is seen to access, by    *)
(* what the files say of the types of their receivers.                     *)
(*                                                                         *)
(* The statements they read, besides those of ImportGraph: a class with    *)
(* the names in its bases, its methods and properties, accesses `self.m`   *)
(* in its methods, hints and results with the names in a type, accesses to *)
(* `a.b.m` (path), to the result of a call, and strings.                   *)
(***************************************************************************)
EXTENDS DeadCode

CONSTANTS
    UnusedImports, UnusedMethods, UnusedProperties,  \* of [dead_code]
    EntryGlobs,         \* the sources an entry glob matches
    MethodEntrypoints,  \* names of methods a framework calls, and `__x__`
    ImplyContract       \* the languages whose external bases call methods

ASSUME MembersAssumption ==
    /\ {UnusedImports, UnusedMethods, UnusedProperties} \subseteq BOOLEAN
    /\ EntryGlobs \subseteq Entries

IgnoredSources == TestSources \cup EntryGlobs
ReportFiles(tree) == Parsed(tree) \ IgnoredSources
UsageFiles(tree) == Parsed(tree) \ TestSources

Dead(p, s, name) ==
    [file |-> p, at |-> s, symbols |-> {name}, reached |-> s.kind,
     grade |-> [confidence |-> "high", reason |-> ""]]

(***************************************************************************)
(* Imports (extra.rs)                                                      *)
(***************************************************************************)
(* The names counted in a file, as such or before a dot.                   *)
Referenced(tree, p) ==
    Names(tree, p, "use") \cup {s.of : s \in ToSet(Statements(tree, p, "attr"))}

DeadImports(tree, p) ==
    LET bound(s) == ToSet(s.bindings) \ ({"*"} \cup Referenced(tree, p) \cup Names(tree, p, "all"))
    IN  IF p \in PackageIndex THEN {}
        ELSE UNION {{Dead(p, s, b) : b \in bound(s)} :
                    s \in {x \in ToSet(Statements(tree, p, "import")) :
                              ~x.inline /\ ~x.reexport /\ x.phase = "runtime"}}

(***************************************************************************)
(* Classes (properties_index.rs): of several of one name the first.        *)
(***************************************************************************)
AllOf(tree, S, kind) == UNION {{[file |-> p, is |-> s] : s \in ToSet(Statements(tree, p, kind))} : p \in S}
ClassNames(tree, S) == {c.is.name : c \in AllOf(tree, S, "class")}

FirstClass(tree, S, n) ==
    LET named == {c \in AllOf(tree, S, "class") : c.is.name = n} IN
    CHOOSE c \in named : \A d \in named : Position(c.file) <= Position(d.file)
Bases(tree, S, n) == FirstClass(tree, S, n).is.bases

(* Pairs of a class and a base of it.                                      *)
Inherits(tree, S, classes) == UNION {{n} \X (Bases(tree, S, n) \cap classes) : n \in classes}
Ancestors(inherits, n) == Reach(inherits, {r[2] : r \in {q \in inherits : q[1] = n}})
(* `class_and_descendants`                                                 *)
WithDescendants(inherits, n) == Reach({<<r[2], r[1]>> : r \in inherits}, {n})

HasExternalBase(tree, S, classes, n) == ~(Bases(tree, S, n) \subseteq classes)

(* `exposed_classes`: exported by name, or by a package, with their bases. *)
Exported(tree, S) ==
    (UNION {Names(tree, p, "all") : p \in S})
    \cup UNION {UNION {ToSet(s.bindings) :
                       s \in {x \in ToSet(Statements(tree, p, "import")) :
                                 ~x.inline /\ x.phase = "runtime"}} : p \in S \cap PackageIndex}
Exposed(tree, S, classes, inherits) ==
    UNION {{n} \cup Ancestors(inherits, n) : n \in Exported(tree, S) \cap classes}

(* `override_methods`: of classes of one name the last one's methods.      *)
LastOfName(tree, S, n) == LastOf({c.file : c \in {d \in AllOf(tree, S, "class") : d.is.name = n}})
MethodsOf(tree, S, n) ==
    {s.name : s \in {m \in ToSet(Statements(tree, LastOfName(tree, S, n), "method")) : m.class = n}}
Overrides(tree, S, inherits, n, method) ==
    /\ method \in MethodsOf(tree, S, n)
    /\ \E base \in Ancestors(inherits, n) : method \in MethodsOf(tree, S, base)

(***************************************************************************)
(* Uses of members (usage.rs)                                              *)
(***************************************************************************)
(* `type_class`: the first part of a type that is a class.                 *)
TypeClass(classes, types) ==
    LET known == Those(types, classes) IN IF known = << >> THEN {} ELSE {Head(known)}

(* `typed_receivers`: the class of a name or path in a file, which has one *)
(* only, for all functions of the file.                                    *)
Receiver(tree, classes, p, name) ==
    LET all == Statements(tree, p, "hint")
        hints == Those(all, {h \in ToSet(all) : h.name = name /\ TypeClass(classes, h.types) # {}})
    IN  IF hints = << >> THEN {} ELSE TypeClass(classes, Last(hints).types)

Returned(tree, classes, p, function) ==
    UNION {TypeClass(classes, r.types) :
           r \in {x \in ToSet(Statements(tree, p, "returns")) : x.name = function}}

(* What a file accesses of classes it names: pairs of a class and a member.*)
Accesses(tree, classes, p) ==
    (UNION {Receiver(tree, classes, p, a.of) \X {a.name} :
            a \in ToSet(Statements(tree, p, "attr")) \cup ToSet(Statements(tree, p, "path"))})
    \cup UNION {Returned(tree, classes, p, r.of) \X {r.name} :
                r \in ToSet(Statements(tree, p, "result"))}

(* `member_uses_for_class`                                                 *)
TypedUses(inherits, accesses) ==
    UNION {WithDescendants(inherits, a[1]) \X {a[2]} : a \in accesses}

(* `unresolved_member_evidence`: names accessed of something without a     *)
(* type, `self` included, along a path, or spelled in a string.            *)
UnresolvedNames(tree, S, classes) ==
    UNION {{a.name : a \in {x \in ToSet(Statements(tree, p, "attr")) :
                                Receiver(tree, classes, p, x.of) = {}}}
           \cup Names(tree, p, "self") \cup Names(tree, p, "path") \cup Names(tree, p, "result")
           \cup Names(tree, p, "string") : p \in S}

(* `ProjectUsage`.  How many members have a name decides only between none *)
(* and a finding of low confidence, and `run_with_root` drops those.       *)
Usage(tree, S) ==
    LET classes == ClassNames(tree, S)
        inherits == Inherits(tree, S, classes)
        accesses == UNION {Accesses(tree, classes, p) : p \in S}
    IN  [files |-> S, classes |-> classes, inherits |-> inherits,
         exposed |-> Exposed(tree, S, classes, inherits), typed |-> TypedUses(inherits, accesses),
         unresolved |-> UnresolvedNames(tree, S, classes),
         evident |-> {c.is.class : c \in AllOf(tree, S, "self")} \cup {a[1] : a \in accesses}]

UsedByOwn(tree, p, m) == \E s \in ToSet(Statements(tree, p, "self")) : s.class = m.class /\ s.name = m.name

(***************************************************************************)
(* Findings (methods.rs, properties.rs)                                    *)
(***************************************************************************)
(* `dead_method_confidence`, those of low confidence left out.             *)
MethodIsDead(tree, u, p, m) ==
    /\ m.name \notin MethodEntrypoints
    /\ ~Overrides(tree, u.files, u.inherits, m.class, m.name)
    /\ ~UsedByOwn(tree, p, m) /\ <<m.class, m.name>> \notin u.typed
    /\ m.name \notin u.unresolved /\ m.class \notin u.exposed
    /\ ~(Language[p] \in ImplyContract /\ HasExternalBase(tree, u.files, u.classes, m.class))
    /\ m.class \in u.evident

(* `property_is_dead`; an unresolved reference makes its confidence low.   *)
PropertyIsDead(tree, u, p, m) ==
    LET class == CHOOSE c \in ToSet(Statements(tree, p, "class")) : c.name = m.class IN
    /\ ~m.private /\ ~m.managed /\ ~class.managed
    /\ class.schema => m.class \in u.evident
    /\ ~UsedByOwn(tree, p, m) /\ <<m.class, m.name>> \notin u.typed
    /\ m.name \notin u.unresolved

DeadMember(m) == Dead(m.file, m.is, m.is.name)

DeadMethods(tree) ==
    LET In(u) == {DeadMember(m) : m \in {x \in AllOf(tree, ReportFiles(tree), "method") :
                                            MethodIsDead(tree, u, x.file, x.is)}}
    IN  In(Usage(tree, UsageFiles(tree)))

(* Properties are looked for among the files reported on only.             *)
DeadProperties(tree) ==
    LET In(u) == {DeadMember(m) : m \in {x \in AllOf(tree, ReportFiles(tree), "property") :
                                            PropertyIsDead(tree, u, x.file, x.is)}}
    IN  In(Usage(tree, ReportFiles(tree)))

(* `extra_findings`                                                        *)
ExtraFindings(tree) ==
    (IF UnusedImports THEN UNION {DeadImports(tree, p) : p \in ReportFiles(tree)} ELSE {})
    \cup (IF UnusedMethods THEN DeadMethods(tree) ELSE {})
    \cup (IF UnusedProperties THEN DeadProperties(tree) ELSE {})

(* `detect`                                                                *)
Detect(g) == DeadCodeFindings(g) \cup ExtraFindings(g.tree)
=============================================================================
