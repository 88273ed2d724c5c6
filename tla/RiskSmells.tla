----------------------------- MODULE RiskSmells -----------------------------
(***************************************************************************)
(* The smells that read the functions of a file together, or their types:  *)
(* loose typing, names that promise a read, wrappers that only forward,    *)
(* tests without an oracle or with their subject mocked, work repeated in  *)
(* loops (src/noze/smells).  Detect is what a scan reports of one file.    *)
(***************************************************************************)
EXTENDS FunctionSmells

CONSTANT GlobMatches  \* the pairs of a name and a glob that match

MatchesAny(name, globs) == \E g \in globs : <<name, g>> \in GlobMatches

(***************************************************************************)
(* Types                                                                   *)
(***************************************************************************)
MaxHomogeneousTuple == 4

\* Variant: the highest strictness lists only what it adds.
OwnLoose(type, strictness) ==
    type \cap CASE strictness = "low" -> {"escape"}
                [] strictness = "medium" -> {"escape", "erasing"}
                [] OTHER -> {"primitive", "safe_top"}

ReportableLoose(type, strictness) ==
    type \cap CASE strictness = "low" -> {"escape"}
                [] strictness = "medium" -> {"escape", "erasing"}
                [] OTHER -> {"escape", "erasing", "primitive", "safe_top"}
LooseSeverity(kinds) == IF "escape" \in kinds THEN "warning" ELSE "info"

(* A type guard says "guards" of itself, and which parameter it narrows.   *)
Guarded(f) == IF "guards" \in f.return_type THEN f.return_type \ {"guards"} ELSE {}

LooseTyping(file, f, s) ==
    LET Loose(type) == ReportableLoose(type, s.loose_typing_strictness)
        offenders == {p \in ToSet(f.param_names) \ (Own \cup {"args", "kwargs"}) :
                        /\ p \notin file.private_names \cup Guarded(f) \cup f.validated_names
                        /\ Loose(ParamType(f, p)) # {}}
        returned == IF f.return_type \cap {"tuple", "guards"} # {} THEN {} ELSE Loose(f.return_type)
        kinds == returned \cup UNION {Loose(ParamType(f, p)) : p \in offenders}
    IN  When(kinds # {}, Of("loose_typing", file, f, LooseSeverity(kinds),
                            Cardinality(offenders) + Cardinality(returned)))

TypeHidingAliases(file) ==
    {Make("loose_typing", file, alias.line, alias.name, "warning", 1) :
        alias \in {a \in file.type_aliases :
                    ReportableLoose(a.target, "high") # {} \/ "scalar" \in a.target}}

LooseFields(file, c, s) ==
    LET Loose(field) == ReportableLoose(field.type, s.loose_typing_strictness)
        loose == {field \in c.properties : Loose(field) # {}}
    IN  IF loose = {} THEN {}
        ELSE {Make("loose_typing", file, At(c, Least({field.line : field \in loose})), c.name,
                   LooseSeverity(UNION {Loose(field) : field \in loose}), Cardinality(loose))}

BooleanBlindness(file, f, s) ==
    LET bools == Cardinality({i \in DOMAIN f.param_names :
                                "bool" \in ParamType(f, f.param_names[i])})
    IN  When(bools > s.max_bool_params, Of("boolean_blindness", file, f, "warning", bools))

(* A tuple type has its arity among what is said of it.                    *)
TuplePacking(file, f, s) ==
    LET annotated == {n \in 0 .. 9 : "tuple" \in f.return_type /\ f.tuple_arity = n}
        arity == Most({f.max_tuple_return} \cup annotated)
        vector == s.tuple_allow_homogeneous /\ f.homogeneous_tuple_return
                    /\ arity <= MaxHomogeneousTuple
    IN  When(arity > s.max_tuple_return /\ ~vector, Of("tuple_packing", file, f, "info", arity))

(* A fallback is short, a sentinel word, or typographic, and flows to sink.*)
IsSentinel(fallback, strictness) ==
    LET any == fallback.looks \cap {"short", "wordy"} # {}
        storing == fallback.sink \in {"stored", "passed", "compared"}
    IN  CASE fallback.sink = "unclassified" -> any
          [] strictness = "low" -> storing /\ any
          [] strictness = "high" -> any
          [] fallback.sink \in {"rendered", "string_op"} -> FALSE
          [] "typographic" \in fallback.looks -> storing
          [] fallback.sink \in {"returned", "other"} -> "short" \in fallback.looks
          [] OTHER -> any

MagicStringDefault(file, f, s) ==
    LET hits == {x \in f.string_fallbacks : IsSentinel(x, s.magic_string_default_strictness)}
    IN  IF hits = {} THEN {}
        ELSE {Make("magic_string_default", file, At(f, Least({x.line : x \in hits})), f.name,
                   "warning", Cardinality(hits))}

Typing(file, f, s) ==
    BooleanBlindness(file, f, s)
    \cup (IF Enabled(s, "loose_typing") THEN LooseTyping(file, f, s) ELSE {})
    \cup (IF Enabled(s, "magic_string_default") THEN MagicStringDefault(file, f, s) ELSE {})
    \cup (IF Enabled(s, "tuple_packing") THEN TuplePacking(file, f, s) ELSE {})

ReportedEscapes(strictness) ==
    {"any_cast", "blanket_suppression"}
    \cup (IF strictness = "low" THEN {} ELSE {"double_cast", "unexplained_suppression"})
    \cup (IF strictness = "high" THEN {"non_null_call"} ELSE {})

(* A rationale in a comment explains the escape on its line or the next.   *)
TypeEscapes(file, f, s) ==
    LET explained == UNION {{line, line + 1} : line \in file.rationales}
        escapes == {e \in f.type_escapes :
                        /\ e.kind \in ReportedEscapes(s.type_escape_strictness)
                        /\ e.subject \notin Guarded(f)
                        /\ \/ e.kind \in {"blanket_suppression", "unexplained_suppression"}
                           \/ At(f, e.line) \notin explained}
    IN  IF ~Enabled(s, "type_escape_cast") \/ file.test_source \/ file.declaration_only
           \/ escapes = {} THEN {}
        ELSE {Gathered("type_escape_cast", file, f, "info", Cardinality(escapes),
                       {e.line : e \in escapes})}

(***************************************************************************)
(* Names that promise a read                                               *)
(***************************************************************************)
Reaches == [cached |-> 1, shared |-> 2, persistent |-> 3]
PersistentMethods ==
    {"insert", "patch", "replace", "upsert", "save", "commit", "post", "put"}
StoreMethods == {"delete", "update"}

LocalNames(f) ==
    {b.name : b \in f.bindings} \cup DOMAIN f.local_reassigns
    \cup UNION {frame.bindings : frame \in ToSet(f.loop_frames)}

LookedUpBefore(f, call) ==
    \E c \in f.calls :
        c.offset < call.offset /\ c.base = call.base /\ c.method \in {"get", "has"}

(* The reach of a call that writes, "" when it does not.                   *)
CallReach(f, call, locals, s) ==
    CASE ~call.member -> IF call.schedules THEN "persistent" ELSE ""
      [] call.root \in locals -> ""
      [] call.schedules -> "persistent"
      [] ~(call.mutating \/ call.method \in s.name_promise_write_methods) -> ""
      [] call.names_cache -> "cached"
      [] call.method \in PersistentMethods -> "persistent"
      [] call.method \in StoreMethods /\ call.base # call.root -> "persistent"
      [] LookedUpBefore(f, call) -> "cached"
      [] OTHER -> "shared"

AssignmentReach(state) ==
    CASE state.kind = "request" -> "persistent"
      [] state.kind = "lazy_init" \/ state.names_cache -> "cached"
      [] OTHER -> "shared"

Surrounds(outer, inner) ==
    /\ <<outer.start_line, outer.end_line>> # <<inner.start_line, inner.end_line>>
    /\ outer.start_line <= inner.start_line /\ inner.end_line <= outer.end_line

(* What f and the callbacks it passes inline write past their own locals:  *)
(* the line and the reach of each write.                                   *)
Writes(file, f, s) ==
    LET functions == ToSet(file.functions)
        callbacks == {g \in functions : g.callback_position = "argument" /\ Surrounds(f, g)}
        around == UNION {LocalNames(g) : g \in {h \in functions : Surrounds(h, f)}}
        Outer(g) == around \cup (IF g = f THEN {} ELSE LocalNames(f))
        Locals(g) == LocalNames(g) \cup Outer(g) \cup (IF g = f THEN {} ELSE ToSet(g.param_names))
        IsLocal(g, state) ==
            state.root \in IF state.root = state.target THEN Outer(g) ELSE Locals(g)
        Calls(g) == {w \in {<<At(g, c.line), CallReach(g, c, Locals(g), s)>> : c \in g.calls} :
                        w[2] # ""}
        Assignments(g) == {<<At(g, state.line), AssignmentReach(state)>> :
                            state \in {x \in g.state_writes : ~IsLocal(g, x)}}
    IN  UNION {Calls(g) \cup Assignments(g) : g \in {f} \cup callbacks}

ReadPrefixes(f, s) ==
    f.says \cap (s.name_promise_read_prefixes
                 \cup (IF s.name_promise_strictness = "high" THEN {"load", "fetch"} ELSE {}))
ReachFloor(prefixes, strictness) ==
    CASE prefixes \cap {"validate", "check"} # {} \/ strictness = "low" -> Reaches.persistent
      [] strictness = "medium" -> Reaches.shared
      [] OTHER -> Reaches.cached

NamePromise(file, f, s) ==
    LET prefixes == ReadPrefixes(f, s)
        found == {w \in Writes(file, f, s) :
                    Reaches[w[2]] >= ReachFloor(prefixes, s.name_promise_strictness)}
    IN  When(/\ ~file.test_source /\ Enabled(s, "name_promise_mismatch")
             /\ f.callback_position = "standalone" /\ ~f.is_accessor /\ ~f.is_constructor
             /\ ~f.is_test_case /\ "names_a_write" \notin f.says
             /\ prefixes # {} /\ found # {},
             [Of("name_promise_mismatch", file, f, "info", Cardinality(found))
                EXCEPT !.lines = {w[1] : w \in found}])

(***************************************************************************)
(* Wrappers, tests and abstractions                                        *)
(***************************************************************************)
(* From the root of a chain of functions that only forward: the names it   *)
(* passes, and "" unless it ends in a function that does not forward.      *)
Forwarding(known, root) ==
    LET names == {g.name : g \in known} \cup {g.forwards_to : g \in known}
        from[name \in names, passed \in SUBSET names] ==
            LET named == {g \in known : g.name = name}
                next == CHOOSE g \in named : TRUE
            IN  IF name \in passed \/ Cardinality(named) # 1 THEN [layers |-> 0, ends |-> FALSE]
                ELSE IF next.forwards_to = "" THEN [layers |-> Cardinality(passed), ends |-> TRUE]
                ELSE from[next.forwards_to, passed \cup {name}]
    IN  from[root, {}]

WrapperChains(file, s) ==
    LET known == {g \in ToSet(file.functions) : ~g.is_method /\ ~g.is_nested}
        wrappers == {g \in known : g.forwards_to # ""}
        roots == {g \in wrappers : \A w \in wrappers : w.forwards_to # g.name}
        Chain(g) == Forwarding(known, g.name)
    IN  {Of("redundant_wrapper_chain", file, g, "info", Chain(g).layers) :
            g \in {r \in roots : Chain(r).ends /\ Chain(r).layers > s.max_wrapper_depth}}

CallsCheck(f, checked, s) ==
    \E name \in f.helper_calls : name \in checked \/ MatchesAny(name, s.assertion_functions)

(* Helpers that check, directly or through another that does.              *)
CheckedFrom(helpers, s) ==
    LET Found(checked) ==
            {g.name : g \in {h \in helpers : h.name \notin checked /\ CallsCheck(h, checked, s)}}
        from[checked \in SUBSET {g.name : g \in helpers}] ==
            IF Found(checked) = {} THEN checked ELSE from[checked \cup Found(checked)]
    IN  from[{g.name : g \in {h \in helpers : h.test_checks > 0}}]

\* Variant: a helper that leaves the check to another counts as none.
DirectHelpers(file, s) ==
    {g.name : g \in {h \in ToSet(file.functions) : ~h.is_test_case /\ h.test_checks > 0}}

CheckedHelpers(file, s) ==
    CheckedFrom({g \in ToSet(file.functions) : ~g.is_test_case /\ g.name # ""}, s)

WeakTestOracles(file, s) ==
    LET weak == {f \in ToSet(file.functions) :
                    /\ ~CallsCheck(f, CheckedHelpers(file, s), s)
                    /\ f.is_test_case /\ f.test_checks = 0 /\ ~f.test_has_nested_function
                    /\ f.end_line > f.start_line}
        Symbol(f) == IF f.name = "" THEN "test callback" ELSE f.name
    IN  IF ~file.test_source THEN {}
        ELSE {Make("weak_test_oracle", file, f.start_line, Symbol(f), "info", 0) : f \in weak}

(* Assertions both sides of which are one expression; and, when asked for, *)
(* tests that only check that the mocks they programmed were called.       *)
FixtureEchoes(file, s) ==
    LET functions == ToSet(file.functions)
        echoes == UNION {{f} \X f.echo_assertions : f \in functions}
        OwnMocksOnly(f) ==
            /\ f.is_test_case /\ f.test_checks > 0
            /\ Len(f.mock_call_checks) = f.test_checks
            /\ ToSet(f.mock_call_checks) \subseteq f.programmed_mocks
        CheckingCallback(f) ==
            \E g \in functions \ {f} :
                /\ g.test_checks > 0
                /\ g.start_line >= f.start_line /\ g.end_line <= f.end_line
        mockOnly == {f \in functions :
                        /\ OwnMocksOnly(f) /\ ~CheckingCallback(f)
                        /\ ~CallsCheck(f, CheckedHelpers(file, s), s)}
    IN  IF ~file.test_source THEN {}
        ELSE {Make("fixture_echo_assertion", file, At(e[1], e[2]), e[1].name, "warning", 1) :
                e \in echoes}
             \cup IF ~s.fixture_echo_include_mock_only THEN {}
                  ELSE {Of("fixture_echo_assertion", file, f, "info", f.test_checks) :
                            f \in mockOnly}

DefensiveCode(file, f) ==
    When(f.broad_handlers > 0 /\ f.empty_fallbacks >= 2,
         Of("defensive_fallback", file, f, "warning", f.broad_handlers + f.empty_fallbacks))
    \cup When(f.repeated_guards > 0,
              Of("redundant_validation", file, f, "info", f.repeated_guards))

(* Two implementations that share less than a third of what each adds.     *)
DivergentAbstraction(file, c) ==
    LET classes == ToSet(file.classes)
        implementations == {k \in classes : ~k.is_abstract /\ c.name \in k.bases}
        Added(k) == k.methods \ c.methods
        shared == {m \in UNION {Added(k) : k \in implementations} :
                    \A k \in implementations : m \in Added(k)}
        all == UNION {Added(k) : k \in implementations}
    IN  When(/\ c.is_abstract /\ Cardinality(implementations) = 2
             /\ \A k \in implementations : Cardinality(Added(k)) >= 2
             /\ Cardinality(shared) * 3 < Cardinality(all),
             Of("divergent_abstraction", file, c, "warning", 2))

(***************************************************************************)
(* Work repeated in loops                                                  *)
(***************************************************************************)
PlainCall == [
    target |-> "", base |-> "", root |-> "", method |-> "", line |-> 0, member |-> FALSE,
    region |-> 0, offset |-> 0, pass |-> "full", in_assertion |-> FALSE, arg_idents |-> {},
    frame |-> 0, awaited |-> FALSE, mutating |-> FALSE, schedules |-> FALSE,
    names_cache |-> FALSE, external |-> FALSE, double_api |-> FALSE, reaches |-> ""]
PlainFrame == [
    kind |-> "for_of", parent |-> 0, bindings |-> {}, subject |-> {}, bound |-> "unbounded",
    count |-> 0, cond_idents |-> {}, advanced |-> {}, declared |-> {}]

(* A frame of a function and those around it.                              *)
Frames(f, frame) ==
    LET from[i \in {0} \cup DOMAIN f.loop_frames] ==
            IF i = 0 THEN {} ELSE {i} \cup from[f.loop_frames[i].parent]
    IN  from[frame]

OwnedByLoop(f, frame, name) ==
    \E i \in Frames(f, frame) : name \in f.loop_frames[i].bindings \cup f.loop_frames[i].declared

Within(frame, max) ==
    frame.bound = "fixed" \/ (frame.bound = "count" /\ frame.count <= max)
IsPaging(frame) == frame.kind = "while" /\ frame.cond_idents \cap frame.advanced # {}
RepeatsPerItem(f, frame, max) ==
    \E i \in Frames(f, frame) : ~Within(f.loop_frames[i], max) /\ ~IsPaging(f.loop_frames[i])

WalksOuterItem(f, frame) ==
    frame # 0 /\ \E i \in Frames(f, f.loop_frames[frame].parent) :
                    f.loop_frames[i].bindings \cap f.loop_frames[frame].subject # {}

Significant(loops) == {loop \in loops : ~loop.bounded}

FirstOf(kind, file, f, severity, lines) ==
    IF lines = {} THEN {}
    ELSE {Make(kind, file, At(f, Least({l.line : l \in lines})), f.name, severity,
               Cardinality(lines))}

(* Passes over one receiver in one region that one loop could do, two of   *)
(* them with nothing in between that changes what the second one sees.     *)
WorthFusing(calls) ==
    LET Passes(P) == Cardinality({c \in calls : c.pass \in P})
        passes == Cardinality(calls) - Passes({"projection"})
    IN  \/ passes >= 3
        \/ Passes({"loop"}) >= 2
        \/ passes >= 2 /\ Passes({"aggregate"}) >= 1

FusablePair(f, calls) ==
    \E first, second \in calls :
        /\ first.offset < second.offset
        /\ ~\E c \in f.calls : c.base = first.base /\ c.mutating
                               /\ c.offset \in first.offset .. second.offset
        /\ ~\E e \in f.exits : first.offset < e /\ e < second.offset
        /\ ~\E b \in f.bindings :
                first.offset < b.end /\ b.end <= second.offset /\ b.name \in second.arg_idents

RepeatedIterations(file, f, s) ==
    LET counted == {c \in f.iteration_calls :
                        c.base # "" /\ (s.repeated_iteration_include_tests \/ ~c.in_assertion)}
        groups == {{c \in counted : c.base = d.base /\ c.region = d.region} : d \in counted}
        skipped == (file.test_source \/ f.is_test_case) /\ ~s.repeated_iteration_include_tests
    IN  IF skipped THEN {}
        ELSE {[Make("repeated_iteration", file, At(f, Least({c.line : c \in g})), f.name,
                    "warning", Cardinality(g)) EXCEPT !.detail = (CHOOSE c \in g : TRUE).base] :
                g \in {h \in groups : WorthFusing(h) /\ FusablePair(f, h)}}

(* Calls out of the file that are configured, known to be, or awaited on   *)
(* what is not the item: the first of each target.                         *)
ExternalCalls(file, f, calls, s) ==
    LET AwaitsOutsideItem(c) ==
            /\ c.awaited /\ c.frame # 0
            /\ f.loop_frames[c.frame].kind \in {"for_of", "iter_callback"}
            /\ ~OwnedByLoop(f, c.frame, c.root)
        External(c) ==
            \/ MatchesAny(c.target, s.n_plus_one_callees)
            \/ c.member /\ (c.external \/ (s.n_plus_one_await_in_loop /\ AwaitsOutsideItem(c)))
        found == {c \in calls :
                    External(c) /\ \A g \in ToSet(file.functions) : g.name # c.target}
    IN  {c \in found : \A d \in found : d.target = c.target => c.offset <= d.offset}

Performance(file, f, s) ==
    LET bound == s.n_plus_one_max_constant_bound
        nested == {l \in Significant(f.nested_loops) : ~WalksOuterItem(f, l.frame)}
        sorts == {l \in f.sorts_in_loops : ~OwnedByLoop(f, l.frame, l.root)}
        perItem == {c \in f.loop_calls : RepeatsPerItem(f, c.frame, bound)}
        Named(n) == {g \in ToSet(file.functions) : g.name = n}
        helped == {c \in f.loop_calls : c.target # f.name /\ Cardinality(Named(c.target)) = 1}
        Callee(c) == CHOOSE g \in Named(c.target) : TRUE
        Found(kind, c, severity, metric) ==
            [Make(kind, file, At(f, c.line), f.name, severity, metric) EXCEPT !.detail = c.target]
    IN  FirstOf("nested_loop", file, f, "warning", nested)
        \cup FirstOf("sort_in_loop", file, f, "warning", sorts)
        \cup RepeatedIterations(file, f, s)
        \cup {Found("n_plus_one_call", c, "info", 1) : c \in ExternalCalls(file, f, perItem, s)}
        \cup {Found("nested_loop", c, "warning", Cardinality(Significant(Callee(c).loops)) + 1) :
                c \in {d \in helped : /\ Significant(Callee(d).loops) # {}
                                      /\ InLoopStatement(f, d.frame)}}
        \cup {Found("n_plus_one_call", c, "info", 1) :
                c \in {d \in helped \cap perItem :
                        ExternalCalls(file, Callee(d), Callee(d).calls, s) # {}}}

(***************************************************************************)
(* Tests that mock what they test                                          *)
(***************************************************************************)
(* What the tests of a file call, in order: <<first name, member>>.        *)
SubjectCalls(file) ==
    LET tests == {f \in ToSet(file.functions) : f.is_test_case}
        InTest(f) == \E t \in tests : t.start_line <= f.start_line /\ f.end_line <= t.end_line
        ByOffset(calls) == SetToSortSeq(calls, LAMBDA c, d : c.offset < d.offset)
        units == SelectSeq(file.functions, InTest)
    IN  FlattenSeq([i \in DOMAIN units |-> ByOffset({c \in units[i].calls : ~c.double_api})])

(* The members of modules those calls reach through the imports, in order: *)
(* an import is [bindings, module, symbols, submodules].                   *)
Reached(file) ==
    LET calls == SubjectCalls(file)
        Members(import, call) ==
            LET i == CHOOSE j \in DOMAIN import.bindings : import.bindings[j] = call.root
                symbol == import.symbols[i]
                Member(module, member) ==
                    [binding |-> call.root, module |-> module, member |-> member]
                submodule == IF import.submodules[i] = "" \/ call.reaches = "" THEN << >>
                             ELSE << Member(import.submodules[i], call.reaches) >>
            IN  submodule \o << Member(import.module,
                                      IF symbol \in {"", "*"} THEN call.reaches ELSE symbol) >>
        Through(import) ==
            LET bound == SelectSeq(calls, LAMBDA c : c.root \in ToSet(import.bindings))
            IN  FlattenSeq([i \in DOMAIN bound |-> Members(import, bound[i])])
    IN  FlattenSeq([i \in DOMAIN file.imports |-> Through(file.imports[i])])

(* A mock replaces a module, or a member of one; or, in the strictest      *)
(* reading, the name the test calls it by or a module named like the test. *)
MockedSubject(file, s) ==
    LET reached == Reached(file)
        high == s.mocked_subject_strictness = "high"
        First(P(_)) == SelectInSeq(reached, P)
        Replaces(mock, r) ==
            r.module = mock.module /\ (mock.member = "" \/ r.member = mock.member)
        At0(mock) == IF mock.binding = "" THEN First(LAMBDA r : Replaces(mock, r))
                     ELSE IF high THEN First(LAMBDA r : r.binding = mock.binding) ELSE 0
        Subject(mock) ==
            CASE At0(mock) # 0 -> reached[At0(mock)].binding
              [] high /\ mock.binding = "" /\ mock.named_like_test -> mock.module
              [] OTHER -> ""
    IN  IF ~file.test_source \/ ~Enabled(s, "mocked_subject") THEN {}
        ELSE {Make("mocked_subject", file, mock.line, Subject(mock), "warning", 1) :
                mock \in {m \in file.mocks : m.replaces /\ Subject(m) # ""}}

(***************************************************************************)
(* What one file is reported for                                           *)
(***************************************************************************)
Acted(findings, s) ==
    {IF x.kind \in DOMAIN s.actions THEN [x EXCEPT !.action = s.actions[x.kind]] ELSE x :
        x \in findings}

(* A finding spans the function, else the class, that starts at its line.  *)
Spanned(file, findings) ==
    LET Starting(units, line) == {i \in DOMAIN units : units[i].start_line = line}
        End(line) ==
            IF Starting(file.functions, line) # {}
            THEN file.functions[Most(Starting(file.functions, line))].end_line
            ELSE IF Starting(file.classes, line) # {}
            THEN file.classes[Least(Starting(file.classes, line))].end_line
            ELSE line
    IN  {[x EXCEPT !.end = End(x.line)] : x \in findings}

Finished(file, findings, s) ==
    Spanned(file, Acted({x \in findings : Enabled(s, x.kind)}, s))

DetectLocal(file, s) ==
    LET functions == ToSet(file.functions)
        classes == ToSet(file.classes)
        schemas == Propagated(file.functions)
        OfFunction(f) ==
            Complexity(file, f, s) \cup FunctionSize(file, f, s) \cup Structure(file, f, s)
            \cup DefensiveCode(file, f) \cup SwallowedErrors(file, f, s) \cup FeatureEnvy(file, f)
            \cup StubShipped(file, f, s) \cup Typing(file, f, s) \cup TypeEscapes(file, f, s)
            \cup NamePromise(file, f, s) \cup Performance(file, f, s)
        OfClass(c) ==
            LargeClass(file, c, s) \cup DivergentChange(file, c) \cup DivergentAbstraction(file, c)
            \cup RefusedBequest(file, c)
            \cup (IF Enabled(s, "loose_typing") THEN LooseFields(file, c, s) ELSE {})
    IN  Finished(file,
            UNION {OfFunction(f) : f \in functions} \cup UNION {OfClass(c) : c \in classes}
            \cup UNION {Mutations(file, i, schemas, s) : i \in DOMAIN file.functions}
            \cup (IF Enabled(s, "loose_typing") /\ s.loose_typing_strictness = "high"
                  THEN TypeHidingAliases(file) ELSE {})
            \cup InappropriateIntimacy(file) \cup WeakTestOracles(file, s)
            \cup WrapperChains(file, s) \cup FixtureEchoes(file, s) \cup MockedSubject(file, s), s)

(* The rules for tests, on a test file the scan leaves out otherwise.      *)
TestRules(file, s) ==
    Finished(file,
        MockedSubject(file, s) \cup FixtureEchoes(file, s)
        \cup (IF Enabled(s, "weak_test_oracle") THEN WeakTestOracles(file, s) ELSE {}), s)
=============================================================================
