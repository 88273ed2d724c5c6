--------------------------- MODULE FunctionSmells ---------------------------
(***************************************************************************)
(* The smells of one function, or one class, at a time: its size and       *)
(* structure, what it mutates, how it handles errors, whom it envies       *)
(* (src/noze/smells).                                                      *)
(*                                                                         *)
(* A file is what its walk leaves (src/spine/ir/units.rs): functions and   *)
(* classes at their lines, every other line counted from the start of its  *)
(* function.  A type is the set of what the type vocabulary says of it, and*)
(* the names in it; {} is no annotation.  0 is no loop frame, and "" no    *)
(* name.                                                                   *)
(***************************************************************************)
EXTENDS SmellSettings

CONSTANT NameOrder  \* the rank of each name among the names

PlainFunction == [
    name |-> "f", declared |-> TRUE, lexemes |-> << >>, says |-> {}, start_line |-> 0, end_line |-> 0, param_names |-> << >>,
    destructured_params |-> {}, param_types |-> << >>, return_type |-> {},
    max_nesting |-> 0, return_count |-> 0, guard_returns |-> 0, branch_count |-> 0,
    cognitive |-> 0, collapsible_nested_if_lines |-> {}, nested_ternaries |-> {},
    magic_numbers |-> {}, comment_lines |-> 0, narration_comment_lines |-> 0,
    code_comment_lines |-> 0, first_noisy_comment_line |-> 0, chain_hits |-> {},
    is_method |-> FALSE, is_constructor |-> FALSE, is_accessor |-> FALSE,
    local_reassigns |-> << >>, receiver_access |-> << >>, self_writes |-> 0,
    self_attrs |-> {}, own_method_calls |-> {}, str_keys |-> << >>,
    destructured_keys |-> << >>, str_key_lines |-> << >>, schema_calls |-> {},
    validated_names |-> {}, returned_constructors |-> {}, returned_names |-> {},
    mutated_names |-> {}, attr_mutated_names |-> {}, method_mutations |-> {},
    mutation_lines |-> {}, max_tuple_return |-> 0, tuple_arity |-> 0,
    homogeneous_tuple_return |-> FALSE,
    literal_memberships |-> {}, string_fallbacks |-> {}, state_writes |-> {},
    type_escapes |-> {}, dynamic_key_receivers |-> {}, is_nested |-> FALSE,
    parent |-> "", parent_is_test_callback |-> FALSE, captures_parent |-> FALSE,
    callback_position |-> "standalone", visibility |-> "unknown",
    broad_handlers |-> 0, empty_fallbacks |-> 0, repeated_guards |-> 0,
    forwards_to |-> "", test_checks |-> 0, helper_calls |-> {},
    test_has_nested_function |-> FALSE, is_test_case |-> FALSE,
    sentinel_handlers |-> {}, stub |-> {}, echo_assertions |-> {},
    mock_call_checks |-> << >>, programmed_mocks |-> {},
    loops |-> {}, nested_loops |-> {}, sorts_in_loops |-> {}, iteration_calls |-> {},
    calls |-> {}, loop_calls |-> {}, exits |-> {}, bindings |-> {}, loop_frames |-> << >>]

PlainClass == [
    name |-> "C", start_line |-> 0, end_line |-> 0, bases |-> {}, implements |-> {},
    is_abstract |-> FALSE, methods |-> {}, method_attr_use |-> << >>,
    method_calls |-> << >>, overrides_to_stub |-> {}, properties |-> {}]

Least(S) == CHOOSE x \in S : \A y \in S : x <= y
Most(S) == IF S = {} THEN 0 ELSE CHOOSE x \in S : \A y \in S : x >= y
CeilDiv(a, b) == (a + b - 1) \div b
At(f, line) == f.start_line + line

(* The classes into which a relation, symmetric or not, joins S.           *)
Components(S, Joined(_, _)) ==
    FoldSet(LAMBDA x, parts :
                LET met == {P \in parts : \E y \in P : Joined(x, y) \/ Joined(y, x)}
                IN  (parts \ met) \cup {UNION met \cup {x}},
            {}, S)

Own == {"self", "cls"}

(* A finding at a line; symbol is the names it is about, and what tells two*)
(* of one symbol apart is its detail.                                      *)
FromSeverity == [critical |-> "must_fix", warning |-> "warning", info |-> "advisory"]
Make(kind, file, line, symbol, severity, metric) ==
    [kind |-> kind, file |-> file.path, line |-> line, end |-> 0, lines |-> {},
     symbol |-> {symbol}, severity |-> severity, action |-> FromSeverity[severity],
     metric |-> metric, detail |-> ""]
Of(kind, file, f, severity, metric) == Make(kind, file, f.start_line, f.name, severity, metric)
When(holds, finding) == IF holds THEN {finding} ELSE {}

(* Findings that gather several lines stand at the first of them.          *)
Gathered(kind, file, f, severity, metric, lines) ==
    LET at == {At(f, line) : line \in lines}
    IN  [Make(kind, file, Least(at), f.name, severity, metric) EXCEPT !.lines = at]

(***************************************************************************)
(* Complexity and size                                                     *)
(***************************************************************************)
Complexity(file, f, s) ==
    LET cyclomatic == f.branch_count + 1
        Severity(n, max) == IF n > max * 2 THEN "critical" ELSE "warning"
    IN  When(Enabled(s, "high_complexity") /\ cyclomatic > s.max_cyclomatic,
             Of("high_complexity", file, f, Severity(cyclomatic, s.max_cyclomatic), cyclomatic))
        \cup When(f.cognitive > s.max_cognitive,
             Of("high_cognitive_complexity", file, f, Severity(f.cognitive, s.max_cognitive),
                f.cognitive))

LinesOf(f) == Most({0, f.end_line - f.start_line}) + 1

HeavyNestedFunction(file, f, s) ==
    /\ s.max_nested_function_lines > 0
    /\ f.is_nested
    /\ LinesOf(f) > s.max_nested_function_lines
    /\ ~f.parent_is_test_callback
    /\ ~(f.captures_parent /\ s.nested_function_skip_capturing)
    /\ ~\E parent \in ToSet(file.functions) :
            parent.name = f.parent /\ f.name \in parent.returned_names

NarratingCode(file, f, s) ==
    LET noisy == f.narration_comment_lines + f.code_comment_lines
        short == LinesOf(f) < s.narrating_min_function_lines \/ f.is_test_case
        ratio == CeilDiv(noisy * 100, Most({1, LinesOf(f) - f.comment_lines}))
    IN  When(/\ noisy >= s.min_comment_lines
             /\ ~(f.code_comment_lines = 0 /\ short)
             /\ ratio > s.max_comment_ratio_percent,
             Make("narrating_code", file, At(f, f.first_noisy_comment_line), f.name, "info", ratio))

FunctionSize(file, f, s) ==
    When(Enabled(s, "long_function") /\ LinesOf(f) > s.max_function_lines,
         Of("long_function", file, f, "warning", LinesOf(f)))
    \cup (IF Enabled(s, "narrating_code") THEN NarratingCode(file, f, s) ELSE {})
    \cup When(HeavyNestedFunction(file, f, s),
         Of("heavy_nested_function", file, f,
            IF f.captures_parent THEN "info" ELSE "warning", LinesOf(f)))

LargeClass(file, c, s) ==
    LET methods == Cardinality(c.methods)
    IN  When(Enabled(s, "large_class") /\ methods > s.max_class_methods,
             Of("large_class", file, c, "warning", methods))

(***************************************************************************)
(* Structure                                                               *)
(***************************************************************************)
EffectiveParams(f) ==
    Len(f.param_names) - (IF f.param_names # << >> /\ f.param_names[1] \in Own THEN 1 ELSE 0)

ReportsMagic(site, s) ==
    /\ site.text \notin s.magic_number_ignore
    /\ ~(\/ site.context = "array_index" /\ s.magic_number_ignore_array_indexes
         \/ site.context = "default_value" /\ s.magic_number_ignore_default_values
         \/ site.context = "http_status" /\ s.magic_number_allow_http_status)

MagicNumbers(file, f, s) ==
    LET sites == {site \in f.magic_numbers : ReportsMagic(site, s)}
    IN  IF sites = {} THEN {}
        ELSE {Gathered("magic_numbers", file, f, "info", Cardinality(sites),
                       {site.line : site \in sites})}

MessageChains(file, f, s) ==
    LET hits == {hit \in f.chain_hits :
                    /\ hit.depth > s.max_chain_depth
                    /\ hit.root \notin s.message_chain_ignore_roots \cup file.generated_roots}
    IN  IF hits = {} THEN {}
        ELSE {Gathered("message_chain", file, f, "warning", Most({hit.depth : hit \in hits}),
                       {hit.line : hit \in hits})}

NestedTernaries(file, f, s) ==
    LET counted == {t \in f.nested_ternaries :
                        t.depth > 0 \/ s.nested_ternary_strictness = "high"}
    IN  IF counted = {} THEN {}
        ELSE {Make("nested_ternary", file, At(f, Least({t.line : t \in counted})), f.name,
                   "warning", Most({Most({1, t.depth}) + 1 : t \in counted}))}

(* The most of the sites that one execution can pass: a site is the arms it*)
(* stands in, outermost first, each <<conditional, arm>>.                  *)
MaxOnOnePath(paths) ==
    LET places == {<< >>} \cup UNION {{SubSeq(paths[i], 1, n) : n \in DOMAIN paths[i]} : i \in DOMAIN paths}
        most[place \in places] ==
            LET arms == {p \in places : p # << >> /\ Front(p) = place}
                Best(conditional) == Most({most[arm] : arm \in {a \in arms : Last(a)[1] = conditional}})
            IN  Cardinality({i \in DOMAIN paths : paths[i] = place})
                + FoldSet(LAMBDA c, sum : sum + Best(c), 0, {Last(arm)[1] : arm \in arms})
    IN  most[<< >>]

SplitVariables(file, f, s) ==
    {[Of("split_variable", file, f, "info", MaxOnOnePath(f.local_reassigns[name]))
        EXCEPT !.detail = name] :
        name \in {n \in DOMAIN f.local_reassigns :
            MaxOnOnePath(f.local_reassigns[n]) >= Most({2, s.split_variable_min_assigns})}}

Structure(file, f, s) ==
    LET counted == Most({0, f.return_count
                            - (IF s.count_guard_clauses THEN 0 ELSE f.guard_returns)})
        ifs == f.collapsible_nested_if_lines
    IN  When(f.max_nesting > s.max_nesting,
             Of("deep_nesting", file, f, "warning", f.max_nesting))
        \cup When(Enabled(s, "long_parameter_list") /\ EffectiveParams(f) > s.max_params,
             Of("long_parameter_list", file, f, "warning", EffectiveParams(f)))
        \cup When(Enabled(s, "too_many_returns") /\ counted > s.max_returns,
             Of("too_many_returns", file, f, "warning", counted))
        \cup (IF Enabled(s, "magic_numbers") THEN MagicNumbers(file, f, s) ELSE {})
        \cup MessageChains(file, f, s)
        \cup (IF ifs = {} THEN {}
              ELSE {Gathered("unnecessary_nested_if", file, f, "info", Cardinality(ifs), ifs)})
        \cup NestedTernaries(file, f, s)
        \cup (IF Enabled(s, "split_variable") THEN SplitVariables(file, f, s) ELSE {})

(***************************************************************************)
(* Classes                                                                 *)
(***************************************************************************)
DataBases == {"BaseModel", "BaseSettings", "Enum", "IntEnum", "StrEnum", "Protocol"}
MinStatefulMethods == 3

Stateful(c) == {m \in DOMAIN c.method_attr_use : c.method_attr_use[m] # {}}

(* Methods hold together when they use one attribute or call each other.   *)
LcomComponents(c) ==
    LET Calls(m) == IF m \in DOMAIN c.method_calls THEN c.method_calls[m] ELSE {}
        Linked(m, n) ==
            \/ c.method_attr_use[m] \cap c.method_attr_use[n] # {}
            \/ m \in Calls(n) \/ n \in Calls(m)
    IN  Components(Stateful(c), Linked)

DivergentChange(file, c) ==
    When(/\ c.bases \cap DataBases = {} /\ c.implements = {}
         /\ Cardinality(Stateful(c)) >= MinStatefulMethods
         /\ Cardinality(LcomComponents(c)) >= 2,
         Of("divergent_change", file, c, "warning", Cardinality(LcomComponents(c))))

RefusedBequest(file, c) ==
    LET stubs == Cardinality(c.overrides_to_stub)
        methods == Most({1, Cardinality(c.methods)})
    IN  When(c.bases # {} /\ ~c.is_abstract /\ stubs >= 2 /\ stubs * 2 >= methods,
             Of("refused_bequest", file, c, "warning", stubs))

(***************************************************************************)
(* Coupling                                                                *)
(***************************************************************************)
EnvyFloor == 3

TypeIn(table, name) == IF name \in DOMAIN table THEN table[name] ELSE {}
ParamType(f, name) == TypeIn(f.param_types, name)
ResolveType(file, f, name) ==
    IF ParamType(f, name) # {} THEN ParamType(f, name) ELSE TypeIn(file.var_types, name)

FeatureEnvy(file, f) ==
    LET uses == f.receiver_access
        self == IF "self" \in DOMAIN uses THEN uses["self"] ELSE 0
        others == DOMAIN uses \ {"self"}
        top == Most({uses[r] : r \in others})
        tied == {r \in others : uses[r] = top}
        envied == CHOOSE r \in tied : \A q \in tied : NameOrder[r] <= NameOrder[q]
    IN  When(/\ f.is_method /\ ~f.is_constructor
             /\ self # 0 /\ self # f.self_writes
             /\ others # {} /\ top >= EnvyFloor /\ top > self * 2
             /\ "nominal" \in ResolveType(file, f, envied),
             Of("feature_envy", file, f, "warning", top))

InappropriateIntimacy(file) ==
    LET locals == {c.name : c \in ToSet(file.classes)}
        Privates(base) == {a \in file.attribute_accesses[base] : a.private}
    IN  {Make("inappropriate_intimacy", file, 0, base, "info", Cardinality(Privates(base))) :
            base \in {b \in DOMAIN file.attribute_accesses \ {"self"} :
                        TypeIn(file.var_types, b) \cap locals # {} /\ Privates(b) # {}}}

(***************************************************************************)
(* Parameters mutated, and strings as categories                           *)
(***************************************************************************)
IsMethodMutated(f, p) ==
    \E mutation \in f.method_mutations :
        mutation.name = p
        /\ (ParamType(f, p) # {} => mutation.family \in ParamType(f, p))

Mutated(f, s) ==
    {p \in (ToSet(f.param_names) \cup f.destructured_params) \ Own :
        \/ p \in f.mutated_names \/ IsMethodMutated(f, p)
        \/ s.param_attr_mutation /\ p \in f.attr_mutated_names}

(* A private helper that returns nothing and fills what it was given.      *)
IsPrivateCollector(f, mutated) ==
    /\ f.visibility = "private"
    /\ f.return_type # {} => "void" \in f.return_type
    /\ mutated \cap f.returned_names = {}
    /\ \/ f.param_names # << >> /\ mutated = {f.param_names[Len(f.param_names)]}
       \/ \A p \in mutated : ParamType(f, p) \cap {"array", "collection"} # {}

MutatedParameter(file, f, s) ==
    LET mutated == Mutated(f, s)
        lines == {At(f, m.line) : m \in {x \in f.mutation_lines : x.name \in mutated}}
    IN  When(/\ f.callback_position # "argument" /\ mutated # {}
             /\ ~IsPrivateCollector(f, mutated),
             [Make("mutated_parameter", file, IF lines = {} THEN f.start_line ELSE Least(lines),
                   f.name, "warning", Cardinality(mutated)) EXCEPT !.lines = lines])

ReassignedParameter(file, f) ==
    LET rebound == (ToSet(f.param_names) \ Own) \cap DOMAIN f.local_reassigns
    IN  When(rebound # {}, Of("reassigned_parameter", file, f, "info", Cardinality(rebound)))

HasLiteralUnionType(file, f, operand) ==
    LET type == ResolveType(file, f, operand)
    IN  \/ "literal_union" \in type
        \/ \E alias \in file.type_aliases :
                alias.name \in type /\ "literal_union" \in alias.target

LiteralMembership(file, f, s) ==
    LET hits == {test \in f.literal_memberships :
                    /\ ~(s.literal_membership_skip_external_vocab
                            /\ (test.external \/ test.markup))
                    /\ ~HasLiteralUnionType(file, f, test.operand)}
    IN  IF hits = {} THEN {}
        ELSE {Gathered("literal_membership", file, f, "info", Cardinality(hits),
                       {test.line : test \in hits})}

(***************************************************************************)
(* Implicit schemas: the keys one receiver is read with, those of the      *)
(* helpers it is handed to included, four calls deep.                      *)
(***************************************************************************)
Propagated(functions) ==
    LET ByName(n) == {i \in DOMAIN functions : functions[i].name = n}
        Keys(schema, name) == IF name \in DOMAIN schema THEN schema[name] ELSE {}
        (* <<argument, parameter, callee>> of the calls of a function *)
        Links(f) ==
            UNION {{<<call.arguments[p], functions[Most(ByName(call.target))].param_names[p],
                      Most(ByName(call.target))>> :
                      p \in {q \in DOMAIN call.arguments :
                                /\ call.arguments[q] \in ToSet(f.param_names)
                                /\ q \in DOMAIN functions[Most(ByName(call.target))].param_names}} :
                   call \in {c \in f.schema_calls : ByName(c.target) # {}}}
        Round(schemas) ==
            << >> \o [i \in DOMAIN functions |->
                LET links == {l \in Links(functions[i]) : l[2] \in DOMAIN schemas[l[3]]}
                IN  [name \in DOMAIN schemas[i] \cup {l[1] : l \in links} |->
                        Keys(schemas[i], name)
                        \cup UNION {schemas[l[3]][l[2]] : l \in {k \in links : k[1] = name}}]]
        own == << >> \o [i \in DOMAIN functions |-> functions[i].str_keys]
        rounds == Most({n \in 0 .. 4 : n <= Len(functions)})
    IN  FoldLeft(LAMBDA schemas, n : Round(schemas), own, [n \in 1 .. rounds |-> n])

(* Destructured keys count only for a receiver typed as a loose map.       *)
WithDestructuredKeys(f, schema) ==
    LET loose == {r \in DOMAIN f.destructured_keys :
                    "loose" \in ParamType(f, r) /\ "inline" \notin ParamType(f, r)}
    IN  [r \in DOMAIN schema \cup loose |->
            TypeIn(schema, r) \cup (IF r \in loose THEN f.destructured_keys[r] ELSE {})]

(* A boundary returns the domain model it was declared to return.          *)
IsValidatedBoundary(f) ==
    "domain" \in f.return_type /\ f.return_type \cap f.returned_constructors # {}

ImplicitSchema(file, f, schema, s) ==
    LET keys == WithDestructuredKeys(f, schema)
        Annotated(r) == ResolveType(file, f, r)
        Reported(r) ==
            /\ Cardinality(keys[r]) >= s.implicit_schema_min_keys
            /\ r \notin f.dynamic_key_receivers
            /\ \E key \in keys[r] : key \notin file.options
            /\ Annotated(r) # {} => "dict" \in Annotated(r) /\ "open_map" \notin Annotated(r)
            /\ r \notin f.validated_names /\ ~IsValidatedBoundary(f)
        Line(r) == IF r \in DOMAIN f.str_key_lines THEN At(f, f.str_key_lines[r]) ELSE f.start_line
    IN  {[Make("implicit_schema", file, Line(r), f.name, "info", Cardinality(keys[r]))
            EXCEPT !.detail = r] : r \in {q \in DOMAIN keys : Reported(q)}}

Mutations(file, i, schemas, s) ==
    LET f == file.functions[i]
    IN  (IF Enabled(s, "mutated_parameter") THEN MutatedParameter(file, f, s) ELSE {})
        \cup (IF Enabled(s, "reassigned_parameter") THEN ReassignedParameter(file, f) ELSE {})
        \cup (IF s.implicit_schema_min_keys > 0
              THEN ImplicitSchema(file, f, schemas[i], s) ELSE {})
        \cup (IF Enabled(s, "literal_membership") THEN LiteralMembership(file, f, s) ELSE {})

(***************************************************************************)
(* Stubs and swallowed errors                                              *)
(***************************************************************************)
(* A stub is {}, or the one of its shape and what it throws.               *)
StubShipped(file, f, s) ==
    When(/\ ~file.test_source /\ ~file.declaration_only
         /\ "placeholder" \notin f.says
         /\ \E stub \in f.stub :
                stub.shape = "throws" => stub.words \cap s.stub_markers # {},
         Of("stub_shipped", file, f, "warning", 1))

InLoopStatement(f, frame) == frame # 0 /\ f.loop_frames[frame].kind # "iter_callback"

ReportedHandler(handler, strictness) ==
    IF handler.end = "empty_value"
    THEN strictness = "low" => handler.guarded = "other"
    ELSE strictness = "high"

SwallowedErrors(file, f, s) ==
    LET strictness == s.swallowed_error_strictness
        documented == "optional" \in f.says /\ "missing" \in f.return_type
        Retries(h) == h.end = "log_only" /\ InLoopStatement(f, h.frame)
        AnswersPredicate(h) == h.end # "log_only" /\ "predicate" \in f.says
        Explained(h) == h.end = "log_only" /\ h.comment /\ strictness # "high"
        handlers == {h \in f.sentinel_handlers :
                        /\ ReportedHandler(h, strictness) /\ ~Retries(h)
                        /\ ~AnswersPredicate(h) /\ ~Explained(h)}
    IN  IF file.test_source \/ documented THEN {}
        ELSE {Make("swallowed_error_sentinel", file, At(f, h.line), f.name, "warning", 1) :
                h \in handlers}
=============================================================================
