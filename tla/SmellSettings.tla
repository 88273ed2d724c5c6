---------------------------- MODULE SmellSettings ----------------------------
(***************************************************************************)
(* The settings of the smell rules: what a configuration file makes of the *)
(* built-in thresholds, language by language (src/config/smells).          *)
(*                                                                         *)
(* A file is [smells, action, accept]: smells is [base, over, rules,       *)
(* over_rules, enabled, include_tests, exclude], the tables of [smells], of*)
(* [smells.<language>], and the rules of either; a table is a function from*)
(* the keys it sets to values <<type, value>>.  action has the level of    *)
(* kinds of smell, accept the patterns of findings not to report.          *)
(***************************************************************************)
EXTENDS Integers, SequencesExt

Languages == <<"javascript", "typescript", "python", "rust">>

Level == [must_fix |-> 1, warning |-> 2, advisory |-> 3, info |-> 4]

(* The thresholds and toggles of a language, by field.                     *)
Integers0 == [
    max_cyclomatic |-> 10, max_cognitive |-> 15, max_function_lines |-> 50,
    max_nesting |-> 4, max_params |-> 5, max_returns |-> 4,
    max_class_methods |-> 20, max_chain_depth |-> 4, max_wrapper_depth |-> 0,
    data_clump_min_fields |-> 4, data_clump_min_occurrences |-> 3,
    sibling_helper_min_similarity |-> 80, sibling_helper_min_lexemes |-> 8,
    shotgun_blast_threshold |-> 4, god_module_fan |-> 25,
    god_module_min_fan_in |-> 5, god_module_min_fan_out |-> 10,
    god_module_min_lines |-> 150, god_module_min_units |-> 12,
    min_comment_lines |-> 5, max_comment_ratio_percent |-> 30,
    narrating_min_function_lines |-> 12, split_variable_min_assigns |-> 2,
    max_bool_params |-> 2, max_tuple_return |-> 2, implicit_schema_min_keys |-> 4,
    max_nested_function_lines |-> 15, n_plus_one_max_constant_bound |-> 10]

Booleans0 == [
    enabled |-> TRUE, count_guard_clauses |-> FALSE, magic_numbers |-> FALSE,
    magic_number_ignore_array_indexes |-> TRUE,
    magic_number_ignore_default_values |-> TRUE,
    magic_number_allow_http_status |-> TRUE, narrating_code |-> TRUE,
    cyclomatic_complexity |-> FALSE, long_function |-> FALSE, large_class |-> FALSE,
    long_parameter_list |-> FALSE, too_many_returns |-> FALSE, split_variable |-> FALSE,
    loose_typing |-> TRUE, magic_string_default |-> TRUE,
    repeated_iteration_include_tests |-> FALSE, tuple_packing |-> TRUE,
    tuple_allow_homogeneous |-> TRUE, param_mutation |-> TRUE,
    param_attr_mutation |-> FALSE, param_reassignment |-> FALSE,
    literal_membership |-> TRUE, literal_membership_skip_external_vocab |-> TRUE,
    nested_function_skip_capturing |-> FALSE,
    fixture_echo_include_mock_only |-> FALSE, n_plus_one_await_in_loop |-> FALSE]

Lists0 == [
    exclude |-> {}, disabled |-> {"nested_loop", "n_plus_one_call",
        "defensive_fallback", "redundant_validation", "weak_test_oracle"},
    message_chain_ignore_roots |-> {}, magic_number_ignore |-> {},
    assertion_functions |-> {"expect", "assert", "verify"},
    n_plus_one_callees |-> {}, dependency_reimplementation_providers |-> {},
    stub_markers |-> {"not implemented", "todo", "unimplemented", "placeholder"},
    name_promise_read_prefixes |->
        {"get", "is", "has", "find", "list", "validate", "check"},
    name_promise_write_methods |-> {"insert", "patch", "upsert", "delete", "update",
        "set", "save", "commit", "post", "put"}]

(* Rules with a strictness, the field that keeps it and the levels it has. *)
Strict == [
    loose_typing |-> "loose_typing_strictness",
    magic_string_default |-> "magic_string_default_strictness",
    nested_ternary |-> "nested_ternary_strictness",
    swallowed_error_sentinel |-> "swallowed_error_strictness",
    mocked_subject |-> "mocked_subject_strictness",
    type_escape_cast |-> "type_escape_strictness",
    name_promise_mismatch |-> "name_promise_strictness"]
StrictnessLevels(kind) ==
    IF kind \in {"nested_ternary", "mocked_subject"} THEN {"medium", "high"}
    ELSE {"low", "medium", "high"}
Strictnesses0 == [field \in Range(Strict) |-> "medium"]

DefaultOff(language) ==
    CASE language \in {"javascript", "typescript"} ->
            {"high_cognitive_complexity", "deep_nesting"}
      [] language = "rust" -> {"sibling_helper_redefinition"}
      [] OTHER -> {}
DefaultWriteMethods(language) ==
    CASE language = "python" -> {"append", "extend", "pop", "remove", "clear"}
      [] language = "rust" -> {"push", "remove", "clear"}
      [] OTHER -> {"push", "splice"}

DefaultFor(language) ==
    [Lists0 EXCEPT
        !.disabled = @ \cup DefaultOff(language),
        !.name_promise_write_methods = @ \cup DefaultWriteMethods(language)]
    @@ [Booleans0 EXCEPT !.large_class = language \in {"javascript", "typescript"}]
    @@ Integers0 @@ Strictnesses0 @@ [actions |-> << >>]

(* The fields a table may set, and the type of the value of each.          *)
FieldType ==
    [f \in DOMAIN Integers0 |-> "integer"] @@ [f \in DOMAIN Booleans0 |-> "boolean"]
    @@ [f \in DOMAIN Lists0 |-> "strings"] @@ [f \in DOMAIN Strictnesses0 |-> "string"]
Fits(value, type) ==
    /\ value[1] = type
    /\ type = "integer" => value[2] >= 0
    /\ type = "string" => value[2] \in {"low", "medium", "high"}

(* Rules with a switch of their own among the flat keys.                   *)
Toggle == [
    magic_numbers |-> "magic_numbers", narrating_code |-> "narrating_code",
    high_complexity |-> "cyclomatic_complexity", long_function |-> "long_function",
    large_class |-> "large_class", long_parameter_list |-> "long_parameter_list",
    too_many_returns |-> "too_many_returns", split_variable |-> "split_variable",
    loose_typing |-> "loose_typing", magic_string_default |-> "magic_string_default",
    tuple_packing |-> "tuple_packing", mutated_parameter |-> "param_mutation",
    reassigned_parameter |-> "param_reassignment",
    literal_membership |-> "literal_membership"]

Enabled(s, kind) ==
    (kind \in DOMAIN Toggle => s[Toggle[kind]]) /\ kind \notin s.disabled

SetEnabled(s, kind, on) ==
    LET listed == [s EXCEPT !.disabled = IF on THEN @ \ {kind} ELSE @ \cup {kind}]
    IN  IF kind \in DOMAIN Toggle THEN [listed EXCEPT ![Toggle[kind]] = on] ELSE listed

FlatThresholds == [
    max_cyclomatic |-> "high_complexity", max_cognitive |-> "high_cognitive_complexity",
    max_function_lines |-> "long_function", max_nesting |-> "deep_nesting",
    max_params |-> "long_parameter_list", max_returns |-> "too_many_returns",
    max_class_methods |-> "large_class", max_chain_depth |-> "message_chain",
    max_wrapper_depth |-> "redundant_wrapper_chain",
    max_bool_params |-> "boolean_blindness", max_tuple_return |-> "tuple_packing",
    max_comment_ratio_percent |-> "narrating_code",
    max_nested_function_lines |-> "heavy_nested_function"]

SetsToggle(table, kind) ==
    \/ "disabled" \in DOMAIN table /\ kind \in table["disabled"][2]
    \/ kind \in DOMAIN Toggle /\ Toggle[kind] \in DOMAIN table

(* The most specific table that sets a threshold switches its rule on,     *)
(* unless it, or a more specific one, sets the switch.                     *)
FlatThresholdEnables(key, base, over) ==
    LET kind == FlatThresholds[key]
    IN  IF key \in DOMAIN over THEN ~SetsToggle(over, kind)
        ELSE key \in DOMAIN base /\ ~SetsToggle(base, kind) /\ ~SetsToggle(over, kind)

(* The knobs of [smells.rules.<kind>]: the field each one writes.          *)
RuleKnobs == [
    split_variable |-> [min_assigns |-> "split_variable_min_assigns"],
    mutated_parameter |-> [include_attributes |-> "param_attr_mutation"],
    long_function |-> [max_lines |-> "max_function_lines"],
    heavy_nested_function |-> [max_lines |-> "max_nested_function_lines",
        skip_capturing |-> "nested_function_skip_capturing"],
    large_class |-> [max_methods |-> "max_class_methods"],
    long_parameter_list |-> [max_params |-> "max_params"],
    too_many_returns |-> [max_returns |-> "max_returns",
        count_guard_clauses |-> "count_guard_clauses"],
    magic_numbers |-> [ignore |-> "magic_number_ignore",
        ignore_array_indexes |-> "magic_number_ignore_array_indexes",
        ignore_default_values |-> "magic_number_ignore_default_values",
        allow_http_status |-> "magic_number_allow_http_status"],
    high_complexity |-> [max_cyclomatic |-> "max_cyclomatic"],
    high_cognitive_complexity |-> [max_cognitive |-> "max_cognitive"],
    deep_nesting |-> [max_nesting |-> "max_nesting"],
    message_chain |-> [max_depth |-> "max_chain_depth",
        ignore_roots |-> "message_chain_ignore_roots"],
    redundant_wrapper_chain |-> [max_depth |-> "max_wrapper_depth"],
    data_clump |-> [min_fields |-> "data_clump_min_fields",
        min_occurrences |-> "data_clump_min_occurrences"],
    sibling_helper_redefinition |-> [min_similarity |-> "sibling_helper_min_similarity",
        min_lexemes |-> "sibling_helper_min_lexemes"],
    shotgun_surgery_hazard |-> [min_blast |-> "shotgun_blast_threshold"],
    god_module |-> [min_fan |-> "god_module_fan", min_fan_in |-> "god_module_min_fan_in",
        min_fan_out |-> "god_module_min_fan_out", min_lines |-> "god_module_min_lines",
        min_units |-> "god_module_min_units"],
    narrating_code |-> [min_comment_lines |-> "min_comment_lines",
        max_comment_ratio_percent |-> "max_comment_ratio_percent",
        min_function_lines |-> "narrating_min_function_lines"],
    boolean_blindness |-> [max_bool_params |-> "max_bool_params"],
    repeated_iteration |-> [include_tests |-> "repeated_iteration_include_tests"],
    tuple_packing |-> [max_tuple_return |-> "max_tuple_return",
        allow_homogeneous |-> "tuple_allow_homogeneous"],
    implicit_schema |-> [min_keys |-> "implicit_schema_min_keys"],
    literal_membership |-> [skip_external_vocab |-> "literal_membership_skip_external_vocab"],
    weak_test_oracle |-> [assertion_functions |-> "assertion_functions"],
    fixture_echo_assertion |-> [include_mock_only |-> "fixture_echo_include_mock_only"],
    n_plus_one_call |-> [callees |-> "n_plus_one_callees",
        max_constant_bound |-> "n_plus_one_max_constant_bound",
        await_in_loop |-> "n_plus_one_await_in_loop"],
    name_promise_mismatch |-> [read_prefixes |-> "name_promise_read_prefixes",
        write_methods |-> "name_promise_write_methods"],
    dependency_reimplementation |-> [providers |-> "dependency_reimplementation_providers"],
    stub_shipped |-> [markers |-> "stub_markers"]]

(* The field a key of a rule writes; a strictness is one of them.          *)
KnobsOf(kind) ==
    (IF kind \in DOMAIN Strict THEN [strictness |-> Strict[kind]] ELSE << >>)
    @@ (IF kind \in DOMAIN RuleKnobs THEN RuleKnobs[kind] ELSE << >>)

KnobFits(kind, key, value) ==
    /\ Fits(value, FieldType[KnobsOf(kind)[key]])
    /\ key = "strictness" => value[2] \in StrictnessLevels(kind)

(* A rule that sets a knob or an action is switched on, unless it says.    *)
ApplyRule(kind, rule, s) ==
    LET given == DOMAIN rule \cap DOMAIN KnobsOf(kind)
        knobs == [field \in {KnobsOf(kind)[key] : key \in given} |->
                    rule[CHOOSE key \in given : KnobsOf(kind)[key] = field][2]]
        acted == IF "action" \in DOMAIN rule
                 THEN [knobs @@ s EXCEPT !.actions = (kind :> rule.action) @@ @]
                 ELSE knobs @@ s
    IN  IF "enabled" \in DOMAIN rule THEN SetEnabled(acted, kind, rule.enabled)
        ELSE IF given # {} \/ "action" \in DOMAIN rule THEN SetEnabled(acted, kind, TRUE)
        ELSE acted

ApplyRules(rules, s) ==
    FoldSet(LAMBDA kind, acc : ApplyRule(kind, rules[kind], acc), s, DOMAIN rules)

Resolve(language, smells) ==
    LET base == smells.base
        over == smells.over[language]
        Set(table) == [key \in DOMAIN table |-> table[key][2]]
        flat == Set(over) @@ Set(base) @@ DefaultFor(language)
        enabling == {FlatThresholds[key] : key \in
                        {k \in DOMAIN FlatThresholds : FlatThresholdEnables(k, base, over)}}
        switched == FoldSet(LAMBDA kind, acc : SetEnabled(acc, kind, TRUE), flat, enabling)
    IN  ApplyRules(smells.over_rules[language], ApplyRules(smells.rules, switched))

(* A key no table takes, and a value of another type than its field's.     *)
TableFits(table) ==
    \A key \in DOMAIN table : key \in DOMAIN FieldType /\ Fits(table[key], FieldType[key])
RulesFit(rules) ==
    \A kind \in DOMAIN rules : \A key \in DOMAIN rules[kind] \ {"enabled", "action"} :
        key \in DOMAIN KnobsOf(kind) /\ KnobFits(kind, key, rules[kind][key])
SmellsFit(smells) ==
    /\ TableFits(smells.base) /\ RulesFit(smells.rules)
    /\ \A language \in ToSet(Languages) :
        TableFits(smells.over[language]) /\ RulesFit(smells.over_rules[language])

(* Excluded whatever the file says; the rules for tests look there still.  *)
Migrations == {"**/migrations/**", "**/alembic/**/*.py", "**/versions/**/*.py"}

SmellConfig(smells) ==
    [enabled |-> smells.enabled, explicit_exclude |-> smells.exclude,
     exclude |-> smells.exclude \cup Migrations, include_tests |-> smells.include_tests,
     languages |-> [language \in ToSet(Languages) |-> Resolve(language, smells)]]

NoSmells ==
    [enabled |-> TRUE, exclude |-> {}, include_tests |-> FALSE, base |-> << >>,
     rules |-> << >>, over |-> [language \in ToSet(Languages) |-> << >>],
     over_rules |-> [language \in ToSet(Languages) |-> << >>]]

(* A file one table of which does not fit is dropped whole: the scan runs  *)
(* on the defaults and its report has an issue of the stage config.        *)
LoadForScan(file) ==
    IF SmellsFit(file.smells)
    THEN [smells |-> SmellConfig(file.smells), action |-> file.action,
          accept |-> file.accept, issues |-> {}]
    ELSE [smells |-> SmellConfig(NoSmells), action |-> << >>, accept |-> << >>,
          issues |-> {"config"}]
=============================================================================
