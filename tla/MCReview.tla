------------------------------ MODULE MCReview ------------------------------
(***************************************************************************)
(* Four small projects: a Python service, a TypeScript page with its tests,*)
(* a Python package of modules that import each other, and Python forms    *)
(* that share parameters.                                                  *)
(***************************************************************************)
EXTENDS Review

Is(v) == <<"boolean", v>>
Num(v) == <<"integer", v>>
Strs(v) == <<"strings", v>>
Str(v) == <<"string", v>>

Fn(name, first, last, more) ==
    more @@ [PlainFunction EXCEPT !.name = name, !.start_line = first, !.end_line = last]
Class(name, first, last, more) ==
    more @@ [PlainClass EXCEPT !.name = name, !.start_line = first, !.end_line = last]
Call(target, line, more) ==
    more @@ [PlainCall EXCEPT !.target = target, !.method = target, !.line = line, !.offset = line]
Frame(kind, more) == more @@ [PlainFrame EXCEPT !.kind = kind]
Chunk(size, functions, more) ==
    more @@ [size |-> size, functions |-> functions, classes |-> << >>, imports |-> << >>,
             links |-> {}, mocks |-> {}, type_aliases |-> {}, rationales |-> {}]
Facts(language, module, more) ==
    more @@ [language |-> language, module |-> module, name |-> module, directory |-> "app",
             generated_roots |-> {}, private_names |-> {}, var_types |-> << >>,
             attribute_accesses |-> << >>, options |-> {}, test_source |-> FALSE,
             declaration_only |-> FALSE, package_index |-> FALSE, is_generated |-> FALSE,
             tests_layout |-> FALSE, test_support |-> FALSE, declared_packages |-> {},
             development_packages |-> {}]

-----------------------------------------------------------------------------
(* Configuration files                                                     *)

Plain == [smells |-> NoSmells, action |-> << >>, accept |-> << >>]
Base(table, rules) == [NoSmells EXCEPT !.base = table, !.rules = rules]
Over(smells, language, table, rules) ==
    [smells EXCEPT !.over[language] = table, !.over_rules[language] = rules]

Lax == [Plain EXCEPT
    !.smells = Over(Base(
        [max_cognitive |-> Num(30), max_nesting |-> Num(6), max_chain_depth |-> Num(6),
         max_bool_params |-> Num(3), max_tuple_return |-> Num(3), max_wrapper_depth |-> Num(2),
         max_nested_function_lines |-> Num(0), implicit_schema_min_keys |-> Num(0)],
        [data_clump |-> [min_fields |-> Num(5)], loose_typing |-> [strictness |-> Str("low")],
         type_escape_cast |-> [strictness |-> Str("low")],
         swallowed_error_sentinel |-> [strictness |-> Str("low")],
         magic_string_default |-> [strictness |-> Str("low")],
         shotgun_surgery_hazard |-> [min_blast |-> Num(3)]]),
        "python", [param_mutation |-> Is(FALSE)], [literal_membership |-> [enabled |-> FALSE]])]

StrictRules == [
    data_clump |-> [min_fields |-> Num(3), min_occurrences |-> Num(2)],
    loose_typing |-> [strictness |-> Str("high")],
    type_escape_cast |-> [strictness |-> Str("high")],
    swallowed_error_sentinel |-> [strictness |-> Str("high")],
    magic_string_default |-> [strictness |-> Str("high")],
    nested_ternary |-> [strictness |-> Str("high")],
    mocked_subject |-> [strictness |-> Str("high")],
    name_promise_mismatch |-> [strictness |-> Str("high")],
    magic_numbers |-> [allow_http_status |-> Is(FALSE), ignore_array_indexes |-> Is(FALSE)],
    mutated_parameter |-> [include_attributes |-> Is(TRUE)],
    fixture_echo_assertion |-> [include_mock_only |-> Is(TRUE)],
    repeated_iteration |-> [include_tests |-> Is(TRUE)],
    weak_test_oracle |-> [assertion_functions |-> Strs({"assert"})],
    tuple_packing |-> [allow_homogeneous |-> Is(FALSE)],
    n_plus_one_call |-> [await_in_loop |-> Is(TRUE), max_constant_bound |-> Num(2)],
    sibling_helper_redefinition |-> [min_similarity |-> Num(60)],
    heavy_nested_function |-> [max_lines |-> Num(2)],
    narrating_code |-> [min_comment_lines |-> Num(1), min_function_lines |-> Num(2),
                        max_comment_ratio_percent |-> Num(10)],
    shotgun_surgery_hazard |-> [min_blast |-> Num(2)],
    god_module |-> [min_fan |-> Num(2), min_fan_in |-> Num(1), min_fan_out |-> Num(1),
                    min_units |-> Num(2), min_lines |-> Num(4)],
    implicit_schema |-> [min_keys |-> Num(2)],
    defensive_fallback |-> [enabled |-> TRUE],
    redundant_validation |-> [enabled |-> TRUE]]
StrictBase == [
    max_cyclomatic |-> Num(2), max_cognitive |-> Num(3), max_nesting |-> Num(1),
    max_function_lines |-> Num(5), max_params |-> Num(3), max_returns |-> Num(1),
    max_class_methods |-> Num(2), max_chain_depth |-> Num(2), max_bool_params |-> Num(0),
    max_tuple_return |-> Num(1), disabled |-> Strs({}), param_reassignment |-> Is(TRUE),
    split_variable |-> Is(TRUE), magic_numbers |-> Is(TRUE)]
StrictFile == [Plain EXCEPT !.smells = Base(StrictBase, StrictRules)]

(* One language only, with a policy and accepted findings.                 *)
Mixed == [Plain EXCEPT
    !.smells = Over(Base([max_params |-> Num(3)], << >>), "python",
        [long_parameter_list |-> Is(FALSE), shotgun_blast_threshold |-> Num(2)],
        [nested_loop |-> [action |-> "must_fix"], split_variable |-> [min_assigns |-> Num(1)]]),
    !.action = [data_clump |-> "must_fix", loose_typing |-> "info"],
    !.accept = [swallowed_error_sentinel |-> {"load"}]]

Misfit == [Plain EXCEPT !.smells = Base([max_nesting |-> Str("high")], << >>)]

-----------------------------------------------------------------------------
(* A service in Python                                                     *)

Fields == <<"customer", "address", "coupon", "order">>
Orders == <<
    << Chunk(64, <<
        Fn("place", 1, 53, [
            param_names |-> Fields \o <<"tax", "note">>, branch_count |-> 11, cognitive |-> 16,
            max_nesting |-> 5, return_count |-> 6, guard_returns |-> 1, comment_lines |-> 8,
            narration_comment_lines |-> 6, first_noisy_comment_line |-> 2,
            local_reassigns |-> [total |-> << << <<1, 1>> >>, << <<1, 2>>, <<2, 1>> >>,
                                             << <<1, 2>>, <<2, 2>> >>, << >> >>,
                                 note |-> << << >> >>],
            chain_hits |-> {[depth |-> 5, root |-> "order", line |-> 4]},
            magic_numbers |-> {[text |-> "42", context |-> "other", line |-> 7],
                               [text |-> "404", context |-> "http_status", line |-> 9]},
            literal_memberships |-> {[operand |-> "note", external |-> FALSE, markup |-> FALSE,
                                      line |-> 12]},
            mutated_names |-> {"order"}, mutation_lines |-> {[name |-> "order", line |-> 14]},
            broad_handlers |-> 1, empty_fallbacks |-> 2, repeated_guards |-> 1,
            collapsible_nested_if_lines |-> {20}]),
        Fn("ship", 55, 58, [param_names |-> Fields]),
        Fn("refund", 60, 63, [param_names |-> Fields \o <<"tax">>, max_nesting |-> 2])>>, << >>),
       Chunk(20, <<
        Fn("place", 1, 9, [
            param_names |-> <<"order", "flags">>, str_keys |-> [order |-> {"id", "total"}],
            schema_calls |-> {[target |-> "ship", arguments |-> <<"order">>]},
            param_types |-> [order |-> {"dict"}], return_type |-> {"tuple"}, tuple_arity |-> 3,
            homogeneous_tuple_return |-> TRUE]),
        Fn("ship", 11, 14, [param_names |-> <<"order">>, param_types |-> [order |-> {"dict"}],
            str_keys |-> [order |-> {"street", "city"}]]),
        Fn("load", 16, 19, [
            sentinel_handlers |-> {
                [end |-> "empty_value", guarded |-> "other", frame |-> 0, comment |-> FALSE,
                 line |-> 2],
                [end |-> "log_only", guarded |-> "io", frame |-> 0, comment |-> TRUE, line |-> 3]},
            stub |-> {[shape |-> "throws", words |-> {"todo"}]}])>>, << >>)>>,
    << Chunk(30, <<
        Fn("count", 3, 9, [is_method |-> TRUE, param_names |-> <<"self", "book">>,
            receiver_access |-> [self |-> 1, book |-> 4], param_types |-> [book |-> {"nominal"}]]),
        Fn("inner", 11, 15, [is_nested |-> TRUE, parent |-> "count"])>>,
        [classes |-> << Class("Book", 1, 28, [
            methods |-> {"count", "sum", "save", "load"},
            method_attr_use |-> [count |-> {"lines"}, sum |-> {"lines"}, save |-> {"db"},
                                 load |-> {"cache"}],
            method_calls |-> [save |-> {"load"}]]) >>]),
       Chunk(30, << >>,
        [classes |-> << Class("Book", 1, 28, [bases |-> {"Store"},
            methods |-> {"count", "sum", "save"}, overrides_to_stub |-> {"sum", "save"},
            properties |-> {[type |-> {"escape"}, line |-> 2]},
            method_attr_use |-> [count |-> {"a"}, sum |-> {"b"}, save |-> {"c"}],
            method_calls |-> << >>]) >>])>>>>

Service == [
    paths |-> <<"app/orders.py">>,
    facts |-> ("app/orders.py" :> Facts("python", "orders", << >>)),
    chunks |-> ("app/orders.py" :> Orders),
    settings |-> <<Plain, Lax, StrictFile, Mixed, Misfit>>,
    patterns |-> {"data_clump", "place"}]

-----------------------------------------------------------------------------
(* A page in TypeScript and its tests                                      *)

Loop(more) == more @@ [bounded |-> FALSE, frame |-> 1, root |-> "", line |-> 3]
Items == Call("map", 1, [base |-> "items", root |-> "items", member |-> TRUE, region |-> 1])
Cart == <<
    << Chunk(24, <<
        Fn("getTotal", 1, 10, [
            says |-> {"get"}, param_names |-> <<"items", "dry", "flat">>,
            param_types |-> [items |-> {"escape"}, dry |-> {"bool"}, flat |-> {"bool"}],
            return_type |-> {"primitive"},
            nested_ternaries |-> {[depth |-> 0, line |-> 2], [depth |-> 1, line |-> 4]},
            string_fallbacks |-> {[sink |-> "stored", looks |-> {"short"}, line |-> 3],
                                  [sink |-> "rendered", looks |-> {"wordy"}, line |-> 5]},
            type_escapes |-> {[kind |-> "any_cast", subject |-> "x", line |-> 6],
                              [kind |-> "double_cast", subject |-> "x", line |-> 7],
                              [kind |-> "non_null_call", subject |-> "x", line |-> 8]},
            calls |-> {Call("set", 5, [member |-> TRUE, root |-> "store", base |-> "store"])},
            state_writes |-> {[kind |-> "lazy_init", root |-> "memo", target |-> "memo.x",
                               names_cache |-> TRUE, line |-> 6]}]),
        Fn("fill", 12, 22, [
            param_names |-> <<"rows">>, forwards_to |-> "",
            loop_frames |-> <<Frame("for_of", [bindings |-> {"row"}, subject |-> {"rows"}]),
                              Frame("for_of", [parent |-> 1, bound |-> "count", count |-> 4])>>,
            loops |-> {Loop(<< >>)}, nested_loops |-> {Loop([frame |-> 2])},
            sorts_in_loops |-> {Loop([root |-> "all"])},
            loop_calls |-> {Call("fetchRow", 4, [frame |-> 1, awaited |-> TRUE, member |-> TRUE,
                                                 root |-> "api"]),
                            Call("getTotal", 5, [frame |-> 2])},
            iteration_calls |-> {Items, [Items EXCEPT !.offset = 4, !.line = 4],
                                 [Items EXCEPT !.offset = 6, !.line = 6, !.pass = "aggregate"]},
            calls |-> {Call("push", 8, [base |-> "items", mutating |-> TRUE])}])>>, << >>),
       Chunk(12, <<
        Fn("getTotal", 1, 5, [says |-> {"get"}, forwards_to |-> "sumAll",
            param_names |-> <<"items">>, param_types |-> [items |-> {"erasing"}]]),
        Fn("sumAll", 7, 11, [param_names |-> <<"items">>,
            loops |-> {Loop(<< >>)}, loop_frames |-> <<Frame("for_of", << >>)>>])>>, << >>)>>,
    << Chunk(6, <<Fn("total", 1, 4, [forwards_to |-> "getTotal"])>>,
        [rationales |-> {4}, type_aliases |->
            {[name |-> "Amount", target |-> {"primitive"}, line |-> 5]}])>>>>

Test(name, first, more) == Fn(name, first, first + 4, [is_test_case |-> TRUE] @@ more)
CartTests == <<
    << Chunk(14, <<
        Test("adds", 1, [helper_calls |-> {"checkCart"},
            calls |-> {Call("fill", 1, [root |-> "fill"]), Call("total", 2, [root |-> "total"])}]
            @@ << >>),
        Test("echoes", 7, [test_checks |-> 1, echo_assertions |-> {2},
            mock_call_checks |-> <<"api">>, programmed_mocks |-> {"api"}])>>,
        [imports |-> << [bindings |-> <<"total", "fill">>, module |-> "cart",
                         symbols |-> <<"total", "fill">>, submodules |-> <<"", "">>,
                         inside |-> {}] >>])>>,
    << Chunk(14, <<
        Fn("checkCart", 1, 4, [helper_calls |-> {"checkRows"}]),
        Fn("checkRows", 6, 9, [helper_calls |-> {"checkRow"}]),
        Fn("checkRow", 11, 13, [test_checks |-> 1])>>, << >>),
       Chunk(10, <<
        Fn("checkCart", 1, 4, [helper_calls |-> {"checkRows"}]),
        Fn("checkRows", 6, 9, [helper_calls |-> {"checkCart", "expectRow"}])>>, << >>),
       Chunk(10, <<
        Test("removes", 1, [helper_calls |-> {"checkCart"}, 
            calls |-> {Call("total", 1, [root |-> "total"])}]),
        Fn("checkCart", 7, 9, [helper_calls |-> {"checkCart"}])>>, << >>)>>,
    << Chunk(3, << >>, [mocks |->
        {[replaces |-> TRUE, module |-> "cart", member |-> "", binding |-> "",
          named_like_test |-> TRUE, line |-> 1],
         [replaces |-> TRUE, module |-> "api", member |-> "", binding |-> "fill",
          named_like_test |-> FALSE, line |-> 2]}])>>>>

Page == [
    paths |-> <<"web/cart.ts", "web/cart.test.ts">>,
    facts |-> ("web/cart.ts" :> Facts("typescript", "cart", << >>))
        @@ ("web/cart.test.ts" :> Facts("typescript", "cart.test",
                [test_source |-> TRUE, tests_layout |-> TRUE])),
    chunks |-> ("web/cart.ts" :> Cart) @@ ("web/cart.test.ts" :> CartTests),
    settings |-> <<Plain, Lax, StrictFile,
        [StrictFile EXCEPT !.smells = [@ EXCEPT !.include_tests = TRUE]],
        [StrictFile EXCEPT !.smells = [@ EXCEPT !.exclude = {"web/**"}]]>>,
    patterns |-> {"weak_test_oracle", "getTotal"}]

-----------------------------------------------------------------------------
(* A package of modules                                                    *)

To(module, symbols) == [to |-> module, runtime |-> TRUE, decl |-> FALSE, symbols |-> symbols]
Lexemes == <<"a", "b", "c", "d", "e", "f", "g", "h", "i", "j">>
Slug(first, tail) ==
    Fn("slug", first, first + 3, [param_names |-> <<"text">>, lexemes |-> SubSeq(Lexemes, 1, 8) \o tail])
Shape(name, first, more) == Class(name, first, first + 1, more)
Core == << << Chunk(10, <<Slug(1, <<"i", "j">>), Fn("merge", 6, 9, << >>)>>,
                    [links |-> {To("base", {"*"})},
                     classes |-> <<Shape("Node", 4, [is_abstract |-> TRUE, methods |-> {"area"}]),
                        Shape("Leaf", 6, [bases |-> {"Node"}, methods |-> {"area", "cut", "dry"}]),
                        Shape("Fork", 8, [bases |-> {"Node"}, methods |-> {"split", "join"}])>>]),
              Chunk(6, <<Slug(1, <<"x", "y", "z">>)>>, << >>) >> >>
Api == << << Chunk(6, <<Slug(1, <<"i", "k">>)>>, [links |-> {To("core", {"merge"})}]),
             Chunk(6, <<Slug(1, <<"i", "k">>)>>, [links |-> {To("core", {"slug"})}]) >> >>
Cli == << << Chunk(6, <<Slug(1, <<"x", "y">>), Fn("left_pad", 4, 6, [param_names |-> <<"s", "n">>])>>,
                   [links |-> {To("core", {"merge"})}]),
             Chunk(3, << >>, << >>) >> >>
Package == [
    paths |-> <<"app/core.py", "app/api.py", "lib/cli.py", "app/migrations/base.py">>,
    facts |-> ("app/core.py" :> Facts("python", "core",
                [var_types |-> [node |-> {"Node"}],
                 attribute_accesses |-> [node |-> {[name |-> "_x", private |-> TRUE]}]]))
        @@ ("app/api.py" :> Facts("python", "api", << >>))
        @@ ("lib/cli.py" :> Facts("python", "cli", [directory |-> "lib", declared_packages |-> {"padder"}]))
        @@ ("app/migrations/base.py" :> Facts("python", "base", << >>)),
    chunks |-> ("app/core.py" :> Core) @@ ("app/api.py" :> Api) @@ ("lib/cli.py" :> Cli)
        @@ ("app/migrations/base.py" :> << << Chunk(6, <<Slug(1, <<"i", "j">>)>>,
                [classes |-> <<Class("Node", 1, 6, << >>)>>]) >> >>),
    settings |-> <<Plain, Lax, StrictFile, Mixed>>,
    patterns |-> {"sibling_helper_redefinition", "app/core.py"}]

(* Functions of which any names may recur, and a variable assigned on      *)
(* paths that part and meet again.                                         *)
Form(name, params, sites) ==
    Chunk(5, <<Fn(name, 1, 4, [param_names |-> params, local_reassigns |-> [best |-> sites]])>>, << >>)
Then(c) == <<c, 1>>
Else(c) == <<c, 2>>
Forms == <<
    << Form("draw", <<"self", "x", "y", "w", "h">>, << <<Then(1)>>, <<Else(1)>> >>),
       Form("draw", <<"x", "y", "w">>, << <<Then(1)>>, <<Else(1), Then(2)>>, <<Else(1), Else(2)>>, <<Else(1)>> >>) >>,
    << Form("move", <<"x", "y", "w", "h", "k">>, << << >>, << >> >>),
       Form("move", <<"y", "w", "h">>, << <<Then(1), Then(2)>>, <<Then(1), Then(3)>>, <<Else(1)>> >>) >>,
    << Form("crop", <<"w", "h", "k">>, << <<Then(1)>>, <<Then(2)>>, <<Else(2)>> >>),
       Form("crop", <<"h", "k", "x", "y">>, << << >> >>),
       Form("crop", << >>, << >>) >>,
    << Form("fit", <<"k", "x", "y">>, << <<Then(1)>> >>),
       Form("draw", <<"k", "y", "w", "h">>, << <<Then(1)>>, << >> >>) >> >>
Shapes == [
    paths |-> <<"app/shapes.py">>,
    facts |-> ("app/shapes.py" :> Facts("python", "shapes", << >>)),
    chunks |-> ("app/shapes.py" :> Forms),
    settings |-> <<Plain, StrictFile,
        [StrictFile EXCEPT !.smells = Over(@, "python", << >>,
            [data_clump |-> [min_fields |-> Num(2)], split_variable |-> [min_assigns |-> Num(1)]])],
        [Plain EXCEPT !.accept = [smells |-> {"app/shapes.py"}]]>>,
    patterns |-> {"x", "draw"}]

MCProjects == <<Service, Page, Package, Shapes>>

-----------------------------------------------------------------------------
MCUtilities == [language \in ToSet(Languages) |->
    IF language = "python"
    THEN {[names |-> {"left_pad", "pad_left"}, arities |-> {2}, max_lines |-> 6,
           providers |-> {[package |-> "padder", module |-> "padder"]}]}
    ELSE {}]
MCFamily == [language \in ToSet(Languages) |->
    IF language \in {"javascript", "typescript"} THEN "ecmascript" ELSE language]

AllNames == <<
    "address", "all", "book", "coupon", "customer", "dry", "flags", "flat", "h", "items", "k", "n",
    "node", "note", "order", "rows", "s", "self", "tax", "text", "w", "x", "y",
    "app/api.py", "app/core.py", "app/migrations/base.py", "app/orders.py", "app/shapes.py", "lib/cli.py",
    "web/cart.test.ts", "web/cart.ts">>
MCNameOrder == [name \in ToSet(AllNames) |-> CHOOSE i \in DOMAIN AllNames : AllNames[i] = name]
MCGlobMatches == {
    <<"app/migrations/base.py", "**/migrations/**">>, <<"web/cart.ts", "web/**">>,
    <<"web/cart.test.ts", "web/**">>, <<"app/orders.py", "app/**">>, <<"app/core.py", "app/**">>,
    <<"app/api.py", "app/**">>, <<"app/shapes.py", "app/**">>, <<"web/cart.test.ts", "**/*.test.ts">>,
    <<"expectRow", "expect">>}

Whole == [diff |-> FALSE, changed |-> {}, output_glob |-> {}, pillars |-> {}, all |-> FALSE,
          max |-> 1, noisy |-> {}, fail_on |-> "warning", fail_on_new |-> ""]
MCOptions == {
    Whole,
    [Whole EXCEPT !.fail_on = "must_fix", !.noisy = {"data_clump", "nested_loop"}],
    [Whole EXCEPT !.fail_on = "advisory", !.output_glob =
        {[glob |-> "app/**", excludes |-> FALSE], [glob |-> "**/*.test.ts", excludes |-> TRUE]}],
    [Whole EXCEPT !.diff = TRUE, !.fail_on = "", !.fail_on_new = "warning",
        !.changed = {<<"app/orders.py", 1>>, <<"app/shapes.py", 2>>, <<"web/cart.test.ts", 2>>, <<"app/core.py", 1>>}],
    [Whole EXCEPT !.fail_on = "warning", !.pillars = {"smells"}],
    [Whole EXCEPT !.pillars = {"dead_code"}]}
=============================================================================
