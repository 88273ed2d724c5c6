------------------------------- MODULE Review -------------------------------
(***************************************************************************)
(* A project whose developer writes and moves functions, configures the    *)
(* rules and marks findings, and what a scan then says of its smells: the  *)
(* report of the pipeline, narrowed, gated and cut short by the command    *)
(* line.                                                                   *)
(*                                                                         *)
(* A file is a sequence of chunks; each has alternatives, of which one is  *)
(* the text at a time, and chunks may change places.                       *)
(***************************************************************************)
EXTENDS SharedSmells

CONSTANTS
    Projects,  \* a sequence of [paths, facts, chunks, settings, patterns]
    Options,   \* command lines
    MaxSteps   \* bound: edits, configurations and verdicts

VARIABLES
    project,    \* its position in Projects
    work,       \* the chunks of each path, in order: <<chunk, alternative>>
    settings,   \* the configuration file, by its position in the project
    verdicts,   \* triage.json: fingerprints
    seen,       \* the last scan: what it read, what the rules found, its report
    steps

vars == <<project, work, settings, verdicts, seen, steps>>

(***************************************************************************)
(* The project as parsed                                                   *)
(***************************************************************************)
Shift(unit, n) == [unit EXCEPT !.start_line = @ + n, !.end_line = @ + n]
ShiftLine(fact, n) == [fact EXCEPT !.line = @ + n]

Project == Projects[project]
Parts(texts, path) ==
    LET Text(part) == Project.chunks[path][part[1]][part[2]]
    IN  << >> \o [i \in DOMAIN texts[path] |-> Text(texts[path][i])]
Start(parts, i) == FoldSet(LAMBDA j, sum : sum + parts[j].size, 0, 1 .. i - 1)

File(texts, path) ==
    LET parts == Parts(texts, path)
        Units(Part(_)) ==
            FlattenSeq([i \in DOMAIN parts |->
                << >> \o [k \in DOMAIN Part(parts[i]) |->
                    Shift(Part(parts[i])[k], Start(parts, i))]])
        Lines(Part(_)) ==
            UNION {{ShiftLine(x, Start(parts, i)) : x \in Part(parts[i])} : i \in DOMAIN parts}
        functions == Units(LAMBDA c : c.functions)
        classes == Units(LAMBDA c : c.classes)
    IN  [path |-> path, functions |-> functions, classes |-> classes,
         type_aliases |-> Lines(LAMBDA c : c.type_aliases),
         mocks |-> Lines(LAMBDA c : c.mocks),
         rationales |-> UNION {{line + Start(parts, i) : line \in parts[i].rationales} :
                                i \in DOMAIN parts},
         imports |-> FlattenSeq([i \in DOMAIN parts |-> parts[i].imports]),
         links |-> UNION {parts[i].links : i \in DOMAIN parts},
         lines |-> Start(parts, Len(parts) + 1),
         units |-> Cardinality({f \in ToSet(functions) : f.declared}) + Len(classes)]
        @@ Project.facts[path]

Files(texts) == << >> \o [i \in DOMAIN Project.paths |-> File(texts, Project.paths[i])]

Config(n) == LoadForScan(Project.settings[n])

(***************************************************************************)
(* The scan: the smells, acted on by the policy, less what is suppressed   *)
(***************************************************************************)
ByPolicy(findings, policy) ==
    {IF x.action = FromSeverity[x.severity] /\ x.kind \in DOMAIN policy
     THEN [x EXCEPT !.action = policy[x.kind]] ELSE x : x \in findings}

\* Variant: a finding is told from others by its line, too.
FingerprintAtLine(x) == [kind |-> x.kind, file |-> x.file, symbol |-> x.symbol, line |-> x.line]

Fingerprint(x) == [kind |-> x.kind, file |-> x.file, symbol |-> x.symbol]

(* A pattern is part of a label: the kind, the file or a name of it.       *)
Matches(pattern, x) == pattern \in {x.kind, x.file} \cup x.symbol

Hidden(x, accept) ==
    \/ Fingerprint(x) \in verdicts
    \/ \E key \in {"smells", x.kind} \cap DOMAIN accept :
        \E pattern \in accept[key] : Matches(pattern, x)

Report(findings, accept) == {x \in findings : ~Hidden(x, accept)}

(***************************************************************************)
(* The command line.  The report of a change has what touches its lines,   *)
(* the whole of the chunks in changed; what stands at line 0 is in none.   *)
(***************************************************************************)
Spans(x) == IF x.lines = {} THEN {<<x.line, Most({x.line, x.end})>>}
            ELSE {<<line, line>> : line \in x.lines}

ChangedLines(changed) ==
    UNION {LET parts == Parts(seen.work, path)
           IN  {<<path, line>> : line \in
                    UNION {Start(parts, i) + 1 .. Start(parts, i + 1) :
                            i \in {j \in DOMAIN parts : <<path, seen.work[path][j][1]>> \in changed}}} :
           path \in ToSet(Project.paths)}

Touched(x, lines) ==
    \E span \in Spans(x) : span[1] > 0 /\ \E l \in span[1] .. span[2] : <<x.file, l>> \in lines

MatchesPath(file, globs) ==
    LET Of1(excludes) == {g.glob : g \in {h \in globs : h.excludes = excludes}}
    IN  /\ Of1(FALSE) = {} \/ MatchesAny(file, Of1(FALSE))
        /\ ~MatchesAny(file, Of1(TRUE))

(* diff, output globs, pillars.                                            *)
Selected(options) ==
    {x \in seen.report :
        /\ options.diff => Touched(x, ChangedLines(options.changed))
        /\ MatchesPath(x.file, options.output_glob)
        /\ options.pillars = {} \/ "smells" \in options.pillars}

SeverityRank == [critical |-> 1, warning |-> 2, info |-> 3]

(* Trusted detectors first, then by action, severity and metric; equals    *)
(* stand in any order.                                                     *)
Ranks(x, noisy) ==
    <<IF x.kind \in noisy THEN 1 ELSE 0, Level[x.action], SeverityRank[x.severity], 0 - x.metric>>
Smaller(a, b) ==
    \E i \in DOMAIN a : a[i] < b[i] /\ \A j \in 1 .. i - 1 : a[j] = b[j]
Ranked(report, noisy) ==
    LET Behind(order, x) == {i \in DOMAIN order : ~Smaller(Ranks(x, noisy), Ranks(order[i], noisy))}
    IN  FoldSet(LAMBDA x, order : InsertAt(order, Cardinality(Behind(order, x)) + 1, x),
                << >>, report)

\* What the command line makes of an option: a number, and levels or none.
OptionsTyped ==
    \A options \in Options :
        /\ options.max \in Nat
        /\ {options.fail_on, options.fail_on_new} \subseteq {""} \cup DOMAIN Level

\* Variant: each kind is cut from the wrong end.
LastOfKind(order, kind, max) ==
    LET at == {i \in DOMAIN order : order[i].kind = kind}
    IN  {order[i] : i \in {j \in at : Cardinality({k \in at : k >= j}) <= max}}

FirstOfKind(order, kind, max) ==
    LET at == {i \in DOMAIN order : order[i].kind = kind}
    IN  {order[i] : i \in {j \in at : Cardinality({k \in at : k <= j}) <= max}}

(* `shape` and `limit_smells_by_kind`: of each kind the first max; 0 is no *)
(* limit.                                                                  *)
Shown(selected, options) ==
    IF options.all \/ options.max = 0 THEN selected
    ELSE LET order == Ranked(selected, options.noisy)
         IN  UNION {FirstOfKind(order, kind, options.max) : kind \in {x.kind : x \in selected}}

(* `fail_on` is for whole scans and `fail_on_new` makes a diff; "" is none.*)
MeetsLevel(report, level) ==
    level # "" /\ \E x \in report : Level[x.action] <= Level[level]
GateFails(selected, options) ==
    \/ MeetsLevel(selected, options.fail_on)
    \/ options.diff /\ MeetsLevel(selected, options.fail_on_new)

-----------------------------------------------------------------------------
TypeOK ==
    /\ project \in DOMAIN Projects
    /\ DOMAIN work = ToSet(Project.paths)
    /\ \A path \in DOMAIN work : \A i \in DOMAIN work[path] :
        work[path][i][2] \in DOMAIN Project.chunks[path][work[path][i][1]]
    /\ settings \in DOMAIN Project.settings
    /\ \A x \in seen.found : x.action \in DOMAIN Level /\ x.file \in DOMAIN work
    /\ seen.report \subseteq seen.found
    /\ steps \in 0 .. MaxSteps

Init ==
    /\ project \in DOMAIN Projects
    /\ work = [path \in ToSet(Project.paths) |->
                << >> \o [i \in DOMAIN Project.chunks[path] |-> <<i, 1>>]]
    /\ settings = 1 /\ verdicts = {} /\ steps = 0
    /\ seen = [work |-> << >>, settings |-> 0, verdicts |-> {}, found |-> {}, report |-> {}]

Step == steps < MaxSteps /\ steps' = steps + 1 /\ UNCHANGED <<project, seen>>

Write(path, i, alternative) ==
    /\ Step
    /\ alternative # work[path][i][2]
    /\ work' = [work EXCEPT ![path][i][2] = alternative]
    /\ UNCHANGED <<settings, verdicts>>

Move(path, i) ==
    /\ Step
    /\ work' = [work EXCEPT ![path][i] = work[path][i + 1], ![path][i + 1] = work[path][i]]
    /\ UNCHANGED <<settings, verdicts>>

Configure(n) ==
    /\ Step
    /\ settings' = n /\ n # settings
    /\ UNCHANGED <<work, verdicts>>

(* `triage::mark`: the findings of the last report the pattern matches get *)
(* a verdict, or lose the one they have.                                   *)
Mark(pattern, clear) ==
    LET matches == {Fingerprint(x) : x \in {y \in seen.report : Matches(pattern, y)}}
    IN  /\ Step
        /\ matches # {}
        /\ verdicts' = IF clear THEN verdicts \ matches ELSE verdicts \cup matches
        /\ UNCHANGED <<work, settings>>

Scan ==
    /\ <<work, settings, verdicts>> # <<seen.work, seen.settings, seen.verdicts>>
    /\ \E files \in {Files(work)}, config \in {Config(settings)} :
        \E found \in {ByPolicy(Detect(files, config.smells), config.action)} :
            seen' = [work |-> work, settings |-> settings, verdicts |-> verdicts,
                     found |-> found, report |-> Report(found, config.accept)]
    /\ UNCHANGED <<project, work, settings, verdicts, steps>>

Next ==
    \/ \E path \in DOMAIN work : \E i \in DOMAIN work[path] :
        \E alternative \in DOMAIN Project.chunks[path][work[path][i][1]] :
            Write(path, i, alternative)
    \/ \E path \in DOMAIN work : \E i \in 1 .. Len(work[path]) - 1 : Move(path, i)
    \/ \E n \in DOMAIN Project.settings : Configure(n)
    \/ \E pattern \in Project.patterns, clear \in BOOLEAN : Mark(pattern, clear)
    \/ Scan

Spec == Init /\ [][Next]_vars

Scanned == seen.settings # 0

-----------------------------------------------------------------------------
(* A finding that does not hang on the order of a file: mocked_subject is  *)
(* about the first name a test calls the mocked module by, and a helper    *)
(* whose keys are handed on is the last one of its name.                   *)
OrderFree(x, texts) ==
    /\ x.kind # "mocked_subject"
    /\ x.kind = "implicit_schema" =>
        \A f, g \in ToSet(File(texts, x.file).functions) : f.name = g.name => f = g

(* Between one scan and the next only the order of chunks changed.         *)
Moved(before, after) ==
    /\ before.settings = after.settings /\ before.verdicts = after.verdicts
    /\ \A path \in DOMAIN after.work : ToSet(before.work[path]) = ToSet(after.work[path])
Prints(scan) == {Fingerprint(x) : x \in {y \in scan.report : OrderFree(y, scan.work)}}

(* Code that only changes places in its file leaves what is reported as it *)
(* was: no finding comes or goes, what was marked stays hidden and nothing *)
(* else is (fingerprint.rs 1-4; the rules gather, merge and follow calls   *)
(* by position and name).                                                  *)
MovedKeepsAll ==
    [][Scanned /\ Moved(seen, seen') => Prints(seen) = Prints(seen')]_seen

-----------------------------------------------------------------------------
(* The fields by the direction in which a rule asks for more; zero turns   *)
(* those of the second line off.                                           *)
Fewer == DOMAIN Integers0 \ {"sibling_helper_min_lexemes"}
ZeroIsOff == {"implicit_schema_min_keys", "max_nested_function_lines"}
TrueIsStrict == {"count_guard_clauses", "repeated_iteration_include_tests",
    "param_attr_mutation", "fixture_echo_include_mock_only", "n_plus_one_await_in_loop"}
FalseIsStrict == {"magic_number_ignore_array_indexes", "magic_number_ignore_default_values",
    "magic_number_allow_http_status", "tuple_allow_homogeneous",
    "literal_membership_skip_external_vocab", "nested_function_skip_capturing"}
Exempting == {"message_chain_ignore_roots", "magic_number_ignore", "assertion_functions"}
Accusing == {"n_plus_one_callees", "stub_markers", "name_promise_write_methods"}
Kept == {"sibling_helper_min_lexemes", "name_promise_read_prefixes",
    "dependency_reimplementation_providers"}
SmellKinds == {
    "high_complexity", "high_cognitive_complexity", "heavy_nested_function", "narrating_code",
    "long_function", "large_class", "magic_numbers", "message_chain", "nested_ternary",
    "split_variable", "deep_nesting", "long_parameter_list", "too_many_returns",
    "unnecessary_nested_if", "divergent_change", "refused_bequest", "feature_envy",
    "inappropriate_intimacy", "mutated_parameter", "reassigned_parameter",
    "literal_membership", "implicit_schema", "stub_shipped", "swallowed_error_sentinel",
    "loose_typing", "boolean_blindness", "tuple_packing", "magic_string_default",
    "type_escape_cast", "name_promise_mismatch", "redundant_wrapper_chain",
    "weak_test_oracle", "fixture_echo_assertion", "defensive_fallback",
    "redundant_validation", "divergent_abstraction", "nested_loop", "sort_in_loop",
    "repeated_iteration", "n_plus_one_call", "mocked_subject", "data_clump",
    "sibling_helper_redefinition", "dependency_reimplementation",
    "shotgun_surgery_hazard", "god_module"}

AsStrict(s, t) ==
    /\ \A field \in Fewer \ ZeroIsOff : t[field] <= s[field]
    /\ \A field \in ZeroIsOff : s[field] > 0 => t[field] \in 1 .. s[field]
    /\ \A field \in TrueIsStrict : s[field] => t[field]
    /\ \A field \in FalseIsStrict : t[field] => s[field]
    /\ \A field \in DOMAIN Strictnesses0 :
        LET Rank == [low |-> 1, medium |-> 2, high |-> 3] IN Rank[s[field]] <= Rank[t[field]]
    /\ \A field \in Exempting : t[field] \subseteq s[field]
    /\ \A field \in Accusing : s[field] \subseteq t[field]
    /\ \A field \in Kept : s[field] = t[field]
    /\ \A kind \in SmellKinds : Enabled(s, kind) => Enabled(t, kind)

SameScope(c, d) ==
    \A field \in {"enabled", "exclude", "explicit_exclude", "include_tests"} : c[field] = d[field]

(* What the rules merge or rank may merge further or rank higher.          *)
Covers(y, x) ==
    CASE x.kind = "data_clump" -> y.kind = x.kind /\ y.file = x.file /\ x.symbol \subseteq y.symbol
      [] x.kind = "sibling_helper_redefinition" -> y.kind = x.kind /\ y.symbol = x.symbol
      [] x.kind = "god_module" ->
            y.kind \in {x.kind, "shotgun_surgery_hazard"} /\ y.file = x.file
      [] OTHER -> y.kind = x.kind /\ y.file = x.file /\ y.symbol = x.symbol

(* Settings that ask for at least as much in every language, whichever     *)
(* table or rule says so, lose no finding: each is still covered by one    *)
(* (the merging of tables, rules and switches in config/smells, and every  *)
(* threshold, exemption and strictness of the detectors).                  *)
StricterCoversMore == [][
    Scanned =>
    \A s \in {Config(seen.settings).smells}, t \in {Config(seen'.settings).smells} :
        /\ seen.work = seen'.work /\ SameScope(s, t)
        /\ \A language \in ToSet(Languages) : AsStrict(s.languages[language], t.languages[language])
        => \A x \in seen.found : \E y \in seen'.found : Covers(y, x)]_seen

-----------------------------------------------------------------------------
(* What the rules count, said without the way they count it.               *)

(* The helpers that check: in every set that has those which check         *)
(* themselves and, with a helper, those which call it.                     *)
ReachesCheck(file, s, name) ==
    LET helpers == {g \in ToSet(file.functions) : ~g.is_test_case /\ g.name # ""}
    IN  \A names \in SUBSET {g.name : g \in helpers} :
            (\A g \in helpers : g.test_checks > 0 \/ CallsCheck(g, names, s) => g.name \in names)
            => name \in names

OraclesExact(file, s) ==
    \A f \in {g \in ToSet(file.functions) :
                g.is_test_case /\ ~g.test_has_nested_function /\ g.end_line > g.start_line} :
        (\E x \in seen.found : x.kind = "weak_test_oracle" /\ x.file = file.path
                            /\ x.line = f.start_line)
        <=> /\ f.test_checks = 0
            /\ \A name \in f.helper_calls :
                ~MatchesAny(name, s.assertion_functions) /\ ~ReachesCheck(file, s, name)

(* Two assignments are on one path unless they stand in two arms of one    *)
(* conditional.                                                            *)
Together(p, q) == \A i \in DOMAIN p, j \in DOMAIN q : p[i][1] = q[j][1] => p[i] = q[j]
MostTogether(paths) ==
    Most({Cardinality(Q) : Q \in {P \in SUBSET DOMAIN paths :
                                    \A i, j \in P : Together(paths[i], paths[j])}})
SplitsExact(file, s) ==
    \A f \in ToSet(file.functions) : \A name \in DOMAIN f.local_reassigns :
        LET most == MostTogether(f.local_reassigns[name])
        IN  most >= Most({2, s.split_variable_min_assigns}) =>
                \E x \in seen.found : /\ x.kind = "split_variable" /\ x.file = file.path
                                 /\ x.line = f.start_line /\ x.detail = name /\ x.metric = most

(* A class falls apart into its least parts no attribute or call leaves.   *)
CohesionExact(file) ==
    \A c \in ToSet(file.classes) :
        LET Joins(m, n) ==
                \/ c.method_attr_use[m] \cap c.method_attr_use[n] # {}
                \/ m \in DOMAIN c.method_calls /\ n \in c.method_calls[m]
            closed == {P \in (SUBSET Stateful(c)) \ {{}} :
                        \A m \in P, n \in Stateful(c) \ P : ~Joins(m, n) /\ ~Joins(n, m)}
            parts == {P \in closed : \A Q \in closed : Q \subseteq P => Q = P}
        IN  \A x \in seen.found :
                x.kind = "divergent_change" /\ x.file = file.path /\ x.line = c.start_line
                => x.metric = Cardinality(parts)

(* Names that recur together are in a clump, and it counts their functions.*)
ClumpsExact(file, s) ==
    LET Having(names) == {i \in DOMAIN file.functions : names \subseteq Considered(file.functions[i])}
        all == UNION {Considered(f) : f \in ToSet(file.functions)}
    IN  \A names \in kSubset(Most({2, s.data_clump_min_fields}), all) :
            Cardinality(Having(names)) >= s.data_clump_min_occurrences =>
                \E x \in seen.found : /\ x.kind = "data_clump" /\ x.file = file.path
                                 /\ names \subseteq x.symbol
                                 /\ x.metric >= Cardinality(Having(names))

(* What recursion, merging and union-find come to is what was to be        *)
(* counted, in every file in scope whose rule is on: tests without a check *)
(* in reach, assignments on one path, parts of a class, recurring names    *)
(* (test_oracles.rs, split_variable.rs, cohesion.rs, clumps.rs).           *)
FindingsAreExact ==
    Scanned =>
    \A smells \in {Config(seen.settings).smells} :
        smells.enabled =>
        \A file \in {f \in ToSet(Files(seen.work)) : SkipReason(f, smells) = ""} :
            LET s == smells.languages[file.language]
            IN  /\ file.test_source /\ Enabled(s, "weak_test_oracle") => OraclesExact(file, s)
                /\ Enabled(s, "split_variable") => SplitsExact(file, s)
                /\ Enabled(s, "data_clump") => ClumpsExact(file, s)
                /\ CohesionExact(file)

-----------------------------------------------------------------------------
(* A run that fails shows why: what is cut for display leaves of every     *)
(* kind that reaches the level asked for a finding that does, however the  *)
(* detectors are trusted and whatever the change, the globs and the limit  *)
(* leave (cli.rs 216-310, limit.rs 54-75).                                 *)
FailureIsShown ==
    Scanned => \A options \in Options :
        \A selected \in {Selected(options)} : \A shown \in {Shown(selected, options)} :
            \A kind \in {x.kind : x \in selected} :
                LET OfKind(findings) == {x \in findings : x.kind = kind}
                IN  GateFails(OfKind(selected), options) => GateFails(OfKind(shown), options)
=============================================================================
