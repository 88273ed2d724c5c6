--------------------------- MODULE Configuration ---------------------------
(***************************************************************************)
(* Which file configures a repository and what becomes of what it sets     *)
(* (src/config.rs, src/config).                                            *)
(*                                                                         *)
(* A repository is [toml, pyproject]: sensez.toml and pyproject.toml, each *)
(* [state, form, table].  A file is absent, broken (not UTF-8, not TOML) or*)
(* sound.  A table is a function from pairs <<section, key>> to values     *)
(* <<type, value>>; that of pyproject.toml stands under headers            *)
(* [tool.sensez...], or inline in [tool], or there is none.  The rules of  *)
(* [smells] are in SmellSettings; here they are one section.               *)
(***************************************************************************)
EXTENDS Integers, FiniteSets, SequencesExt

NoSettings == << >>
NoFile == [state |-> "absent", form |-> "none", table |-> NoSettings]

Flag(b) == <<"flag", b>>
Count(n) == <<"count", n>>
Globs(s) == <<"globs", s>>
Names(s) == <<"names", s>>
Action(l) == <<"level", l>>

(* The settings of each section with their defaults; those of no section   *)
(* are those of the project.                                               *)
Default == [
    cache |-> [enabled |-> Flag(FALSE)],
    project |-> [roots |-> Names({}), exclude |-> Globs({})],
    duplication |-> [
        exclude |-> Globs({}), include_tests |-> Flag(FALSE), include_generated |-> Flag(FALSE),
        threshold |-> Count(50), max_gap |-> Count(25), near_miss |-> Flag(FALSE),
        class_name_duplicates |-> Flag(FALSE), class_property_overlap_min |-> Count(4)],
    semantic |-> [
        enabled |-> Flag(FALSE), min_shape_score |-> Count(30),
        comment_boost_score |-> Count(85), comment_required |-> Flag(FALSE)],
    dead_code |-> [
        registration_decorators |-> Globs({}), entrypoint_names |-> Names({}),
        entrypoint_bases |-> Names({}), entry_globs |-> Globs({}), test_sources |-> Globs({}),
        test_support |-> Globs({}), orphan_modules |-> Flag(TRUE),
        unimported_dir_share |-> Count(50), unused_imports |-> Flag(FALSE),
        unused_methods |-> Flag(FALSE), unused_properties |-> Flag(FALSE),
        unused_variables |-> Flag(FALSE)],
    cycles |-> [exclude |-> Globs({}), include_type_only |-> Flag(TRUE)],
    boundaries |-> [forbidden |-> Globs({})],
    smells |-> [enabled |-> Flag(TRUE), include_tests |-> Flag(FALSE), exclude |-> Globs({})],
    action |-> [
        cycles |-> Action("warning"), duplication |-> Action("advisory"),
        dead_code |-> Action("advisory"), boundaries |-> Action("must_fix")],
    gate |-> [repeat_limit |-> Count(2)],
    self_improvement |-> [enabled |-> Flag(TRUE)]]

Sections == DOMAIN Default
Fields == UNION {{<<s, k>> : k \in DOMAIN Default[s]} : s \in Sections}

(* A field may go by an older name.                                        *)
Alias(setting) ==
    CASE setting = <<"dead_code", "entrypoints">> -> <<"dead_code", "registration_decorators">>
      [] setting = <<"dead_code", "entry_points">> -> <<"dead_code", "entry_globs">>
      [] OTHER -> setting

-----------------------------------------------------------------------------
(* `discover`: sensez.toml, else pyproject.toml, else nothing.             *)
InForce(repo) == IF repo.toml.state # "absent" THEN repo.toml ELSE repo.pyproject

(* `accept` and the policy of single smells are read elsewhere.            *)
Free(setting) == setting[1] = "accept" \/ setting = <<"action", "smells">>

\* Variant: the nested table [duplication.semantic] is not looked at.
UnknownButNested(table) ==
    {p \in DOMAIN table : Alias(p) \notin Fields /\ ~Free(p) /\ p[1] # "semantic"}

(* `unknown_keys::collect`: keys no section has and tables that are none.  *)
Unknown(table) == {p \in DOMAIN table : Alias(p) \notin Fields /\ ~Free(p)}

(* An unknown key under [smells] or [action] is an error, others warn.     *)
Rejected(setting) == setting[1] \in {"smells", "action"}

(* What deserializing finds: values of another type, numbers out of a      *)
(* field's range, a field given twice.                                     *)
Bytes == {<<"semantic", "min_shape_score">>, <<"semantic", "comment_boost_score">>,
          <<"dead_code", "unimported_dir_share">>}
Fits(value, field) ==
    /\ value[1] = Default[field[1]][field[2]][1]
    /\ value[1] = "count" => value[2] \in 0 .. IF field \in Bytes THEN 255 ELSE 999999
Mistyped(table) == {p \in DOMAIN table : Alias(p) \in Fields /\ ~Fits(table[p], Alias(p))}
Doubled(table) == {p \in DOMAIN table : Alias(p) \in Fields
                        /\ \E q \in DOMAIN table : q # p /\ Alias(q) = Alias(p)}

(* The settings a table leaves in force.                                   *)
Given(table, field) == {p \in DOMAIN table : Alias(p) = field}
GivenFields(table) == {Alias(p) : p \in DOMAIN table}
Overlaid(table) ==
    LET given == GivenFields(table)
    IN  [s \in Sections |-> [k \in DOMAIN Default[s] |->
            IF <<s, k>> \notin given THEN Default[s][k]
            ELSE table[CHOOSE p \in Given(table, <<s, k>>) : TRUE]]]

(* `validate_globs`, `validate_semantic`: patterns that compile, scores in *)
(* their range.                                                            *)
Malformed == {"["}
Invalid(config) ==
    {f \in Fields : config[f[1]][f[2]][1] = "globs" /\ config[f[1]][f[2]][2] \cap Malformed # {}}
        \cup (IF config.semantic.comment_boost_score[2] \in 50 .. 100
              THEN {} ELSE {<<"semantic", "comment_boost_score">>})
        \cup (IF config.semantic.min_shape_score[2] <= 100 THEN {} ELSE {<<"semantic", "min_shape_score">>})

(* `apply_baseline_excludes`: vendored trees for all, migrations for those *)
(* pillars that would drown in them.                                       *)
Vendored == {"**/node_modules/**", "**/target/**", "**/dist/**"}
Migrations == {"**/migrations/**"}
Resolved(config) ==
    [config EXCEPT !.project.exclude[2] = @ \cup Vendored,
                   !.duplication.exclude[2] = @ \cup Migrations,
                   !.smells.exclude[2] = @ \cup Migrations,
                   !.cycles.exclude[2] = @ \cup Migrations]

(* `load_with_warnings`: the errors of a repository's configuration, and if*)
(* there is none the configuration with its warnings.  Each rejected key is*)
(* an error; of the values, read when the file parses and validated when   *)
(* all of that is fine, the first that does not fit.                       *)
BadFile == {<<"file", "">>}
BadValue == {<<"value", "">>}

Errors(repo) ==
    LET table == InForce(repo).table
        strict == {p \in Unknown(table) : Rejected(p)}
                    \cup (IF Mistyped(table) \cup Doubled(table) # {} THEN BadValue ELSE {}) IN
    IF InForce(repo).state = "broken" THEN BadFile
    ELSE IF strict # {} THEN strict
    ELSE IF Invalid(Resolved(Overlaid(table))) # {} THEN BadValue
    ELSE {}

Warnings(repo) == {p \in Unknown(InForce(repo).table) : ~Rejected(p)}

(* `load_for_scan`: a configuration with an error is dropped as a whole;   *)
(* whatever the problems, the report lists them.                           *)
LoadForScan(repo) ==
    IF Errors(repo) = {}
    THEN [config |-> Resolved(Overlaid(InForce(repo).table)), issues |-> Warnings(repo)]
    ELSE [config |-> Resolved(Overlaid(NoSettings)), issues |-> Errors(repo)]
=============================================================================
