------------------------------ MODULE MCSetup ------------------------------
EXTENDS Setup

Toml(table) == [state |-> "sound", form |-> "header", table |-> table]
On(s, k, v) == <<s, k>> :> v
Strict == On("gate", "repeat_limit", Count(1)) @@ On("dead_code", "entrypoints", Globs({"on*"}))
Lines(l) == [state |-> "sound", lines |-> l]
Server(s) == [state |-> "sound", servers |-> s]
Others == Server("other" :> "other-command")

OwnHooks == [state |-> "sound", stop |-> << <<"own">>, <<"legacy">>, <<"own2", "legacy">> >>, subagent |-> << <<"own">>, <<"legacy">> >>]

MCTexts ==
    ("sensez.toml" :> {Toml(Strict), Toml(On("duplication", "near_mis", Flag(TRUE)) @@ Strict),
        Toml(On("semantic", "min_shape", Count(40))),
        Toml(On("smells", "max_lines", Count(40)) @@ Strict),
        Toml(On("dead_code", "entry_points", Globs({"bin/*"})) @@ On("dead_code", "entry_globs", Globs({"lib/*"}))),
        Toml(On("cycles", "exclude", Globs({"["})) @@ Strict),
        Toml(On("semantic", "comment_boost_score", Count(40))),
        Toml(On("semantic", "min_shape_score", Count(256))),
        [NoFile EXCEPT !.state = "broken"]}) @@
    ("pyproject.toml" :> {[NoFile EXCEPT !.state = "sound"], Toml(Strict), [NoFile EXCEPT !.state = "broken"]}) @@
    (".mcp.json" :> {Others, Server("sensez" :> "old" @@ "other" :> "other-command"),
                     [Empty(".mcp.json", "broken") EXCEPT !.state = "broken"],
                     [Empty(".mcp.json", "wrong") EXCEPT !.state = "wrong"]}) @@
    (".claude/settings.json" :> {
        OwnHooks,
        [state |-> "wrong", stop |-> << >>, subagent |-> << >>]}) @@
    (".gitignore" :> {Lines({"target"}), Lines({".sensez/"}), [Lines({}) EXCEPT !.state = "broken"]}) 
Bare == [f \in Files |-> Empty(f, "absent")]
Lived == [Bare EXCEPT
    !["pyproject.toml"] = [NoFile EXCEPT !.state = "sound"], ![".mcp.json"] = Others,
    ![".claude/settings.json"] = OwnHooks, ![".gitignore"] = Lines({"target"})]
MCStarts == {Bare, Lived}
Yes(agent, gate) == [agent |-> agent, gate |-> gate, no_metrics |-> FALSE, yes |-> TRUE]
Asked == [agent |-> None, gate |-> FALSE, no_metrics |-> FALSE, yes |-> FALSE]
Say(agent, more) == more @@ [agent |-> agent, gate |-> TRUE, metrics |-> TRUE, semantic |-> FALSE,
                             into |-> FALSE, install |-> TRUE]
MCWanted == {<<Yes("claude-code", TRUE), Say("codex", << >>)>>, 
             <<Asked, Say("claude-code", [into |-> TRUE, metrics |-> FALSE])>>,
             <<Asked, Say("codex", [semantic |-> TRUE])>>}
=============================================================================
