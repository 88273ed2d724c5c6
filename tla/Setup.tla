------------------------------- MODULE Setup -------------------------------
(***************************************************************************)
(* `sensez init` (src/setup): it writes a configuration, registers the MCP *)
(* server with an agent, installs a skill and the gate's hook, and keeps   *)
(* its local data out of Git.  The files it changes belong to the user and *)
(* to other programs; each is read and then written as a whole, without a  *)
(* lock, and any step may fail after others were done.  A sensez server    *)
(* makes the same directory for its data meanwhile.                        *)
(*                                                                         *)
(* A file is a record whose state is absent, broken (it does not parse),   *)
(* wrong (what is to be added to has another type) or sound.               *)
(***************************************************************************)
EXTENDS Configuration, Lists

CONSTANTS
    Agents,     \* the agents of the instance, ids of AgentSpec
    Texts,      \* what the user may leave in a file: a function on some files
    Wanted,     \* the flags and answers users give, pairs
    Starts,     \* the files there may be before the first init
    MaxInits,   \* bound: runs of init
    MaxEvents   \* bound: changes by the user, processes that die, cut writes

VARIABLES
    git,        \* whether the directory is in a Git repository
    exe,        \* how the running sensez was installed
    docs,       \* the files, by path
    run,        \* what each process is about to do
    inits, events,
    mine,       \* history: each file as the user left it
    lost,       \* history: files cut short, or written by the user in between
    chosen,     \* history: the configuration in force, once there is one
    calm,       \* history: nobody changed a file since init started
    last        \* history: the plan that was carried out last and what it left

setupVars == <<git, exe, docs, run, inits, events, mine, lost, chosen, calm, last>>

None == ""
AgentSpec == [agent \in {"claude-code", "cursor", "cline", "codex", "opencode", "pi", "other"} |->
    CASE agent = "claude-code" -> [mcp |-> ".mcp.json", global_mcp |-> ".claude.json",
            skill |-> ".claude/skills/sensez", global_skill |-> ".claude/skills/sensez",
            launch |-> "root", hooks |-> TRUE]
      [] agent = "cursor" -> [mcp |-> ".cursor/mcp.json", global_mcp |-> ".cursor/mcp.json",
            skill |-> None, global_skill |-> None, launch |-> "unknown", hooks |-> FALSE]
      [] agent = "cline" -> [mcp |-> ".cline/mcp.json",
            global_mcp |-> ".cline/data/settings/cline_mcp_settings.json",
            skill |-> ".cline/skills/sensez", global_skill |-> ".cline/skills/sensez",
            launch |-> "unknown", hooks |-> FALSE]
      [] agent = "codex" -> [mcp |-> ".codex/config.toml", global_mcp |-> ".codex/config.toml",
            skill |-> ".codex/skills/sensez", global_skill |-> ".codex/skills/sensez",
            launch |-> "unknown", hooks |-> FALSE]
      [] agent = "opencode" -> [mcp |-> "opencode.jsonc", global_mcp |-> ".config/opencode/opencode.json",
            skill |-> ".opencode/skills/sensez", global_skill |-> ".config/opencode/skills/sensez",
            launch |-> "unknown", hooks |-> FALSE]
      [] agent = "pi" -> [mcp |-> ".pi/mcp.json", global_mcp |-> ".pi/agent/mcp.json",
            skill |-> ".pi/skills/sensez", global_skill |-> ".pi/agent/skills/sensez",
            launch |-> "unknown", hooks |-> FALSE]
      [] agent = "other" -> [mcp |-> None, global_mcp |-> None, skill |-> None, global_skill |-> None,
            launch |-> "unknown", hooks |-> FALSE]]

Config == {"sensez.toml", "pyproject.toml"}
Servers == (UNION {{AgentSpec[a].mcp, AgentSpec[a].global_mcp} : a \in Agents}) \ {None}
Skills == (UNION {{AgentSpec[a].skill, AgentSpec[a].global_skill} : a \in Agents}) \ {None}
Hooks == ".claude/settings.json"
Ignore == ".gitignore"
Dir == ".sensez"
DirIgnore == ".sensez/.gitignore"
Data == ".sensez/eyez-cache.bin"
Files == Config \cup Servers \cup Skills \cup {Hooks, Ignore, Dir, DirIgnore, Data}

(* An empty file of each kind; JSON that is empty does not parse.          *)
Empty(f, state) ==
    CASE f \in Config -> [NoFile EXCEPT !.state = state]
      [] f \in Servers -> [state |-> state, servers |-> << >>]
      [] f = Hooks -> [state |-> state, stop |-> << >>, subagent |-> << >>]
      [] OTHER -> [state |-> state, lines |-> {}]
Json(f) == f = Hooks \/ f \in Servers \ {".codex/config.toml"}

(* What a file may be.  A table of pyproject.toml inline in [tool] is not  *)
(* among it: init breaks such a file.                                      *)
IsTable(table) ==
    /\ table = [p \in DOMAIN table |-> table[p]]
    /\ \A p \in DOMAIN table : table[p] = <<table[p][1], table[p][2]>>
IsDoc(f, doc) ==
    /\ doc.state \in {"absent", "broken", "wrong", "sound"}
    /\ f \in Config => /\ doc.state # "wrong" /\ doc.form \in {"none", "header"} /\ IsTable(doc.table)
                       /\ doc.form = "none" => doc.table = NoSettings
    /\ f = Hooks => IsList(doc.stop) /\ IsList(doc.subagent)

-----------------------------------------------------------------------------
(* What init decides before it writes anything: from its flags, and at a   *)
(* terminal from its questions.  A question is not asked when a flag or    *)
(* --yes settles it.                                                       *)
Flags == [agent : Agents \cup {None}, gate : BOOLEAN, no_metrics : BOOLEAN, yes : BOOLEAN]
Answers == [agent : Agents, gate : BOOLEAN, metrics : BOOLEAN, semantic : BOOLEAN,
            into : BOOLEAN, install : BOOLEAN]

ASSUME SetupAssumption ==
    /\ "claude-code" \in Agents /\ Agents \subseteq DOMAIN AgentSpec
    /\ Wanted \subseteq Flags \X Answers
    /\ DOMAIN Texts \subseteq Config \cup Servers \cup {Hooks, Ignore}
    /\ \A f \in DOMAIN Texts : \A doc \in Texts[f] : IsDoc(f, doc)
    /\ \A start \in Starts : start = [f \in Files |-> start[f]] /\ \A f \in Files : IsDoc(f, start[f])

\* The plan of an init that goes on, if it does; at a terminal or not.
PlanOf(flags, answers, terminal, global) ==
    LET asks == terminal /\ ~flags.yes
        agent == IF flags.agent # None THEN flags.agent
                 ELSE IF terminal THEN answers.agent ELSE "claude-code" IN
    IF \/ (~terminal /\ flags.agent = None /\ ~flags.yes)
       \/ (global /\ ~flags.yes /\ ~(terminal /\ answers.install))
    THEN {}
    ELSE {[agent |-> agent, global |-> global,
           gate |-> AgentSpec[agent].hooks /\ (flags.gate \/ (asks /\ answers.gate)),
           metrics |-> ~flags.no_metrics /\ ~global /\ (asks => answers.metrics),
           semantic |-> ~global /\ asks /\ answers.semantic,
           into |-> ~global /\ asks /\ answers.into]}

PlansFor(global) ==
    UNION {PlanOf(use[1], use[2], terminal, global) : use \in Wanted, terminal \in BOOLEAN}
ProjectPlans == PlansFor(FALSE)
GlobalPlans == PlansFor(TRUE)

(* As a dependency of the project, found on PATH, or neither.              *)
Installs == {"shim", "path", "elsewhere"}

(* The command an agent will start: the project's shim only for an agent   *)
(* that starts servers in the root.                                        *)
McpCommand(plan) ==
    IF exe = "shim" /\ ~plan.global /\ AgentSpec[plan.agent].launch = "root" THEN "node_modules/.bin/sensez"
    ELSE IF exe = "path" THEN "sensez"
    ELSE "/absolute/sensez"

(* The files a plan changes, in order.                                     *)
IfAny(f) == IF f = None THEN << >> ELSE <<f>>
Todo(plan) ==
    LET spec == AgentSpec[plan.agent] IN
    IF plan.global
    THEN IfAny(spec.global_mcp) \o IfAny(spec.global_skill)
            \o (IF plan.gate THEN <<Hooks>> ELSE << >>)
    ELSE <<IF plan.into THEN "pyproject.toml" ELSE "sensez.toml", Dir, DirIgnore>>
            \o IfAny(spec.mcp) \o IfAny(spec.skill)
            \o (IF plan.gate THEN <<Hooks>> ELSE << >>) \o <<Ignore>>

-----------------------------------------------------------------------------
(* The configuration init writes: everything is a comment but a few flags. *)
Template(plan) ==
    [p \in {<<"self_improvement", "enabled">>}
            \cup (IF plan.semantic THEN {<<"semantic", "enabled">>} ELSE {}) |->
        Flag(p[1] = "semantic" \/ plan.metrics)]

(* Appending headers to a file that has the table inline breaks it.        *)
WriteConfig(doc, plan) ==
    [state |-> IF doc.form = "inline" THEN "broken" ELSE "sound", form |-> "header", table |-> Template(plan)]

(* A hook group runs the gate in the form of this or an earlier version.   *)
IsGate(group) == \E i \in DOMAIN group : group[i] \in {"noze_gate", "legacy"}
GateHook == <<"noze_gate">>
OwnGroups(groups) == Those(groups, {g \in ToSet(groups) : ~IsGate(g)})

\* Variant: every installation adds a group.
InstallAnother(groups) == Append(groups, GateHook)

(* `install`: the first group with a gate is replaced, or one is added.    *)
InstallHook(groups) ==
    LET gates == {i \in DOMAIN groups : IsGate(groups[i])} IN
    IF gates = {} THEN Append(groups, GateHook)
    ELSE [groups EXCEPT ![Min(gates)] = GateHook]

\* Variant: the agent's file is written from scratch.
RegisterAlone(servers, command) == [s \in {"sensez"} |-> command]

(* The adapters set the entry `sensez` and leave the others.               *)
Register(servers, command) ==
    [s \in DOMAIN servers \cup {"sensez"} |-> IF s = "sensez" THEN command ELSE servers[s]]

(* What a step finds done already: it then leaves the file alone.          *)
IsDone(f, doc) ==
    CASE f = "sensez.toml" -> doc.state # "absent"
      [] f = "pyproject.toml" -> doc.form = "header"
      [] f = Ignore -> doc.state = "sound" /\ ".sensez/" \in doc.lines
      [] f = DirIgnore -> doc.state # "absent"
      [] f \in {Dir, Data} -> doc.state = "sound"
      [] OTHER -> FALSE

(* What it does not touch: a file it cannot read as what it should be.     *)
Refuses(f, doc) == f \notin Skills /\ ~IsDone(f, doc) /\ doc.state \in {"broken", "wrong"}

Written(f, doc, plan) ==
    CASE f \in Config -> WriteConfig(doc, plan)
      [] f \in Servers -> [state |-> "sound", servers |-> Register(doc.servers, McpCommand(plan))]
      [] f = Hooks -> [state |-> "sound", stop |-> InstallHook(doc.stop),
                       subagent |-> OwnGroups(doc.subagent)]
      [] f = Ignore -> [state |-> "sound", lines |-> doc.lines \cup {".sensez/"}]
      [] f = DirIgnore -> [state |-> "sound", lines |-> {"*"}]
      [] OTHER -> [state |-> "sound", lines |-> {"sensez"}]

-----------------------------------------------------------------------------
Processes == {"init", "server"}
AtRest == [pc |-> "idle", todo |-> << >>, doc |-> << >>, plan |-> << >>]
Repo(d) == [toml |-> d["sensez.toml"], pyproject |-> d["pyproject.toml"]]
InForceIn(d) ==
    IF InForce(Repo(d)).form = "none" THEN << >> ELSE <<LoadForScan(Repo(d)).config>>

SetupInit ==
    /\ git \in BOOLEAN /\ exe = "shim"
    /\ docs \in Starts
    /\ run = [p \in Processes |-> AtRest]
    /\ inits = 0 /\ events = 0
    /\ mine = docs /\ lost = {} /\ chosen = InForceIn(docs) /\ calm = TRUE /\ last = << >>

Turn(p, r) == run' = [run EXCEPT ![p] = r]
GoOn(p) == Turn(p, [run[p] EXCEPT !.pc = "read", !.todo = Tail(@), !.doc = << >>])
Step(p) == Head(run[p].todo)
Event == events < MaxEvents /\ events' = events + 1

(* Everything is decided before the first write.  The table goes into      *)
(* pyproject.toml only if there is one and no sensez.toml.                 *)
Start(plan) ==
    LET asked == plan.into /\ docs["pyproject.toml"].state # "absent" /\ docs["sensez.toml"].state = "absent"
        chosenPlan == [plan EXCEPT !.into = asked] IN
    /\ run["init"].pc = "idle" /\ inits < MaxInits /\ inits' = inits + 1
    /\ plan \in (IF git THEN ProjectPlans ELSE GlobalPlans)
    /\ Turn("init", [pc |-> "read", todo |-> Todo(chosenPlan), doc |-> << >>, plan |-> chosenPlan])
    /\ calm' = TRUE
    /\ last' = IF last # << >> /\ last.plan = chosenPlan THEN last ELSE << >>
    /\ UNCHANGED <<git, exe, docs, events, mine, lost, chosen>>

(* A server that has something to keep for the first time ensures the      *)
(* directory.                                                              *)
Record ==
    /\ run["server"].pc = "idle" /\ git /\ docs[Data].state = "absent"
    /\ Turn("server", [AtRest EXCEPT !.pc = "read", !.todo = <<Dir, DirIgnore, Data>>])
    /\ UNCHANGED <<git, exe, docs, inits, events, mine, lost, chosen, calm, last>>

Read(p) ==
    /\ run[p].pc = "read" /\ run[p].todo # << >>
    /\ LET doc == docs[Step(p)] IN
       IF IsDone(Step(p), doc) THEN GoOn(p)
       ELSE IF Refuses(Step(p), doc) THEN Turn(p, AtRest)
       ELSE Turn(p, [run[p] EXCEPT !.pc = "write", !.doc = doc])
    /\ UNCHANGED <<git, exe, docs, inits, events, mine, lost, chosen, calm, last>>

Write(p) ==
    /\ run[p].pc = "write"
    /\ docs' = [docs EXCEPT ![Step(p)] = Written(Step(p), run[p].doc, run[p].plan)]
    /\ chosen' = IF chosen = << >> THEN InForceIn(docs') ELSE chosen
    /\ GoOn(p)
    /\ UNCHANGED <<git, exe, inits, events, mine, lost, calm, last>>

(* A write that is cut short leaves an empty file.                         *)
CutShort(p) ==
    /\ run[p].pc = "write" /\ Step(p) \notin {Dir, Data} /\ Event
    /\ docs' = [docs EXCEPT ![Step(p)] = Empty(Step(p), IF Json(Step(p)) THEN "broken" ELSE "sound")]
    /\ lost' = lost \cup {Step(p)} /\ last' = << >> /\ chosen' = InForceIn(docs')
    /\ Turn(p, AtRest)
    /\ UNCHANGED <<git, exe, inits, mine, calm>>

Die(p) ==
    /\ run[p].pc # "idle" /\ Event /\ Turn(p, AtRest)
    /\ UNCHANGED <<git, exe, docs, inits, mine, lost, chosen, calm, last>>

Complete(p) ==
    /\ run[p].pc = "read" /\ run[p].todo = << >>
    /\ last' = IF p = "init" /\ calm THEN [plan |-> run[p].plan, docs |-> docs] ELSE last
    /\ Turn(p, AtRest)
    /\ UNCHANGED <<git, exe, docs, inits, events, mine, lost, chosen, calm>>

(* The user, or an agent, changes a file or reinstalls sensez.  A change   *)
(* between the read and the write of a process is overwritten.             *)
Held(f) == \E p \in Processes : run[p].pc = "write" /\ Step(p) = f

Change(f) ==
    /\ Event
    /\ docs' \in {[docs EXCEPT ![f] = doc] : doc \in Texts[f] \ {docs[f]}}
    /\ mine' = [mine EXCEPT ![f] = docs'[f]]
    /\ lost' = IF Held(f) THEN lost \cup {f} ELSE lost \ {f}
    /\ chosen' = InForceIn(docs') /\ calm' = FALSE /\ last' = << >>
    /\ UNCHANGED <<git, exe, run, inits>>

Reinstall ==
    /\ Event
    /\ run["init"].pc = "idle" /\ exe' \in Installs \ {exe} /\ last' = << >>
    /\ UNCHANGED <<git, docs, run, inits, mine, lost, chosen, calm>>

SetupNext ==
    \/ \E plan \in ProjectPlans \cup GlobalPlans : Start(plan)
    \/ Record
    \/ \E p \in Processes : Read(p) \/ Write(p) \/ CutShort(p) \/ Die(p) \/ Complete(p)
    \/ \E f \in DOMAIN Texts : Change(f)
    \/ Reinstall

SetupSpec == SetupInit /\ [][SetupNext]_setupVars

-----------------------------------------------------------------------------
(* What the user put into a file is in it after any number of installs for *)
(* any agents, failed ones included: other servers, hooks of their own in  *)
(* their order, lines, settings; and a file that could not be read is as it*)
(* was.  Not so a file whose write was cut short, or that changed between  *)
(* the read and the write of a step.                                       *)
Keeps(f, before, now) ==
    /\ before.state \in {"broken", "wrong"} => now = before
    /\ before.state = "sound" =>
        /\ f \in Config => now.state = "sound" /\ \A s \in DOMAIN before.table :
                            s \in DOMAIN now.table /\ now.table[s] = before.table[s]
        /\ f \in Servers => \A s \in DOMAIN before.servers \ {"sensez"} :
                            s \in DOMAIN now.servers /\ now.servers[s] = before.servers[s]
        /\ f = Hooks => /\ OwnGroups(now.stop) = OwnGroups(before.stop)
                        /\ OwnGroups(now.subagent) = OwnGroups(before.subagent)
        /\ f \notin Config \cup Servers \cup {Hooks} => before.lines \subseteq now.lines
MineIsKept == \A f \in DOMAIN Texts \ lost : Keeps(f, mine[f], docs[f])

(* Once init has gone through, nothing it does again under the same plan   *)
(* changes a file, at no point of it and wherever it stops.                *)
RerunChangesNothing == last # << >> => \A f \in Files \ ({Data} \cup lost) : docs[f] = last.docs[f]

(* Whatever the files hold, each setting of the one in force is in the     *)
(* configuration the next scan runs on, under its current name, or the     *)
(* report has an issue: for the setting itself, or with the file dropped as*)
(* a whole, for the file.  What is not set is at its default.              *)
Kept(value, set) ==
    \/ value = set
    \/ value[1] = "globs" /\ set[1] = "globs" /\ set[2] \subseteq value[2]
SettingsCount ==
    LET repo == Repo(docs)
        table == InForce(repo).table
        loaded == LoadForScan(repo)
        Reported(p) == p \in loaded.issues \/ loaded.issues \cap (BadFile \cup BadValue) # {} IN
    /\ InForce(repo).state = "broken" => loaded.issues # {}
    /\ \A p \in DOMAIN table :
        \/ Reported(p) \/ Free(p)
        \/ loaded.issues # {} /\ loaded.config = Resolved(Default)
        \/ Alias(p) \in Fields /\ Kept(loaded.config[Alias(p)[1]][Alias(p)[2]], table[p])
    /\ \A f \in Fields \ GivenFields(table) :
            Kept(loaded.config[f[1]][f[2]], Default[f[1]][f[2]])

(* "Re-run `sensez init` anytime" (artifacts.rs:17), which keeps a         *)
(* configuration that is there (`ConfigWrite`, artifacts.rs:129): what is  *)
(* configured once is not changed by init.                                 *)
ConfigStays ==
    chosen # << >> /\ lost \cap Config = {} => LoadForScan(Repo(docs)).config = chosen[1]
=============================================================================
