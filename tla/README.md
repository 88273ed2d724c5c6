# sensez in TLA+

sensez is a static analyser for code that agents write. Its core is a pipeline
from sources to a report: a module graph, and the analyses of it. Around it the
program that people run is a set of long-lived servers: an LSP server, an MCP
server, an end-of-turn gate that agents call, and a local metrics store that
several processes write. The servers are modelled as concurrent systems, the
analyses and the 46 smell rules as functions of a repository that is being edited. The modules are
written from the Rust source; paths below are relative to the repository.

## Inventory

| Part | Source | State it keeps | Operations | Interacts with |
|---|---|---|---|---|
| LSP server | `src/lsp` | per root: generation, running, pending, published; settings | initialise, save, watched files, configuration, rescan, result, exit | editor (messages), scan threads (channel), pipeline |
| MCP server loop | `src/mcp/server.rs`, `src/cli.rs` | permits, response queue, request tasks | frame, dispatch, timeout, tick, signal, EOF, flush | client (stdio), blocking pool, recapture, flush |
| MCP tools | `src/mcp/handlers.rs`, `scan.rs` | none | scan, search, triage, metrics | pipeline, metrics |
| Gate | `src/mcp/gate.rs`, `gate_state.rs`, `repeats.rs` | per session: blocked, resolved, repeats per branch, in `.sensez/gate/state.json` | gate call | Stop hook, git, file lock, metrics |
| Baselines | `src/brainz/store_baselines.rs`, `recording.rs`, `recapture.rs`, `aging.rs` | index, branch files, hub baselines | record_scan, recapture, prune, migrate | every scan of every process, `last-scan.lock` |
| Hub, event log | `src/brainz/hub.rs`, `flush.rs`, `store.rs` | pending events, totals, `events.jsonl` | push, drain, flush, compact | ticks, gate, exit, `flush.lock` |
| Triage, suppression, ranking | `src/brainz/triage.rs` ... | verdicts, noisy detectors | mark, clear, suppress, rank | baselines, report |
| Pipeline and sessions | `src/pipeline*.rs`, `src/source_state.rs` | parse facts of four workspaces | analyse, in a child or a session | all servers |
| Spine | `src/spine` | parse cache, graph | crawl, parse, build, impact | pipeline |
| Rules | `src/noze`, `src/bonez`, `src/profiles` | none | cycles, dead code, duplication, smells, boundaries | graph, parsed files |
| Configuration | `src/config*`, `src/config/smells` | none | find, parse, validate, resolve per language | `sensez.toml`, `pyproject.toml`, all analyses |
| Report of a command | `src/cli.rs`, `src/report*`, `src/reporter`, `src/brainz/suppression.rs`, `ranking.rs` | none | suppress, narrow, rank, gate, cut | rules, verdicts, diff |
| Test selection | `src/reflexez` | none | select, plan | graph, diff |
| Search index | `src/eyez`, `src/noze/duplication/semantic` | two caches of vectors under `.sensez`, the model in the home directory | index, rebuild, search, compare | parsed files, model hub, every other process |
| Setup | `src/setup` | the user's files: configuration, MCP registration, skill, hooks, `.gitignore` | plan, install | the user, Git, agents |
| Rest | `src/diff`, rendering | none | parse, filter, render | everything |

What is hard, and what makes each part correct:

* **LSP server.** Saves and settings changes arrive while scans run on two
  threads at a time; a result may be out of date when it is handled, and is then
  dropped. Correct: no request is lost, no slot leaked, what the editor shows at
  rest is what a scan of the files would find now.
* **MCP server.** Requests, a rescan on a timer, EOF, SIGTERM, a client that is
  gone, timeouts whose work goes on. Correct: one answer per request, the signal
  heeded, no event of an answered request lost.
* **Gate.** State shared by sessions and processes, findings that come, go and
  come back, deferrals that expire, a lock that may not be had. Correct: it does
  not block twice for unchanged work, does not nag for ever, and suppresses
  nothing the session was not told.
* **Baselines.** Read-modify-write by several processes and two threads in each,
  optimistic writes that compare timestamps, crashes between files, checkouts.
  Correct: a fix is counted once, findings of one branch are never compared with
  those of another, a recapture replaces what it read, no indexed branch is
  without its data.

* **Metrics.** Every process queues events in memory and flushes them under a lock
  into a log and totals that all share; either write may fail or be cut short,
  the log is compacted, verdicts are merged into a file others rewrite. Correct:
  nothing is counted twice or lost silently, the log backs the totals, no verdict
  is lost, and a detector is called noisy on evidence only.
* **Sessions.** Parse facts are kept for four workspaces while scans of several
  threads overlap, files change and a panic poisons a lock, or are kept on disk by
  child processes of whatever binary is installed. Correct: a scan ends with what
  parsing afresh would give; eviction takes the least recently used workspace and
  spares what the scan itself uses.
* **Analyses.** Each reads a graph that was built in two passes from imports
  resolved by name, and follows edges whose kind (type-only, inline, computed,
  re-export) decides whether they count. Correct: cycles are those of the files'
  imports, nothing that production uses is called dead, the report of a change has
  what the change brought, and the tests selected are those that run changed code.
* **Smells and their report.** 46 rules, each with settings per language out of
  defaults, two tables, switches, per-rule tables and strictness levels; what they
  find is acted on by a policy, hidden by verdicts that find it again by name alone,
  narrowed to a change, ranked, gated and cut short. Correct: stricter settings lose no
  finding, moved code keeps its findings and verdicts, what is counted by recursion and
  merging is what was to be counted, and a run that fails shows why.
* **Search index.** Processes that lock nothing load the same caches, embed what is
  new, and each write the whole cache back through a temporary name that all share; one
  may die at any point, and a cache may be of another version. Correct: a search answers
  from the vectors of the present texts, each document once, and the comparison of
  functions, which looks only at pairs that an index of rare items brings together, loses
  no pair.
* **Setup.** Each file is read, changed as a document and written as a whole, while the
  user and other programs edit it, in formats that may not parse, and any step may fail.
  Correct: what others wrote into a file stays, a second `init` changes nothing, and the
  configuration in force is the one that was.

`PROJECT.json` lists every hazard at its line with the properties that cover it,
or why none does.

## Modules

| Module | Models | Checked by |
|---|---|---|
| `ScanPool` | the abstract promise of the LSP scheduler: a pool that is well filled | refinement target |
| `LspScheduler` | `src/lsp`: the loop, scan threads, channel, editor's view, exit | `MCLspScheduler` |
| `LspScheduler_proofs` | theorems about `LspScheduler` | TLAPS |
| `Baselines` | `src/brainz`: record_scan and recapture of several processes on one store | `MCBaselines` |
| `Baselines_proofs` | theorems about `Baselines` | TLAPS |
| `Gate` | `src/mcp/gate*.rs`, `repeats.rs` | `MCGate` |
| `Gate_proofs` | theorems about `Gate` | TLAPS |
| `McpServer` | `src/mcp/server.rs` and the runtime around it | `MCMcpServer` |
| `McpServer_proofs` | theorems about `McpServer` | TLAPS |
| `Metrics` | `src/brainz`: hub queue, flush, log, totals, compaction, triage | `MCMetrics` |
| `Metrics_proofs` | theorems about `Metrics` | TLAPS |
| `ScanSession` | `src/pipeline_session.rs`, `pipeline_child.rs`, `src/spine/cache` | `MCWorkspace` |
| `RecursionTheorems` | lemmas on recursive functions, sums, folds and filters of sequences | TLAPS |
| `Workspace_proofs` | theorems about `ScanSession`, `Setup`, `Configuration`, `SearchIndex`, `SemanticCopies` and the cut of `Review` | TLAPS |
| `Lists` | filters as recursive functions, which the proofs need | by its users |
| `ImportGraph` | `src/spine/graph`, `src/noze/cycles.rs`, `src/bonez`: identities, edges, cycles, boundaries | `MCCheckout` |
| `DeadCode` | `src/noze/dead_code`: reachability of modules, demand for symbols | `MCCheckout` |
| `DeadMembers` | `src/noze/dead_code/extra`: imports, methods and properties nobody uses, by the types of receivers | `MCCheckout` |
| `TestImpact` | `src/reflexez`, `src/spine/impact`: the tests to run for a change | `MCCheckout` |
| `ChangeReport` | `src/diff`: the lines of a change, the filter of a report | `MCCheckout` |
| `Checkout` | the developer (external), and what the analyses promise | `MCCheckout` |
| `Checkout_proofs` | theorems about `Checkout`, and so about the graph, the report of a change and the plan | TLAPS |
| `Duplication` | `src/noze/duplication`: clones, stitching, renamed functions, class shapes | `MCCopies` |
| `Copies` | a developer who pastes and cuts (external), and what `Duplication` promises | `MCCopies` |
| `SemanticCopies` | `src/noze/duplication/semantic`: pairs of functions that say the same in other words | `MCWorkspace` |
| `SearchIndex` | `src/eyez`: processes that share the two caches of vectors | `MCWorkspace` |
| `Configuration` | `src/config*`: which file is in force, and what it sets outside the smells | `MCWorkspace`, `MCSetup` |
| `Setup` | `src/setup`: `sensez init` over files that others change | `MCWorkspace`, `MCSetup` |
| `SmellSettings` | `src/config/smells`: from the file to the settings of each language | `MCWorkspace` |
| `FunctionSmells` | `src/noze/smells`: rules on one function or class at a time | `MCWorkspace` |
| `RiskSmells` | `src/noze/smells`: typing, wrappers, oracles, performance, mocks, and the run over a file | `MCWorkspace` |
| `SharedSmells` | `src/noze/smells`: clumps, sibling helpers, reimplementations, graph hotspots, and the run over a project | `MCWorkspace` |
| `Review` | a developer (external), suppression, narrowing, ranking, gate level and cut, and what all that promises | `MCWorkspace` |
| `Workspace` | `ScanSession`, `SearchIndex`, `Setup` and `Review` side by side, which share no state; what is checked and proved of `Review` | `MCWorkspace` |
| `MCWorkspace` | composes them for one run, one explored while the others rest | itself |

**LspScheduler.** `generation`, `running`, `pending`, `published` are the fields
of `Workspace`. A message handler of `run` is one action that includes the
`queue` calls it makes (`QueueAll`: one after the other in path order, so that
the first ones get the free slots), and handling a result includes
`launch_pending`. A scan thread is a record in `scans`: spawned with a
generation and the settings of that moment, it reads the files in one later step
(`ScanCompletes`) and then waits in the channel. Files hold one of a few
contents and a diagnostic stands at a file whose content a second file has, a
finding that depends on more than one file; an edit is seen by the disk first
and reported to the server later, by save or watcher, possibly several files at
once. `ScanPool` knows only which root is idle, queued, running or owed a rerun.

**Baselines.** `tree`, `head`, `mtime` are the developer's working tree;
`stamps`, `inline`, `files` the index (`last-scan.json`), legacy entries in it
and the branch files; `base` each process's hub baseline. `task` has a recorder
and a recapture thread per process, whose program counters follow the code
between two points at which another actor may run: the scan, the question for the
branch, the clock, the lock, the branch file, the pruned files, the index, the
hub. `Age` is `aging::age` with its bank of resolved findings. A crash forgets a
process's threads and baseline and frees its lock. `resolvedFor`, `surplus`,
`torn` and `raced` are history: what the metrics were told, and what no test can
look at. A reading of the clock (`Now`) gives the second of the last one or the next.

**Gate.** `state` is `state.json`, `call` the running call of each session:
scan, update under the lock or (after a lock timeout) read and write in two
steps, reply or lost reply. `Recall`, `RetainAllowed` and `Triage` are the
functions of the same names as set operations; repeat keys are findings with
their lines. The diff is that of the working tree against HEAD: an edit puts a
finding's lines into it, a commit empties it. `told`, `standing`, `blocks` and
`gone` are history. A session's transcript, which can narrow the diff, brainz's
own list of regressions and the recording of the scan (in `Baselines`) are left
out.

**McpServer.** `phase` and `arm` are the position of `serve`: serving, then the
drain, the final flush, and the drop of the runtime by `serve_mcp`; while
serving, `arm` says whether `select!` waits or a branch awaits (the tick's
recapture and flush, or room in the response queue for an answer the loop sends
itself). A request has a handler task and its work on the blocking pool, which
goes on when the handler times out. `pending`, `batch`, `flushed` and `lost` follow the
events a request records: a flush takes everybody's from the hub and then writes those
of each repository or, if it cannot have `flush.lock`, drops them. The server flushes on
the tick and at the end; a gate that blocks and a usage report (`Flushing`) flush
before they return, on the blocking pool, so that `work` of these goes through
"recorded" and "flushing" and may be there still when `serve` returns. The client reads
stdout, stalls (it stays and reads no more) or leaves. The runtime is the library's: it
drops waiting tasks when `serve` returns and joins its blocking threads, those that read
stdin and write stdout among them. A frame that does not parse is answered or, if it is
not UTF-8, ends the loop.

**Metrics.** `pending` and `session` are the hub's queue and its totals since
the process started, `task` the flush under way, whose program counter follows
`flush`: drain, lock (or give up), load the totals, append to the log (in whole, cut
short, or not at all), save the totals, compact. `log` is the file's lines and `tail`
whether the last lacks its newline, so that what is appended next is glued to it.
`mark` is the `brainz_triage` call: match, lock, load, save, outcome event. A crash
loses what the process held in memory and frees its locks. Totals are kept per
detector in the code and one detector is followed here; events carry what the
totals and the compaction read. `recorded`, `dropped`, `counted`, `unlogged`,
`glued` and `marked` are history.

**ScanSession.** `recent` is the session's list of workspaces and `states` their parse
cache states, addressed by number because a scan in flight keeps the state of a
workspace that was evicted meanwhile. A scan's program counter follows
`analyze_path`: find or make the workspace, read and parse under its lock, or spawn
a child that reads the disk cache, stores new entries and evicts old ones. What a
file parses to is the tuple of what it depends on: build, path, content and the
`file_id`, its position among the sources. Panics, killed children, failed spawns,
damaged entries and a new binary installed meanwhile are actions or disjuncts.

**ImportGraph, DeadCode, DeadMembers, TestImpact, ChangeReport.** These are functions of a source
tree: a function from paths to texts, where a text is a sequence of statements
(import, definition, use, attribute, `__all__`, glob, unresolvable import, class,
method, property, type hint, string, syntax error) that stand for lines. `Build` is the two passes of `builder.rs`, in the
crawl's order, with the names known so far, because resolution depends on them.
`Cycles` finds the components of each phase and the loop shown for one;
`DeadCodeFindings` are reach, demand with its fixed point through re-exports, and
the grades; `Detect` adds the opt-in passes, whose `Usage` is what a set of files
accesses of which class: through receivers and results whose type is a known class
(and so of the classes below it), of `self`, along paths and by name in strings.
Methods take it from all files but tests, properties from the files they are reported
in. `PlanOn` is reflexez's plan; `Apply` the filter of a report by the
lines of a diff. Module names are sequences of segments, and how a text is parsed
to statements is left to tree-sitter.

**Checkout.** The developer: `head`, `work` and `added` are the tree of HEAD, the
working tree and the paths in git's index, changed by `Write`, `Delete`, `Add` and
`Commit`. The properties compare the analyses in every state with definitions made
from the statements alone (`Named`, `Taken`, `Runs`, `UsedNames`, `UsedMembers`), the
way the languages read them and without the module graph. Where the links of the graph
are complete (no import dangles), `CyclesAreExact` also demands that they are what the
files import. `Runs` is what the imports of a file load and what runs beside them
(`RunsBeside`): what its globs match, its assets and, for an import that cannot be
resolved, any source that changed; a setup file runs before every test, with what it
imports (`SetupLoads`).

**Duplication, Copies.** A source is a sequence of tokens with the depth of their
syntax nodes; what two sources share is found in the master buffer of all tokens
(`Classes`, as sets of positions instead of a suffix array), stitched across gaps,
trimmed where a copy ends inside an open node, joined with functions equal up to a
renaming and with classes of the same members, folded, and pruned by `[accept]`. In
`Copies` blocks of code (functions, statements, an idiom, a class) are pasted into
files and cut; what must be reported is defined on the tokens of the two files alone.

**SemanticCopies, SearchIndex.** An operation of a process (a search, a rebuild, a scan)
reads the files, fetches what of the model is missing, loads a cache, embeds what it does
not hold, writes the cache to a file beside it and renames that; each is a step, and
between any two another process may run or this one die. A file on disk is addressed by an
inode, so that a process that writes on after another has renamed the file it opened
writes into the cache itself. A temporary file two processes write at once ends as the
content of one of them or as something that does not decode. The vector of a text is the text with
what it was embedded by; likeness of two texts, in percent, is a constant function, and so
are the files an older version may have left. `SemanticCopies` has the functions of
`semantic`: bundles of documentation, the shapes and words that are common, the rare ones that
bring a pair together (`prefix_len`), and the judgement of a pair.

**Configuration, Setup.** `Configuration` says which of `sensez.toml` and `pyproject.toml`
is in force and what it sets. In `Setup` a document is `absent`, `broken`, `wrong` (what
is to be added to has another type) or `sound` with its entries; a run of `init` makes its
plan from flags or answers, then reads and writes one document after the other. The user
edits documents in between, a write may be cut short, and a sensez server makes the same
directories. `mine`, `lost`, `chosen`, `calm` and `last` are history: what the user wrote,
what a failure excuses, and what was in force.

**MCWorkspace.** Four components that share no variable are checked by one run: `focus`
chooses which of them moves, and the others rest, so that the states are the sum and not
the product of theirs.

**SmellSettings, FunctionSmells, RiskSmells, SharedSmells.** A language's settings are
a record of the fields of `Smells`; `Resolve` lays the base table, the language's table,
thresholds that switch their rule on, `disabled` and the rules over the defaults, in the
order of `resolve.rs`, and a file that does not fit leaves the defaults
(`LoadForScan`). A rule is an operator from the facts of the syntax walk (`PlainFunction`,
`PlainClass`, `PlainCall`, `PlainFrame` list them) to findings with kind, place, names,
metric, severity and action. What a rule reads off a text (whether a type is loose, a
helper generated, a parameter name considered) is a fact of the instance; what it makes
of the facts, thresholds and exemptions included, is the operator. Fixed points,
recursion and union-find are folds and recursive functions over the facts.

**Review.** `work` is the order and the text of a file's chunks (rewritten by `Write`,
exchanged by `Move`), `settings` the configuration file, `verdicts` the fingerprints of
`triage.json`, `seen` the last scan with what it read. A scan is `run_with_root` and
`apply_suppressions`; a command line (`Options`) selects, ranks, gates and cuts its
report. A verdict is given on what the last report shows, and matches a finding by kind,
file and names; the symbol of a finding is the set of its names.

## Runs

| Run | Shows | Bounds |
|---|---|---|
| `lsp_scheduler` | settled roots fresh, editor agrees, rest and exit reached, refinement of `ScanPool` | 3 roots for 2 slots, so that one always waits; 2 files that duplicate each other; a few events |
| `baselines` | fixes counted once, reintroductions paired, recapture never diffs backwards, data never missing, no cross-branch diff | 2 processes, 3 branches of which 2 are kept (pruning), 1 finding, legacy data for 2 branches, 3 recordings in 2 seconds, 2 edits or checkouts, 1 crash |
| `baselines_checkout` | counterexample to "no cross-branch diff" when a checkout falls into a scan | as `baselines` |
| `gate` | unchanged work not blocked twice, bounded nagging, suppressed was told | 2 sessions, one with a single call; 1 finding on 1 line, limit 1, expiries within 3 seconds, 4 changes of the work, 1 lock timeout or lost reply |
| `gate_regression` | counterexample: a finding nobody fixed is announced as a regression | as `gate` |
| `mcp_server` | answered once, always answered, signal heeded, answered events through a flush by the end | 3 frames, 1 permit, response queue and pipe of 1; the gate's call is sent first, one repository, one flush at most without its lock (`Narrowed`) |
| `metrics` | events counted once, log backs the totals, verdicts kept, noisy only on evidence | 2 processes, 2 findings, 2 events, 2 triage calls, log limit of 1 line, 1 crash or failed write, clock to 1 |
| `analyses` | cycles exact, nothing used is dead, the change's findings kept, affected tests selected and only those | 4 repositories of 4 to 8 files with up to 3 texts each (`MCCheckout`), 3 edits with `git add` and commits between them |
| `copies` | what is reported as a copy is one, every copy and every renamed copy is reported | 3 files of up to 3, 2 and 1 blocks out of 6, one file accepted; threshold 4, gap 1 |
| `copies_stitched` | counterexample: stitching hides a copy | as `copies`, gap 2 |
| `workspace` | reused facts are fresh, own entries spared; moved code keeps its findings, stricter settings lose none, counts are exact, a failing run shows why; what the user wrote is kept by `init`, a second one changes nothing, the settings count; a search is exact, rewrites are found | sessions: 2 threads, 2 workspaces for 1 place, 2 files, disk budget of 1 entry, 2 builds, 1 edit, 1 fault; reports: 4 projects of 1 to 4 files in 2 languages (each of the 46 rules has a finding), 2 to 5 configurations each, 6 command lines, 2 steps; setup: 2 agents, 2 inits, 1 event; index: 2 processes, 2 runs, 1 crash, 2 files |
| `setup_rerun` | counterexample to "the configuration stays" | 2 inits, a project configured in `pyproject.toml` |

Why the bounds are enough to be of use: every limit in the code is reached (slots
full, permits taken, response queue full, branches pruned, repeat limit hit and
deferral expired twice), every pair of actors can interleave at every point the
code lets go of what it holds, and there is one crash or failure at each point.
Findings, files and roots are independent of each other in the code, and a
property that needs a second one has it (duplicate files, three branches). Time
advances where the code reads a clock, in steps of the unit it compares.

Assumptions of the passing runs: `MidScan = FALSE` in `baselines`, dropped by
`baselines_checkout`. Clocks show whole seconds, and processes may read the same one.
`ResolvedOnce`, `ReintroductionsPaired` and `RecaptureDiffsForward` except branches that
were `raced`: a recording was given the very second that a rescan of the branch compares
with, and the rescan had scanned by then; `save_fingerprints_if_current` takes the
recording for the baseline it knew. The run reaches such states, and without the
exception TLC refutes each of the three there. Recordings that share a second otherwise do no
harm. `ReintroductionsPaired` and `RecaptureDiffsForward` are claimed while nothing crashed;
`IndexedHasData` for branches whose pruning no crash interrupted (a crash between
`remove_file` and the index leaves an entry that reads as a clean repository);
`NoRepeatBlock` and `BoundedNagging` while no lock timed out and no reply was
lost; `SettledIsFresh` in a workspace whose roots are disjoint. In `analyses`: trees in
which every file has its node, that is, parses and has a module name of its own
(`Whole`; `CyclesAreExact`, `NothingUsedIsDead`); no import of a module missing from
a package that exists (`Dangling`; test selection); no pure rename and no import
that means another file since the change (`Retargeted`; `IntroducedIsKept`). The
thresholds for registrations and unimported directories are 2 where the code has
5, so that a tree of a few files reaches them.

### Fairness

* `LspScheduler`: scan threads run and end, the channel delivers, the loop takes
  what is ready, the client reports what was saved. Threads are the system's,
  the channel unbounded, and `select!` picks a ready branch at random. Events are
  bounded, as "once saves stop" requires.
* `McpServer`: weak fairness for every task and step of the runtime, since tokio
  schedules each; strong fairness for reading a frame and for heeding the signal,
  since `select!` tries its branches in random order and a tick may be in between;
  recapture and flush return; what is written to a client that reads, or has left,
  gets there or fails. The client is not assumed to read, to leave or to close, nor
  work to end: a timeout must do. `RequestsAreAnswered` excepts the client that reads
  no more, `SignalStopsServing` the loop whose own answer waits for it.
* `Baselines`, `Gate`, `Metrics`, `ScanSession`, `Checkout` and `Copies` promise nothing under fairness: a recapture that does
  not happen is a loss of accuracy only, each call of the gate is one request, events
  that are never flushed are lost by design, and an analysis is a function (`Review` likewise).

### Disagreements found

Each is the single property of its run, and described in `PROJECT.json`:

1. `record_scan` is told the branch after the scan: a checkout during the scan
   files its findings under the other branch.
2. The gate takes findings that are out of a report's scope for fixed, and calls
   them regressions when the scope includes them again.
3. Stitching merges two occurrences of an idiom with one and the same follower: the
   merged occurrences overlap, the class is dropped, and the follower's copies are
   reported nowhere.

4. A second `init` of a project that `pyproject.toml` configures writes a `sensez.toml`,
   which takes precedence: the configuration in force is not the user's any more.

One more has no run: `serve` heeds SIGTERM at once (`SignalStopsServing`), while
`mcp/server.rs:3` says that a long scan does not delay SIGTERM. The process itself stays
while a request's work runs or the client keeps stdin open, since the runtime that
`serve_mcp` drops (`cli.rs:105`) joins its blocking threads; in `McpServer` it is the
guard of `Exit`.

Nor does `mcp/server.rs:3-4` ("Requests therefore never block each other or the
shutdown signal") hold for a client that stays and reads nothing: the writer waits for
stdout, the response queue fills, and the loop's own answer (`send`, `server.rs:228`,
for a busy or malformed request) waits for room outside `select!`. Until that client
leaves, no signal is heeded. `SignalStopsServing` names that state, `WaitsForReader`, and
shows that nothing else keeps the loop from the signal.

A flush that cannot have `flush.lock` drops what it drained (`flush.rs:13-16`), so
`server.rs:5` ("a final flush on any exit path") does not mean that every event is
written. `AnsweredIsFlushed` says what the code gives: when the process ends, the events
of every answered request have been through a flush that wrote them or had to drop them,
and none was in a batch that vanished with it.

The tick of the MCP server also awaits recapture and flush inside its `select!`
arm: until they return no frame is read and no signal heeded. `mcp_server`
assumes that they do return.

### Known gaps of the analyses

What the analyses miss by construction is excluded from the properties by name, or
kept out of the repositories of the run:

* Importing `pkg.sub` runs `pkg/__init__.py`, but no edge leads to it
  (`profiles/python/resolve.rs`): a change of it selects no test that imports the
  submodule only.
* Of two files with one module name, in two languages or under overlapping roots, the
  second has no node (`spine/graph/builder.rs:27`).
* Whether `from pkg import sub` names a submodule depends on external names that
  imports of earlier files made (`spine/graph/builder.rs:206`).
* A file that was only renamed has no hunk, an untouched import that means another
  file now is not in the diff, and a finding about a whole module names several
  symbols at once, which no removed line does (`diff/filter.rs:71`).
* `import type * as ns` asks for nothing: what is used so is reported, with medium
  confidence (`dead_code/demand.rs:139`). The repositories of the run have no such import.
* `import pkg.core; pkg.core.run()` credits `core` and not `run`.
* A method or property that is only accessed through a receiver typed as a subclass is
  not credited to the class that declares it (`extra/usage.rs:229`), and is reported as
  dead with high confidence. `UsedMembers` leaves inherited members out.
* A property that only a file of an entry glob reads is reported, where a method is not:
  the two passes are given different files (`dead_code/mod.rs:75`, `:88`).
* A name has one class in a file (`extra/usage.rs:147`): parameters of one name in two
  functions overwrite each other in the order of a hash map. In the repositories of the
  run a file types a name once. Of a type that names several classes the first counts.
* The longest open tail of any copy, even of one in an accepted file, trims all copies
  of its class, which may take a closed one below the threshold
  (`duplication/open_tail.rs`).
* A class that absorbs another may end up with occurrences that overlap
  (`duplication/consolidate.rs`).
* A setup file that loads an asset, matches a glob or has an import that cannot be resolved
  makes the plan no full run when those change: `setup_fallback`
  (`reflexez/setup_trigger.rs:7`) follows the edges between modules only, where
  `docs/usage/reflexez.md` says "or anything they import". `SetupLoads` counts what a
  setup file imports.
* A path in `[accept]` matches whole path components, not any substring.
* `git diff` pairs a deleted with an added file from 50 percent of similarity
  (`diff/git.rs:129`); `Renames` pairs files of equal content only. No edit of the instance
  leaves a deleted file that is similar to an added one without being equal to it.
* A declaration file (`.pyi`, `.d.ts`) that does not parse hides no tests
  (`reflexez/selector.rs:131`); `HidesTests` leaves this exemption out, and the repositories
  of the run have no declaration file.

### Known gaps of the smells and their reports

Seen while modelling; the properties of `workspace` exclude them by name, or do not claim
their contrary:

* `clear` (`mcp/tools.rs:201`, "remove a previous verdict") matches the findings of the
  aged store only (`triage.rs:60`), and that is rebuilt from the suppressed report
  (`aging.rs:32`): after the next recorded scan a hidden finding can no longer be
  cleared by its label. In `Review` it is why `Mark` picks from `seen.report`.
* The report of a change may miss a smell the change brought: a data clump and a sibling
  helper stand at the first function that has it, repeated iteration at the first pass,
  n+1 calls and weak oracles follow helpers the diff need not touch, and shotgun surgery
  and inappropriate intimacy stand at line 0, which no diff touches.
* `mocked_subject` is named after the first name a test calls the module by, and
  `implicit_schema` follows the last function of a name (`implicit_schema.rs:81`):
  moving code renames or moves the finding (`OrderFree`).
* Of several functions of one name in a file the last is the declared one (`IsDeclared`):
  moving them may change which of them is a helper or a copy of a utility. No finding of
  the repositories of the run depends on it.
* A shotgun-surgery finding takes the place of a god-module finding (`graphy.rs:54`),
  overlapping clumps are merged into one that need not recur as a whole
  (`clumps.rs:114`), and the similarity of two helpers is asked at the threshold of the
  language of the first: hence `Covers`, and the fields in `Kept`, which a stricter value
  of may lose findings (`sibling_helper_min_lexemes` joins helpers by wrappers,
  read prefixes and providers are matched longest or first).
* `length_ceiling_percent`, called an upper bound (`lexeme_similarity.rs:19`), is not one
  by rounding: lengths 19 and 24 have the ceiling 79 and may be 80 percent similar.
* `swallowed_error_sentinel` exempts commented handlers that only log, unless strictness is
  high (`explained`), but such handlers are reported only when it is.
* An action set by a rule wins over the policy only where it differs from the action of
  the finding's severity (`noze/mod.rs:104`).

### Known gaps of the index and of setup

* The version of a cache is the constant `MODEL_ID` (`eyez/embed.rs:13`): another model under
  `SENSEZ_EYEZ_MODEL_DIR` or another revision keeps the old vectors. `IndexAssumption`
  excludes it: what an older version left and this one accepts has the same vectors.
* Texts are told apart by a hash; collisions are excluded.
* `install` replaces a whole group of hooks that has the gate in it, what else stands in
  the group included, and only the first such group.
* `--no-metrics` changes nothing in a `sensez.toml` that exists.
* `[tool.sensez` in a comment counts as a configuration (`contains`), a `tool.sensez` that
  is not a table as the defaults, and a section appended to a `pyproject.toml` whose
  `tool` is an inline table makes it unparseable; the instance has no such file.
* Files are written in place: a crash leaves an empty or cut file, and what another
  program writes between `init`'s reading and writing is lost (`lost` excuses both).

## Proofs

`LspScheduler_proofs` holds, for every set of roots, every number of slots, every
set of files and without the bound on events mattering:

* `PoolCorrect`: `TypeOK`, `SlotsMatchScans`, `PoolWellFilled` and
  `SupersededIsPending` are invariants of `Spec`. They are inductive together
  (`PoolInv`, theorem `PoolSafe`) and not each by itself: a slot is freed by a
  result, so that the pool stays filled needs that a running flag has exactly one scan. The proof has
  a lemma on what the greedy choice `FirstFree` fills (by counting), one for
  queueing a set of roots, and one for each handler.
* `SettledFresh`: assuming disjoint roots, `SettledIsFresh`. The strengthening
  `ResultsAreFresh` says of a finished scan of the current generation that it
  found what is there now, unless a save is unreported; a save of another root's
  file changes nothing for a root (`FindingsLocal`).
* `EditorAgrees`: `ShownIsPublished`, with the invariant that what is published
  and what scans found lies under the root. It does not need `PoolInv`.
* `SchedulerImplementsPool`: every step of `Spec` is one of `ScanPool` or
  stutters under the mapping `JobOf`.

They rest on the named assumptions of `LspScheduler` about its constants: roots
are finite and totally ordered by path, at least one slot, every file is under the
root that owns it.

`McpServer_proofs` holds for any finite set of frames, any number of permits and
places in the queue:

* `TypeCorrect`: the types, and that the queue and the permits are never overdrawn
  (by counting who holds one).
* `AnswersOnce`: `AnsweredOnce`. That no answer was received twice is not inductive:
  `OnceInv` says that a frame is in one place at a time (unread, with a handler, in the
  reply of the loop, in the queue, received), and the proof shows for every step which
  place it leaves.
* `ResultsAreFlushed`: `AnsweredIsFlushed`. `FlushInv` follows a result back: it was
  recorded before it was answered; a flush takes it from the hub to its own batch, which
  was empty, and from there it is written or dropped, so it is in one of the three
  until the end; the batch of a call is empty unless that call is flushing, for which
  the process waits; and the writer has ended before the last drain, so no answer is
  received after that. Any number of calls may flush at a time.

`Gate_proofs` holds for any sessions, branches, findings, lines, limit and expiry:

* `TypeCorrect`: the types; a scope never holds a finding as blocked and as fixed.
* `SuppressedIsTold`: `SuppressedWasTold`. State that a session rewrites without
  the lock may be an old copy, so `HeldInv` speaks of every such copy as well as of
  the file.
* `UnchangedBlocksOnce`: `NoRepeatBlock`. `StandingInv` relates what stands to the
  report that a scan would give now, because a report in flight may be older.
* `NaggingIsBounded`: `BoundedNagging`. `CountInv` relates the counter and the
  deferral of a key to the number of blocks, before and after the one expiry.

`Metrics_proofs` holds for any processes, events, verdicts and log:

* `NoVerdictLost` (`VerdictsKept`): whoever is between reading and writing
  `triage.json` holds its lock, and what it has read is what the file says.
* `NoEventCountedTwice` (`CountedOnce`). The sum is not inductive without `TallyInv`: the
  holder of `flush.lock` alone has read the totals, what it is about to save are the
  totals plus its batch, and each step moves events between queue, batch, totals
  and losses, so that the balance of the bags stays.
* `NoisyIsEarned` (`NoisyNeedsEvidence`): from the same balance, by which the totals hold
  of each kind of event no more than was recorded.
* `LogBacksTotals` (`RecentIsLogged`). `LogInv` says that a batch is written before it is
  counted, that a crash leaves one torn line and that line costs one event, and
  that compaction keeps as many as a report reads (`Window <= Kept`).

`Baselines_proofs` has, for any processes, branches and findings:

* `IndexKeepsData` (`IndexedHasData`), a crash at any point included. `DiskInv` says
  what is on disk after each durable step of `commit`, and that only the holder of
  the lock is between two of them: what is pruned is decided twice, by files and by
  index, and both decisions see the same index.
* `CountedAtMostOnce` (`ResolvedOnce`), `ReintroductionsAnswerResolutions`
  (`ReintroductionsPaired`) and `RecapturesDiffForward` (`RecaptureDiffsForward`), with
  nothing assumed of the clocks but that they show a second. `HistoryInv` relates the
  history to what is on disk: on a branch that is not raced, a recapture
  whose stamp is still the index's has seen what the branch holds, so that what it
  resolves was recorded and not resolved since; the lock keeps everybody else out
  between the comparison and the index. `NotOvertaken` is the step where it matters: a
  commit under a rescan of its branch stamps another second than the rescan expects, or
  races the branch. That two processes may mark and stamp the same second needs no
  exception: a rescan that has not scanned yet will see what was recorded.

`NoCrossDiff` is only model-checked: with `MidScan = FALSE` it follows step by step from
the branch a task carries, and without it `baselines_checkout` refutes it.

`Workspace_proofs` holds for any threads, builds, files, contents, places, processes
and caches. Of the sessions:

* `ReuseIsFresh` (`ReusedIsFresh`). `FreshInv` says of every fact that is kept, in a
  workspace, in a state that a scan took before the workspace was evicted, on disk, or in
  a child, that it is what its build makes of its file and content. A new workspace gets a number
  nobody has, of which there is one by counting.
* `EvictionIsSparing` (`EvictionSparesOwn`). `Store` and `Evict` fold over the entries of
  a scan; what the folds keep is proved for all of them.

Of `init`, under `SetupAssumption` (the agents are known ones, the documents of the
instance well-formed):

* `InstallsKeepMine` (`MineIsKept`): `RunInv` says that a run has left to do what its plan,
  or the server, has to; `HeldInv`, that what it is about to write over is still what it
  read, or counts as lost. What each step makes of a document has the user's part in it.
* `InstallsOnce` (`RerunChangesNothing`): what a run has passed is settled, while nobody
  else writes (`InitSettled`); what the last complete run did stays settled
  (`LastSettled`), the next one has the same plan (`SamePlan`), and the server writes only
  where nothing is (`ServerWrites`). A step that is settled is skipped or writes what is there.
* `SettingsNeverVanish` (`SettingsCount`): each setting of the file in force arrives, or the
  report has an issue. The assumption leaves out a `pyproject.toml` whose `tool` is an inline
  table, which `init` breaks.

Of the search index, under `IndexAssumption` (well-formed files and trees, a likeness in
percent, what older versions left has vectors of its own texts), which TLC
evaluates in `MCWorkspace`:

* `SearchIsExact`: `IndexIsExact` of `SearchIndex`. Every operation is a suffix of one
  script of steps; `IndexInv` says what a run has at each place of it (`InPlace`), and that whatever
  decodes, in a cache or in a file beside it, is a whole cache whose vectors are of their
  texts by the whole model, so it does not matter whose cache is found.
* `RareItemsSuffice`: two sets alike enough have a common item among the rarest ones of each,
  as many as `prefix_len` says. The rarest common item is: if it came after the prefix of
  one set, too few items would be left to share.
* `ScanFindsRewrites`: `RewritesAreFound` of `SearchIndex`, from the two: the pairs that are compared are
  those that qualify, and they are compared by the right vectors.

Of the reports, under `OptionsAssumption` of `Workspace` (a limit is a number, a level to fail
by one of the levels or none):

* `FailuresAreShown`: `FailureIsShown` of `Review`, in every state whose report is finite with
  levels for actions (`Graded`; a list of an enumeration in the code, and a part of
  `Reports!TypeOK`, which the run checks). `Orders` are the sequences in which no finding has
  one behind it that comes ahead by trust and level: inserting a finding after those that
  are not behind it stays in order, so ranking does, whatever `FoldSet` takes first (`PutInOrder`,
  `RankedInOrder`). The first of a kind stays (`FirstStays`), and as a kind is noisy or
  not, it has the best level of its kind. What the 46 rules find is not opened.

`Checkout_proofs` holds for any files, names, texts and repositories, as many edits as one
likes, under the assumptions of `ImportGraph`, `TestImpact` and `Checkout` about their
constants (paths and texts are lists, tests and setup files are sources, assets are not).
Its one state invariant is `TreesInv`; the work is in what the analyses compute:

* `Reach` is the least set that the pairs do not leave. `Start`, `Follow`, `Visit` find
  what a breadth-first search finds, each by an edge; unwinding from the closing edge
  ends at the start and passes no module twice, so the loop shown is real
  (`CyclesOfTheGraph`, in any tree whose files have their nodes). The components of a
  phase are the groups of modules that reach each other.
* Building the graph is one long growth: each import adds edges that it may have, and
  those that it must have to what is known by then are there from then on. At the end,
  an edge is of an import that takes something of the file it leads to, and a file of
  which an import takes something has an edge, if no import dangles. So the graph's links are the imports'.
* `CyclesExact` is `CyclesAreExact`.
* `IntroducedKept` is `IntroducedIsKept`. git's hunks show every statement that is new or gone;
  a component whose files have no new statement was within one of HEAD, because each of
  its edges is of an import that meant the same file there.
* `SelectedAffected` is `SelectedAreAffected`: a step of the walk back along an edge is, read
  forward, a file that runs another.
* `TestsSelected` is `AffectedTestsSelected`: an unchanged file that runs something changed, or
  something the walk has reached, is reached itself, whether it does so in the working
  tree or in HEAD; and setup files load nothing changed unless the plan is the whole suite.
* `NothingUsedDead` is `NothingUsedIsDead`, in trees that are `Regular`. What an import takes of a
  file is on an edge to it (`TakenIsAsked`), what is asked of a file is passed on by its re-exports
  (`DemandIs`), so what production uses is asked of the file that defines it
  (`UsedIsAsked`); the walks from the roots reach what production runs (`WalkIs`). The
  classes below one are, by any class of its name, those the index has by the first
  (`BelowDescends`), so a member that may be accessed counts as used (`MembersCount`).

Each names what it presupposes. `ClearNames`: the name by which an import asks for a module
means one file at most, and that file has its node under it; no file is Rust, whose
`mod` statements load no file. `AssetsApart`: no file has the name of an asset.
TLC confirms that on the instance of `analyses` both hold in every state in which all files
that parse have their nodes, so the theorems cover what the run checks. `~Dangling` is
that no import asks a package that exists for a module it lacks; `CyclesExact` and
`IntroducedKept` need it because the name such an import leaves in the graph decides what
imports after it link (above, the third of the gaps).

`Regular` is `ClearNames` and no `Dangling`, and four more, which hold in every state of the
instance. `PlainImports`: only JavaScript and TypeScript have re-exports, which are literal, and
one of a file's own does nothing (`demand.rs:110`); no import of types takes `*`, which is no demand but
a lower grade (below). `TestsApart`: production runs no file of a test runner's, as the walk
counts what such a file asks as a test's (`demand.rs:84`). `DefaultsAgree` and `ClassesClear`:
definitions of one name in a file are all its default export or none, classes of one
name have one set of bases, and a file says one class of a name, since of several the
code takes the first or the last it meets.

`RecursionTheorems` has what such proofs need. The provers cannot instantiate the library's
induction theorems, whose parameter is an operator; induction is used in the form that
a set of numbers with 0 in it and closed under successor has all numbers in it, where
the property is a set. From it follow lemmas on recursive functions, on sums over sequences and on
flattening. A filter by `SelectSeq` tells the proof system nothing, so the models that are proved about filter with
`Those` of `Lists`, a recursive function.

These rest on the assumptions of the modules about their constants: a finite set of
frames, limits of at least one where the code has a positive constant, no value that
stands for "nobody" among the processes or the findings.

Only model-checked: liveness (`RootsComeToRest`, `ExitEnds`,
`RequestsAreAnswered`, `SignalStopsServing`), because the proof system does not
reason about fairness and ENABLED; and what is said of the duplicates and of what the rules of
the smells find. `FindingsAreExact`, `MovedKeepsAll` and `StricterCoversMore` compare what 46 rules
(`FunctionSmells`, `RiskSmells`, `SharedSmells`) make of facts of any depth with a definition of each,
with another order of the code and with other settings: rule by rule, and by induction
over nesting and chains of calls. Of the duplicates (`CopiesAreReal`, `CopiesAreShown`,
`RenamedAreShown`) there is no theorem for all constants to state: stitching, density and
absorption are heuristics, which find the copies of the instance, and the run `copies_stitched` shows that a
larger gap hides one. Conversely
`SlotsMatchScans`, `PoolWellFilled` and `SupersededIsPending` are proved in
`PoolCorrect` and not checked by a run of their own: `SettledIsFresh` and `ImplementsPool`,
which are, rest on them.

## Not modelled

Crawling, tree-sitter and the profiles' queries (what finds statements in a text),
the messages of the smells and what the profiles read into a type or a name, the glossary, the embedding model (`Likeness` of two texts is a
constant), rendering, the usage report and packaging. File-system errors other than crashes, lock timeouts and failed writes of
the metrics; panics of the LSP's scan threads; the set of noisy detectors that a process
keeps once it has computed it (`brainz/hub.rs:173`); modification times finer than the
free choice of what changed; HEAD in the LSP's changed scope; git configurations
that change the prefixes of a diff (`diff/parse.rs:55`). Nested workspace roots are part
of `LspScheduler` (a saved file rescans its deepest root only), but `SettledIsFresh`
is claimed, checked and proved for disjoint roots.

## Plan

1. **Usage and metrics report**, **glossary**: not modelled yet.
