# A verification project for retrieval-mcp

retrieval-mcp is a read-only MCP server that answers an agent's questions about
one repository: exact search, source reading, structural questions over syntax
trees, and concept search. Around it stands an experiment harness that runs
agents against it, records what they do, grades what they answer and compares
arms. This directory holds TLA+ models of the parts of both that are hard to
test, the TLC configurations that check them on small instances, and theorems
about them checked by TLAPS.

Paths are those of the repository; the Rust sources are under `src/src/`, the
README is `src/README.md`, the harness is under `src/experiments/`.

## The system

### The server (Rust)

| Component | State it keeps | Operations | Interacts with |
|---|---|---|---|
| Session and roots (`tools/mod.rs`) | the current session and a `stale` flag, behind one mutex | `session()`, `on_roots_list_changed` | asks the client for `roots/list` without the mutex; its session is what every tool reads |
| Call lifecycle (`tools/mod.rs`, `logging/mod.rs`, `main.rs`) | the count of requests in flight, the log, a timer over standard input | `call_tool`, `list_tools`, `InvocationLog::start`, `CallLog::finish` and `drop`, `DrainingStdin::poll_read` | rmcp spawns a task for each request and stops at end of input |
| Exact search (`search/lexical.rs`) and the response cap (`fit_response`) | none between calls; per pattern, rows and a skip count within one | `Ripgrep::search`, `Collector::matched`, `fit_response` | the client follows `next_offset` from page to page |
| Index build (`index/mod.rs`) | symbols, references, imports, coverage and budgets, within one build | `StructuralIndex::build`, `parse_batch`, `skip` | scoped threads share a batch; every structural answer reads the result |
| Dependency traces and the other structural queries (`index/mod.rs`) | none between calls | `trace_dependencies`, `find_symbol`, `find_callers`, `inspect_symbol`, `Retrieval::scan` | each builds an index of the files that name what it asks for |
| Concept ranking, backend process, vector cache, source reading | one child process per call; two files and a lock file of an example backend | `search_concept`, `process::run`, `Snapshot::load` and `save`, `Workspace::read` | not modelled, see below |

### The harness (Python)

| Component | State it keeps | Operations | Interacts with |
|---|---|---|---|
| Agent session (`benchmark.MCP`, `comparison_gate.py`, `policy_gate.py`) | a queue of messages, a request number, budgets, two logs | `request`, `serve`, `call`, `calls_of` | sits between the agent and one or more servers; killed with the agent's process group |
| Proxy servers (`compose_server.py`, `degrade_server.py`) | the plan being run; the order drawn for each page | `run_plan`, `relay`, `pump`, `degrade` | sits between the agent and one server |
| Trial runners (`factor_runner.py`, `competency_runner.py`, `benchmark.py`) | a directory: lock, manifest, plan, attempts | resume, retry, launch, record | spawn agents; servers may outlive them; `analyze_factors.py` reads the directory |
| Comparison study (`comparison_runner.py`, `analyze_comparison.py`) | prepared trees, plan, trial records, status file | `prepare`, `run`, the eligible pairs | one tree per arm, or links to one tree per question |
| Server log analysis (`analyze.py`) | none | `analyze_events`, `analyze_directory` | reads what several server processes appended |
| Agent wrappers, transcript replay (`codex_wrapper.py`, `opencode_wrapper.py`, `end_to_end.py`, `closure_audit.py`) | none | translate and replay a client's event stream | three clients, three streams |
| Graders (`benchmark.grade_answer`, `audit_answers.py`, `quality_pass.py`, `notation_diagnostic.py`, `regrade.py`, `audit_failures.py`) | the score in each `run.json`, the list in `regrade.json` | grade, report, regrade in place | five readers of the same reply |
| Suite builders (`commit_suite.py`, `study_b.py`, `audit_failures.py`, `validate_suite.py`, `locbench_suite.py`) | trees on disk, questions | mine, attribute, validate, check out, deduplicate | each reads a corpus pinned at a revision |
| Suite gates (`lexical_oracle.py`, `tool_reachability.py`) | what a crawl has seen | crawl, execute a path | questions that pass are asked |

The rest - configuration, the command line tool, per-language syntax extraction,
statistics and tables, the installer - keeps no state across steps or is pure
I/O. `PROJECT.json` lists every component with its status.

### What is hard about it

* **Interleaving.** Calls run at once; the session is resolved between two
  critical sections; notifications run on tasks of their own; index threads
  finish in any order; agents make several calls in one message; two runners may
  be started on one directory.
* **The end.** A client that closes its end races replies that are owed. A
  harness kills the agent's process group while a gate is between two writes,
  and servers in groups of their own go on writing.
* **Crashes.** Runners, regrades and suite builds are killed anywhere and
  started again over what they left, half-written files included.
* **Budgets and clocks.** A build stops on files, bytes, records or time, and
  must say so. An answer that comes after its deadline is still in the queue.
* **Pages.** `next_offset` is the only state between two pages.
* **Two readings of one thing.** The text and the structured form of a page, two
  logs of a call, five graders of a reply, a question's corpus when it was built
  and when it is asked.

### What makes each component correct

* Session: a call never reads a root older than a notification handled before
  it began; `--root` is never left; an unchanged root never costs the warm
  session; a silent client cannot hang a call.
* Lifecycle: each call is logged once on either side; work that began in time is
  not dropped; the process stops.
* Exact search: a batch gives each pattern what it gets alone; pages followed to
  the end give every row, once.
* Index build: what one thread with no clock would build, or an answer that says
  what is missing. Traces: the calls within so many hops, each at its shortest
  distance, although no round reads the whole repository.
* Agent session: the body an agent gets for a call is the answer to that call;
  what it was told is on record when it is told; every request ends.
* Proxies: replies in order and to their own requests; a plan that stops hands
  back what ran; both forms of a page are damaged alike.
* Runners: a trial is accepted at most once, in its newest attempt, and never
  run again; what counts as eligible ran on the pinned repository.
* Comparison: "complete" speaks for every trial; no arm's writes reach another.
* Analyses: what a program concludes from a file agrees with what happened,
  whatever the file lost.

## The modules

| Module | Models | Checked by | Proofs |
|---|---|---|---|
| `SessionRoots` | `session()`, `resolve_root`, `client_root`, `on_roots_list_changed` | `MCSessionRoots` | `ServerSessionProofs` |
| `CallLifecycle` | `call_tool`, `list_tools`, `InFlight`, `CallLog`, `DrainingStdin` | `MCCallLifecycle` | `ServerSessionProofs` |
| `ExactPaging` | `Ripgrep::search`, `Collector::matched`, `pagination`, `fit_response` | `MCExactPaging` | `ExactPagingProofs` |
| `IndexBuild` | `StructuralIndex::build`, `parse_batch` | `MCIndexBuild` | `IndexBuildProofs` |
| `TraceDependencies` | `trace_edges`, both `trace_dependencies`, `files_naming` as they use it | `MCTraceDependencies` | `TraceDependenciesProofs` |
| `GatedSession` | `benchmark.MCP`, both gates, `calls_of` | `MCProxyServers` | `ProxyServersProofs` |
| `ComposeServer` | `compose_server.py` | `MCProxyServers` | `ProxyServersProofs` |
| `DegradeServer` | `degrade_server.py` | `MCProxyServers` | `ProxyServersProofs` |
| `TrialLedger` | what a directory of trials promises: the abstract specification | through `ResumableTrials` | - |
| `ResumableTrials` | `factor_runner.py`, `competency_runner.py`, `benchmark.py`'s run, `analyze_factors.py` | `MCResumableTrials` | `ResumableTrialsProofs` |
| `ComparisonStudy` | `comparison_runner.py`, `analyze_comparison.py` | `MCComparisonStudy` | `StudyTrialsProofs` |
| `ToolLog` | `logging/mod.rs` as a file, `analyze.py` | `MCAnalyses` | `AnalysesProofs` |
| `Transcripts` | the two wrappers, `transcript_outcome`, `end_to_end.py`, `closure_audit.py` | `MCAnalyses` | `StudyTrialsProofs` |
| `Answers`, `GradedRun` | the graders; the life of a score under `regrade.py` | `MCAnalyses` | `AnalysesProofs` |
| `SuiteCheck`, `MinedSuite` | `validate_suite.py`; `commit_suite.py`, `enclosing`, `true_callers` | `MCAnalyses` | `AnalysesProofs` |
| `LocbenchSuite` | `locbench_suite.py` | `MCAnalyses` | `AnalysesProofs` |
| `SuiteGates` | `lexical_oracle.py`, `tool_reachability.py` | `MCAnalyses` | `AnalysesProofs` |

`MCProxyServers` and `MCAnalyses` put several programs that never talk to each
other under one chooser, `proxy` and `program`: a variable fixed in the initial
state that says which of them runs. The others stay in one initial state, so the
state space is the sum of theirs and not the product. Where programs do interact,
one module holds both: the gate, its client and the upstreams; the runner, the
orphan servers and the analysis; the miner, the corpus and the checks.

`PROJECT.json` maps each definition to its lines. Operators whose names say what
went wrong (`RootsListChangedIgnored`, `SkipOneMore`) sit before the definition
they vary and are used by no specification: they are plausible bugs, and every
property of every passing run fails when one of them takes its definition's
place.

### SessionRoots

`current` and `stale` are the two fields of `SessionState`. A session is a
directory and a generation; the generation tells one `Arc<Session>` from the
next, so that a warm session kept can be told from an equal one made anew.
`TakeSession` is the first critical section of `session()` when it returns,
`AskClient` when it does not, `Adopt` the second one; between them the mutex is
free. `ClientAnswers` and `ClientMoves` are the client's. A notification is
handled at any time after its move and in any order (`pending` is a set),
because rmcp gives each one a task of its own. `Cancel` drops a call wherever it
waits.

`told`, the history of what the client has reported, is what freshness is stated
over. `since` and `heard` record what had been handled when a call began, and
`asOf`/`via` how its session was last confirmed: in a round trip that raced a
notification, or in silence. `FreshCall` exempts these two; `NextCallResolvesAgain`
does not exempt the race, because the documentation does not, and fails.

### CallLifecycle

`req` follows each request from the pipe to its reply. `Read` leaves it with a
task that has not yet run, which is the gap the 50 ms grace is for; the model
puts no bound on how long a task may wait, so the grace may be over first.
Handlers that begin after the end of input has been passed on are recorded in
`late`. The code between two awaits of a handler is not one step: `Enter`,
`LogStart`, `LogEnd` and `Return` are separate because another thread can read
the count or the log between any two. `DropTask` is the runtime dropping what is
left after `main` returns, which can happen only at an await: before the handler
starts and in the `select!`. The drop of `CallLog` writes the missing record and
the drop of `InFlight` lowers the count.

`Stop`, `Read`, `ReadCancel` and `WriteReply` are rmcp as the code relies on it;
they are marked external in the map.

### ExactPaging

A corpus gives, per file and pattern, the matching lines as grep-searcher reports
them; a line is `text`, `bytes` (not UTF-8) or `huge` (a row that alone exceeds
the cap). `file`, `pattern` and `line` are the place of the walk, `hits` and
`seen` the `pages` vector of the code. The actions from `Skip` to `Collect` are
the branches of `Collector::matched` in their order. `Reply` joins the tail of
`Ripgrep::search` with `fit_response` and the client that asks for `next_offset`
until `has_more` is false. `Page` is the patterns' `Pages` one behind the other
(`Joined`), so what the client gets of a pattern (`RowsOf`) is a stretch of what
was kept. The cap of 64 KiB is `Cap` rows. A file
that cannot be read contributes no lines, and one that turns out binary the lines
before its first NUL, as the code's `Err(_) => continue` and `quit` have it.

Three things are stated only as far as the code keeps them. Rows that are not
UTF-8 are counted by `seen` when they come before the offset and not when they
come after it, so a client may receive a row twice: `PagesFollow` (each row once)
holds where every match is UTF-8, `NothingLost` everywhere. A page of several
patterns that was trimmed (`cut`) loses rows, which `TrimmedPageResumes` shows.
And an offset past 10000 is refused: such a run ends in `failed`, where
`NothingLost` claims nothing.

### IndexBuild

A file is a record of what `build` tells apart: readable or not, how its parse
goes, bytes and records. `ParseFile` is one file in one thread, `ParserPanics`
the thread's end; `Join` takes what the next thread in line returned, once that
thread is at its end, as the loop over the handles does;
the four merge actions are the branches of the loop in `build`. Time is one
flag, `late`, that may rise at any step; a batch that began in time has a
`remaining` that is handed to each file and started anew, so a parse can run out
only when the deadline of the whole build has passed (`Outcomes`).

`OneThread` is the merge of one file after another with no batches, threads or
clock; `LikeOneThread` compares the two. `lost` holds the files of panicked threads, on
which `AbsenceSaid` claims nothing, because the code loses them:
`PanicIsSkipped` shows it (`IndexBuildPanic.cfg`).

### TraceDependencies

A repository is a sequence of files in walk order, a file the sequence of its
call sites; a site has a caller (or `None`), a callee and a line. A call of the
tool is a sequence of rounds: `Scan` selects the files that write one of
`names` (`index`, a set, since they are merged in walk order anyway), `todo`
holds the places of the name at hand that are still to be followed, taken in the
order of files and lines, `Pop`, `PassSite`, `Follow` and `WalkEnds` are the loop of
`trace_edges` over them, and `Widen` or `Reply` is the body of the loop in
`Retrieval::trace_dependencies`. The client follows `next_offset`, and each of
its calls begins again with the root alone.

The reference is `CallsWithin`, reachability in the call graph: `ShortestFirst`
compares one walk with it over the files of its index, `RoundsConverge` the
answer with it over the whole repository. It speaks of the first page only. A
later page grows its names
from the edges past its offset, and `PagesConverge` shows it losing the rest of
the trace.

### GatedSession

`at` is the place of `serve()` in the request it has taken up; `messages` is
each client's queue, in which an answer later than its deadline stays
and is passed over by `Discard` when its number is not the one awaited. The end
of an upstream is put there once (`EndOfStream`), so a later request ends
by its deadline. `Killed` may come between any two writes: `responseLog`,
`attemptLog` and `got` (what the agent was told) are separate for that. `kind`
chooses the comparison gate or the policy gate, whose order and budgets differ.

### ComposeServer, DegradeServer

`doing` is the place of `main()`: reading its input, in a plan, in a call of a
plan, relaying. `wire` and `output` are the server's two pipes; `ServerAnswers`
and `ServerSpeaks` are the server, and `Forward` is the branch that hands the
client what was not awaited. `ran` is history: the steps the server did answer.
A server that asks the client something while the proxy awaits an answer would
wait forever, because the proxy reads nothing meanwhile; `Responsive` is claimed
of a server pinned by `--root`, which asks nothing.

`DegradeServer` has the two copying loops and the damage (`Orders`, `Keep`,
`Blind`) of a page as rows and as the text rendered from them. `SameDamage`
compares the two forms after it. A page is its rows and the text the server
rendered from them (`Rendered`); a row always has a path, and no page claims
fewer rows than it holds.

### TrialLedger, ResumableTrials

`TrialLedger` is two variables: how often a trial was tried, and which of its
tries is accepted. `ResumableTrials` is a directory on disk - `manifest`, `plan`,
`tries`, `record` - and runners that read and write it in steps; `KeepsLedger` is
the instance of the ledger with `tries` and the completed records. A crash may
come between any two steps and within a write (`torn`), since `write_json`
truncates first. `serving` are the servers left behind by a killed agent, which
go on logging into the attempt. `harness` chooses which of the three programs
fills the directory: only `factor_runner.py` resumes and retries.

### ComparisonStudy

A tree is a version; `prepare` gives each arm a copy or, when the suite pins a
corpus per question, links to one tree. `writers` is history: the arms whose
servers wrote into a tree. A trial's server tries to write, `Reached` says which
trees it reaches. `failures` and the breaker skip an arm after three failures (two
in the instance). What the model leaves out is an exception in the `finally`
block of a trial (`comparison_runner.py:692`, a torn `calls.jsonl`), which ends
the run without a status file.

### ToolLog, Transcripts

`ToolLog` writes a log as the server writes it, calls overlapping, killed in the
middle of a line and continued by a later process, and reads it as `analyze.py`
does. `served` and `known` keep what the server did and what had been answered
when a call began; the two properties compare the conclusions with them.
`BlamesThePast` is evaluated in a question's first trial only: each trial starts
with an empty log, so the logs of the first are all there are.
`Transcripts` lets an agent work in messages of several calls whose results come
back in any order, writes the stream each of three clients would write, and runs
the wrappers and the replay over it; `said`, `spent`, `returned`, `touched` and
`failure` keep what the agent did. The programs read a stream by picking events
at positions (`Picked`, a recursive function), because the library's
`SelectSeq` is defined by a recursion the prover cannot unfold.

### Answers, GradedRun

A reply is a sequence of segments - prose, an object in the text, a fence - and
a claim is what the graders read of a written symbol. `GradedRun` lets models
write any reply of up to three segments to one question and of one to the
other, grades it, and regrades it under another table of definitions, one
`run.json` at a time, dying between any two.

### SuiteCheck, MinedSuite, LocbenchSuite, SuiteGates

`MinedSuite` writes every small Python file by indentation, pins it, changes it by
commits and mines them; `Scope`, the block structure of the grammar, is the
reference for `enclosing`, which reads upwards. `SuiteCheck` is the compiler of a
question, over an oracle of callers, with the loader of the comparison runner and
the failure audit's word on a gold, which must agree with it. `LocbenchSuite`
checks out a tree per row, links equal files and compiles against what is on
disk, killed and restarted anywhere. `SuiteGates` lets the crawl loose on a question and executes the paths
an author proved; where the code orders its moves by counts the model takes any
of the best, so what holds of it holds of every count.

## The runs

| Run | Distinct states | What it shows |
|---|---|---|
| `session_roots` | 331 thousand | freshness, the pin, the warm session and the deadline, two calls and two moves |
| `session_roots_lost` | - | violated: a notification handled during another call's round trip is erased |
| `call_lifecycle` | 18 thousand | log, drain and stop, two calls and a listing |
| `exact_paging` | 315 thousand | every corpus of two files and three matches each for one pattern, two each for two |
| `exact_paging_trim` | - | violated: a trimmed page of two patterns skips rows of each |
| `index_build` | 241 thousand | every list of four files of six sorts, in batches of three on two threads |
| `trace_dependencies` | 198 thousand | every call graph of three names over three files with a call each, and some larger ones, both directions, one and three hops |
| `trace_dependencies_pages` | - | violated: a page past the first ends a trace early |
| `proxy_servers` | 359 thousand | own answers, the record, order and liveness of the gate and of both proxies |
| `comparison_study` | 324 thousand | the status file and the isolation of arms, two arms on three questions |
| `resumable_trials` | 1.13 million | the ledger implemented, the primary attempt fixed, eligible attempts on the pinned repository; two runners, three starts |
| `analyses` | 665 thousand | the offline programs against what happened |

Four more configurations check a statement of the documentation that the code
does not keep; each finds its violation:

| Configuration (module) | Statement | What happens |
|---|---|---|
| `CallLifecycleOwed.cfg` (`MCCallLifecycle`) | `ReplyOwedIsCounted`: the in-flight count covers "the reply the framework writes after it returns" (`tools/mod.rs:788`) | the guard is dropped when the handler returns, before the reply is written |
| `IndexBuildPanic.cfg` (`MCIndexBuild`) | `PanicIsSkipped`: a panicked thread's files are left to "let the skip count say so" (`index/mod.rs:1998`) | they are neither indexed nor skipped |
| `ComparisonStudyDrift.cfg` (`MCComparisonStudy`) | `PairsOnSameTree`: the arms of a pair search the same tree | `run` fingerprints each tree anew (`comparison_runner.py:634`), so an edit between two trials goes unnoticed |
| `GoldWasModified.cfg` (`MCAnalyses`) | `GoldWasModified`: a mined gold is a definition its commit modified (`commit_suite.py:13-15`) | a pure insertion is attributed to the line before it (`preimage_lines`), also when what it adds lies outside that definition |

### Bounds, and why they are enough

* `session_roots`: two calls are enough for one to adopt between the two
  critical sections of the other, and for a call to begin after another has
  adopted. Two moves are enough for two notifications out of order and for a
  return to the first root; `MaxMoves` is the only bound on behaviour. The
  theorems have neither bound.
* `call_lifecycle`: each request is sent at most once, so the state space is
  finite with no bound. Two calls let one be in flight while the other is read,
  dropped or answered.
* `exact_paging`: limits 1 and 3, and 4 to be refused; a cap of two rows lies
  below the largest page, so that both a page that fits and one that is trimmed
  occur; `MaxOffset` lies below the matches of the largest corpus, so that
  `Refuse` occurs in the middle of a walk through the pages.
* `index_build`: a batch of three on two threads has slices of two and one, a
  fourth file makes a batch of its own that the caller parses itself. Three
  files, five bytes and four records can each be reached before the fourth file.
* `trace_dependencies`: three files with one call each hold every cycle and
  chain of three names in every order of the files, so that each hop needs a
  round of its own; the hand-picked graphs add two ways of different length to a
  name, several calls in a file and two on a line.
* `proxy_servers`: two upstreams and two requests are what a late answer needs to
  meet the wrong request; answers of size one and four against a budget of three
  are delivered or refused. Plans of two steps hold a reference to an earlier, a
  later and a malformed step; `MaxUnprompted` is one line nobody asked for, and
  `MaxLines` three of the client. `MCPages` holds each set of fields the server
  renders, up to three rows, with and without a raw tab.
* `comparison_study`: three questions let an arm meet its two strikes before its
  last trial; `MaxEdits` is one edit of any tree or binary.
* `resumable_trials`: `MaxStarts` three allows a crash, a resume and a rival at
  once; `MaxTries` three a retry of a retry; `MaxEdits` one edit and `MaxLines`
  one late log line of an orphan. The theorems have none of these bounds.
* `analyses`: two processes and two calls of a server (`MaxServed`) hold every
  overlap and a glued line; two messages of two calls (`MaxMessages`,
  `MaxCalls`) every order of results; two regrades and one death; Python files
  of four lines and two levels of indentation, with two commits whose messages spell one of the names; four rows that
  share two commits, and two kills (`MaxKills`); `Budget` is above the longest
  crawl, so that a crawl can run out of moves, and `MaxVain` is one failed call.

Deadlock is checked in every run on the Rust modules, where the next-state
relation says with an explicit stuttering step (`Done`, `Over`) that a behaviour
may end. The Python programs do end and say so by having no further step, so
their runs set `CHECK_DEADLOCK FALSE`; that none of them hangs is what
`EveryAskAnswered` and `Responsive` check instead. `resumable_trials` and
`comparison_study` use symmetry over model values that no definition chooses
among; the properties of these two are safety properties.

### Fairness

* `SessionRoots`: the tokio timer of `client_root` fires, and a call that has
  its answer or its session goes on. Nothing is assumed of the client: it may
  never answer, move or notify.
* `CallLifecycle`: the runtime schedules ready tasks, timers fire, rmcp's loop
  runs, and a tool ends because each tool has a deadline of its own. The client
  may send nothing and may never close its end. A tool blocked in the kernel is
  outside the model.
* `ExactPaging`, `TraceDependencies`, `IndexBuild`: the server goes on with a
  call; the deadline may never pass and the clock may stand still.
* `GatedSession`: the gate's own loop goes on, which includes its deadline on
  every request. Nothing is assumed of the upstreams or of the agent.
* `ComposeServer`: the proxy goes on, and a server that is up answers the
  requests it has (each of its tools has a deadline). It may die instead.
* The other modules claim no liveness and assume no fairness.

## The proofs

The theorems hold for every value of the constants that satisfies the named
assumptions, which TLC evaluates in the runs: any sets of calls, URIs,
directories, requests, runners, questions and arms, any number of upstreams,
lines, edits and starts, any files, batch size and number of threads, any corpus
and number of patterns, any call graph, log, reply, commit, tree and stream. Of
the bounds of the runs none is left: where one appears in a theorem it is any
number. The assumptions say little more than that numbers are numbers and what
shape the data has that the code reads:

* what the code counts or lists is finite: requests, a study's questions, the
  trials of a regrade, the files and call sites of a repository, the names of a
  mined corpus;
* `BuildAssumption`, `PagingAssumption`: files are a sequence of files; a corpus
  has a file and each of its files the matches of the same patterns, of which
  there is one at least (a call without a pattern is refused before it searches);
* `TraceAssumption`: a call always names what it calls;
* `PagesAssumption`: a page never holds more rows than it says there are;
* `LogAssumption`: the locations of an answer are a list of paths and lines;
* `GradedRunAssumption`, `LocbenchAssumption`: tables of definitions, rows and
  their edits are sequences, and every corpus asked about is in the table;
* `MinedSuiteAssumption`: no name is empty or the one the checks use for a wrong
  answer (`WRONG` in `validate_suite.py`);
* `TranscriptAssumption`: three clients, and `project_doc`, which the Codex
  wrapper reports in place of a tool, is not a retrieval tool.

Eight modules hold the theorems; three of them (`ServerSessionProofs`,
`ProxyServersProofs`, `AnalysesProofs`) and `StudyTrialsProofs` those of more
than one component.

**ServerSessionProofs, SessionRoots.** `RootsTypeCorrect` is the type invariant, inductive as it
stands. `WarmKeptAlways` needs no invariant: only `Adopt` replaces the session,
and `Adopted` makes a new one only for another root. `PinHolds` becomes
inductive with one clause more, that `stale` is never set under a pin
(`PinInv`): a pinned session exists from `Init` and is fresh, so no call asks.
`FreshCall` is far from inductive: it speaks of running calls, but what a call
will read is decided while it waits and while the shared session sits unused.
`FreshInv` adds four clauses: `since` never passes `heard`; a client that
declared no roots has reported none; an answer in hand, unless it is a silence
or a refusal, was the client's first root at some move not older than the
call's `since` (`FreshAnswer`); and a `current` that is not stale, race and
silence apart, is a root not older than `heard` (`FreshSession`). The proof is
one step per action; its core are `RootsListChanged`, which raises `heard` and
sets `stale`, so that `FreshSession` has nothing to say, and `Adopt`, which turns
`FreshAnswer` into `FreshSession` when `since = heard`, that is, when no
notification was handled meanwhile.

**ServerSessionProofs, CallLifecycle.** `LifeTypeCorrect` is inductive as it stands. For
`InflightCounts` each action either leaves the set of held handlers alone or adds
or removes one request, and the cardinality lemmas for finite sets do the rest.
`LogBalanced` is inductive with the type invariant and the type of `log`. `HeldToTheEnd` needs that a
stopped loop has had its end of input (`~up => input = "ended"`) and that the end
is passed on only with the count at zero, so that a handler running afterwards
began afterwards: it rests on `InflightCounts`.

**ResumableTrialsProofs.** `Correctness` is the inductive invariant `Inv`: the
types; that at most one runner of a directory is past its lock, or past the
`mkdir` that only one can win (`Exclusive`); that a runner at work stands at a
trial whose newest attempt is its own, unaccepted, and that every attempt beyond
`tries` is blank. No property could be proved without it: "accepted at most
once" is false of two writers. `Refinement` shows that each step maps to a `Try`,
an `Accept` or a stutter of `TrialLedger`, with one step per action; `EndTrial`
and `RecordTrial` are the ones where a record becomes accepted, and there the
invariant says that the attempt is the newest and the trial not yet accepted.
`PrimaryStays` follows from the same facts about which attempt a runner may
write. `EligibleStays` needs one clause more (`OnPlan`): every runner at work
holds the fingerprint the manifest pins and the cells of the stored plan, and
every open attempt was checked against them.

**StudyTrialsProofs, ComparisonStudy.** `ArmsApartAlways` is inductive as it stands, given a
lemma on `Reached` (`OwnRootOnly`): a trial's write reaches its own arm's tree
or, in place on linked files, which are sealed, none. `CompleteMeansAll` is not: `run()` writes the status from a counter,
and a counter equal to the length of the plan proves nothing of the trials if one
of them can be counted twice. The invariant says what is counted (`Tally`: the
counter is the cardinality of the trials on record as completed and unchanged),
that a trial still to come, under way or passed over is in one of these places
only and not counted (`OncePerTrial`),
that nothing is on record before the run (`NothingYet`) and
the status is the last thing written (`StatusLast`). A counter that reaches the number of the trials
then makes the set of counted trials the set of all (`AllCounted`), and a trial
that was counted was not skipped.

**ProxyServersProofs, GatedSession.** `OwnAnswer` speaks of what is delivered; what decides it
is a number. The invariant says that no number is used before it is given out
(`IdsGivenOut`, over what lies in each upstream and each queue), that of all that
is under way at the upstream waited for only what belongs to the attempt at hand
bears the number awaited (`WaitedFor`), and that the answer at hand is to the
attempt at hand (`AnswerOwn`). `JoinedAsTold` needs both logs: neither is ahead
of the attempts nor has two bodies for one of them (`LoggedOnce`), how far they
are at each place of `serve()` (`LoggedSoFar`), and that whatever the agent was
told is in both (`ToldOnRecord`). That `CallsOf`, which joins the two files, then
finds it is a lemma of its own, on sequences filtered and mapped.
`WithinCallsAlways` and `FirstIsRequiredAlways` are what a gate is for and need
`FirstKnown`: the first forwarded tool the policy gate remembers is on record or
about to be. No run lists these two; they were checked by TLC before they were
proved.

**ProxyServersProofs, ComposeServer.** For replies in order it is not enough that the client
numbers its lines upwards: the proxy sends its own requests under numbers of its
own, and an answer could be taken for another's. `OneUnderWay` says that under a
pin at most one request is with the server, that it bears the number the proxy
waits for, and that at most one reply is in the server's output. `InOrder` puts
what is answered before what is at hand and that before what waits in the input;
`RepliesInOrder` is its last part. `StepsCounted` says that the steps counted
for the plan at hand are the results it holds; `EvidenceKept` follows at the two
places where a plan ends.

**IndexBuildProofs.** The three properties speak of the index; what decides them
is where each file's outcome is. `SlicesHonest` says that each thread has the
first files of its slice, in order, and that an outcome says of its file what is
true of it or the deadline has passed. `InOrder` puts the index before what is
joined, and that before what is still in the threads; it rests on the arithmetic
of the slices: that they lie one behind the other and make up the batch, for any
stride. `Accounted` says that every file the caller is past is merged, at hand or
excused, and gives `AbsenceSaid`. `SoFarAlike` says that index, bytes and
records are what one thread makes of the files merged so far, and gives
`LikeOneThread`; its step is `OneThreadGoesOn`, the defining equation of
`OneThread`. That a recursive function satisfies its equation needs an induction
over the places of a sequence. The library's induction theorems, which take an
operator, are of no use here, so `Induction` states it of sets of numbers
(`ASSUME NEW T, 0 \in T, ... PROVE T = Nat`) and is proved from the well-founded
order of the numbers.

**ExactPagingProofs.** `Correctness` is the inductive invariant `Inv`, which TLC
had found true of every state of the run. The properties speak of the whole of a
pattern's matches, the walk of one line at a time; `Passed` counts the matches of
a pattern the walk has behind it, and `Gathered` says that its page is what the
first `k` of them define, with `k` all that was passed unless the page is full.
A walk that is over has passed them all, which gives `BatchEqualsSingle`
(`BatchHolds`): a full page is the beginning of what more matches would make it
(`RowsGrow`). `Received` and `InOrder` say what the client has at each offset.
The step that matters is `Reply` (`ReplyRows`): unless a page of several patterns
is trimmed, what the client gets of a pattern are the first rows past the offset,
as many as the offset moves on, or all of them when the reply is the last. A row
at match `k` is among the first `k - offset` rows (`RowsHold`), since a line that
is not UTF-8 makes no row; hence `NothingLost`, and where there is no such line,
`PagesFollow`. The lemmas on `Joined` and `RowsAfter` are the defining equations of
these functions and what follows from them by `Induction`.

**ProxyServersProofs, DegradeServer.** `SameDamage` is inductive with the types.
What it rests on is one fact about a page: the cells that the text loses are
those of the fields that the structured rows lose. `symbol` goes first; at the
end of a row it is one split, before `excerpt_truncated` it is cut at its column
and only when every row has one cell for each column, else the code raises. Then
`caller`, if it is there, is the first column, and the path, which every row has,
comes after it, so that a raw tab in a path is always behind the cut.

**TraceDependenciesProofs.** `TraceCorrectness` is the inductive invariant. Why
a queue makes the walk breadth first takes four of its clauses: the queue holds
the names of one level before those of the next (`QueueOrdered`), every nearer
name is expanded (`NearerExpanded`), what an expanded name leads to is expanded,
queued or still to be followed (`NextQueued`), and the calls from expanded names
are edges or still to be followed (`CallsFollowed`). `EdgesNearest`, and with it
`ShortestFirst`, follows, since a name is expanded at the first level it is met.
`RoundsConverge` is about rounds: the n-th round of a first page scans for every
name within n - 1 hops, or for names that lead to more calls than the page holds
(`RoundsAhead`); a walk that is over has filled its page and one more, or has
every call within its depth (`WalkWhole`). The edges of the answer are told
apart by their call sites, so their number counts the calls. The hops are a
recursive function of the depth, unfolded by the lemmas that
`ExactPagingProofs` uses for its own.

**AnalysesProofs, ToolLog.** `LogInv` says what a file that may be torn still
tells. A start line is of a call that began (`StartsServed`); a call that began
has its start line, unless a line of the log cannot be read (`ServedShown`);
what ended on a line above a start was known when that call began (`EndsKnown`).
The analysis blames by line order, so the last clause gives `BlamesThePast`; and it
excludes a trial with an unreadable line, so the two others make its counts
those of the calls that began (`CountsServed`, `CountsTrue`), of which
`SavedIsTrue` takes sums and differences.

**AnalysesProofs, SuiteGates.** What an answer showed stays harvested
(`AnswersKept`, `KnowsNames`), what was queried without an error has an answer
(`QueriesAnswered`), and a crawl that gave up had nothing left to ask with
(`NothingLeft`). A path all of whose calls the crawl could have made (`Taken`)
therefore shows nothing that is not among what the crawl was shown: the words it
searches for were queried, since none were left, and the lines it reads were
read. Had it shown the gold, the crawl would have had it too (`Unsolved`). The
property asks for a gold that is not empty: such a question has nothing to
reach.

**AnalysesProofs, GradedRun.** Nothing is regraded before every trial has ended
(`RegradesLast`), so the first change that names a trial found the score it was
frozen with; that is `ReadsBack`, inductive with the types. Its step is where a
trial that no list named before is rewritten while its change is appended.

**AnalysesProofs, MinedSuite.** `Enclosing` reads upwards against a bound and
`Scope` looks for the innermost block of the grammar. `SoFarGoesOn` is what links
them: after n lines the bound is the least indentation of the code among them and
the line itself, and no definition among them holds the line; the first
definition below the bound is then the innermost one that does
(`EnclosingIsScope`), for any file at all, whether it parses or not. The invariant
says that the lines are lines and that each question has for its gold one
definition of the pinned file that its text does not spell (`Mined`), numbered upwards.
That such a question compiles (`MinedStands`) is the whole of `validate_suite.py`
by way of the graders: that its gold earns full credit, its share in prose is
counted, and none of the alternates earns any. `Admission` needs one fact more: the
callers that `true_callers` finds by reading upwards are those whose block holds
a call (`CallersCounted`).

**AnalysesProofs, LocbenchSuite.** The property speaks of trees that were fetched, linked,
cut in half and fetched again, and holds for a simple reason, which the proof
brings out: nothing is remembered of what a tree was when the question was made.
Each entry was built of its row (`Built`), and when the program is done its
problems are those of the trees as they are then (`LocInv`).

**StudyTrialsProofs, Transcripts.** `TrialInv` has two halves. `Replays` holds at any
moment: of Claude's stream the replay has the open calls pending under their
own ids and the others recorded, of the other streams the items are the calls
that came back. It needs that ids are fresh: those of open calls are among those
given out, and a new call takes the next (`TrialTypes`). `Lives` holds while the
session runs and says what each stream has told so far: blocks counted message
by message, whatever their order and number (`BlocksCounted`); the last text of the last
message that spoke (`TextsKnown`); the last error; the names used; the steps that are
finished (`StepsCounted`). When the client ends, `Lives` and the summary it then
writes give `OutcomeAsLived` and `TokensOnce`, which nothing disturbs
afterwards. `EvidenceAgrees` is a fact about the replay alone and follows from
`CallsAsMade`. TLC had checked `TrialInv` on streams of three clients, three
messages and two calls before it was proved.

Only model-checked are:

* the liveness properties (`EveryCallEnds`, `ServerStops`, `EveryAskAnswered`,
  `Responsive`), which are out of the prover's reach;
* `ReadersAgree`: it compares five readings of every reply. The credit of an
  answer with keys is a sum over a set (`MapThenSumSet`), the readers take
  fences and objects out of a reply by `SelectSeq` and `SetToSortSeq`, and what these compute
  for every input is an induction over data, which the provers cannot do with
  the library's operators.

Every other property of the passing runs is stated by a theorem.

## Findings

1. `tools/mod.rs:209` clears `stale` whatever happened during the round trip.
2. `tools/mod.rs:624` gives several patterns one trimmed offset.
3. `index/mod.rs:1828` widens a trace by the edges of one page only.

Each is a run that expects a violation; `PROJECT.json` quotes the line it departs
from. The four configurations listed after the runs are further disagreements
between the code and what is said of it. Smaller things met while reading, which
no property states:

* `comparison_runner.make_plan` reuses the name `seed` for an oracle's prompt
  (471-479), so `Random(seed)` at 487 shuffles by the last question's text when
  the last system of the file is an oracle.
* A second regrade after one that died loses the score first given, since the
  list of changes is written last; `ReadsBack` therefore claims nothing after a
  death.
* `factor_runner.py` killed between its manifest and its plan, or within a
  `run.json`, leaves a directory that every later resume refuses.
* `degrade_server.py` may return before its daemon thread has copied the last
  replies.
* `quality_pass.report` counts an answer it cannot parse as declined, and its
  test for a stated inability (489) can never decide.

## The plan

In the order of their weight; each comes with its run and its mutants.

1. `CandidateFiles`: `files_naming`, `files_about` and `scan`: what a truncated
   candidate build may claim. Composes `IndexBuild`.
2. `ConceptPaging`: the three rankers, `fuse` and `rows` over pages, with the
   files changing under them.
3. `BackendProcess` and `VectorCache`: pipes, deadline and kill; lock, two
   renames, crash and restart.
4. An atomic session that `SessionRoots` implements up to the race found.

## Not modelled

Regular expressions, ignore rules, Tree-sitter and what it extracts per
language, BM25 scores, the text rendering of replies and command line parsing
are functions of one input with no interleaving, which the repository's own
tests cover well. The statistics and tables of the harness (`power.py`,
`publish_numbers.py`, `check_docs.py`, `failure_modes.py` and the like) are
straight-line programs over finished files. The brace-language half of
`enclosing`, the sampling of `study_b.py` and the preparation of the clients'
home directories are text processing and I/O. The installer copies files. The
other parts of the server that keep state during a call - ranking, the backend
process, the vector cache of the example backend - are in the plan.

## Running it

    tlc -workers 2 -config SessionRoots.cfg MCSessionRoots.tla
    tlapm ServerSessionProofs.tla

and likewise for the other modules.
