# Flatwhite: specification and verification

This directory holds TLA+ models of Flatwhite (`src/`), the TLC configurations
that check them, and TLAPS proofs of what they check for every value of the constants. Paths below start
at the repository's root; the C++ namespace is `localagent`.

Contents: [1 the system](#1-the-system), [2 hard behaviour](#2-what-is-hard),
[3 modules](#3-modules-and-how-they-correspond-to-the-code),
[4 runs](#4-what-the-runs-check), [5 fairness](#5-fairness),
[6 proofs](#6-what-is-proved), [7 findings](#7-where-documents-and-code-disagree),
[8 limits](#8-what-is-not-modelled), [9 plan](#9-plan).

## 1 The system

Flatwhite is a command line agent. A process parses its command line, loads a
configuration, opens the session store of its data directory and runs a prompt
(or a dialogue of prompts) through the agent runtime, which talks to a model
server and to tools. Everything in a process runs on one thread; concurrency
comes from several processes on one data directory or workspace, from the
commands a process starts, from the network, and from a cancellation token.

| Component | Source | State it keeps | Operations | Talks to |
|---|---|---|---|---|
| Agent runtime | `src/agent/runtime` | the `AgentRun`, conversation, state machine | `run` | context builder, model, tools, verifier, event log |
| State machine | `src/agent/state_machine` | one `AgentState` | `transition` (refuses in silence) | runtime |
| Budget | `src/agent/types.cpp` | limits and counters | `budget_exhausted`, defaults per mode | runtime |
| Cancellation token | `common/cancellation.hpp` | a shared flag | `cancel`, polls | runtime, tools, process runner |
| Verifier | `src/agent/verifier` | none | build, tests | process runner |
| Tools, registry | `src/tools` | table of tools | `dispatch` | permissions, patch engine, process runner |
| Process runner | `src/process` | pipes, child, deadline | `run_process` | the operating system |
| Patch engine | `src/tools/filesystem/patch_engine.cpp` | none (files) | `atomic_write`, `exact_replace`, `create_file`, `apply_unified_diff` | file tools |
| Event log | `src/persistence/event_log.cpp` | `events.jsonl` | `append`, `list_for_run`, `find_incomplete_runs` | runtime, SQLite store |
| SQLite store | `src/persistence/sqlite_store.cpp` | five tables, one connection | `open` (several statements), inserts, updates, lists (one each) | session controller, event log |
| Session controller | `src/app` | handle of the store | `create`, `resume`, `list` | `main`, interactive session |
| Command router, `main` | `src/cli/command_router.cpp`, `src/main.cpp` | the parsed command | one-shot commands | all |
| Interactive session | `src/cli/interactive_session.cpp` | session id, history, model | prompts, `/new`, `/resume`, `/history`, `/model` | session controller, runtime |
| Configuration | `src/config` | one `Config` | `load_config` | files, environment, `argv` |
| Ollama backend | `src/model/ollama` | none between calls | `chat`, `list_models`, `pull_model`, `embed` | libcurl, stream parser |
| Model router | `src/model/router` | registry of models | `route`, `check_escalation` | nobody yet |
| Permission engine, classifier | `src/permissions` | policies | `evaluate`, `allows` | tools |
| Context builder, rules, project detector | `src/context` | none | `build` | runtime |
| Redactor, planner, helpers | `src/common`, `src/agent/planner` | none | text functions | event log |

What makes each of them correct:

- **Runtime**: it ends; limits hold up to what one response may add; the outcome
  it reports, the answer and the record in the log agree; a denial or a
  cancellation stops the work; "verified" is claimed only after verification.
- **Process runner**: all output is read, no zombie, no leaked descriptor, no
  process of a stopped command survives, and a stop or the command's end always
  ends the call.
- **Event log**: what is readable is right and complete, damage has a known
  cause, incomplete runs are found, and the copy in SQLite does not drift.
- **Patch engine**: the file holds one content or the other, never a mixture,
  and an edit changes the passage it names and nothing else.
- **Tools and permissions**: what the settings deny is not touched.
- **Sessions**: a prompt runs in the session the user asked for, and no other
  session's row changes.
- **Configuration**: the layer in force is the one documented.
- **Chat**: the answer does not depend on how the network cuts it.
- **Context builder**: a prompt accounts for every token of its budget, and what
  the model has seen stays in view while the files stay as they are.
- **SQLite store**: whoever opened it finds the whole schema and enforced
  references, and timestamps follow the order of calls.
- **Model router**: the choice is the best model that can serve the request, and
  escalation climbs.

## 2 What is hard

`PROJECT.json` lists forty hazards at their lines. They fall into these groups:

- *checks far from use*: the budget is compared once per turn, the token polled
  at a few places, the stream's state looked at before the write that matters;
- *exceptions through a loop with state*: model, tools, log and token throw out
  of `run`; the mirror throws after the line is written;
- *processes without a lock*: two writers of `events.jsonl`, two users of the
  sessions table, two `atomic_write` of one path;
- *the child's side*: pipes that fill, helpers that inherit them, exits that
  race with the last poll, signals to a pid that is no longer ours;
- *pieces*: a network that cuts lines anywhere, a log line written in two;
- *layers*: values from five places, each merged by its own rule;
- *two looks at one thing*: a path judged twice under two risks, a file looked
  for, then read, then replaced;
- *sequences of harmless calls*: an `open` that fails half-way on a store that is
  then used, a conversation that only grows against a fixed budget, one
  escalation after the other.

## 3 Modules and how they correspond to the code

The exact lines of every definition are in the `map` of `PROJECT.json`.
Operators whose comment says *mutant* are deliberate bugs: replacing the
definition below them by one breaks the property named in `mutants`, which
shows that the property depends on the code.

**`AgentStates`** has the transition table of `state_machine.cpp`, and the
budget's limits, defaults and test. `max_duration` is not compared anywhere in
the code, so there is nothing of it to model.

**`AgentRuntime`** is `AgentRuntime::run`. `pc` is the place in the function
(`loop`, `prompt`, `chat`, `tools`, `dispatch`, `verify`), `sm` the state
machine, `run` the `AgentRun`, `used` the counters, `log` the events of this
run. There is one action per way through a `case` of the switch. The model's
response is any number of calls up to `MaxCalls` and any usage up to
`MaxUsage`; a tool returns, is denied or throws; each `throw_if_cancelled` is an
action. Context and conversation are abstracted to their length. When an action
throws, `run` is left where it is, as in the code.

**`RunTrace`** is the abstract specification: the grammar of one run's events.
`AgentRuntime` refines it with `last <- LastEvent, pending <- Pending`.

**`PosixProcess`** is `run_process`. The caller has one action per system call
or pass of the loop. Around it are the clock (`Expire`), the token (`Cancel`)
and the command: a leader and helpers that fork, write, exit, redirect their
output or leave the group. Pipes hold `PipeSize` chunks. `kill_process_group`
is two actions, with the 50 ms between them. `stray` records a signal sent
after the leader was reaped.

**`EventLog`** is the file as a sequence of texts, cut texts and newlines that
several runs append to, with or without a `SqliteStore`; a long line is two
writes. Readers are operators on the file (`Readable`, `OnRecord`,
`Incomplete`). Redaction and the JSON text are left out.

**`AtomicWrite`** is `patch::atomic_write` over names, inodes and open streams,
so that a stream goes on writing to an inode whose name has moved on. A content
is `Size` blocks; a long one is written block by block, a short one when the
stream is closed, where a failing flush may have put any number of its blocks.

**`FileRegister`** is what it promises as long as calls do not overlap: a
register whose content a call replaces or leaves alone, whatever fails or dies
in between, plus the one way the code is worse (`Lose`, a failing last flush).
After a failing last flush it holds the beginning of the content, or nothing.
`AtomicWrite` refines it with `content <- ` the bytes a reader finds under the
name, and `outcome` taken from where each call is.

**`CommandClassifier`** has `classify_command`: from a line of words to its
risk. A word of the model stands for all that the code treats alike.

**`Permissions`** has the decisions of `PermissionEngine` as operators. A target
is where a canonical path lies and what its name says; canonicalisation itself
is not modelled. The engine compares paths by their text, so a name in the
workspace that begins with two dots counts as outside, here as in the code.

**`PatchEngine`** has the texts `exact_replace` and `apply_unified_diff`
compute, over sequences of characters: `Find` is `string::find`, `Chunks` the
loop over the lines of a diff, as a recursive function of the number of lines.

**`ToolCalls`** is one call, from `ToolRegistry::dispatch` to its result, for
every tool, or one patch operation. There is one action per judgement, look,
read and write, so that another program can change the file between them.
`list_directory`, `glob`, `grep` and the git tools do not ask the engine, and
only `shell` and `web_search` report a refusal as one of permission (`denied`),
the one that ends a run in `AgentRuntime`. The engine judges a command with the
workspace as its target, so where the workspace lies (`root`) is an input: in
one that is itself a credential, below `.aws` say, the setting for credentials
replaces that of the command's own risk, and `rm` runs if credentials are
allowed and destruction is denied. `atomic_write` is one step here, the
steps inside it are `AtomicWrite`'s. No tool calls the patch operations other
than `atomic_write` yet; they are modelled as the library they are.

**`Sessions`** is `main` after parsing, the session controller, the sessions
table and the loop of the interactive session, for several processes. The time
is read in one step and the row written in the next, as in
`create_session` and `touch_session`; timestamps are whole seconds.

**`SqliteStore`** is the whole store and its use by several processes: `open` is
one action per statement, each of which commits by itself, may throw, and may be
the last thing its process does. A call reads the time in one step and executes
its statement in the next. The tables are one sequence of rows; `ParentTable` is
the reference of each. A store that was constructed and threw is gone; one that
existed and whose `open` threw is *half open*, with whatever its connection has
reached. `went_on` records that some process used it all the same.

**`ContextBuilder`** is `ContextBuilder::build`, one action per entry, called
once when a run begins and then before each question to the model, as
`AgentRuntime::run` does. Rules are read when the build gets to them, files one
by one; at any moment a tool or another program may change them (`Edit`). A text
is its length, an estimate is `(length + 3) \div 4`. The token budget is the
run's `max_input_tokens`, the same number that is compared with what the model
reports.

**`ModelRouter`** has `score_candidate`, `route` and `check_escalation` as
operators, with scores as fractions (so that a model without a size scores
infinity and one without speed as well is not a number, as floats would have
it; rounding is left out), and a caller that escalates step by step.

**`Config`** is `load_config`. Settings are grouped by their parser (text,
number, choice) and by their rule in `merge` (when not blank, or always). A
value is the layer it comes from.

**`OllamaChat`** is `OllamaBackend::chat` with `stream_callback`, the stream
parser and `aggregate_chunks`. A line is two halves and a newline, handed over
in pieces of any length.

`MC_*` modules give the constants small values.

## 4 What the runs check

| Run | Instance | Distinct states | Shows |
|---|---|---|---|
| `agent_run` | 5 limit vectors × modes × verify, 2 calls, 1 token per response | 50 k | all properties of the runtime, its refinement of `RunTrace`, termination |
| `process_stop` | leader, one helper, two chunks each over pipes of one | 342 k | output, reaping, group, descriptors; a stop ends the call, and so does the command's end |
| `log_file` | two runs, two events each, long lines, full disk, crashes, store or none | 271 k | reading back, causes of damage, incomplete runs, mirror |
| `write_turns` | three calls in turn, two blocks each, failures and crashes anywhere | 49 k | refinement of `FileRegister` |
| `write_overlap` | two calls at once | – | expected violation of `PathWhole` |
| `tool_call` | every call; 260 engines, 9 targets, 23 command lines in 3 workspaces, texts up to 4 characters over 2, diffs up to 4 lines, one foreign change | 2.4 M | denied targets are left alone, edits are exact |
| `sessions_all` | two processes, seven command lines, three sessions, two seconds | 1.6 M | session a prompt runs in, history |
| `config_layers` | one setting of each of five kinds, all pairs of files, up to two entries, any flags | 2.7 M | which layer is in force |
| `chat_pieces` | all bodies up to three lines, three modes, all ways to cut | 21 k | the answer and the callback |
| `context_run` | 8 requests, 4 workspaces with one change between them, three sizes of tool result, four prompts | 542 k | the budget adds up, truncation is told, prompts grow or freeze |
| `store_open` | two processes, sessions, runs and one table below them, one row each, two seconds | 588 k | schema and references after any open, order of timestamps |
| `router_all` | 259 registries of up to three of six models, 216 requests, two escalations | 338 k | choice against its definition, escalation climbs |

Why the bounds are enough. *Runtime*: limits of two or three let every counter
run out on its own, before, at and after a response; two calls per response are
needed for "the calls after a denied one" and no property counts beyond that.
*Process*: one helper is what it takes to outlive the leader; a pipe smaller
than the output is what it takes to block. *Log*: two runs interleave, two
events give an order and a last one; a third event adds no new neighbour of a
broken line. *Writes*: three in turn let one find the leftover of a crash and a
third read after it; of two blocks a failing flush writes none or one. *Sessions*: two processes and a clock that ticks once give
all orders of equal and different timestamps. *Config*: settings do not
influence each other except `default_mode` and `default_model`, which are both
in the instance; two entries give the clash of the two prefixes,
and of the five settings the data directory alone has a flag, blank or not. *Tools*: the engine looks at one
setting per decision, so allowing and denying ones in every combination, with
all asking and all wanting a sandbox, meet every decision; four characters hold
two occurrences side by side or overlapping of every text of two; one foreign
change between two looks is what it takes for them to disagree. *Chat*: three
lines give a first, a middle and an unterminated last one. *Context*: budgets
below and above the goal, rules and results that fit, nearly fit and never fit;
four prompts are what it takes for a message to be left out, a smaller one to
follow, and the prompt after that to be compared. *Store*: one table below
`runs` stands for the three, whose statements are the same; two processes give
an open in the midst of another's schema. *Router*: three models give a tie, a
better one behind it, and an id that comes again; the requests lie on both sides
of every limit.

Each property has a mutant in `PROJECT.json` that breaks it.

Deadlock is checked for `agent_run`, where a finished run stutters in `Over`. The other systems stop by design (all calls returned, all
processes ended, the bounds used up), so their configurations say
`CHECK_DEADLOCK FALSE`; that they
do not stop early is what `StopEnds` and `CommandEndEndsCall` state for the
process runner, while in the others an action that throws or crashes may end
any step.

Symmetry is used for processes and runs that nothing tells apart, in runs
without liveness properties only.

## 5 Fairness

- `AgentRuntime!FairSpec`: weak fairness of `Step`, the runtime's own thread. It
  includes that the model, the tools and the verifier's commands return or
  throw; the code has no timeout on the model's transfer, so this is an
  assumption about the server, listed as a hazard. Nothing is assumed of
  `Cancel`.
- `PosixProcess!FairSpec`: weak fairness of the caller's thread. `poll` has a
  timeout of at most 50 ms and `waitpid` in the loop does not block, so each
  pass ends. Nothing is assumed of the command, which may hang: `StopEnds`
  holds all the same. It may not write for ever, because the output is bounded
  and `read_available` would not end (a hazard of its own).
- `CommandEndEndsCall` is a property under the same `FairSpec` that carries its
  own assumptions to the left of an implication: if the command's processes
  write what they can and exit when everything is written (`CommandEnds`), and
  not every `poll` is interrupted, then the call ends.

The remaining modules state safety only.

## 6 What is proved

Eight modules hold proofs. Six are about one component each and named after its
module with `Proofs` behind it; `StartProofs` is about what happens before a
prompt runs (`Config`, `Sessions`), `ModelProofs` about what is asked of a model
and what comes back (`ModelRouter`, `ContextBuilder`, `OllamaChat`). Every
invariant and action property a passing run checks is stated by a theorem, and
so are both refinements. TLC checks each property on the instance of its
run; the theorem holds for every value of the constants that the module's named
assumption allows. Those assumptions only give the constants their types (a
bound is a natural number, a pipe holds something, a writer is not called
"original", a token budget is not zero, the length of a missing file is no number); each holds in the instance of a run. Where a property is not inductive,
a conjunction of named parts is proved inductive first, and where those are
stated below they are what the code keeps true between the lines that matter.

**`AgentRuntimeProofs`** proves, for every set of requests, every bound and with or
without a log, every safety property of the runtime that `agent_run` checks, and
the parts `BudgetKept` and `OutcomeOnRecord` consist of one by one.

1. `TypeCorrect` and `TransitionsNeverRefused` come from one induction:
   `TypeOK /\ PhaseMatchesState` is inductive, since the next transition is
   allowed exactly because the phase tells the state.
2. `BudgetHolds` (`OvershootBounded` and `ZeroLimitStopsRun` together) needs
   `BudgetInv`. The bound alone
   is not inductive in the middle of a response: the invariant adds that the
   budget was not exhausted when the model was asked and that calls used plus
   calls left stay under the limit plus one response.
3. `OutcomeAgrees` needs `OutcomeInv`: completion and answer by machine state.
4. `RecordTellsOutcome` (`OutcomeAgrees`, `RecordClosedOnReturn` and
   `VerifiedClaimHolds` together) and `AnswerReachesCaller` need `LogInv`: no verdict on record before completion, and an answer on record
   puts the machine in `Verifying`, `Completed` or the one state where it is
   lost.
5. `CancellationStopsWork` and `NothingAfterDenial` are action properties proved
   from these invariants, one step per action.
6. `RunImplementsTrace` is the refinement: `TraceInv` ties the last event to the
   machine's state, and each step maps to a step of `RunTrace` or stutters.

**`PosixProcessProofs`** is for any number of helpers, pipes of any size and any
amount of output. One invariant in four parts carries `NothingIsLeftBehind`,
`GroupIsStopped` and `OutputIsComplete`:

- `ForkInv`: before the fork nothing runs and only the pipes are open. A command
  that was never forked has nothing to reap, which the properties except.
- `LeaderInv`: a status is there exactly when the leader is dead, and the result
  has it exactly when it was reaped. So a return with a leader has an exit code.
- `StopInv`: where the call stops the command, and how that goes with `stray`.
  Between SIGTERM and SIGKILL the group may grow; on the way out it is empty
  unless the signal went to a leader reaped before.
- `OutputInv`: an output that `poll` saw hung up has no writer left, and a closed
  one has been read to its end. It is inductive because a writer can only appear
  by a fork of a process that holds the same end.

**`EventLogProofs`** is for any runs, any number of events, lines in two writes or one,
and disks that fill or not.

- `KnownInv` and `OrderInv` (`LogReadsBack`, `IncompleteRunsAreFound`): what is in the file
  was sent, and the texts of a run, cut ones included, stand in the order they
  were sent. The order of the readable lines alone is not inductive: a cut text must
  be ordered too.
- `TraceInv`: whatever was sent left something in the file or is lost.
- `DamageInv` (`DamageIsExplained`): what follows each text is its newline, another run's
  text, or nothing yet; the last text waits for its newline. The exceptions are the
  texts whose run died or whose write failed.
- `RowsInv` (`MirrorLags`): how many rows there are by the place of the append.

**`AtomicWriteProofs`** proves `TypeCorrect` for writers at once as well as in
turn (an open never truncates the file under its own name), and
`TurnsMakeRegister`, the refinement of `FileRegister`, under `~Overlap`: the
hypothesis under which the code keeps the promise, and which `write_overlap` shows to be needed, for contents of any number of blocks.
`TurnInv` says that one writer is at work, that the temporary name is its own
inode, and what that inode holds at each stage: the blocks written so far, and
once the stream is closed all of them, or fewer if the flush failed
(`CutShort`), which is what `Lose` allows.

**`SqliteStoreProofs`**, for any number of processes, rows and seconds:
`StoreIsWhole` needs `OpenInv` (the statements a process has done before `next`
have had their effect, which no other process undoes) and `CallInv` (only a
store whose `open` returned is called, unless a caller went on). `TimesTellOrder`
is an action property from `TimesInv`: no time is ahead of the clock, and the
time a call holds is not before any row that was there when it was read.

**`StartProofs`**, on `Sessions`, for any processes and command lines: `PlaceInv`
says who has a session, `PromptInv` follows the session a prompt will run in
from `create` through `resume` (`PromptRunsInItsSession`), `HistoryInv` the
history (`HistoryIsOfOneSession`). What one process knows of a row survives the
others because rows keep the time they were created at. On `Config`, for any
settings and environments: while entries are applied in any order, a setting is
what one of the entries applied so far gave (`EnvironmentInv`, `ArgumentsInv`),
whence `OverridesHaveTheLastWord`; and a value of the user's file behind the
project's is one that was blanked (`UserInv`), whence `ProjectFileReplaces`.

**`ToolCallsProofs`** is about one call, for every set of engines, texts, diffs
and command lines.

1. `StricterNeverAllowsMore`: decisions are monotonic in the settings, by cases
   on the policy the strict engine finds.
2. `DenialsHold` is `DeniedMeansUntouched`. `IInv` says that a call past a
   judgement was accepted by it; `WriteJudgements` and `ReadJudgements` show
   that the judgements of `resolve_workspace_path` and of the tool together are
   as strict as the settings read once. For a command the setting that counts
   is that of its own risk only where the workspace is no credential (`MayRun`).
3. `TypeCorrect` and `EditsAreExact` need `EditInv`: a patch operation about to
   write has computed its content from a text the file has had, and its
   directory is there. The rest is about texts of any length: `FindFirst` (what `Find` returns
   is an occurrence and the first), `OccurrenceDivides` and `PassageOccurs` (an
   occurrence is the same as a division of the text into three), and
   `ChunksAreSides`: the loop over the lines of a diff, with its flag, computes
   the two sides that the property defines by the positions of the headers.

**`ModelProofs`** is about operators that go through data of any length: a
registry, a body cut in pieces, rules, files and messages.

1. *Router*. `BestScored` and `BestAbove` are loops that keep the best place so
   far. `BestIsFirst` shows by induction over the registry that the first ends at
   the first of the able models with the highest score. Comparing fractions is
   transitive only where the denominators allow it, so the claim is about scores
   that are positive, infinite ones among them (`den = 0`); a score that is not a
   number is never able. `ChoiceIsBest` is then inductive with the types
   (`RouterInv`): nothing touches the first decision before the caller asks again.
   `EscalationsClimb` is the action property: what the second loop finds is of
   higher quality than the model of the step before, as long as `find` returns the
   entry the caller means (`Distinct`).
2. *Chat*. `BodyBytes` lays out the body: line k is the bytes 3k-2 to 3k, and the
   last line is short by what it lacks. `ChatInv` says of a streaming exchange
   that for some k the chunks are the objects of the first k lines and the buffer
   is the rest of what was sent, and of any other that the body is what was sent
   and nothing has been parsed. Taking a line moves k by one; a piece
   moves only the end of the rest. `PiecesAreImmaterial` follows because at the end either
   all lines are taken but an unterminated one, or nothing is and the text still
   there is parsed whole: `ParseStream`, which looks for the beginnings of lines,
   then gives the objects of what it is handed. `FlattenSeq` of a longer sequence of pieces is
   shown to be that of the shorter one and the last piece.
3. *Context*. `Result(offered, budget)` is what a loop over all entries makes of
   them when it skips the kinds that are shut, that is, in which an entry did not
   fit. `build` leaves its sections instead, and `ShutIsSkipped` shows
   that this is the same. `PlaceInv` says of each place in `build` that the prompt
   is the result of what has been looked at, and is shorter than it exactly when
   `truncated` is set; with `ResultFaithful` (its entries stand in the order of the
   offer) and the sum in `TypedInv` this gives `PromptsAccounted`. `PromptGrows` says that the
   result of a longer offer begins with that of the shorter; with `BeforeInv`, that the
   prompt before was the result for no more messages than there are now, it gives
   `PromptsFreeze`. When the workspace changes (`steady` is false) only the
   types and the sums are claimed, as in the property.

The common lemmas are `LeastNatural`, `UpTo` and `Recursion` (below).

**Induction over data**: `ChunksAreSides` is an induction over the lines, and
`ModelProofs` has a dozen more. The library's induction theorems take an
operator, which the provers cannot instantiate; `LeastNatural` is proved
instead from the well-foundedness of `<`, which speaks of sets, and `UpTo` from
that: a set that holds 0 and goes on from each number holds them all. Each use
names the set of the numbers for which the claim holds. That a recursive
function exists at all (a `CHOOSE` of the function that satisfies its equation)
is proved in the same way (`ChunksTaken`, `Recursion`).
`FlattenSeq`, which the community modules define as such a function, is unfolded to it
first.

Model-checked only: liveness, that is `Termination`, `StopEnds` and
`CommandEndEndsCall`, since the prover handles neither fairness nor `ENABLED`.
`PathWhole` is what a run refutes.

## 7 Where documents and code disagree

Each is in `PROJECT.json` with its quotation.

1. `write_file` promises an atomic replace; two writes at once mix
   (`write_overlap`), and a failing flush leaves a cut or an empty file
   (`RefinesRegister` in `write_turns` states how far the promise holds).
2. `--continue` resumes the session it has just created, or one that is newer
   still (`PromptSession` in `sessions_all` states what the code does).
3. `sessions resume <id> -p "…"` runs in a new session (`PromptSession` again).
4. After `/resume`, `/history` shows another session's prompts
   (`HistoryUntilResume` states how far the promise holds).
5. A project file resets the settings of the user's file that it does not
   mention (`ProjectFileReplacesUserFile` in `config_layers`).
6. `exact_replace` is to require a unique match; occurrences that overlap the
   first are not counted (`EditIsExact` states what the code does).
7. A test's title says that the router excludes models that miss required
   capabilities; one of several is enough (`ChoiceIsBest` in `router_all`).

## 8 What is not modelled

- Text: JSON, TOML, redaction patterns, prompts, terminal output; the words
  `classify_task` looks for; the globs of a rule file, which no caller but tests
  applies.
- Settings that are loaded and have no effect: `max_turns` of the configuration
  and `timeout_seconds` are not passed on (a `RunRequest` has 40 turns, so the
  defaults per mode are reached by tests only), `max_duration` is compared
  nowhere.
- The redactor: six scans over characters. What it leaves of a payload is what
  the log writes; the event log's model does not look inside a payload.
- The planner, which builds a prompt and has no caller, and the small helpers.
- `/model` of the interactive session, and `list_models`, `pull_model` and
  `embed` of the backend: one request and one parse each.
- What a command touches: the engine is asked about its risk and the workspace
  it starts in, and nothing else, so nothing more is claimed.
- Symbolic links that change between the judgement of a path and its use, and
  changes another program's edit loses to a patch operation: the code has no
  check for either, so there is nothing to state.
- Power loss and `fsync`: a crash is the death of a process; what it wrote
  reached the file.
- SQLite itself: a statement is atomic or throws. The clock never goes back.
- Rounding of floats in the router, and scores beyond their range.
- Callbacks that throw through libcurl, and misuse of an object from several
  threads: no code does either.
- Windows: `run_process` and the environment have POSIX code only.

## 9 Plan

The order was: the runtime with its proofs, the process runner, then what
several processes share (log, files, sessions, the store), then inputs
(configuration, chat, context), then tools, permissions, the classifier and the
router; and for each, after its runs, its proofs. What is left is **composition**:
`ToolCalls` within `AgentRuntime`, so that a denial is the engine's, and a tool
call as a `run_process`; `SqliteStore` below `Sessions`, so that a prompt's
session is a row of the whole schema.
