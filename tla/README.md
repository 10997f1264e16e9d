# A formal model of rlm-harness

TLA+ modules that model the core of the harness, TLC configurations that check
them, and TLAPS proofs. Paths below are relative to `src/`.

## The system

rlm-harness runs a coding task given on the command line. `task_runtime.py`
opens a row in a SQLite trace database, builds a runtime and drives it to an
answer; everything it does is a sequence of trace events. There are two control
planes:

* the **supervisor** (`kernel/supervisor.py`), the default: up to `max_turns`
  turns of the recursive runtime, then a verification policy, then the row is
  closed;
* the **graph** (`graph/nodes.py`, `graph/build.py`), the older one, with a
  plain loop and a langgraph backend: plan, act, execute, verify, observe,
  reflect, with recovery of failed steps of a plan.

Both use the **recursive runtime** (`rlm/runtime.py`): the model answers with
REPL blocks, a block may ask the model again (`llm_query`) or start a child
runtime (`rlm_query`). Blocks run in the process or in a **Docker sandbox**
(`sandbox/docker_repl.py` on the host, `sandbox/worker.py` and `rlm_shim.py` in
the container) that speaks a line protocol. What a run remembers goes to a
**memory** (`memory/`), another SQLite database, and what runs and users teach goes to
**learning stores** in the same database. The graph ends an edit with a **verification
gate** (`graph/verification.py`); typed actions may call **MCP servers**
(`mcp_client.py`), which commands configure in one file (`mcp_config.py`).

| component | state it keeps | operations | interacts by | hard behaviour | what makes it correct |
|---|---|---|---|---|---|
| supervisor, verification policy | phase, answer, last result, the row, the events | `run_task`, `Supervisor.run`, the finaliser, error handlers | calls the runtime, the verifier, the pager hook; writes the trace | each write is its own transaction: crash or exception in between; many exits | row, events and what the caller is told agree; nothing follows an outcome |
| trace store | `runs`, `events` | `start_run`, `event`, `finish_run` | shared database | `finish_run` overwrites anything | a row is opened once and closed at most once |
| recursive runtime | sub-call counters, iteration, depth | `stream_turn`, `completion`, `llm_query`, `rlm_query` | recursion through a block; callbacks from the sandbox | counters of parent and child, exceptions that skip the addition | recursion and spending are bounded, counts are true |
| Docker sandbox | process handle, pipes, current block, timer, namespace | `execute`, `stop`, `execute_cell`, `request_completion` | messages over pipes | two processes, a signal timer, deadline, worker death | results and requests belong to the block; execute ends |
| graph, plan, recovery | HarnessState, TaskPlan | the nodes, `_apply_recovery` | in-process calls, memory, sandbox | eight exits of reflect, flags left over from an earlier action | an answer at every end, the plan keeps its order |
| memory pager and store | history, count, recall and archival tables | `hydrate`, `persist_new_history`, `page_if_needed` | a database shared by runs | crash between two writes, two counts of one history | no step lost or stored twice |
| model client | stream position, retry count, events yielded | `complete`, `stream` | HTTP, a generator the runtime consumes | reads that cut frames and characters, a broken stream, retry after output | the text once, in order; one event ends it; a broken answer is not a response |
| tools, authorization, pending changes | queue of proposals, running command | `ToolExecutor.execute`, `propose_file_change`, `apply_pending_change`, `run_shell` | typed actions through the executor, code blocks directly; files shared with the user | two ways to one tool, commands that outlive their call, a write that fails | modes and confirmations are kept; a proposal is written at most once |
| verification gate | the checks made so far | `verify`, one shell command per check | called by the verify node, in the sandbox or on the host | a check that cannot fail, a timeout, a missing program, an exception in a check | a pass and a failure are earned |
| learning stores | lists of taste records, proposals and feedback, in two databases | `add`, `approve`, `reject` by runs and by commands | read, change and write of a whole list, shared by processes | lost updates, a merge that undoes a decision, a process that dies half-way | what was acknowledged stays, what the user decided holds |
| MCP | the file of servers; transport, request ids, queue of lines | `add`, `update`, `remove`; `list_tools`, `call_tool` | a file shared by commands; a child process and a thread, or HTTP | late, doubled and foreign messages, timeouts, a server that ignores signals, commands at the same time | a reply is to its own request; a call ends; the file says what the commands left |
| context store | chunk files, ranges | `ingest`, read | files and a database | partial ingest | not used by the program |
| eval runner | results of the cases | `run`, `run_case` | a harness process per case | timeouts, a failing set-up | not modelled |

## Modules

| module | models | composes |
|---|---|---|
| `RunLifecycle` | what the trace promises of a run: opened once, closed at most once, reported as closed | |
| `Supervisor` | `run_task`, `run_supervisor_graph`, `Supervisor.run`, its finaliser, `classify_result` | implements `RunLifecycle` (property `ImplementsLifecycle`) |
| `SupervisorProofs` | theorems about `Supervisor` | extends `Supervisor` |
| `RLMRecursion` | the turns of the recursive runtime, its sub-call accounting and that of the Docker bridge | |
| `RLMRecursionProofs` | theorems about `RLMRecursion` and `SandboxProtocol`, the sandbox its blocks run in | extends both |
| `SandboxProtocol` | host, worker, timer and the pipes between them | |
| `TaskPlan` | the plan and recovery tables, as operators | |
| `HarnessGraph` | all nodes and edges of both graph backends, and the plan command | extends `TaskPlan` |
| `HarnessGraphProofs` | theorems about `HarnessGraph` and `VerificationGate`, the gate of its verify node | extends both |
| `MemoryPager` | the pager and the two tables it writes | |
| `MemoryPagerProofs` | theorems about `MemoryPager` | extends `MemoryPager` |
| `TokenStream` | what `stream()` promises its caller: a start, deltas, one end; no request after a token | |
| `ModelClient` | one call of `stream()` or `complete()`, and the provider | implements `TokenStream` (property `ImplementsTokenStream`) |
| `ModelClientProofs` | theorems about `ModelClient` | extends `ModelClient` |
| `ToolExecutor` | authorization, the executor's branches, the queue of proposals, the shell | |
| `ToolExecutorProofs` | theorems about `ToolExecutor` | extends `ToolExecutor` |
| `VerificationGate` | the discovery of checks, the shell, the verdict, and what the verify node records | |
| `LearningStores` | the three stores, the nodes `learn` and `taste_read`, and the commands `taste`, `evolve`, `feedback`, `eval --record-failures` | |
| `LearningStoresProofs` | theorems about `LearningStores` | extends `LearningStores` |
| `MCPConfig` | the file of servers and the commands that rewrite it | |
| `RequestReply` | what a call of a server promises: greeted before it asks, ended once, with a reply or a failure | |
| `MCPClient` | one call over stdio or HTTP, and the server | extends `MCPConfig`; implements `RequestReply` (property `ImplementsRequestReply`) |
| `MCPClientProofs` | theorems about `MCPConfig` and `MCPClient` | extends `MCPClient` |

Three modules are abstract specifications, each shown to be implemented by the detailed
one with `INSTANCE ... WITH`: `RunLifecycle` by the row and the report of `Supervisor`,
`TokenStream` by the types of the events of `ModelClient` and the number of its requests,
`RequestReply` by the stage of an `MCPClient` call and the line it took for its result.

### Supervisor

`pc` is where the process stands; every trace write is an action of its own, so
that `Abort` (a crash, or an exception nobody handles) and `RaiseHandled` can come
between any two. A turn is abstracted to its outcome (`FinishTurn`, `FailTurn`),
`TurnHangs` is a turn that never returns, `EditWorkspace` a block that changes
files. `RunVerifier` records the verifier's answer, any combination of changed files and
check outcomes, and `Classify` makes a verdict of it; `Judge` records the verdict and begins the
branch of the finaliser that it selects, which sets phase, answer and
`closing`, then `RecordCompletion` and `FinishRun` write. Answers are told apart
by what `clean_final_answer` and `_record_completion` test. The map gives `config` the
constructor of the supervisor, whose two hooks it stands for, and `Events` the schema of
the trace.

### RLMRecursion

The runtimes in flight are a stack: `rlm_query` pushes a child, the end of a child
pops it and adds its count to the caller (`Return`), or does not, if it raised.
`own` is `RLMRuntime.subcalls`, `bridge` the counter of `DockerREPL`. `answered` is
a ghost: the sub-calls really answered for a runtime and its descendants.

### SandboxProtocol

Host and worker are processes with a reliable queue in each direction while the
worker lives. The timer is a third process: `setitimer` rings once, anywhere in
the block, or in the handlers behind it (`TimerRingsLate`). Its specification is `ProtocolSpec`, since a
module about it and the runtime has both. A block may end, ask,
swallow the timer's exception, or kill its process. It may also start a process that prints to the
worker's standard output: what that begins (`Spill`) spoils the message the worker writes next, and
what it ends (`EndLine`) is a line that is no message. The host passes over a line that is no JSON
(`docker_repl.py:306`), a spoilt result too, and breaks on one that is no object. The deadline of the host is a
flag that may become true at any time (`Expire`), and matters only where the code
looks at it: after a line was read. The host is a runtime, which ends with the first failure, or the
verification gate (`gate`), whose blocks run one command each and which sends the next block after a
failure (`MaySend`). When docker cannot kill the container, `stop()` raises and leaves it
(`KillFails`, `abandoned`). Left out: a block that asks from several threads, whose readers would take
each other's answers.

### TaskPlan and HarnessGraph

An observation is what `reflect` can tell of it: its status or failure category, the
fitness of its output and who made it. A task is its kind (audit, summary, question,
other) and whether its words ask for an edit. `Reflect` is the disjunction of the
exits of `Nodes.reflect`, in the order of the code, each with the negation of the
exits before it. `Recover` is `_apply_recovery` with `RecoverySelector.select`.
The two backends differ in `LoopHead`, `Verify` and `Route`. The plan command
(`run_plan_task`) is a third "backend": it makes a plan, shows it (`FinalizePlan`) and
learns, without a loop. `Selectable` is what the prompt offers the model. The verdict of `Verify` is one of those `VerificationGate` reaches.

### MemoryPager

A step of the history is its number, a summary the set of steps it stands for, a
row's id its place in the table. `RecallAppend` and `ArchivalAdd` are one transaction
each; cutting the history (`Paged`) happens in memory after the archive is written.
`Hooked` runs call the pager from the supervisor's hook, with its second
`page_if_needed`, the others from the graph's nodes after `hydrate`. A resumed run
is another run on the same thread. Clocks do not run backwards. The checkpointer of
langgraph is external and not modelled.

### ModelClient

An answer of the provider is a sequence of frames, of which the model knows the
kind and the length in bytes, a place where the connection ends, and how. It may not end: a
provider may keep it open with comments (`endless`, `KeepAlive`). `ReadChunk`
is one `response.read`, decoded by itself as the code does, so a character of two
bytes that lies across two reads is replaced, and the delta is then not `whole`; `TakeFrame` is one turn of the loop in
`_openai_compatible_stream` with `_sse_to_token_event`, which drops text that stands beside a
`finish_reason` or a usage. Text is the place of its frame; `EndOf` says
where a frame ends, and `ByteOf` what a byte of the answer is. `ResponseIsTheAnswer` is
`PiecesAreGiven` (in order, none twice, none left out) and `HarmedOnlyByCuts` (a piece is not what
was sent only if a read cuts one of its characters).
A reset is an exception no handler is written for and escapes (`Escape`). `events` is what the
generator yields, `outcome` what `_stream_model_call` makes of it. `TokenStream` has the order of
events and requests; that the last event is there at the end is `LastEventIsThere`, and both make up
`ImplementsTokenStream`. It excepts a reset, after which the code ends the stream without a last event
while its docstring says "always" (below). `CompleteRequest` is
a request of `complete()`; the second one is made inside the handler of the first, where
only an `HTTPError` is still handled.

### ToolExecutor

`way` says how a run calls its tools: typed actions pass `Allowed` and `ConfirmKinds`
(`Passes`), code blocks do not. `Refuse`, `Look`, `WriteFile`, ..., `CallServer` are the
branches of `_execute`; the fifteen kinds that only read are one. A proposal is its place
in the order of proposals, `queue` is `_PENDING_CHANGES`, `fate` a history of what became
of each. A command is a process: `StartCommand` and `CommandEnds` or `CutOff` are one
call, `CommandWrites` what it does in between, and afterwards through a process it has
left behind. `unapproved` remembers what was done without approval.

### VerificationGate

A project is the facts its discovery looks at: tests at the root or in a directory,
`pyproject.toml`, the scripts and targets that `package.json`, a Makefile and a justfile name,
and what git says has changed. `ProjectCommands` is the list `_discover_project_commands` builds, cut after
four. A command is known by how it ends (`Ends`); each check has an operator that says what it makes
of that end, with the shell it runs in: on the host a command that ran out of time after some output
yields bytes, and the check raises. A program that finds no fault may name an error in the first 200
characters it prints, which fails the collection (`graph/verification.py:208`), or print what is not text.
`Excuses` is what the verify node records for an exception. The verdict is `outcome`. `wrong`
remembers whose program found fault, was missing or ran out of time, which the checks need not have noticed;
`misread` remembers which ones were taken for failed without a fault, which `FailedIsDeserved` excepts.

### LearningStores

A run or command is a list of steps, each on one of six lists (three kinds, two databases); a
step loads a list (`Load`), changes it and writes it back (`AddRecord`, `MarkRecord`), and
between any two of these others may act, or the process may die. `Learn`, `Bootstrap`, `Scan`, `Teach`,
`Propose`, `GiveFeedback`, `RecordFailure` and the four decisions begin a process with the steps its
handler takes. A record is its key, its id and its status; the key of feedback is its text, its rating
and whether it is about a run (`dedupe_key`); `acked` remembers what the stores have
returned, `decided` what users have decided of proposals, and `stale` which lists have lost a change
because they were written from an older copy. The properties hold for the others: the code has no lock,
and `stale` is exactly where that shows. A file of conventions is any set of them (`Found`).

### MCPConfig and MCPClient

`MCPConfig` is the file and its commands: load, open (which empties the file), write. `clashed`
remembers that a command wrote over another one or died with the file open. `MCPClient` adds one call:
`Select` reads the file, `Open` starts the server or an HTTP transport, `stage` is where
`initialize`, the notification and the request are, `sent` and `heard` count messages, `queue` is what
the reader thread has put there. The server may say any line at any time (`Say`) about a
request it has read, and `WriteAll` is a write that the server takes whole; `Blocked` is one it does not. A call and the commands
share nothing but the file: commands act until the call has read it.

## Runs

Passing runs:

| run | bounds | shows |
|---|---|---|
| `supervisor` | 3 turns | every exit, verdict and crash point; the row, the trace and the report agree; refinement of `RunLifecycle` |
| `recursion` | depth 2, 2 sub-calls, 2 iterations, 2 turns, 1 block per response | depth and counts bounded, counts exact until something raises, termination |
| `sandbox_protocol` | 3 blocks, 4 requests | no result, request or answer is taken for that of another block; `execute` ends where the timer works and no result is spoilt; `stop` leaves no worker that docker can kill |
| `harness_graph` | 4 iterations, plans of at most 2 steps | an answer at every end, order of the plan, no retry of a refusal, termination |
| `model_client` | 3 attempts, 3 frames of 3 or 4 bytes, reads of 3 bytes | the text once and in order however it is cut; refinement of `TokenStream` (no request after a token, one last event unless a reset escapes); retries are earned; termination unless the answer has no end |
| `tools` | 1 file, 2 texts, 2 servers (1 trusted), 2 proposals, 1 process left behind | modes and confirmations of typed actions; a proposal is written at most once |
| `memory_pager` | 2 runs, 2 threads, 3 steps of 1 or 3 tokens, limit of 2 tokens, 1 recent step, 1 foreign row | recall is exact, nothing lost or summarised twice, recent steps stay, a resumed run is informed |
| `verification_gate` | test and build targets, every combination of files and changes, up to 7 commands found | a pass of the gate is earned, and a failure unless output without a fault is misread; at most seven checks |
| `learning_stores` | 2 processes at a time, 3 in all, 4 steps, a preference and a convention | what was acknowledged stays under its id, what a user decided holds |
| `mcp` | 2 servers, 2 commands at a time and in all, 3 lines of the server | the file is what the commands left; the call implements `RequestReply` and ends |

Why the bounds are enough. Three turns are a first, a middle and a last one; all
outcomes of a turn are tried in each. Depth 2 has a runtime that is neither the
first nor at the limit; two sub-calls per runtime are one below the limit and one
at it; two turns show a counter that survives. Three blocks are the bootstrap, a
block that is abandoned and the one after it; four requests let one block abandon
several. Four iterations let a step fail, fail again, be skipped, and the run go
on; two steps are one with and one without a successor or a dependency. Three
steps page twice, or once after an addition of two; sizes of 1 and 3 around a
limit of 2 make the token test and the length test disagree both ways.
Three attempts are a first, a middle and a last one; reads of three bytes against
frames of three and four put the separator and both halves of a character on every side of
a read. Two proposals for one file let one be applied, lost or cleared while the other
waits. Two targets give three runners and Python more than the four commands that are run, so the cut
matters. Three processes, two at a time, let one save a stale list, and a third meet the result; four steps
make a record, look for it in both databases to decide it, and make it again. Two commands are what it takes
to write over each other; three lines are the two answers a call needs and one that is late, doubled or foreign.
With `MaxIterations` below 6 the iteration limit is the one of the caller; the larger
defaults (4, 6 and 10 by complexity) are in the module but not in this run.

Two other runs check a statement of the repository's own texts each and end in a
counterexample (PROJECT.json quotes the line):

| run | the code does |
|---|---|
| `sandbox_deadline` | waits beyond the deadline when no further line arrives |
| `gate_syntax` | passes a changed Python file that does not compile |

### Fairness

`RLMRecursion` and `HarnessGraph` are sequential programs: weak fairness of `Step` says
that the interpreter goes on, that each call of the model returns or raises and that a block ends.
langgraph has a limit of its own on the number of its steps (`recursion_limit`, which the program does
not set); it is not modelled, and would end a run earlier, with an exception. In `ModelClient` the
generator is consumed to its end
and each `recv` returns or times out, so `Step` is weakly fair; what the provider
answers is free. The timeout begins again with each `recv`, so a provider that never stops sending
keeps `stream()` reading for ever: `CallEnds` excepts such an answer (`KeptOpen`), and so do the two runs that
take the return of a model call for granted. In `SandboxProtocol` the host, the worker and the timer each have weak
fairness, but nothing obliges a block to end or to let the timer's exception through;
`ExecuteEnds` therefore excepts the blocks that the timer missed or was never
set for, and those whose result was spoilt. Nobody need print, so nothing is owed by `EndLine`. In `MCPClient` the client is weakly fair (its reads, its posts and its closing have
timeouts), the server is not: it may stall in any state. Only a write into the pipe of a server
that does not read has no timeout, and `CallEnds` excepts it. A server that writes lines without end, or an
HTTP body that comes drop by drop, would start the timeout again for ever; the lines are bounded by `MaxLines`, and a
POST is one step. Crashes, hangs and foreign writers have no
fairness. `Supervisor`, `MemoryPager`, `ToolExecutor`, `VerificationGate` and `LearningStores` are checked for
safety only and assume none.

## Proofs

Every invariant and action property of a passing run, and each of the three refinements, is a
theorem of its specification for all values of the constants, from the assumption the module
declares. The runs above check the same formulas on small instances. PROJECT.json lists the
theorems; below is what each rests on.

| proofs | theorems | beyond the types, the invariant says |
|---|---|---|
| `SupervisorProofs` | `TypeOK`, `AnswerBeforeClose`, `ClosedAsJudged`, `ReportMatchesRow`, `NoTurnAfterAnOutcome`, refinement of `RunLifecycle` | what the row will be at each control point |
| `RLMRecursionProofs` | `TypeOK`, `CountIsBounded`, `CountIsExact`; `ProtocolTypeOK`, `SameBlock` of the sandbox | a caller has itself not passed the limit; what the lines in the pipes are about |
| `HarnessGraphProofs` | `TypeOK`, `EndsWithAnswer`, `NothingAfterARefusal`, `DependenciesKept`; `GateTypeOK`, `PassedIsEarned`, `FailedIsDeserved` of the gate | what holds before a run is over; that a plan is sound |
| `MemoryPagerProofs` | `TypeOK`, `RecallIsExact`, `SummarisedOnce`, `ResumeIsInformed` | which steps of a run are where, at each place of its code |
| `ModelClientProofs` | `TypeOK`, `RetriesAreEarned`, `ResponseIsTheAnswer`, refinement of `TokenStream` | what the buffer holds; how a call stands before a request |
| `ToolExecutorProofs` | `TypeOK`, `AppliedOnce`, `NothingUnapproved`, `ModeIsKept` | no process lives on under a mode that allows no change |
| `LearningStoresProofs` | `TypeOK`, `AcknowledgedStays`, `UserDecides` | what a process has loaded is still in the list |
| `MCPClientProofs` | `TypeOK`, `AsConfigured`, refinement of `RequestReply` | what the command that has the file open has loaded |

**Supervisor.** For any number of turns; the assumption is `MaxTurns \in Nat \ {0}`, which
`Supervisor.__init__` enforces. The inductive invariant is

    IInv == TypeOK /\ RowFollowsControl /\ ClosingFollowsPhase
                   /\ JudgementStands /\ AnswerFollowsControl

The properties speak of the row and of the trace, which are written last. What makes them true
is decided earlier and held in variables of the process, so the invariant has to say at each
control point what the row can be (`RowFollowsControl`), that the status about to be written
follows from phase and verdict (`ClosingFollowsPhase`), that phase, verdict and last result
still agree (`JudgementStands`), and that the answer is in the trace from the completion on
(`AnswerFollowsControl`). Each part has a lemma with one step per action. `ReportMatchesRow` and
`NoTurnAfterAnOutcome` are proved and not in a run: the first follows from the refinement of
`RunLifecycle`, and a run would add nothing to the second.

**RLMRecursion.** For all limits. `CountIsBounded` says that in the process a runtime with h
levels below it never counts more than h + 1 times the limit. It is not inductive: when a child
returns, its count is added to a caller that passed the test before it started the child;
`CallersWithinLimit` (a runtime that waits for a child is within the limit itself) closes the
gap. `CountIsExact` is inductive with the types: until something raises, a step changes what a
frame has counted and what was answered for it alike (`BothAlike`), or starts a child and counts
it (`ChildCounted`), or hands the counts of a child that is done, and its answer, to its caller
(`ChildAdded`).

**SandboxProtocol.** For any numbers of blocks and questions. `SameBlock` relates the host and
the worker, which only see the ends of two pipes, and is not inductive: a result or a question
of an earlier block might be on its way, or left over from a failure. So the invariant speaks of the lines in the pipes: a
block that is on its way is the last one sent, and nothing of it has begun (`LinesToWorker`);
what the worker has said is of that block, its result behind everything else (`LinesToHost`); a
block that runs has no result yet (`BlockRuns`); and where the host is idle nothing of a block
is left, neither in the pipes nor in the worker (`HostIsDone`). What belongs to no block, the
worker's complaint about a line and the lines of others, is the exception each part has to allow.
The gate sends a block after a failure too; its blocks neither ask nor print, so that one line comes
back for each, and nothing of a block is left when the next one is sent (`GateIsSimple`).

**HarnessGraph.** For any numbers of iterations and steps. `EndsWithAnswer` is about a run that
is over, so the invariant says what holds on the way: no completion is claimed and no end status
set while the run goes on (`ClaimedOnce`), whoever ends it has written an answer (`Answered`),
and `Judged` says of every branch of `reflect` that it leaves the run in one of these.
`NothingAfterARefusal` needs that a refusal has still to be reflected on or has ended the run
(`RefusalInv`), so that no node that acts sees one. `DependenciesKept` speaks of the current
step alone, and the recovery makes another step current, so the invariant is that the whole plan
is `Sound`: ids tell the steps apart as far as a step with a dependency lies behind them
(`Numbered`), a step that depends on the one before it is pending only while that one is
pending, current or completed, and in progress only as the current step (`InOrder`), the step
before the current one is completed where the current one depends on it (`CurrentMayRun`), and
no step has more attempts than there were iterations (`Tried`, for the types). Every operator of
`TaskPlan` that `reflect` and the recovery use has a lemma that it keeps a plan sound;
`advance_to_next_step` passes through plans in which nothing waits for a current step
(`Settled`).

**VerificationGate.** For any set of targets, in the module of the graph, whose verify node
calls the gate. `PassedIsEarned` needs to know that a check whose program was wrong has been
recorded as failed or has ended the gate (`Recorded`), `FailedIsDeserved` that what was recorded
as failed was wrong or misread (`Deserved`), for every check and every end of its command. The types give
the bound of seven checks: four commands of the project at most, and the three of the gate
(`GateTypes`).

**MemoryPager.** For any runs, threads and limits. The properties speak of the two tables, which
all runs share, and a page is two writes with a cut of the history in between. The invariant
therefore has one clause per place of the code and run (`Holds`): the history is the last of the
steps the run has produced, in order and never shorter than what is always kept, the count of
the hook is that of the history or of what was appended, and while rows are appended the next
one is within reach. On top of it `RecallOf` says that the rows of a run are its steps from the
first on, up to a number that follows from the place, and `SummariesOf` that its summaries are
disjoint and cover exactly the steps before the history (or, between the two writes of a page,
the steps about to be cut). A step of another run touches none of it, which is half of each
proof.

**ModelClient.** For any number of retries, size of a read and answers. The invariant of
`RetriesAreEarned` says how a call stands before its next request (`StreamStands`,
`CompleteStands`): an attempt left and only transient failures behind it, or the second request
without its format. The simulation of `TokenStream` needs in addition that `stream()` has
yielded its start, and nothing more, before it asks, and `complete()` nothing at all
(`EventsFollowControl`). `ResponseIsTheAnswer` is where the bytes matter. There is a number m of
frames that have been taken, such that the buffer has the bytes from the end of frame m to the
last byte read, each still telling its frame and whether it is a newline, whatever decoding a
chunk by itself has done to the characters (`Consumed`); what was yielded is the text of the
first m frames, and none of these ends the answer (`UpToHere`). So the first separator found is
that of frame m + 1 and lies where the frame ends (`NextFrameIsFound`), a read adds to the
buffer without moving m (`ReadingConsumes`), and a frame that is taken moves it by one
(`TakingConsumes`). A byte of the buffer that is replaced stands beside the end of a read, which is
`HarmedOnlyByCuts`; and every way to end a call but a reset yields the event that `LastEventIsThere` asks for.

**ToolExecutor.** For any files, texts, servers and bounds; the assumption is that the trusted
servers are servers and a torn text is none of the texts. The invariant is `TypeOK /\
AppliedOnce /\ NothingUnapproved /\ Quiet`. `Quiet` says that a run of typed actions under ask,
plan or propose has no command and no process left by one: without it a step of a command could
change a file under such a mode. For the queue the steps are sorted into four moves
(`ChangesMove`: nothing, one more, one taken, all cleared), and the invariant is shown to
survive each.

**LearningStores.** For any processes and bounds, and texts that are finitely many. A process
saves the list it has loaded, with a change, so what it saves is right only as long as what it
loaded still is. `LoadedIsKept` says just that: unless the list is stale, every record a process
has loaded is still there under its id. Every handler is shown to begin with well-formed steps,
and every save to be an addition or a marking of what was loaded (`IsAddition`, `IsMarking`),
each of which keeps one record per key and everything that was acknowledged (`Kept`), and gives
a proposal the status that was decided last (`Decided`).

**MCPConfig and MCPClient.** For any names, commands and bounds. `AsConfigured` is not
inductive: the last step of a command writes what it made of the file it loaded earlier.
`OpenFileIsOurs` closes the gap: without a clash an open file is empty, and a command that alone
has it open has loaded what the commands before it left. The simulation of `RequestReply` needs
only that a call has an outcome exactly from its closing on, and that an MCP notification is
waited for over HTTP alone (`CallInv`). The types need how many messages each stage has sent and
heard (`CallCounts`).

What the assumptions on constants ask for: that bounds are numbers, that there is at least one
turn, iteration, step, block, frame of an answer and byte of a read (with none there is nothing
to run), that `preserve_recent` and the limits of the pager are positive and the candidates no
fewer than the results, and that the texts of `LearningStores` are finitely many, since its
handlers go through them one by one. The first element of a set of numbers, where a proof needs
one, comes from the well-foundedness of `<` on the naturals.

Model-checked only: the liveness properties (`RunEnds` of `RLMRecursion` and of `HarnessGraph`,
`ExecuteEnds`, `StopCleansUp`, `CallEnds` of `ModelClient` and of `MCPClient`), which are
outside the provers' reach.

## Divergences met without a run of their own

* The completion signal of a rejected output stays set (`graph/nodes.py:872`): a later, ordinary
  observation then ends the run, and the trace says "RLM runtime signaled task completion"
  (`graph/nodes.py:945`).
* Recovery skips a step and calls `advance_to_next_step`, which marks it as completed
  (`graph/nodes.py:1107`); the hint of that strategy says it "could not be completed"
  (`graph/recovery.py:162`).
* `_sse_to_token_event` never returns an event of type "error" (`model_client.py:440`): what a provider
  reports as an error inside its stream ends as an ordinary, empty answer; the docstring says
  "Yields exactly one `error` event on failure" (`model_client.py:400`).
* A connection that is reset, before the status line or in the middle of an answer, leaves `stream()` as an
  exception: no handler is written for it (`model_client.py:473`), and the stream ends without a last event. Its
  docstring says "Always yields one `start` event first, then 0+ `delta` events, then exactly one `finish` (or `error`)
  event last" (`model_client.py:77`), and that `complete()` is implemented in terms of it, which it is not.
* The timeout of a stream is that of one `recv` (`model_client.py:436`, `model_client.py:538`): an answer that is kept
  open, with comments or with text, is read for ever.
* A clean collection fails the gate when "error" occurs in the first 200 characters of what it lists, as in
  `tests/test_errors.py` (`graph/verification.py:208`).
* What a process of a block prints to the worker's standard output shares its lines with the messages: a result
  behind an unfinished line is passed over (`sandbox/docker_repl.py:306`), and `execute` waits for ever; a line that is
  JSON but no object, or no UTF-8, raises an exception that is no `SandboxError`.
* `stop` raises when docker does not kill the container in time (`sandbox/docker_repl.py:265`).
* `detect_dependencies` makes a step depend on the one before it; its docstring says "A parent step depends on all its
  children being completed" (`graph/planning.py:78`).
* The default control plane ignores the autonomy mode for code blocks, which may write files
  (`rlm/runtime.py:178`); `README.md:74` says `--ask` is a "read-only answer, no edits".
* The default control plane reads and writes no taste (`run_supervisor_graph`, `task_runtime.py:954`):
  only the graph's nodes do. `README.md:119` says "Harness learns durable preferences and project
  conventions as it runs".
* A taste record that was rejected becomes active again as soon as it is stated, scanned or learned again
  (`memory/profile.py:134`), whatever the user decided; a proposal keeps its status.
* Two processes that save one list lose the change of one of them (`memory/profile.py:123`), and two `harness mcp`
  commands at the same time one of their servers, or all (`mcp_config.py:220`).
* On the host a project command that runs out of time raises inside its check
  (`graph/verification.py:56`), and the node records the gate as skipped, that is, as passed.
* An MCP request of the server with the number of the client's own is taken for the answer
  (`mcp_client.py:139`).
* A run that edits files closes as done without any verification, since
  `run_supervisor_graph` passes no verifier (`kernel/supervisor.py:306`);
  `docs/plans/rlm-first-pivot.md:714` says "an autonomous edit may only finish `done`
  if verification is `verified`".
* `RLMContextEfficiencyGrader` adds up the sub-call counts of the turns
  (`evals/runner.py:411`), but each is the running total of the runtime.
* A container that died between two blocks is replaced and the bootstrap code is not
  run again (`sandbox/docker_repl.py:218`); the system prompt says "The REPL contains:
  - context - answer" (`rlm/runtime.py:831`).
* A verification gate that cannot run is recorded as passed (`graph/nodes.py:1181`);
  `docs/plans/production-grade-harness-revamp.md:410` says "Never pretend skipped
  verification is success."
* A command that is cut off after writing to its standard error is observed as an
  error, not as a timeout: `TimeoutExpired.stderr` is bytes and the message added to it
  is not (`sandbox/tools.py:1306`).
* `apply_pending_change` takes the change out of the queue before it writes
  (`sandbox/tools.py:269`): when the write fails the change is lost. It does not compare
  the file with the text the change was made from.
* `complete()` repeats a request without its response format inside an exception handler:
  a `URLError` or a malformed answer of the second request leaves it as it is
  (`model_client.py:328`).
* The `between_turns` hook is documented as "called after every turn"
  (`kernel/supervisor.py:69`); a turn that ends in an error leaves `run` before it
  (line 156).
* A run closed as `unverified` records a completion of status `success`
  (`_completion_action`, `kernel/supervisor.py:383`).
* `clean_final_answer` promises to replace traceback blocks (line 407), but its
  pattern needs "Error" or "Exception" in the last line (line 417).
* `max_subcalls_per_turn` limits each runtime, not a turn, and counts over all turns
  of a run (`rlm/runtime.py:745`).
* `complete_task` with the status `failed` ends a graph run as done
  (`graph/nodes.py:601`), and a model answer that contains "done" overrules
  failed checks (`graph/nodes.py:992`).
* `max_attempts` of a plan step is printed but never compared
  (`graph/recovery.py:135`).
* `learn` appends to the history after the last `memory_write`
  (`graph/nodes.py:1385`): its notes never reach the recall table.
* `archival_search` filters by thread after it has taken the nearest rows of all
  (`memory/store.py:368`): enough foreign rows hide a thread's own episodes.

## Not modelled

Text: prompts, rendering, formatting, truncation, token counts of the model, and the
answers that `graph/grounded_answers.py` and parts of `sandbox/tools.py` and
`graph/nodes.py` compose from a workspace without the model; they keep no state. The
embeddings and the ranking by relevance (an arbitrary choice in `MemoryPager`).
The remaining command-line modules, configuration, onboarding and the model server, which read
files and arguments once. `graph/checkpoint.py`: no code saves a checkpoint. The context store:
only tests construct one. The eval runner: one case after the other, each in a process of its own, and the grader's
arithmetic. Pipe capacities and the contents of the worker's standard error. PROJECT.json has the
whole list with the reason for each part.

## Plan

Done: every component with a state machine of its own that the program uses. What is left, by weight:

1. Compositions: `HarnessGraph` with `VerificationGate`, whose verdict `Verify` now takes as a choice;
   `HarnessGraph` with `MemoryPager`; `Supervisor` with `RLMRecursion`.
2. Proofs: every safety property of a run is a theorem. What the compositions of (1) add, and the
   refinement of an abstract gate by `VerificationGate` for `Verify`.
3. The eval runner as a client of the trace, and the sums its grader makes of running totals.
