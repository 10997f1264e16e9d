----------------------------- MODULE Supervisor -----------------------------
(***************************************************************************)
(* The control plane of one invocation: run_task and run_supervisor_graph  *)
(* (task_runtime.py) around Supervisor.run (kernel/supervisor.py).         *)
(*                                                                         *)
(* A run opens a row in the trace database, runs up to MaxTurns turns of   *)
(* the RLM runtime, applies the verification policy, writes a completion   *)
(* event and closes the row.  Every trace write is a transaction of its    *)
(* own, so the process may die, or an exception may escape, between any    *)
(* two of them.  A turn is abstracted to its outcome (module               *)
(* RLMRecursion opens it); the files a turn edits are one flag.            *)
(***************************************************************************)
EXTENDS Integers, Sequences

CONSTANT MaxTurns   \* SupervisorConfig.max_turns

\* Supervisor.__init__ raises ValueError otherwise.
ASSUME MaxTurnsAssumption == MaxTurns \in Nat \ {0}

VARIABLES
  pc,           \* where the process stands
  row,          \* runs.status
  report,       \* what run_task returned to its caller
  log,          \* the events table, in insertion order
  phase,        \* RunState.phase
  turn,         \* turns started so far
  result,       \* last_result
  answer,       \* RunState.final_answer
  verdict,      \* the VerificationStatus the finaliser worked with
  closing,      \* the status _finish_run is about to write
  edited,       \* a REPL block has changed the workspace
  hasVerifier,  \* Supervisor(verifier=...) was given one
  hasPager      \* SupervisorConfig.between_turns was given one

vars == <<pc, row, report, log, phase, turn, result, answer, verdict,
          closing, edited, hasVerifier, hasPager>>

config == <<hasVerifier, hasPager>>

-----------------------------------------------------------------------------
TurnStatuses == {"done", "stopped", "error"}

\* Answers are told apart by what clean_final_answer and _record_completion
\* test: nothing there, ordinary text, a raw traceback whose last line names an
\* Error or Exception, one whose last line does not (SystemExit, StopIteration).
Answers == {"empty", "text", "error_traceback", "other_traceback"}

NoResult == [status |-> "none", answer |-> "empty"]
Results == [status : TurnStatuses, answer : Answers]

Verdicts == {"verified", "failed", "unverified", "not_applicable"}
Phases == {"new", "plan", "done", "failed", "stopped", "unverified"}
Closed == {"done", "failed", "stopped", "unverified", "error"}

\* clean_final_answer: the pattern it replaces needs a line that names an Error
\* or an Exception.
CleanFinalAnswer(a) == IF a = "error_traceback" THEN "text" ELSE a

\* What a verifier hook can hand back, as the policy looks at it: whether
\* files changed and which kinds of check outcome are present.
VerificationResults ==
  [changed : BOOLEAN, checks : SUBSET {"passed", "failed", "unrunnable"}]

\* classify_result: the first rule that applies decides.
Classify(vr) ==
  IF ~vr.changed THEN "not_applicable"
  ELSE IF "failed" \in vr.checks THEN "failed"
  ELSE IF vr.checks = {"passed"} THEN "verified" ELSE "unverified"

\* harness_status_from_phase.
HarnessStatus(p) ==
  IF p \in {"done", "failed", "blocked", "stopped", "unverified"} THEN p ELSE "new"

\* The CompletionStatus that _completion_action derives from the phase.
CompletionStatus(p) ==
  CASE p = "stopped" -> "partial"
    [] p = "failed"  -> "failed"
    [] p = "blocked" -> "blocked"
    [] OTHER         -> "success"

EventKinds == {"run_started", "turn_started", "turn_finished", "verifier_result",
               "verifier_error", "verification", "completion", "error"}
Notes == {"none", "cli", "supervisor", "success", "partial", "failed", "blocked"}
           \union TurnStatuses \union Verdicts
Events == [kind : EventKinds, note : Notes]
Event(kind, note) == [kind |-> kind, note |-> note]
With(l, kind, note) == Append(l, Event(kind, note))
Append1(kind, note) == log' = With(log, kind, note)
Has(l, kind) == \E i \in 1..Len(l) : l[i].kind = kind
Logged(kind) == Has(log, kind)

-----------------------------------------------------------------------------
Init ==
  /\ pc = "cli" /\ row = "absent" /\ report = "none" /\ log = <<>>
  /\ phase = "new" /\ turn = 0 /\ result = NoResult /\ answer = "none"
  /\ verdict = "none" /\ closing = "none" /\ edited = FALSE
  /\ hasVerifier \in BOOLEAN /\ hasPager \in BOOLEAN

\* run_preflight_failure: exit 1 before a row exists.
PreflightFails ==
  /\ pc = "cli"
  /\ pc' = "returned" /\ report' = "refused"
  /\ UNCHANGED <<row, log, phase, turn, result, answer, verdict, closing,
                 edited, config>>

\* traces.start_run.
StartRun ==
  /\ pc = "cli"
  /\ pc' = "opened" /\ row' = "running"
  /\ UNCHANGED <<report, log, phase, turn, result, answer, verdict, closing,
                 edited, config>>

\* record_run_started_event, by the command line.
RecordRunStarted ==
  /\ pc = "opened"
  /\ pc' = "setup" /\ Append1("run_started", "cli")
  /\ UNCHANGED <<row, report, phase, turn, result, answer, verdict, closing,
                 edited, config>>

\* Memory opened, runtime built; Supervisor.run records the start once more.
EnterSupervisor ==
  /\ pc = "setup"
  /\ pc' = "turns" /\ phase' = "plan" /\ Append1("run_started", "supervisor")
  /\ UNCHANGED <<row, report, turn, result, answer, verdict, closing, edited, config>>

\* The next iteration of the turn loop, up to the TurnStarted event.
BeginTurn ==
  /\ pc = "turns" /\ turn < MaxTurns
  /\ turn' = turn + 1 /\ pc' = "streaming" /\ Append1("turn_started", "none")
  /\ UNCHANGED <<row, report, phase, result, answer, verdict, closing, edited, config>>

\* A REPL block of the running turn changes a file of the workspace.
EditWorkspace ==
  /\ pc = "streaming" /\ ~edited
  /\ edited' = TRUE
  /\ UNCHANGED <<pc, row, report, log, phase, turn, result, answer, verdict,
                 closing, config>>

\* TurnFinished with "done" or "stopped".  stopped_final_answer always has
\* something to say; a "done" answer may be empty.
FinishTurn(status, a) ==
  /\ pc = "streaming" /\ status # "error" /\ (status = "stopped" => a # "empty")
  /\ pc' = "between" /\ result' = [status |-> status, answer |-> a]
  /\ Append1("turn_finished", status)
  /\ UNCHANGED <<row, report, phase, turn, answer, verdict, closing, edited, config>>

\* TurnFinished with "error": a SandboxError ended the turn.  Neither the
\* hook nor the verifier runs and no completion is recorded.
FailTurn(a) ==
  /\ pc = "streaming" /\ a # "empty"
  /\ result' = [status |-> "error", answer |-> a]
  /\ Append1("turn_finished", "error")
  /\ phase' = "failed" /\ answer' = CleanFinalAnswer(a)
  /\ pc' = "closing" /\ closing' = "error"
  /\ UNCHANGED <<row, report, turn, verdict, edited, config>>

\* The two exits of the turn loop.
LoopOver == result.status = "done" \/ turn = MaxTurns

\* The between_turns hook, then the head of the loop again.
BetweenTurns ==
  /\ pc = "between"
  /\ pc' = IF LoopOver THEN "verify" ELSE "turns"
  /\ UNCHANGED <<row, report, log, phase, turn, result, answer, verdict,
                 closing, edited, config>>

-----------------------------------------------------------------------------
\* Mutant: the verdict itself becomes the run's status.
PhaseIsVerdict(v) == v
\* The phase _finalize_with_verification gives each verdict; the row is closed
\* with the same word.
FinalPhase(v) ==
  LET finished == result.status = "done" IN
  CASE v = "failed"         -> "failed"
    [] v = "unverified"     -> "unverified"
    [] v = "not_applicable" -> IF finished THEN "done" ELSE "stopped"
    [] OTHER                -> IF finished THEN "done" ELSE "failed"

\* The one case without a final answer and without a completion event: checks
\* passed but no turn ever reached "done".
Silent(v) == v = "verified" /\ result.status # "done"

\* Mutant: a verified run is closed without its completion.
FinalizeVerifiedAtOnce(v) ==
  /\ phase' = FinalPhase(v) /\ closing' = FinalPhase(v)
  /\ answer' = IF Silent(v) THEN answer ELSE CleanFinalAnswer(result.answer)
  /\ pc' = IF v = "verified" THEN "closing" ELSE "completing"
Finalize(v) ==
  /\ phase' = FinalPhase(v) /\ closing' = FinalPhase(v)
  /\ answer' = IF Silent(v) THEN answer ELSE CleanFinalAnswer(result.answer)
  /\ pc' = IF Silent(v) THEN "closing" ELSE "completing"

\* No verifier was supplied: the supervisor works with "not_applicable".
SkipVerifier ==
  /\ pc = "verify" /\ ~hasVerifier
  /\ pc' = "judging" /\ verdict' = "not_applicable"
  /\ UNCHANGED <<row, report, log, phase, turn, result, answer, closing, edited, config>>

\* The verifier answers, which is recorded, and the policy classifies its answer.
\* The files it calls changed need not be those this run edited: it compares with
\* the last commit, and it sees neither untracked files nor who made a change.
RunVerifier(vr) ==
  /\ pc = "verify" /\ hasVerifier
  /\ pc' = "judging" /\ verdict' = Classify(vr) /\ Append1("verifier_result", "none")
  /\ UNCHANGED <<row, report, phase, turn, result, answer, closing, edited, config>>

\* Mutant: a verifier that raises counts as no verifier.
VerdictOfNone == "not_applicable"
\* The verifier raises, or its answer cannot be recorded: the run is unverified.
VerdictOfARaise == "unverified"
VerifierRaises ==
  /\ pc = "verify" /\ hasVerifier
  /\ pc' = "judging" /\ verdict' = VerdictOfARaise /\ Append1("verifier_error", "none")
  /\ UNCHANGED <<row, report, phase, turn, result, answer, closing, edited, config>>

\* The verdict is recorded, and the branch it selects begins.
Judge ==
  /\ pc = "judging"
  /\ Finalize(verdict) /\ Append1("verification", verdict)
  /\ UNCHANGED <<row, report, turn, result, verdict, edited, config>>

\* _record_completion returns early when there is no answer to record.
RecordCompletion ==
  /\ pc = "completing"
  /\ pc' = "closing"
  /\ IF answer = "empty" THEN UNCHANGED log
                         ELSE Append1("completion", CompletionStatus(phase))
  /\ UNCHANGED <<row, report, phase, turn, result, answer, verdict, closing,
                 edited, config>>

\* _finish_run: an unconditional UPDATE of the row.
FinishRun ==
  /\ pc = "closing"
  /\ pc' = "closed" /\ row' = closing
  /\ UNCHANGED <<report, log, phase, turn, result, answer, verdict, closing,
                 edited, config>>

\* to_harness_state and the return of run_task.
Return ==
  /\ pc = "closed"
  /\ pc' = "returned" /\ report' = HarnessStatus(phase)
  /\ UNCHANGED <<row, log, phase, turn, result, answer, verdict, closing,
                 edited, config>>

-----------------------------------------------------------------------------
\* Mutant: exceptions are also handled once the finaliser has begun to write.
InsideOrClosing == pc \in {"setup", "streaming", "between", "closing", "closed"}
\* Where an exception that run_task handles can come from.
InsideTry == pc \in {"setup", "streaming"} \/ (pc = "between" /\ hasPager)

\* LMClientError (a model call), MemoryError (opening or paging the memory)
\* or SandboxError reaches run_task, which records it ...
RaiseHandled ==
  /\ InsideTry
  /\ pc' = "handling" /\ Append1("error", "cli")
  /\ UNCHANGED <<row, report, phase, turn, result, answer, verdict, closing,
                 edited, config>>

\* ... closes the row ...
HandleError ==
  /\ pc = "handling"
  /\ pc' = "errored" /\ row' = "error"
  /\ UNCHANGED <<report, log, phase, turn, result, answer, verdict, closing, edited, config>>

\* ... and returns 1 without a final state.
ReturnError ==
  /\ pc = "errored"
  /\ pc' = "returned" /\ report' = "error"
  /\ UNCHANGED <<row, log, phase, turn, result, answer, verdict, closing,
                 edited, config>>

Stopped == {"returned", "aborted", "hung"}

\* Any other exception (a dropped connection, a locked trace database, an
\* interrupt) or the death of the process: nothing more is written.
Abort ==
  /\ pc \notin Stopped
  /\ pc' = "aborted"
  /\ UNCHANGED <<row, report, log, phase, turn, result, answer, verdict,
                 closing, edited, config>>

\* A turn that never ends: the sandbox host blocks on a read with no deadline.
TurnHangs ==
  /\ pc = "streaming"
  /\ pc' = "hung"
  /\ UNCHANGED <<row, report, log, phase, turn, result, answer, verdict,
                 closing, edited, config>>

EndTurn == \E a \in Answers :
  \/ \E status \in TurnStatuses : FinishTurn(status, a)
  \/ FailTurn(a)

RunTheVerifier == \E vr \in VerificationResults : RunVerifier(vr)

\* What the process does of its own accord.
Step ==
  \/ PreflightFails \/ StartRun \/ RecordRunStarted \/ EnterSupervisor
  \/ BeginTurn \/ EditWorkspace \/ EndTurn \/ BetweenTurns
  \/ SkipVerifier \/ RunTheVerifier \/ VerifierRaises \/ Judge
  \/ RecordCompletion \/ FinishRun \/ Return
  \/ RaiseHandled \/ HandleError \/ ReturnError

\* The process is over; written out so that TLC still reports a run that
\* stops anywhere else.
Over == pc \in Stopped /\ UNCHANGED vars

Next == Step \/ Abort \/ TurnHangs \/ Over

Spec == Init /\ [][Next]_vars

-----------------------------------------------------------------------------
\* Types of the variables, and the events the trace can hold.
TypeOK ==
  /\ pc \in {"cli", "opened", "setup", "turns", "streaming", "between", "verify",
             "judging", "completing", "closing", "closed", "handling", "errored"} \union Stopped
  /\ row \in {"absent", "running"} \union Closed
  /\ report \in {"none", "refused", "error", "new", "blocked"} \union Phases
  /\ log \in Seq(Events)
  /\ phase \in Phases /\ turn \in 0..MaxTurns
  /\ result \in Results \union {NoResult}
  /\ answer \in {"none"} \union Answers
  /\ verdict \in {"none"} \union Verdicts
  /\ closing \in {"none"} \union Closed
  /\ edited \in BOOLEAN
  /\ hasVerifier \in BOOLEAN /\ hasPager \in BOOLEAN

\* Every status other than "error" is written by the finaliser, and by then
\* the answer the caller will be shown is in the trace: a crash between the
\* two writes never leaves a closed run without its completion event.
AnswerBeforeClose ==
  row \in Closed \ {"error"} /\ answer \notin {"none", "empty"} => Logged("completion")

\* The strict policy at the row: "done" takes a finished turn and a verifier
\* that did not fail, did not raise and did not come back inconclusive, and
\* "stopped" takes every turn the run was allowed.
ClosedAsJudged ==
  /\ row = "done" => /\ result.status = "done"
                     /\ verdict \in {"verified", "not_applicable"}
                     /\ ~Logged("verifier_error") /\ ~Logged("error")
  /\ row = "stopped" => turn = MaxTurns /\ result.status = "stopped"

\* A run the caller has been shown as finished is closed in the trace, and
\* exit code 0 ("done") is given exactly for a row closed as "done".
ReportMatchesRow ==
  pc = "returned" /\ report # "refused" =>
    /\ row \in Closed
    /\ (report = "done") = (row = "done")

\* A turn that reported "done" or "error" is the last one of its run.
NoTurnAfterAnOutcome ==
  [][turn' # turn => result.status \notin {"done", "error"}]_vars

\* The supervisor implements the life of a run as the trace promises it.
Lifecycle == INSTANCE RunLifecycle WITH row <- row, report <- report
ImplementsLifecycle == Lifecycle!Spec
=============================================================================
