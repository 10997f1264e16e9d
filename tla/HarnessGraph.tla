---------------------------- MODULE HarnessGraph ----------------------------
(***************************************************************************)
(* The older control plane: the graph of nodes that run_task drives with   *)
(* --graph-backend simple or langgraph (graph/build.py, graph/nodes.py),   *)
(* and the part of it that the plan command runs.                          *)
(*                                                                         *)
(* memory_read, plan, then a loop of act, execute_action, verify, observe  *)
(* and reflect, with memory_write after every node; reflect decides        *)
(* whether the run is done, goes on, or is given up, and moves the plan.   *)
(* observe only copies the observation to where reflect reads it, and is   *)
(* part of Verify here.  An observation is what reflect can tell of it.    *)
(* No code of the repository saves a plan checkpoint, so plan never finds  *)
(* one.  The token budget is never charged and is left out.                *)
(***************************************************************************)
EXTENDS TaskPlan

CONSTANTS
  MaxIterations,  \* GraphRuntimeConfig.max_iterations
  MaxSteps        \* bound: the steps of the model's plan

ASSUME GraphAssumption == MaxIterations \in Nat \ {0} /\ MaxSteps \in Nat \ {0}

VARIABLES
  config,       \* the backend, the act engine and the task
  pc,           \* the node to run next
  limit,        \* state.budget.iteration_limit
  plan,         \* state.plan
  status,       \* state.status
  attempt,      \* scratch["graph_iterations"]
  obs,          \* scratch["last_action"]
  pending,      \* scratch["pending_tool_action"]
  signal,       \* scratch["action_completed"]
  verdict,      \* scratch["verification_result"]
  answered,     \* state.final_answer is set
  completions,  \* completion events in the trace
  reason        \* why reflect last called done

vars == <<config, pc, limit, plan, status, attempt, obs, pending, signal, verdict,
          answered, completions, reason>>
-----------------------------------------------------------------------------
\* What the task predicates say of the task's words.  An audit and a summary
\* are informational, and one that is both is judged as an audit; any of them
\* may ask for an edit as well.
Tasks == [kind : {"audit", "summary", "question", "other"}, editing : BOOLEAN]

Configs == [backend : {"simple", "langgraph", "plan"}, engine : {"rlm", "tool"}, task : Tasks]

\* The user-facing output: none, not what an audit or a summary looks like,
\* without a report of changes, or as it should be.
Outputs == {"none", "unfit", "unreported", "good"}
Categories == {"parse", "sandbox", "tool", "empty", "timeout", "unknown"}

\* Who made the observation: the recursive runtime, a tool, or complete_task.
Makers == {"rlm", "tool", "complete_task"}
Ok(out, by) == [status |-> "ok", out |-> out, by |-> by]
\* A failure has the category ErrorClassifier gives it; "denied" is the
\* authorisation's, and "fatal" what reflect does not try to recover from.
Failure(s, by) == [status |-> s, out |-> "none", by |-> by]
NoObservation == Failure("none", "rlm")

Editing == config.task.editing
Informational == config.task.kind # "other"
Passed == verdict # "failed"   \* _check_verification_result
-----------------------------------------------------------------------------
Init ==
  /\ config \in Configs
  /\ pc = "plan" /\ limit = 6 /\ plan = ParsedPlan(0, {}) /\ status = "new"
  /\ attempt = 0 /\ obs = NoObservation /\ pending = "none" /\ signal = FALSE
  /\ verdict = "none" /\ answered = FALSE /\ completions = 0 /\ reason = "none"

\* The default of a task by its complexity, unless the caller asked for less.
IterationLimits ==
  IF MaxIterations < 6 THEN {MaxIterations}
  ELSE {IF d > MaxIterations THEN d ELSE MaxIterations : d \in {4, 6, 10}}

\* The plan command goes no further than the plan.
AfterPlan == IF config.backend = "plan" THEN "finalize" ELSE "head"

\* plan: the model's answer is parsed ...
Plan(n, chained, l) ==
  /\ pc = "plan"
  /\ pc' = AfterPlan /\ plan' = ParsedPlan(n, chained) /\ limit' = l
  /\ UNCHANGED <<config, status, attempt, obs, pending, signal, verdict, answered,
                 completions, reason>>

\* ... or the model fails, and the plan is to respond to the task.
PlanFails ==
  /\ pc = "plan"
  /\ pc' = AfterPlan /\ plan' = ParsedPlan(1, {})
  /\ UNCHANGED <<config, limit, status, attempt, obs, pending, signal, verdict,
                 answered, completions, reason>>

\* finalize_plan_only: whatever the plan is, its rendering is the answer.
FinalizePlan ==
  /\ pc = "finalize"
  /\ pc' = "learn" /\ status' = "done" /\ answered' = TRUE /\ completions' = 1
  /\ UNCHANGED <<config, limit, plan, attempt, obs, pending, signal, verdict, reason>>

\* sanitize_partial_answer: the model's words, or when they are empty or about
\* its own reasoning a text made of the plan and the last output; never nothing.
PartialAnswer == answered' = TRUE

\* finalize_partial: when the model cannot be asked there is a text as well.
FinalizePartial == status' = "stopped" /\ PartialAnswer

\* The head of the loop.  HarnessGraph.invoke counts its loops and looks at the
\* budget; langgraph has no such test.
LoopHead ==
  /\ pc = "head"
  /\ LET simple == config.backend = "simple"
         outOfLoops == simple /\ attempt = MaxIterations
         exhausted == simple /\ ~outOfLoops /\ attempt + 1 >= limit
     IN /\ pc' = IF outOfLoops THEN "learn" ELSE IF exhausted THEN "end" ELSE "act"
        /\ IF outOfLoops \/ exhausted THEN FinalizePartial ELSE UNCHANGED <<status, answered>>
  /\ UNCHANGED <<config, limit, plan, attempt, obs, pending, signal, verdict,
                 completions, reason>>

Observe(o) == pc' = "verify" /\ obs' = o
-----------------------------------------------------------------------------
\* act with the recursive runtime, which runs the task to its end ...
RunRLM(o) ==
  /\ pc = "act" /\ config.engine = "rlm"
  /\ o \in {Ok(out, "rlm") : out \in Outputs}
             \union {Failure(s, "rlm") : s \in {"unknown", "timeout", "tool"}}
  /\ Observe(o) /\ signal' = (o.status = "ok")
  /\ UNCHANGED <<config, limit, plan, status, attempt, pending, verdict, answered,
                 completions, reason>>

\* ... or raises: the signal is then what it was.
RunRLMRaises(s) ==
  /\ pc = "act" /\ config.engine = "rlm" /\ s \in {"sandbox", "tool"}
  /\ Observe(Failure(s, "rlm"))
  /\ UNCHANGED <<config, limit, plan, status, attempt, pending, signal, verdict,
                 answered, completions, reason>>

\* What the prompt offers the model, and the words of some tasks name.
Selectable == Makers \ {"rlm"}

\* act with the typed tools: an action is chosen, by the model, by the words of
\* the task, or as a fallback ...
SelectAction(by) ==
  /\ pc = "act" /\ config.engine = "tool" /\ by \in Selectable
  /\ pc' = "execute" /\ pending' = by
  /\ UNCHANGED <<config, limit, plan, status, attempt, obs, signal, verdict,
                 answered, completions, reason>>

\* ... or the model fails, or what it says is never an action.
SelectFails(s) ==
  /\ pc = "act" /\ config.engine = "tool" /\ s \in {"tool", "parse"}
  /\ Observe(Failure(s, "tool"))
  /\ UNCHANGED <<config, limit, plan, status, attempt, pending, signal, verdict,
                 answered, completions, reason>>

\* execute_action.  complete_task is always allowed and always answers "ok",
\* whatever status it reports.  A tool's timeout has a status of its own, and
\* nothing that marks the observation as timed out.
ExecuteAction(o) ==
  /\ pc = "execute"
  /\ o \in IF pending = "tool"
           THEN {Ok(out, "tool") : out \in Outputs}
                  \union {Failure(s, "tool") : s \in {"denied", "tool", "empty", "fatal"}}
           ELSE {Ok(out, pending) : out \in Outputs}
  /\ Observe(o) /\ pending' = "none"
  /\ signal' = (signal \/ pending # "tool")
  /\ UNCHANGED <<config, limit, plan, status, attempt, verdict, answered,
                 completions, reason>>

\* verify, of an editing task only, then observe.  The gate itself is
\* VerificationGate; when it cannot run it is recorded as passed.
Verify(v) ==
  /\ pc = "verify" /\ v \in IF Editing THEN {"passed", "failed", "skipped"} ELSE {verdict}
  /\ pc' = "reflect" /\ verdict' = v
  /\ UNCHANGED <<config, limit, plan, status, attempt, obs, pending, signal, answered,
                 completions, reason>>
-----------------------------------------------------------------------------
\* reflect.  p is the plan it works with.

\* done(), with the last observation as the answer.
Done(why) ==
  /\ status' = "done" /\ answered' = TRUE /\ reason' = why
  /\ completions' = completions + 1

\* Mutant: the final answer is left unset.
EndWithoutAnswer(s) ==
  /\ status' = s
  /\ UNCHANGED <<answered, completions, reason>>
EndWith(s) ==
  /\ status' = s /\ answered' = TRUE
  /\ UNCHANGED <<completions, reason>>

GoOn == status' = "continue" /\ UNCHANGED <<answered, completions, reason>>

\* Mutant: the attempt is not counted.
SameAttempt == attempt
ThisAttempt == attempt + 1

\* Mutant: one iteration more.
NotYetOutOfIterations == ThisAttempt > MaxIterations
OutOfIterations == ThisAttempt >= MaxIterations

\* Mutant: a skipped step stays skipped.
SkipOnly(p, k) ==
  LET q == SetStatus(p, k, "skipped")
      n == NextPending(q)
  IN [q EXCEPT !.current = IF n = 0 THEN 0 ELSE q.steps[n].id]
\* A skipped step is left by the way a completed one is.
Skip(p, k) == Advance(SetStatus(p, k, "skipped"))

\* _apply_recovery, of the step that reflect found before it moved the focus: a
\* default step is not found again by its id.  When the last step is skipped the partial answer of
\* finalize_partial is written, and the run goes on.
TryAgain(f) ==
  /\ plan' = SetStatus(f.plan, f.step, "in_progress") /\ GoOn

GoPast(f) ==
  /\ plan' = Skip(f.plan, f.step)
  /\ status' = IF HasMore(plan') THEN status ELSE "continue"
  /\ answered' = (answered \/ ~HasMore(plan'))
  /\ UNCHANGED <<completions, reason>>

Recover(p, category) ==
  IF OutOfIterations THEN EndWith("stopped") /\ plan' = p
  ELSE \E f \in {Failed(p, CurrentStep(plan))} :
         \E s \in {Strategy(category, f.plan.steps[f.step].attempts)} :
           IF category = "verification" \/ s \notin {"skip", "abort"} THEN TryAgain(f)
           ELSE IF s = "skip" THEN GoPast(f)
           ELSE plan' = f.plan /\ EndWith("error")

\* _check_output_quality: the category of what is wrong with the output.
Fault ==
  LET kind == config.task.kind IN
  IF obs.status # "ok" THEN "none"
  ELSE IF kind \in {"audit", "summary"} /\ obs.out = "unfit" THEN "empty"
  ELSE IF kind = "audit" THEN "none"
  ELSE IF obs.out = "none" /\ (Informational \/ Editing) THEN "empty"
  ELSE IF Editing /\ obs.out = "unreported" THEN "verification" ELSE "none"

\* The completion signal of an edit that says nothing, after passing checks.
QuietlyCompleted == signal /\ Editing /\ obs.status = "ok" /\ Passed /\ obs.out = "none"

FinishQuietly(p) == QuietlyCompleted /\ plan' = p /\ signal' = FALSE /\ Done("signal")

RejectOutput(p) ==
  /\ ~QuietlyCompleted /\ Fault # "none"
  /\ Recover(p, Fault) /\ UNCHANGED signal

\* Mutant: the run goes on after a refusal.
GiveUpUnlessDenied(p) ==
  /\ obs.status \in {"denied", "fatal"}
  /\ plan' = p /\ UNCHANGED signal
  /\ IF obs.status = "denied" THEN GoOn ELSE EndWith("error")
GiveUp(p) ==
  /\ obs.status \in {"denied", "fatal"}
  /\ plan' = p /\ EndWith("error") /\ UNCHANGED signal

RecoverFromFailure(p) ==
  /\ obs.status \in Categories
  /\ Recover(p, obs.status) /\ UNCHANGED signal

\* From here on the output is acceptable.
Acceptable == obs.status = "ok" /\ Fault = "none" /\ ~QuietlyCompleted
Informed == Informational /\ ~Editing /\ obs.out # "none"

AnswerInformation(p) ==
  /\ Acceptable /\ Informed
  /\ plan' = p /\ UNCHANGED signal /\ Done("answer")

HonourSignal(p) ==
  /\ Acceptable /\ ~Informed /\ signal
  /\ signal' = FALSE
  /\ IF Passed THEN plan' = p /\ Done("signal") ELSE Recover(p, "verification")

\* No signal: the step is taken as completed, unless the checks failed ...
Moved(p) == IF CurrentStep(p) # 0 /\ Passed THEN Advance(p) ELSE p
PlanFinished(p) == CurrentStep(p) # 0 /\ Passed /\ ~HasMore(Moved(p))
FinishPlan(p) ==
  /\ Acceptable /\ ~Informed /\ ~signal /\ PlanFinished(p)
  /\ plan' = Moved(p) /\ UNCHANGED signal /\ Done("plan")

\* ... and the model is asked.  It fails, or the word "done" is in its answer,
\* or not.
AskModel(p) ==
  /\ Acceptable /\ ~Informed /\ ~signal /\ ~PlanFinished(p)
  /\ plan' = Moved(p) /\ UNCHANGED signal
  /\ \/ EndWith("error")
     \/ Done("model")
     \/ IF OutOfIterations \/ ThisAttempt >= limit
        THEN FinalizePartial /\ UNCHANGED <<completions, reason>> ELSE GoOn

Reflect ==
  /\ pc = "reflect"
  /\ attempt' = ThisAttempt /\ pc' = "route"
  /\ \E p \in {Refocus(plan)} :
       \/ FinishQuietly(p) \/ RejectOutput(p) \/ GiveUp(p) \/ RecoverFromFailure(p)
       \/ AnswerInformation(p) \/ HonourSignal(p) \/ FinishPlan(p) \/ AskModel(p)
  /\ UNCHANGED <<config, limit, obs, pending, verdict>>

\* The edges out of reflect.  "done" passes through the done node once more.
Route ==
  /\ pc = "route"
  /\ pc' = IF status \in {"done", "error", "stopped"} THEN "learn" ELSE "head"
  /\ completions' = IF status = "done" THEN completions + 1 ELSE completions
  /\ UNCHANGED <<config, limit, plan, status, attempt, obs, pending, signal, verdict,
                 answered, reason>>

Learn ==
  /\ pc = "learn"
  /\ pc' = "end"
  /\ UNCHANGED <<config, limit, plan, status, attempt, obs, pending, signal, verdict,
                 answered, completions, reason>>

\* Writing the memory after a node, or paging it with a summary, raises, or the
\* store of the traces does: invoke has no handler.
Raise ==
  /\ pc \notin {"end", "raised"}
  /\ pc' = "raised"
  /\ UNCHANGED <<config, limit, plan, status, attempt, obs, pending, signal, verdict,
                 answered, completions, reason>>
-----------------------------------------------------------------------------
Act ==
  \/ \E o \in {Ok(out, "rlm") : out \in Outputs}
                \union {Failure(s, "rlm") : s \in {"unknown", "timeout", "tool"}} : RunRLM(o)
  \/ \E s \in {"sandbox", "tool"} : RunRLMRaises(s)
  \/ \E by \in {"tool", "complete_task"} : SelectAction(by)
  \/ \E s \in {"tool", "parse"} : SelectFails(s)

Execute ==
  \E o \in {Ok(out, by) : out \in Outputs, by \in {"tool", "complete_task"}}
             \union {Failure(s, "tool") : s \in {"denied", "tool", "empty", "fatal"}} :
    ExecuteAction(o)

MakePlan ==
  \/ \E n \in 0..MaxSteps : \E chained \in SUBSET (2..n), l \in IterationLimits :
       Plan(n, chained, l)
  \/ PlanFails

Step ==
  \/ MakePlan \/ FinalizePlan \/ LoopHead \/ Act \/ Execute
  \/ \E v \in {"none", "passed", "failed", "skipped"} : Verify(v)
  \/ Reflect \/ Route \/ Learn \/ Raise

Over == pc \in {"end", "raised"} /\ UNCHANGED vars
Next == Step \/ Over
Spec == Init /\ [][Next]_vars
\* One sequential process; every call of the model and the sandbox returns.
FairSpec == Spec /\ WF_vars(Step)
-----------------------------------------------------------------------------
\* Types, and that no backend reflects more often than max_iterations allows.
Observations == {Ok(out, by) : out \in Outputs, by \in Makers}
  \union {Failure(s, by) : s \in Categories \union {"denied", "fatal"}, by \in Makers}
TypeOK ==
  /\ config \in Configs
  /\ pc \in {"plan", "finalize", "head", "act", "execute", "verify", "reflect", "route", "learn",
             "end", "raised"}
  /\ limit \in {6} \union IterationLimits
  /\ plan.steps \in Seq([id : 1..MaxSteps, status : StepStatuses,
                        attempts : 0..MaxIterations, chained : BOOLEAN])
  /\ plan.current \in 0..MaxSteps
  /\ status \in {"new", "continue", "done", "error", "stopped"}
  /\ attempt \in 0..MaxIterations /\ completions \in 0..2
  /\ obs \in Observations \union {NoObservation}
  /\ pending \in {"none"} \union Makers
  /\ verdict \in {"none", "passed", "failed", "skipped"}
  /\ reason \in {"none", "signal", "answer", "plan", "model"}
  /\ {signal, answered} \subseteq BOOLEAN

\* A run that ends has an answer for its user, in whichever of the many places
\* that end it, and its trace claims a completion exactly if it ends as done.
\* Only the model's word ends an edit as done over checks that failed: neither
\* the completion signal nor the end of the plan does.
EndsWithAnswer ==
  /\ pc = "end" => /\ answered /\ status \in {"done", "error", "stopped"}
                   /\ (completions > 0) = (status = "done")
  /\ Editing /\ verdict = "failed" /\ status = "done" => reason = "model"

\* The plan never moves on to a step before the one it depends on is completed,
\* whatever failed, was retried or was skipped on the way.
DependenciesKept ==
  LET i == ById(plan, plan.current) IN i # 0 => DependenciesMet(plan, i)

\* What the authorisation refused, or reflect does not recover from, is never
\* tried again.
NothingAfterARefusal ==
  [][obs.status \in {"denied", "fatal"} => UNCHANGED <<obs, pending>>]_vars

\* The graph reaches its end with either backend.
RunEnds == <>(pc \in {"end", "raised"})
=============================================================================
