-------------------------- MODULE HarnessGraphProofs --------------------------
(***************************************************************************)
(* The older control plane, for any numbers of iterations and steps.       *)
(*                                                                         *)
(* How a run ends: many places of the graph end a run; what makes them     *)
(* agree is that the status says "done", "error" or "stopped" only between *)
(* the place that ends the run and its end, where nothing changes the      *)
(* verdict any more, and that the trace claims a completion only then.     *)
(*                                                                         *)
(* The plan: whatever the recovery does to its steps, the current one has  *)
(* its dependencies met.                                                   *)
(*                                                                         *)
(* The gate of the verify node, for any set of targets: a pass is earned   *)
(* and a failure deserved, whatever a project names and however its        *)
(* commands end.                                                           *)
(***************************************************************************)
EXTENDS HarnessGraph, VerificationGate, SequenceTheorems, FiniteSetTheorems,
        WellFoundedInduction, TLAPS

Refused == obs.status \in {"denied", "fatal"}
EndStatuses == {"done", "error", "stopped"}

\* The nodes that only run while the run goes on.
Underway == pc \in {"plan", "finalize", "head", "act", "execute", "verify", "reflect"}

\* No completion is claimed while the run goes on, and one by the time it has
\* been called done.
ClaimedOnce ==
  /\ Underway => status \in {"new", "continue"} /\ completions = 0
  /\ pc = "route" => /\ status \in {"new", "continue"} \union EndStatuses
                     /\ completions = IF status = "done" THEN 1 ELSE 0

\* Whoever ends the run has written an answer, and claims a completion if it
\* is done.
Answered ==
  /\ pc = "route" /\ status \in EndStatuses => answered
  /\ pc = "learn" => /\ answered /\ status \in EndStatuses
                     /\ (completions > 0) = (status = "done")

\* Checks are judged only between act and reflect.
NotYetChecked == pc \in {"plan", "finalize"} => verdict = "none"

EndInv == ClaimedOnce /\ Answered /\ NotYetChecked /\ EndsWithAnswer

\* A refusal has still to be reflected on, or has ended the run.
RefusalInv ==
  Refused => /\ pc \in {"verify", "reflect", "route", "learn", "end", "raised"}
             /\ pc = "route" => status = "error"
-----------------------------------------------------------------------------
\* What a reflection leaves the run in: going on, or ended with an answer; and
\* over failed checks of an edit done only by the model's word.
Judged ==
  \/ status' \in {"new", "continue"} /\ completions' = 0
  \/ status' \in {"error", "stopped"} /\ answered' /\ completions' = 0
  \/ /\ status' = "done" /\ answered' /\ completions' = 1
     /\ Editing /\ verdict = "failed" => reason' = "model"

\* _apply_recovery retries, skips or gives up; it never completes.
LEMMA RecoverIsNoCompletion ==
  ASSUME EndInv, pc = "reflect", NEW p, NEW category, Recover(p, category)
  PROVE  Judged
<1>1. status \in {"new", "continue"} /\ completions = 0
  BY DEF EndInv, ClaimedOnce, Underway
<1>2. EndWith("stopped") => Judged
  BY <1>1 DEF EndWith, Judged
<1>3. EndWith("error") => Judged
  BY <1>1 DEF EndWith, Judged
<1>4. \A f : TryAgain(f) => Judged
  BY <1>1 DEF TryAgain, GoOn, Judged
<1>5. \A f : GoPast(f) => Judged
  BY <1>1 DEF GoPast, Judged
<1> QED
  BY <1>2, <1>3, <1>4, <1>5 DEF Recover

\* Every branch of reflect.
LEMMA ReflectJudges ==
  ASSUME EndInv, Reflect
  PROVE  Judged
<1>1. pc = "reflect"
  BY DEF Reflect
<1>2. status \in {"new", "continue"} /\ completions = 0
  BY <1>1 DEF EndInv, ClaimedOnce, Underway
<1>3. PICK p \in {Refocus(plan)} :
        \/ FinishQuietly(p) \/ RejectOutput(p) \/ GiveUp(p) \/ RecoverFromFailure(p)
        \/ AnswerInformation(p) \/ HonourSignal(p) \/ FinishPlan(p) \/ AskModel(p)
  BY DEF Reflect
<1>4. \A why : Done(why) /\ (Editing => Passed) => Judged
  BY <1>2 DEF Done, Passed, Judged
<1>5. CASE FinishQuietly(p)
  BY <1>4, <1>5 DEF FinishQuietly, QuietlyCompleted
<1>6. CASE RejectOutput(p)
  BY <1>1, <1>6, RecoverIsNoCompletion DEF RejectOutput
<1>7. CASE GiveUp(p)
  BY <1>2, <1>7 DEF GiveUp, EndWith, Judged
<1>8. CASE RecoverFromFailure(p)
  BY <1>1, <1>8, RecoverIsNoCompletion DEF RecoverFromFailure
<1>9. CASE AnswerInformation(p)
  BY <1>4, <1>9 DEF AnswerInformation, Informed
<1>10. CASE HonourSignal(p)
  BY <1>1, <1>4, <1>10, RecoverIsNoCompletion DEF HonourSignal
<1>11. CASE FinishPlan(p)
  BY <1>4, <1>11 DEF FinishPlan, PlanFinished
<1>12. CASE AskModel(p)
  BY <1>2, <1>12 DEF AskModel, EndWith, Done, GoOn, FinalizePartial, PartialAnswer, Judged
<1> QED
  BY <1>3, <1>5, <1>6, <1>7, <1>8, <1>9, <1>10, <1>11, <1>12

LEMMA EndInit == Init => EndInv
BY DEF Init, EndInv, ClaimedOnce, Underway, Answered, NotYetChecked, EndsWithAnswer, EndStatuses

\* Acting, and what comes of it, leaves how the run stands alone.
LEMMA ActingDecidesNothing ==
  ASSUME Act \/ Execute
  PROVE  /\ pc \in {"act", "execute"} /\ pc' \in {"execute", "verify"}
         /\ UNCHANGED <<config, status, verdict, answered, completions, reason>>
BY DEF Act, Execute, RunRLM, RunRLMRaises, SelectAction, SelectFails, ExecuteAction, Observe

LEMMA EndStep == EndInv /\ [Next]_vars => EndInv'
<1> SUFFICES ASSUME EndInv, [Next]_vars PROVE EndInv'
  OBVIOUS
<1> USE DEF EndInv, ClaimedOnce, Underway, Answered, NotYetChecked, EndsWithAnswer,
            EndStatuses, Editing
<1>1. CASE MakePlan
  BY <1>1 DEF MakePlan, Plan, PlanFails, AfterPlan
<1>2. CASE FinalizePlan
  BY <1>2 DEF FinalizePlan
<1>3. CASE LoopHead
  BY <1>3 DEF LoopHead, FinalizePartial, PartialAnswer
<1>4. CASE Act \/ Execute
  BY <1>4, ActingDecidesNothing
<1>5. ASSUME NEW v, Verify(v) PROVE EndInv'
  BY <1>5 DEF Verify
<1>6. CASE Reflect
  <2>1. Judged
    BY <1>6, ReflectJudges
  <2>2. pc' = "route" /\ config' = config /\ verdict' = verdict
    BY <1>6 DEF Reflect
  <2> QED
    BY <2>1, <2>2 DEF Judged
<1>7. CASE Route
  <2>1. pc = "route" /\ UNCHANGED <<config, status, verdict, answered, reason>>
    BY <1>7 DEF Route
  <2>2. CASE status = "done"
    BY <1>7, <2>1, <2>2 DEF Route
  <2>3. CASE status \in {"error", "stopped"}
    BY <1>7, <2>1, <2>3 DEF Route
  <2>4. CASE status \in {"new", "continue"}
    BY <1>7, <2>1, <2>4 DEF Route
  <2> QED
    BY <2>1, <2>2, <2>3, <2>4
<1>8. CASE Learn
  BY <1>8 DEF Learn
<1>9. CASE Raise
  BY <1>9 DEF Raise
<1>10. CASE UNCHANGED vars
  BY <1>10 DEF vars
<1> QED
  BY <1>1, <1>2, <1>3, <1>4, <1>5, <1>6, <1>7, <1>8, <1>9, <1>10 DEF Next, Step, Over

\* A run that ends has an answer for its user, its trace claims a completion
\* exactly if it ends as done, and only the model's word ends an edit as done
\* over checks that failed; for any numbers of iterations and steps.
THEOREM EndsAreAnswered == Spec => []EndsWithAnswer
<1>1. Spec => []EndInv
  BY EndInit, EndStep, PTL DEF Spec
<1>2. EndInv => EndsWithAnswer
  BY DEF EndInv
<1> QED
  BY <1>1, <1>2, PTL
-----------------------------------------------------------------------------
\* Reflecting on a refusal gives the run up.
LEMMA ReflectGivesUp ==
  ASSUME Refused, Reflect
  PROVE  status' = "error"
<1>1. PICK p \in {Refocus(plan)} :
        \/ FinishQuietly(p) \/ RejectOutput(p) \/ GiveUp(p) \/ RecoverFromFailure(p)
        \/ AnswerInformation(p) \/ HonourSignal(p) \/ FinishPlan(p) \/ AskModel(p)
  BY DEF Reflect
<1>2. obs.status # "ok" /\ obs.status \notin Categories
  BY DEF Refused, Categories
<1>3. ~FinishQuietly(p) /\ ~RejectOutput(p)
  BY <1>2 DEF FinishQuietly, QuietlyCompleted, RejectOutput, Fault
<1>4. ~RecoverFromFailure(p)
  BY <1>2 DEF RecoverFromFailure
<1>5. ~AnswerInformation(p) /\ ~HonourSignal(p) /\ ~FinishPlan(p) /\ ~AskModel(p)
  BY <1>2 DEF AnswerInformation, HonourSignal, FinishPlan, AskModel, Acceptable
<1> QED
  BY <1>1, <1>3, <1>4, <1>5 DEF GiveUp, EndWith

\* Whatever is observed is verified and reflected on next.
LEMMA ActingObserves ==
  ASSUME Act \/ Execute
  PROVE  pc \in {"act", "execute"} /\ (obs' = obs \/ pc' = "verify")
BY DEF Act, Execute, RunRLM, RunRLMRaises, SelectAction, SelectFails, ExecuteAction, Observe

LEMMA RefusalInit == Init => RefusalInv
BY DEF Init, RefusalInv, Refused, NoObservation, Failure

LEMMA RefusalStep == RefusalInv /\ [Next]_vars => RefusalInv'
<1> SUFFICES ASSUME RefusalInv, [Next]_vars PROVE RefusalInv'
  OBVIOUS
<1> USE DEF RefusalInv, Refused
<1>1. CASE MakePlan
  BY <1>1 DEF MakePlan, Plan, PlanFails
<1>2. CASE FinalizePlan \/ LoopHead
  BY <1>2 DEF FinalizePlan, LoopHead
<1>3. CASE Act \/ Execute
  BY <1>3, ActingObserves
<1>4. ASSUME NEW v, Verify(v) PROVE RefusalInv'
  BY <1>4 DEF Verify
<1>5. CASE Reflect
  <2>1. pc' = "route" /\ obs' = obs
    BY <1>5 DEF Reflect
  <2> QED
    BY <1>5, <2>1, ReflectGivesUp
<1>6. CASE Route
  BY <1>6 DEF Route
<1>7. CASE Learn \/ Raise
  BY <1>7 DEF Learn, Raise
<1>8. CASE UNCHANGED vars
  BY <1>8 DEF vars
<1> QED
  BY <1>1, <1>2, <1>3, <1>4, <1>5, <1>6, <1>7, <1>8 DEF Next, Step, Over

\* Only acting observes, or chooses a tool.
LEMMA OnlyActingActs ==
  ASSUME [Next]_vars, ~(Act \/ Execute)
  PROVE  UNCHANGED <<obs, pending>>
BY DEF Next, Step, Over, MakePlan, Plan, PlanFails, FinalizePlan, LoopHead, Verify, Reflect,
       Route, Learn, Raise, vars

\* What the authorisation refused, or reflect does not recover from, is never
\* tried again, however many iterations are left.
THEOREM RefusalsAreFinal == Spec => NothingAfterARefusal
<1>1. Spec => []RefusalInv
  BY RefusalInit, RefusalStep, PTL DEF Spec
<1>2. RefusalInv /\ [Next]_vars
      => [obs.status \in {"denied", "fatal"} => UNCHANGED <<obs, pending>>]_vars
  <2> SUFFICES ASSUME RefusalInv, [Next]_vars, obs.status \in {"denied", "fatal"}
               PROVE  UNCHANGED <<obs, pending>>
    OBVIOUS
  <2>1. ~(Act \/ Execute)
    BY ActingObserves DEF RefusalInv, Refused
  <2> QED
    BY <2>1, OnlyActingActs
<1> QED
  BY <1>1, <1>2, PTL DEF Spec, NothingAfterARefusal
-----------------------------------------------------------------------------
\* The plan.  A step is taken for completed when the plan moves on from it, be
\* it skipped; so the steps before the first pending one are completed, but for
\* the current one.  The default steps that a failed recovery adds repeat the
\* id 1 and come when nothing is left to do.
PlanSteps == [id : 1..MaxSteps, status : StepStatuses, attempts : Nat, chained : BOOLEAN]
Plans == [steps : Seq(PlanSteps), current : 0..MaxSteps]

\* The parser numbers the steps, and a chained one follows its predecessor.
Numbered(p) ==
  \A i \in Steps(p) :
    /\ p.steps[i].id \in {1, i}
    /\ p.steps[i].chained => i > 1 /\ \A j \in 1..i : p.steps[j].id = j

\* A chained step is only pending while its predecessor is pending, current or
\* completed, and only in progress while it is the current one.
InOrder(p) ==
  \A i \in Steps(p) : p.steps[i].chained =>
    /\ p.steps[i].status = "pending" =>
         \/ i - 1 = ById(p, p.current)
         \/ p.steps[i - 1].status \in {"completed", "pending"}
    /\ p.steps[i].status = "in_progress" => i = ById(p, p.current)

\* The current step, if it is chained, has a completed predecessor.
CurrentMayRun(p) ==
  LET i == ById(p, p.current) IN
  i # 0 /\ p.steps[i].chained => p.steps[i - 1].status = "completed"

Tried(p, n) == \A i \in Steps(p) : p.steps[i].attempts <= n
Sound(p, n) ==
  p \in Plans /\ Numbered(p) /\ InOrder(p) /\ CurrentMayRun(p) /\ Tried(p, n)

\* Steps with the same ids and the same dependencies.
SameShape(p, q) ==
  /\ Len(q.steps) = Len(p.steps)
  /\ \A i \in Steps(p) : /\ q.steps[i].id = p.steps[i].id
                         /\ q.steps[i].chained = p.steps[i].chained
-----------------------------------------------------------------------------
\* The naturals are well ordered, so the first of some steps is one of them.
Below == OpToRel(<, Nat)

LEMMA BelowIsWellFounded == IsWellFoundedOn(Below, Nat)
BY NatLessThanWellFounded DEF Below

LEMMA FirstIsFirst ==
  ASSUME NEW S, S \subseteq Nat, S # {}
  PROVE  First(S) \in S /\ \A j \in S : First(S) <= j
<1>1. PICK i \in S : \A j \in S : ~(<<j, i>> \in Below)
  BY BelowIsWellFounded, WFMin
<1>2. \A i1 \in Nat, j1 \in Nat : i1 < j1 => <<i1, j1>> \in Below
  BY DEF Below, OpToRel
<1>3. ASSUME NEW j \in S PROVE i <= j
  <2>1. ~(j < i)
    BY <1>1, <1>2
  <2> QED  BY <2>1
<1> QED  BY <1>3 DEF First

LEMMA StepTypes ==
  ASSUME NEW p \in Plans
  PROVE  /\ Len(p.steps) \in Nat /\ p.current \in 0..MaxSteps
         /\ \A i \in Steps(p) : p.steps[i] \in PlanSteps /\ p.steps[i].id \in 1..MaxSteps
<1>1. p.steps \in Seq(PlanSteps) /\ p.current \in 0..MaxSteps
  BY DEF Plans
<1>2. \A i \in Steps(p) : p.steps[i] \in PlanSteps
  BY <1>1, ElementOfSeq DEF Steps
<1> QED  BY <1>1, <1>2 DEF PlanSteps

\* What plan_step_by_id finds.
LEMMA ByIdFinds ==
  ASSUME NEW p \in Plans, NEW id
  PROVE  /\ (ById(p, id) = 0) = (\A i \in Steps(p) : p.steps[i].id # id)
         /\ ById(p, id) # 0 =>
              /\ ById(p, id) \in Steps(p) /\ p.steps[ById(p, id)].id = id
              /\ \A j \in Steps(p) : p.steps[j].id = id => ById(p, id) <= j
<1> DEFINE S == {i \in Steps(p) : p.steps[i].id = id}
<1>1. S \subseteq Nat /\ S \subseteq Steps(p) /\ 0 \notin S
  BY StepTypes DEF Steps
<1>2. ById(p, id) = First(S)
  BY DEF ById
<1>3. CASE S = {}
  BY <1>2, <1>3 DEF First
<1>4. CASE S # {}
  <2>1. First(S) \in S /\ \A j \in S : First(S) <= j
    BY <1>1, <1>4, FirstIsFirst
  <2> QED  BY <1>1, <1>2, <2>1
<1> QED  BY <1>3, <1>4

\* What is found for the current step.
LEMMA CurrentIsFound ==
  ASSUME NEW p \in Plans
  PROVE  /\ ById(p, p.current) # 0 =>
              ById(p, p.current) \in Steps(p) /\ p.steps[ById(p, p.current)].id = p.current
         /\ \A i \in Steps(p) : p.steps[i].id = p.current => ById(p, p.current) # 0
BY ByIdFinds

LEMMA SameIds ==
  ASSUME NEW p, NEW q, SameShape(p, q), NEW id
  PROVE  ById(q, id) = ById(p, id)
<1>1. {i \in Steps(q) : q.steps[i].id = id} = {i \in Steps(p) : p.steps[i].id = id}
  BY DEF SameShape, Steps
<1> QED  BY <1>1 DEF ById

\* Up to a chained step, ids are places.
LEMMA ChainIds ==
  ASSUME NEW p \in Plans, Numbered(p), NEW i \in Steps(p), p.steps[i].chained,
         NEW j \in 1..i
  PROVE  ById(p, j) = j /\ j \in Steps(p)
<1>1. /\ Len(p.steps) \in Nat /\ i \in 1..Len(p.steps)
      /\ \A k \in 1..i : p.steps[k].id = k
  BY StepTypes DEF Numbered, Steps
<1>2. j \in Steps(p) /\ p.steps[j].id = j
  BY <1>1 DEF Steps
<1>3. ById(p, j) # 0 /\ ById(p, j) \in Steps(p) /\ p.steps[ById(p, j)].id = j /\ ById(p, j) <= j
  BY <1>2, ByIdFinds
<1>4. ById(p, j) \in 1..i
  BY <1>1, <1>3 DEF Steps
<1> QED  BY <1>1, <1>2, <1>3, <1>4

\* A step found by the id of a chained one, or of the first, is no other.
LEMMA ChainedIsFound ==
  ASSUME NEW p \in Plans, Numbered(p), NEW i \in Steps(p), p.steps[ById(p, p.steps[i].id)].chained
  PROVE  ById(p, p.steps[i].id) = i
<1> DEFINE k == ById(p, p.steps[i].id)
<1>1. k # 0 /\ k \in Steps(p) /\ p.steps[k].id = p.steps[i].id
  BY ByIdFinds
<1>2. k \in Nat /\ k > 1 /\ p.steps[k].id = k
  BY <1>1, StepTypes DEF Numbered, Steps
<1>3. p.steps[i].id \in {1, i}
  BY DEF Numbered
<1> HIDE DEF k
<1> QED  BY <1>1, <1>2, <1>3 DEF k

LEMMA CompletedMeets ==
  ASSUME NEW p \in Plans, Numbered(p), NEW i \in Steps(p),
         p.steps[i].chained => p.steps[i - 1].status = "completed"
  PROVE  DependenciesMet(p, i)
<1>1. CASE ~p.steps[i].chained
  BY <1>1 DEF DependenciesMet
<1>2. CASE p.steps[i].chained
  <2>1. /\ i \in Nat /\ Len(p.steps) \in Nat /\ i <= Len(p.steps) /\ i > 1
        /\ \A j \in 1..i : p.steps[j].id = j
    BY <1>2, StepTypes DEF Numbered, Steps
  <2>2. i - 1 \in Steps(p) /\ p.steps[i].id = i /\ p.steps[i - 1].id = i - 1
    BY <2>1 DEF Steps
  <2> QED  BY <1>2, <2>2 DEF DependenciesMet, WithStatus
<1> QED  BY <1>1, <1>2
-----------------------------------------------------------------------------
\* A step whose status a plan may change and stay in order: the current one, or
\* a default step of a plan that has nothing else left to do.
DefaultIsLeft(p, k) ==
  /\ ~p.steps[k].chained /\ p.current = 1
  /\ \A i \in Steps(p) : p.steps[i].chained => p.steps[i].status \notin Open
Touchable(p, k) == k \in Steps(p) /\ (k = ById(p, p.current) \/ DefaultIsLeft(p, k))

LEMMA TouchedIsSound ==
  ASSUME NEW p, NEW n, Sound(p, n), NEW q \in Plans, NEW m, Tried(q, m),
         SameShape(p, q), q.current = p.current,
         NEW k, Touchable(p, k),
         \A i \in Steps(p) : i # k => q.steps[i].status = p.steps[i].status
  PROVE  Sound(q, m) /\ Touchable(q, k)
<1> DEFINE c == ById(p, p.current)
<1>1. p \in Plans /\ Numbered(p) /\ InOrder(p) /\ CurrentMayRun(p)
  BY DEF Sound
<1>2. ById(q, q.current) = c /\ Steps(q) = Steps(p) /\ k \in Steps(p)
  <2>1. ById(q, q.current) = c
    BY SameIds
  <2> QED  BY <2>1 DEF SameShape, Steps, Touchable
<1>3. \A i \in Steps(p) : q.steps[i].id = p.steps[i].id /\ q.steps[i].chained = p.steps[i].chained
  BY DEF SameShape
<1>4. ASSUME NEW i \in Steps(p), p.steps[i].chained
      PROVE  i - 1 \in Steps(p) /\ i - 1 # i /\ p.steps[i].id # 1
  BY <1>1, <1>4, StepTypes DEF Steps, Numbered
<1>5. Numbered(q)
  <2>1. \A i \in Steps(p) : \A j \in 1..i : j \in Steps(p)
    BY <1>1, StepTypes DEF Steps
  <2> QED  BY <1>1, <1>2, <1>3, <2>1 DEF Numbered
<1>6. c # 0 => c \in Steps(p) /\ p.steps[c].id = p.current
  BY <1>1, ByIdFinds
<1>7. k = c \/ DefaultIsLeft(p, k)
  BY DEF Touchable
<1> HIDE DEF c
<1>8. CurrentMayRun(q)
  <2> SUFFICES ASSUME c # 0, p.steps[c].chained PROVE q.steps[c - 1].status = "completed"
    BY <1>2, <1>3, <1>6 DEF CurrentMayRun
  <2>1. k = c
    BY <1>4, <1>6, <1>7 DEF DefaultIsLeft
  <2>2. p.steps[c - 1].status = "completed"
    BY <1>1 DEF CurrentMayRun, c
  <2> QED  BY <1>4, <1>6, <2>1, <2>2
<1>9. ASSUME NEW i \in Steps(p), p.steps[i].chained
      PROVE  /\ q.steps[i].status = "pending" =>
                  i - 1 = c \/ q.steps[i - 1].status \in {"completed", "pending"}
             /\ q.steps[i].status = "in_progress" => i = c
  <2>1. i - 1 \in Steps(p) /\ i - 1 # i
    BY <1>4, <1>9
  <2>2. /\ p.steps[i].status = "pending" =>
             i - 1 = c \/ p.steps[i - 1].status \in {"completed", "pending"}
        /\ p.steps[i].status = "in_progress" => i = c
    BY <1>1, <1>9 DEF InOrder, c
  <2>3. CASE i = k
    <3>1. i = c
      BY <1>7, <1>9, <2>3 DEF DefaultIsLeft
    <3>2. c # 0
      BY <1>1, <3>1, StepTypes DEF Steps
    <3>3. p.steps[i - 1].status = "completed"
      BY <1>1, <1>9, <3>1, <3>2 DEF CurrentMayRun, c
    <3> QED  BY <2>1, <2>3, <3>1, <3>3
  <2>4. CASE i # k
    <3>1. q.steps[i].status = p.steps[i].status
      BY <2>4
    <3>2. CASE i - 1 = k
      <4>1. k = c \/ p.steps[i].status \notin {"pending", "in_progress"}
        BY <1>7, <1>9 DEF DefaultIsLeft, Open
      <4> QED  BY <2>2, <3>1, <3>2, <4>1
    <3>3. CASE i - 1 # k
      BY <2>1, <2>2, <3>1, <3>3
    <3> QED  BY <3>2, <3>3
  <2> QED  BY <2>3, <2>4
<1>10. InOrder(q)
  BY <1>2, <1>3, <1>9 DEF InOrder
<1>11. Touchable(q, k)
  <2>1. CASE k = c
    BY <1>2, <2>1 DEF Touchable
  <2>2. CASE DefaultIsLeft(p, k)
    <3>1. DefaultIsLeft(q, k)
      BY <1>2, <1>3, <2>2 DEF DefaultIsLeft
    <3> QED  BY <1>2, <3>1 DEF Touchable
  <2> QED  BY <1>7, <2>1, <2>2
<1> QED  BY <1>5, <1>8, <1>10, <1>11 DEF Sound

LEMMA SetStatusIs ==
  ASSUME NEW p \in Plans, NEW k \in Steps(p), NEW state \in StepStatuses,
         NEW q, q = SetStatus(p, k, state)
  PROVE  /\ q \in Plans /\ SameShape(p, q) /\ q.current = p.current
         /\ \A i \in Steps(p) : q.steps[i].attempts = p.steps[i].attempts
         /\ \A i \in Steps(p) : i # k => q.steps[i].status = p.steps[i].status
         /\ q.steps[k].status = state
<1> DEFINE s == p.steps
           e == [s[k] EXCEPT !.status = state]
           t == [s EXCEPT ![k] = e]
<1>1. s \in Seq(PlanSteps) /\ k \in 1..Len(s) /\ s[k] \in PlanSteps
  BY StepTypes DEF Plans, Steps
<1>2. /\ e \in PlanSteps /\ e.status = state /\ e.id = s[k].id
      /\ e.chained = s[k].chained /\ e.attempts = s[k].attempts
  BY <1>1 DEF PlanSteps
<1>3. q = [p EXCEPT !.steps = t]
  BY DEF SetStatus
<1>4. q.steps = t /\ q.current = p.current /\ q = [steps |-> t, current |-> p.current]
  BY <1>3 DEF Plans
<1> HIDE DEF e
<1>5. t \in Seq(PlanSteps) /\ Len(t) = Len(s) /\ \A i \in 1..Len(s) : t[i] = IF i = k THEN e ELSE s[i]
  BY <1>1, <1>2, ExceptSeq
<1> HIDE DEF t
<1>6. q \in Plans
  BY <1>4, <1>5, StepTypes DEF Plans
<1> QED  BY <1>1, <1>2, <1>4, <1>5, <1>6 DEF SameShape, Steps

LEMMA SetStatusIsSound ==
  ASSUME NEW p, NEW n, Sound(p, n), NEW k, Touchable(p, k), NEW state \in StepStatuses
  PROVE  Sound(SetStatus(p, k, state), n) /\ Touchable(SetStatus(p, k, state), k)
<1> DEFINE q == SetStatus(p, k, state)
<1>1. p \in Plans /\ k \in Steps(p) /\ Tried(p, n)
  BY DEF Sound, Touchable
<1>2. /\ q \in Plans /\ SameShape(p, q) /\ q.current = p.current
      /\ \A i \in Steps(p) : q.steps[i].attempts = p.steps[i].attempts
      /\ \A i \in Steps(p) : i # k => q.steps[i].status = p.steps[i].status
  BY <1>1, SetStatusIs
<1> HIDE DEF q
<1>3. Tried(q, n)
  BY <1>1, <1>2 DEF Tried, SameShape, Steps
<1>4. Sound(q, n) /\ Touchable(q, k)
  BY <1>2, <1>3, TouchedIsSound
<1> QED  BY <1>4 DEF q
-----------------------------------------------------------------------------
\* When no chained step waits for a current one, the first pending step may
\* run, and is the one get_next_pending_step takes.
Settled(p) ==
  \A i \in Steps(p) : p.steps[i].chained =>
    /\ p.steps[i].status = "pending" => p.steps[i - 1].status \in {"completed", "pending"}
    /\ p.steps[i].status # "in_progress"

LEMMA FirstPendingMayRun ==
  ASSUME NEW p \in Plans, Numbered(p), Settled(p), NEW m \in Steps(p),
         p.steps[m].status = "pending",
         \A j \in Steps(p) : p.steps[j].status = "pending" => m <= j
  PROVE  /\ p.steps[m].chained => p.steps[m - 1].status = "completed"
         /\ DependenciesMet(p, m)
<1>1. p.steps[m].chained => p.steps[m - 1].status = "completed"
  <2> SUFFICES ASSUME p.steps[m].chained, p.steps[m - 1].status = "pending" PROVE FALSE
    BY DEF Settled
  <2>1. m - 1 \in Steps(p) /\ ~(m <= m - 1)
    BY StepTypes DEF Numbered, Steps
  <2> QED  BY <2>1
<1> QED  BY <1>1, CompletedMeets

LEMMA NextPendingIsFirst ==
  ASSUME NEW p \in Plans, Numbered(p), Settled(p), NEW m, m = NextPending(p)
  PROVE  /\ m = 0 \/ (m \in Steps(p) /\ p.steps[m].status = "pending")
         /\ m = 0 => \A i \in Steps(p) : p.steps[i].status # "pending"
         /\ m # 0 /\ p.steps[m].chained => p.steps[m - 1].status = "completed"
<1> DEFINE waiting == WithStatus(p, {"pending"})
           ready == {i \in waiting : DependenciesMet(p, i)}
<1>1. waiting \subseteq Nat /\ waiting \subseteq Steps(p) /\ 0 \notin waiting
  BY StepTypes DEF WithStatus, Steps
<1>2. \A i \in Steps(p) : (p.steps[i].status = "pending") = (i \in waiting)
  BY DEF WithStatus
<1>3. m = IF ready # {} THEN First(ready) ELSE First(waiting)
  BY DEF NextPending
<1>4. CASE waiting = {}
  <2>1. ready = {} /\ First(waiting) = 0
    BY <1>4 DEF First
  <2> QED  BY <1>2, <1>3, <1>4, <2>1
<1>5. CASE waiting # {}
  <2> DEFINE f == First(waiting)
  <2>1. f \in waiting /\ \A j \in waiting : f <= j
    BY <1>1, <1>5, FirstIsFirst
  <2>2. f \in Steps(p) /\ p.steps[f].status = "pending"
          /\ \A j \in Steps(p) : p.steps[j].status = "pending" => f <= j
    BY <1>1, <1>2, <2>1
  <2> HIDE DEF f, waiting
  <2>3. (p.steps[f].chained => p.steps[f - 1].status = "completed") /\ DependenciesMet(p, f)
    BY <2>2, FirstPendingMayRun
  <2>4. f \in ready
    BY <2>1, <2>3
  <2>5. ready \subseteq Nat /\ ready # {} /\ ready \subseteq waiting
    BY <1>1, <2>4
  <2> HIDE DEF ready
  <2>6. First(ready) \in ready /\ First(ready) <= f
    BY <2>4, <2>5, FirstIsFirst
  <2>7. First(ready) = f
    <3>1. f \in Nat /\ First(ready) \in Nat
      BY <1>1, <2>1, <2>5, <2>6
    <3>2. f <= First(ready)
      BY <2>1, <2>5, <2>6
    <3> QED  BY <2>6, <3>1, <3>2
  <2>8. m = f /\ f # 0
    BY <1>1, <1>3, <2>1, <2>5, <2>7
  <2> QED  BY <2>2, <2>3, <2>8
<1> QED  BY <1>4, <1>5

\* The current step is no longer in the way once it is completed, or is none.
LEMMA CompletedSettles ==
  ASSUME NEW p, NEW n, Sound(p, n),
         LET i == ById(p, p.current) IN i # 0 => p.steps[i].status = "completed"
  PROVE  Settled(p)
<1> DEFINE c == ById(p, p.current)
<1>1. p \in Plans /\ Numbered(p) /\ InOrder(p)
  BY DEF Sound
<1>2. ASSUME NEW i \in Steps(p), p.steps[i].chained
      PROVE  /\ i # 0 /\ i - 1 # 0
             /\ p.steps[i].status = "pending" =>
                  i - 1 = c \/ p.steps[i - 1].status \in {"completed", "pending"}
             /\ p.steps[i].status = "in_progress" => i = c
  BY <1>1, <1>2, StepTypes DEF InOrder, Numbered, Steps
<1>3. c # 0 => p.steps[c].status = "completed"
  OBVIOUS
<1> HIDE DEF c
<1> QED  BY <1>2, <1>3 DEF Settled

\* A settled plan stays in order when it turns to a step that may run.
LEMMA TurnTo ==
  ASSUME NEW p, NEW n, p \in Plans, Numbered(p), Settled(p), Tried(p, n), NEW m,
         m = 0 \/ m \in Steps(p),
         m # 0 /\ p.steps[m].chained => p.steps[m - 1].status = "completed",
         NEW q, q = [p EXCEPT !.current = IF m = 0 THEN 0 ELSE p.steps[m].id]
  PROVE  Sound(q, n)
<1>1. q.steps = p.steps /\ Steps(q) = Steps(p)
  BY DEF Plans, Steps
<1>2. q \in Plans /\ q.current = IF m = 0 THEN 0 ELSE p.steps[m].id
  <2> DEFINE id == IF m = 0 THEN 0 ELSE p.steps[m].id
  <2>1. id \in 0..MaxSteps
    BY StepTypes, GraphAssumption
  <2> HIDE DEF id
  <2>2. q = [p EXCEPT !.current = id]
    BY DEF id
  <2>3. q \in Plans /\ q.current = id
    BY <2>1, <2>2 DEF Plans
  <2> QED  BY <2>3 DEF id
<1>3. Numbered(q) /\ Tried(q, n)
  BY <1>1 DEF Numbered, Tried
<1>4. InOrder(q)
  BY <1>1 DEF Settled, InOrder
<1>5. CurrentMayRun(q)
  <2> DEFINE c == ById(q, q.current)
  <2> SUFFICES ASSUME c # 0, q.steps[c].chained PROVE q.steps[c - 1].status = "completed"
    BY DEF CurrentMayRun
  <2>1. c \in Steps(q) /\ q.steps[c].id = q.current
    BY <1>2, CurrentIsFound
  <2>2. q.steps[c].id # 0
    BY <1>2, <2>1, StepTypes DEF Steps
  <2>3. m # 0 /\ m \in Steps(q) /\ q.current = q.steps[m].id
    BY <1>1, <1>2, <2>1, <2>2
  <2>4. c = m
    BY <1>2, <1>3, <2>3, ChainedIsFound
  <2> QED  BY <1>1, <2>3, <2>4
<1> QED  BY <1>2, <1>3, <1>4, <1>5 DEF Sound

\* advance_to_next_step.
LEMMA AdvanceIsSound ==
  ASSUME NEW p, NEW n, Sound(p, n)
  PROVE  Sound(Advance(p), n)
<1> DEFINE i == ById(p, p.current)
           q == IF i = 0 THEN p ELSE SetStatus(p, i, "completed")
           m == NextPending(q)
<1>1. p \in Plans
  BY DEF Sound
<1>2. Sound(q, n) /\ (LET j == ById(q, q.current) IN j # 0 => q.steps[j].status = "completed")
  <2>1. CASE i = 0
    BY <2>1
  <2>2. CASE i # 0
    <3>1. i \in Steps(p) /\ Touchable(p, i) /\ "completed" \in StepStatuses
      BY <1>1, <2>2, ByIdFinds DEF Touchable, StepStatuses
    <3> DEFINE r == SetStatus(p, i, "completed")
    <3>2. Sound(r, n)
      BY <3>1, SetStatusIsSound
    <3>3. r.steps[i].status = "completed" /\ r.current = p.current /\ SameShape(p, r)
      BY <1>1, <3>1, SetStatusIs
    <3>4. ById(r, r.current) = i
      BY <3>3, SameIds
    <3>5. q = r
      BY <2>2
    <3> HIDE DEF r, q
    <3> QED  BY <3>2, <3>3, <3>4, <3>5
  <2> QED  BY <2>1, <2>2
<1>3. Advance(p) = [q EXCEPT !.current = IF m = 0 THEN 0 ELSE q.steps[m].id]
  BY DEF Advance
<1> HIDE DEF q
<1>4. q \in Plans /\ Numbered(q) /\ Settled(q) /\ Tried(q, n)
  BY <1>2, CompletedSettles DEF Sound
<1>5. /\ m = 0 \/ m \in Steps(q)
      /\ m # 0 /\ q.steps[m].chained => q.steps[m - 1].status = "completed"
  BY <1>4, NextPendingIsFirst
<1> HIDE DEF m
<1> QED  BY <1>3, <1>4, <1>5, TurnTo
\* What reflect does with the plan first.  The step i it has found may be touched
\* afterwards, also when it is a default step that the plan does not find by its
\* id; if it has found none there is none.
Found(p, i) == IF i = 0 THEN CurrentStep(p) = 0 ELSE Touchable(p, i)

LEMMA RefocusIsSound ==
  ASSUME NEW p, NEW n, Sound(p, n)
  PROVE  Sound(Refocus(p), n) /\ Found(Refocus(p), CurrentStep(p))
<1> DEFINE i == CurrentStep(p)
           q == Refocus(p)
<1>1. p \in Plans /\ Numbered(p) /\ InOrder(p) /\ Tried(p, n)
  BY DEF Sound
<1>2. CASE ById(p, p.current) # 0
  <2>1. i = ById(p, p.current) /\ p.steps[i].id = p.current
    BY <1>1, <1>2, ByIdFinds DEF CurrentStep
  <2>2. q = p
    BY <2>1 DEF Refocus
  <2>3. i \in Steps(p) /\ i # 0
    BY <1>1, <1>2, <2>1, ByIdFinds
  <2> QED  BY <2>1, <2>2, <2>3 DEF Found, Touchable
<1>3. CASE ById(p, p.current) = 0
  <2> DEFINE open == WithStatus(p, Open)
  <2>1. i = First(open)
    BY <1>3 DEF CurrentStep
  <2>2. open \subseteq Nat /\ open \subseteq Steps(p) /\ 0 \notin open
    BY <1>1, StepTypes DEF WithStatus, Steps
  <2>3. Settled(p)
    BY <1>3, CompletedSettles
  <2>4. CASE open = {}
    <3>1. i = 0
      BY <2>1, <2>4 DEF First
    <3>2. q = p
      BY <3>1 DEF Refocus
    <3> QED  BY <3>1, <3>2 DEF Found
  <2>5. CASE open # {}
    <3>1. i \in open /\ \A j \in open : i <= j
      BY <2>1, <2>2, <2>5, FirstIsFirst
    <3>2. /\ i \in Steps(p) /\ i # 0 /\ p.steps[i].status \in Open
          /\ \A j \in Steps(p) : p.steps[j].status \in Open => i <= j
      BY <2>2, <3>1 DEF WithStatus
    <3>3. p.current # p.steps[i].id
      BY <1>1, <1>3, <3>2, ByIdFinds
    <3> HIDE DEF i, open
    <3> DEFINE t == [j \in Steps(p) |->
                      IF j = i THEN [p.steps[j] EXCEPT !.status = "in_progress"]
                      ELSE IF p.steps[j].status = "in_progress"
                           THEN [p.steps[j] EXCEPT !.status = "pending"] ELSE p.steps[j]]
    <3>4. q = [steps |-> t, current |-> p.steps[i].id]
      BY <3>2, <3>3 DEF Refocus, i
    <3> HIDE DEF q
    <3>5. t \in Seq(PlanSteps) /\ Len(t) = Len(p.steps) /\ DOMAIN t = Steps(p)
      <4>1. Len(p.steps) \in Nat /\ Steps(p) = 1..Len(p.steps)
              /\ \A j \in Steps(p) : p.steps[j] \in PlanSteps
        BY <1>1, StepTypes DEF Steps
      <4>2. \A j \in Steps(p) : t[j] \in PlanSteps
        BY <4>1 DEF PlanSteps, StepStatuses
      <4>3. t \in [1..Len(p.steps) -> PlanSteps]
        BY <4>1, <4>2
      <4> HIDE DEF t
      <4> QED  BY <4>1, <4>3, SeqDef, LenProperties
    <3>6. \A j \in Steps(p) :
            /\ t[j].id = p.steps[j].id /\ t[j].chained = p.steps[j].chained
            /\ t[j].attempts = p.steps[j].attempts
            /\ j = i => t[j].status = "in_progress"
            /\ j # i => t[j].status = IF p.steps[j].status = "in_progress"
                                      THEN "pending" ELSE p.steps[j].status
      BY <1>1, StepTypes DEF PlanSteps
    <3> HIDE DEF t
    <3>7. q \in Plans /\ q.steps = t /\ q.current = p.steps[i].id /\ Steps(q) = Steps(p)
      BY <1>1, <3>2, <3>4, <3>5, StepTypes DEF Plans, Steps
    <3>8. Numbered(q) /\ Tried(q, n)
      <4>1. \A j \in Steps(p) : \A k \in 1..j : k \in Steps(p)
        BY <1>1, StepTypes DEF Steps
      <4> QED  BY <1>1, <3>6, <3>7, <4>1 DEF Numbered, Tried
    <3> DEFINE c == ById(q, q.current)
    <3>9. c # 0 /\ c \in Steps(q) /\ q.steps[c].id = q.current
      <4>1. i \in Steps(q) /\ q.steps[i].id = q.current
        BY <3>2, <3>6, <3>7
      <4> QED  BY <3>7, <4>1, CurrentIsFound
    <3>10. \A j \in Steps(p) : p.steps[j].chained =>
             j - 1 \in Steps(p) /\ j - 1 # j /\ ~(j <= j - 1)
      BY <1>1, StepTypes DEF Numbered, Steps
    <3>11. ASSUME NEW j \in Steps(p), p.steps[j].chained, i = j \/ i = j - 1
           PROVE  c = i
      <4>1. i \in 1..j /\ p.steps[i].id = i
        BY <1>1, <3>2, <3>11, StepTypes DEF Numbered, Steps
      <4>2. q.steps[j].chained /\ j \in Steps(q) /\ q.current = i
        BY <3>6, <3>7, <3>11, <4>1
      <4> QED  BY <3>7, <3>8, <4>1, <4>2, ChainIds
    <3>12. p.steps[i].chained => p.steps[i - 1].status = "completed"
      BY <2>3, <3>2, <3>10 DEF Settled, Open
    <3>13. CurrentMayRun(q)
      <4> SUFFICES ASSUME q.steps[c].chained PROVE q.steps[c - 1].status = "completed"
        BY DEF CurrentMayRun
      <4>1. c = i
        BY <3>2, <3>7, <3>8, <3>6, ChainedIsFound
      <4>2. p.steps[i].chained
        BY <3>2, <3>6, <3>7, <4>1
      <4> QED  BY <3>2, <3>6, <3>7, <3>10, <3>12, <4>1, <4>2
    <3>14. ASSUME NEW j \in Steps(p), p.steps[j].chained
           PROVE  /\ t[j].status = "pending" =>
                       j - 1 = c \/ t[j - 1].status \in {"completed", "pending"}
                  /\ t[j].status = "in_progress" => j = c
      <4>1. /\ p.steps[j].status = "pending" =>
                 p.steps[j - 1].status \in {"completed", "pending"}
            /\ p.steps[j].status # "in_progress"
        BY <2>3, <3>14 DEF Settled
      <4>2. j # i => t[j].status = p.steps[j].status
        BY <3>6, <4>1
      <4>3. j - 1 # i /\ p.steps[j - 1].status \in {"completed", "pending"}
              => t[j - 1].status \in {"completed", "pending"}
        BY <3>6, <3>10, <3>14
      <4>4. j = i => t[j].status = "in_progress"
        BY <3>6
      <4> HIDE DEF c
      <4> QED  BY <3>11, <3>14, <4>1, <4>2, <4>3, <4>4
    <3>15. InOrder(q)
      BY <3>6, <3>7, <3>14 DEF InOrder
    <3>16. CASE c = i
      BY <3>2, <3>7, <3>8, <3>13, <3>15, <3>16 DEF Sound, Found, Touchable, q, i
    <3>17. CASE c # i
      <4>1. ~p.steps[i].chained /\ \A j \in Steps(p) : p.steps[j].chained => ~(i <= j)
        <5>1. ASSUME NEW j \in Steps(p), p.steps[j].chained, i <= j PROVE FALSE
          <6>1. /\ i \in Nat /\ i >= 1 /\ j \in Nat
                /\ \A k \in 1..j : p.steps[k].id = k
            BY <1>1, <3>2, <5>1, StepTypes DEF Numbered, Steps
          <6>2. i \in 1..j /\ p.steps[i].id = i
            BY <5>1, <6>1
          <6>3. q.steps[j].chained /\ j \in Steps(q) /\ q.current = i
            BY <3>6, <3>7, <5>1, <6>2
          <6> QED  BY <3>7, <3>8, <3>17, <6>2, <6>3, ChainIds
        <5>2. i <= i
          BY <1>1, <3>2, StepTypes DEF Steps
        <5> QED  BY <3>2, <5>1, <5>2
      <4>2. \A j \in Steps(q) : q.steps[j].chained => q.steps[j].status \notin Open
        <5>1. \A j \in Steps(p) : p.steps[j].chained => p.steps[j].status \notin Open /\ j # i
          BY <3>2, <4>1
        <5> QED  BY <3>6, <3>7, <5>1 DEF Open
      <4>3. q.current = 1
        <5>1. i \in Steps(q) /\ q.steps[i].id = q.current /\ q.steps[i].id \in {1, i}
              /\ q.steps[c].id \in {1, c}
          BY <3>2, <3>6, <3>7, <3>8, <3>9 DEF Numbered
        <5> HIDE DEF c
        <5> QED  BY <3>9, <3>17, <5>1
      <4>4. i \in Steps(q) /\ ~q.steps[i].chained
        BY <3>2, <3>6, <3>7, <4>1
      <4>5. Touchable(q, i) /\ i # 0
        BY <3>2, <4>2, <4>3, <4>4 DEF Touchable, DefaultIsLeft
      <4> QED  BY <3>7, <3>8, <3>13, <3>15, <4>5 DEF Sound, Found, q, i
    <3> QED  BY <3>16, <3>17
  <2> QED  BY <2>4, <2>5
<1> QED  BY <1>2, <1>3
-----------------------------------------------------------------------------
\* _apply_recovery's first half: the step that failed may be touched.
LEMMA FailedIsSound ==
  ASSUME NEW p, NEW n \in Nat, Sound(p, n), NEW i, Found(p, i), NEW f, f = Failed(p, i)
  PROVE  Sound(f.plan, n + 1) /\ Touchable(f.plan, f.step)
<1>1. p \in Plans /\ Numbered(p) /\ InOrder(p) /\ Tried(p, n)
  BY DEF Sound
<1>2. \A j \in Steps(p) : p.steps[j] \in PlanSteps /\ p.steps[j].attempts <= n + 1
  BY <1>1, StepTypes DEF Tried, PlanSteps
<1>3. CASE i # 0
  <2>1. i \in Steps(p) /\ Touchable(p, i)
    BY <1>3 DEF Found, Touchable
  <2> DEFINE r == SetStatus(p, i, "failed")
             e == [r.steps[i] EXCEPT !.attempts = @ + 1]
             t == [r.steps EXCEPT ![i] = e]
             q == [p EXCEPT !.steps[i].status = "failed", !.steps[i].attempts = @ + 1]
  <2>2. /\ r \in Plans /\ SameShape(p, r) /\ r.current = p.current
        /\ \A j \in Steps(p) : r.steps[j].attempts = p.steps[j].attempts
        /\ \A j \in Steps(p) : j # i => r.steps[j].status = p.steps[j].status
    BY <1>1, <2>1, SetStatusIs DEF StepStatuses
  <2>3. q = [r EXCEPT !.steps = t]
    BY DEF SetStatus
  <2> HIDE DEF r
  <2>4. r.steps \in Seq(PlanSteps) /\ i \in 1..Len(r.steps) /\ r.steps[i] \in PlanSteps
    BY <2>1, <2>2, StepTypes DEF Plans, SameShape, Steps
  <2>5. /\ e \in PlanSteps /\ e.id = r.steps[i].id /\ e.chained = r.steps[i].chained
        /\ e.attempts = r.steps[i].attempts + 1
    <3> DEFINE x == r.steps[i]
               a == x.attempts + 1
    <3>1. x \in PlanSteps /\ a \in Nat /\ e = [x EXCEPT !.attempts = a]
      BY <2>4 DEF PlanSteps
    <3> HIDE DEF x, a, e
    <3>2. /\ e \in PlanSteps /\ e.id = x.id /\ e.chained = x.chained /\ e.attempts = a
      BY <3>1 DEF PlanSteps
    <3> QED  BY <3>2 DEF x, a
  <2> HIDE DEF e
  <2>6. /\ t \in Seq(PlanSteps) /\ Len(t) = Len(r.steps)
        /\ \A j \in 1..Len(r.steps) : t[j] = IF j = i THEN e ELSE r.steps[j]
    BY <2>4, <2>5, ExceptSeq
  <2>7. q.steps = t /\ q.current = p.current /\ q \in Plans
    BY <2>2, <2>3, <2>6 DEF Plans
  <2> HIDE DEF t, q
  <2>8. SameShape(p, q)
    BY <2>2, <2>5, <2>6, <2>7 DEF SameShape, Steps
  <2>9. \A j \in Steps(p) : j # i => q.steps[j].status = p.steps[j].status
    BY <2>2, <2>6, <2>7 DEF SameShape, Steps
  <2>10. Tried(q, n + 1)
    <3>1. \A j \in Steps(p) : p.steps[j].attempts \in Nat /\ p.steps[j].attempts <= n
      BY <1>1, <1>2 DEF Tried, PlanSteps
    <3>2. \A j \in Steps(p) : q.steps[j].attempts \in {p.steps[j].attempts, p.steps[j].attempts + 1}
      BY <2>2, <2>5, <2>6, <2>7 DEF SameShape, Steps
    <3>3. Steps(q) = Steps(p)
      BY <2>8 DEF SameShape, Steps
    <3> QED  BY <3>1, <3>2, <3>3 DEF Tried
  <2>11. Sound(q, n + 1) /\ Touchable(q, i)
    BY <2>1, <2>7, <2>8, <2>9, <2>10, TouchedIsSound
  <2>12. f.plan = q /\ f.step = i
    BY <1>3 DEF Failed, q
  <2> QED  BY <2>11, <2>12
<1>4. CASE i = 0
  <2> DEFINE d == PlanStep(1, FALSE)
             q == DefaultStep(p)
             k == Len(p.steps) + 1
  <2>1. \A j \in Steps(p) : p.steps[j].status \notin Open
    <3> DEFINE open == WithStatus(p, Open)
    <3>1. First(open) = 0
      <4>1. CurrentStep(p) = 0
        BY <1>4 DEF Found
      <4> QED  BY <4>1 DEF CurrentStep
    <3>2. open \subseteq Nat /\ 0 \notin open
      BY <1>1, StepTypes DEF WithStatus, Steps
    <3>3. open = {}
      BY <3>1, <3>2, FirstIsFirst
    <3> QED  BY <3>3 DEF WithStatus
  <2>2. d \in PlanSteps /\ d.id = 1 /\ d.chained = FALSE /\ d.attempts = 0 /\ 1 \in 0..MaxSteps
    BY GraphAssumption DEF PlanStep, PlanSteps, StepStatuses
  <2>3. p.steps \in Seq(PlanSteps) /\ Len(p.steps) \in Nat
    BY <1>1, StepTypes DEF Plans
  <2> HIDE DEF d
  <2>4. q.steps = Append(p.steps, d) /\ q.current = 1 /\ q = [steps |-> q.steps, current |-> 1]
    BY DEF DefaultStep, d
  <2> HIDE DEF q
  <2>5. /\ q.steps \in Seq(PlanSteps) /\ Len(q.steps) = k /\ q.steps[k] = d
        /\ \A j \in Steps(p) : q.steps[j] = p.steps[j]
    BY <2>2, <2>3, <2>4, AppendProperties DEF Steps
  <2>6. q \in Plans /\ Steps(q) = Steps(p) \union {k} /\ k \notin Steps(p)
    <3>1. q \in Plans
      BY <2>2, <2>4, <2>5 DEF Plans
    <3>2. 1..k = (1..Len(p.steps)) \union {k} /\ k \notin 1..Len(p.steps)
      BY <2>3
    <3> HIDE DEF k
    <3> QED  BY <2>5, <3>1, <3>2 DEF Steps
  <2>7. Numbered(q)
    <3>1. \A j \in Steps(p) : \A m \in 1..j : m \in Steps(p)
      BY <2>3 DEF Steps
    <3> QED  BY <1>1, <2>2, <2>5, <2>6, <3>1 DEF Numbered
  <2>8. InOrder(q)
    BY <2>1, <2>2, <2>5, <2>6 DEF InOrder, Open
  <2>9. Tried(q, n + 1)
    BY <1>2, <2>2, <2>5, <2>6 DEF Tried
  <2>10. CurrentMayRun(q)
    <3> DEFINE c == ById(q, q.current)
    <3> SUFFICES ASSUME c # 0, q.steps[c].chained PROVE FALSE
      BY DEF CurrentMayRun
    <3>1. c \in Steps(q) /\ q.steps[c].id = 1
      BY <2>4, <2>6, ByIdFinds
    <3>2. c \in Nat /\ c > 1 /\ q.steps[c].id = c
      BY <2>6, <2>7, <3>1, StepTypes DEF Numbered, Steps
    <3> QED  BY <3>1, <3>2
  <2>11. Touchable(q, k)
    BY <2>1, <2>2, <2>4, <2>5, <2>6 DEF Touchable, DefaultIsLeft
  <2>12. f.plan = q /\ f.step = k
    BY <1>4 DEF Failed, q
  <2> QED  BY <2>6, <2>7, <2>8, <2>9, <2>10, <2>11, <2>12 DEF Sound
<1> QED  BY <1>3, <1>4

\* A parsed plan waits for its first step.
LEMMA ParsedIsSound ==
  ASSUME NEW n \in 0..MaxSteps, NEW chained, chained \subseteq 2..n
  PROVE  Sound(ParsedPlan(n, chained), 0)
<1> DEFINE p == ParsedPlan(n, chained)
           t == [i \in 1..n |-> PlanStep(i, i \in chained)]
<1>1. p = [steps |-> t, current |-> IF n = 0 THEN 0 ELSE 1] /\ n \in Nat
  BY GraphAssumption DEF ParsedPlan
<1>2. \A i \in 1..n : /\ t[i] \in PlanSteps /\ t[i].id = i /\ t[i].status = "pending"
                      /\ t[i].attempts = 0 /\ (t[i].chained => i > 1)
  <2> TAKE i \in 1..n
  <2> DEFINE b == i \in chained
  <2>1. i \in 1..MaxSteps /\ b \in BOOLEAN
    BY GraphAssumption
  <2>2. b => i > 1
    OBVIOUS
  <2>3. t[i] = [id |-> i, status |-> "pending", attempts |-> 0, chained |-> b]
    BY DEF PlanStep
  <2> HIDE DEF b
  <2>4. /\ t[i] \in PlanSteps /\ t[i].id = i /\ t[i].status = "pending"
        /\ t[i].attempts = 0 /\ t[i].chained = b
    BY <2>1, <2>3 DEF PlanSteps, StepStatuses
  <2> HIDE DEF t
  <2> QED  BY <2>2, <2>4
<1>3. t \in Seq(PlanSteps) /\ Len(t) = n
  <2>1. t \in [1..n -> PlanSteps]
    BY <1>2
  <2> HIDE DEF t
  <2> QED  BY <1>1, <2>1, SeqDef, LenProperties
<1> HIDE DEF t, p
<1>4. p \in Plans /\ Steps(p) = 1..n /\ p.steps = t
  BY <1>1, <1>3, GraphAssumption DEF Plans, Steps
<1>5. Numbered(p) /\ Tried(p, 0)
  <2>1. \A i \in 1..n : \A j \in 1..i : j \in 1..n
    BY <1>1
  <2> QED  BY <1>2, <1>4, <2>1 DEF Numbered, Tried
<1>6. InOrder(p)
  <2>1. \A i \in 1..n : t[i].chained => i - 1 \in 1..n
    BY <1>1, <1>2
  <2> QED  BY <1>2, <1>4, <2>1 DEF InOrder
<1>7. CurrentMayRun(p)
  <2> DEFINE c == ById(p, p.current)
  <2> SUFFICES ASSUME c # 0, p.steps[c].chained PROVE FALSE
    BY DEF CurrentMayRun
  <2>1. c \in 1..n /\ p.steps[c].id = p.current /\ p.current \in {0, 1}
    BY <1>1, <1>4, CurrentIsFound
  <2> HIDE DEF c
  <2>2. t[c].id = c /\ (t[c].chained => c > 1) /\ c \in Nat
    BY <1>1, <1>2, <2>1
  <2> QED  BY <1>4, <2>1, <2>2
<1> QED  BY <1>4, <1>5, <1>6, <1>7 DEF Sound, p
-----------------------------------------------------------------------------
\* The plan is sound, and no reflection takes place beyond the last iteration:
\* the one that uses it up ends the run.
PlanInv ==
  /\ Sound(plan, attempt) /\ attempt \in 0..MaxIterations
  /\ pc \in {"head", "act", "execute", "verify", "reflect"} => attempt < MaxIterations
  /\ pc = "route" => attempt < MaxIterations \/ status \in EndStatuses
  /\ pc = "plan" => attempt = 0

\* What a branch of reflect makes of the plan.
Planned ==
  /\ Sound(plan', attempt + 1)
  /\ OutOfIterations => status' \in EndStatuses

LEMMA Patience ==
  ASSUME NEW p, NEW n \in Nat, Sound(p, n)
  PROVE  Sound(p, n + 1)
<1>1. \A i \in Steps(p) : p.steps[i].attempts \in Nat
  BY StepTypes DEF Sound, PlanSteps
<1>2. Tried(p, n + 1)
  BY <1>1 DEF Sound, Tried
<1> QED  BY <1>2 DEF Sound

LEMMA RecoverPlans ==
  ASSUME attempt \in Nat, NEW p, Sound(p, attempt), Found(p, CurrentStep(plan)), NEW category, Recover(p, category)
  PROVE  Planned
<1>1. CASE OutOfIterations
  <2>1. plan' = p /\ status' = "stopped"
    BY <1>1 DEF Recover, EndWith
  <2> QED  BY <2>1, Patience DEF Planned, EndStatuses
<1>2. CASE ~OutOfIterations
  <2> DEFINE f == Failed(p, CurrentStep(plan))
  <2>1. TryAgain(f) \/ GoPast(f) \/ plan' = f.plan
    BY <1>2 DEF Recover
  <2>2. Sound(f.plan, attempt + 1) /\ Touchable(f.plan, f.step)
    BY FailedIsSound
  <2> HIDE DEF f
  <2>3. /\ Sound(SetStatus(f.plan, f.step, "in_progress"), attempt + 1)
        /\ Sound(SetStatus(f.plan, f.step, "skipped"), attempt + 1)
    BY <2>2, SetStatusIsSound DEF StepStatuses
  <2>4. Sound(Skip(f.plan, f.step), attempt + 1)
    BY <2>3, AdvanceIsSound DEF Skip
  <2>5. Sound(plan', attempt + 1)
    BY <2>1, <2>2, <2>3, <2>4 DEF TryAgain, GoPast
  <2> QED  BY <1>2, <2>5 DEF Planned
<1> QED  BY <1>1, <1>2

LEMMA ReflectPlans ==
  ASSUME PlanInv, Reflect
  PROVE  Planned
<1>1. PICK p \in {Refocus(plan)} :
        \/ FinishQuietly(p) \/ RejectOutput(p) \/ GiveUp(p) \/ RecoverFromFailure(p)
        \/ AnswerInformation(p) \/ HonourSignal(p) \/ FinishPlan(p) \/ AskModel(p)
  BY DEF Reflect
<1>2. attempt \in Nat /\ Sound(p, attempt) /\ Found(p, CurrentStep(plan))
  BY RefocusIsSound DEF PlanInv
<1>3. Sound(p, attempt + 1) /\ Sound(Moved(p), attempt + 1)
  <2>1. Sound(Moved(p), attempt)
    BY <1>2, AdvanceIsSound DEF Moved
  <2> QED  BY <1>2, <2>1, Patience
<1>4. \A why : plan' = p /\ Done(why) => Planned
  BY <1>3 DEF Done, Planned, EndStatuses
<1>5. CASE FinishQuietly(p)
  BY <1>4, <1>5 DEF FinishQuietly
<1>6. CASE RejectOutput(p)
  BY <1>2, <1>6, RecoverPlans DEF RejectOutput
<1>7. CASE GiveUp(p)
  BY <1>3, <1>7 DEF GiveUp, EndWith, Planned, EndStatuses
<1>8. CASE RecoverFromFailure(p)
  BY <1>2, <1>8, RecoverPlans DEF RecoverFromFailure
<1>9. CASE AnswerInformation(p)
  BY <1>4, <1>9 DEF AnswerInformation
<1>10. CASE HonourSignal(p)
  BY <1>2, <1>4, <1>10, RecoverPlans DEF HonourSignal
<1>11. CASE FinishPlan(p)
  BY <1>3, <1>11 DEF FinishPlan, Done, Planned, EndStatuses
<1>12. CASE AskModel(p)
  <2>1. plan' = Moved(p)
    BY <1>12 DEF AskModel
  <2>2. OutOfIterations => status' \in EndStatuses
    BY <1>12 DEF AskModel, EndWith, Done, FinalizePartial, EndStatuses
  <2> QED  BY <1>3, <2>1, <2>2 DEF Planned
<1> QED
  BY <1>1, <1>5, <1>6, <1>7, <1>8, <1>9, <1>10, <1>11, <1>12

LEMMA PlanInit == Init => PlanInv
<1> SUFFICES ASSUME Init PROVE PlanInv
  OBVIOUS
<1>1. Sound(plan, attempt)
  BY ParsedIsSound, GraphAssumption DEF Init
<1> QED  BY <1>1, GraphAssumption DEF Init, PlanInv

LEMMA PlanStays == PlanInv /\ [Next]_vars => PlanInv'
<1> SUFFICES ASSUME PlanInv, [Next]_vars PROVE PlanInv'
  OBVIOUS
<1>1. CASE MakePlan
  <2>1. pc = "plan" /\ attempt = 0 /\ UNCHANGED <<attempt, status>> /\ pc' \in {"finalize", "head"}
    BY <1>1 DEF MakePlan, Plan, PlanFails, AfterPlan, PlanInv
  <2>2. Sound(plan', 0)
    <3>1. CASE PlanFails
      BY <3>1, ParsedIsSound, GraphAssumption DEF PlanFails
    <3>2. ASSUME NEW n \in 0..MaxSteps, NEW chained \in SUBSET (2..n), NEW l, Plan(n, chained, l)
          PROVE  Sound(plan', 0)
      BY <3>2, ParsedIsSound DEF Plan
    <3> QED  BY <1>1, <3>1, <3>2 DEF MakePlan
  <2> QED  BY <2>1, <2>2, GraphAssumption DEF PlanInv
<1>2. CASE Reflect
  <2>1. Planned
    BY <1>2, ReflectPlans
  <2>2. pc' = "route" /\ attempt' = attempt + 1 /\ attempt < MaxIterations /\ attempt \in Nat
    BY <1>2 DEF Reflect, ThisAttempt, PlanInv
  <2>3. attempt' < MaxIterations \/ OutOfIterations
    BY <2>2, GraphAssumption DEF OutOfIterations, ThisAttempt
  <2> QED  BY <2>1, <2>2, <2>3, GraphAssumption DEF Planned, PlanInv
<1>3. ASSUME UNCHANGED <<plan, attempt>>,
             pc' \in {"head", "act", "execute", "verify", "reflect"} => attempt < MaxIterations,
             pc' \notin {"route", "plan"} \/ UNCHANGED <<pc, status>>
      PROVE  PlanInv'
  BY <1>3 DEF PlanInv
<1>4. CASE FinalizePlan \/ LoopHead \/ Learn \/ Raise
  BY <1>3, <1>4 DEF FinalizePlan, LoopHead, Learn, Raise, PlanInv
<1>5. CASE Act \/ Execute
  <2>1. UNCHANGED <<plan, attempt>>
    BY <1>5 DEF Act, Execute, RunRLM, RunRLMRaises, SelectAction, SelectFails, ExecuteAction
  <2> QED  BY <1>3, <1>5, <2>1, ActingDecidesNothing DEF PlanInv
<1>6. ASSUME NEW v, Verify(v) PROVE PlanInv'
  BY <1>3, <1>6 DEF Verify, PlanInv
<1>7. CASE Route
  BY <1>3, <1>7 DEF Route, PlanInv, EndStatuses
<1>8. CASE UNCHANGED vars
  BY <1>8 DEF vars, PlanInv
<1> QED
  BY <1>1, <1>2, <1>4, <1>5, <1>6, <1>7, <1>8 DEF Next, Step, Over

LEMMA PlanIsSound == Spec => []PlanInv
BY PlanInit, PlanStays, PTL DEF Spec

\* The plan never moves on to a step before the one it depends on is completed,
\* whatever failed, was retried or was skipped; for any numbers of iterations
\* and steps.
THEOREM DependenciesAreKept == Spec => []DependenciesKept
<1>1. PlanInv => DependenciesKept
  <2> SUFFICES ASSUME PlanInv, ById(plan, plan.current) # 0
               PROVE  DependenciesMet(plan, ById(plan, plan.current))
    BY DEF DependenciesKept
  <2>1. plan \in Plans /\ Numbered(plan) /\ CurrentMayRun(plan)
    BY DEF PlanInv, Sound
  <2>2. ById(plan, plan.current) \in Steps(plan)
    BY <2>1, ByIdFinds
  <2> QED  BY <2>1, <2>2, CompletedMeets DEF CurrentMayRun
<1> QED  BY <1>1, PlanIsSound, PTL
-----------------------------------------------------------------------------
\* The types but for the plan's.
Scratch ==
  /\ config \in Configs
  /\ pc \in {"plan", "finalize", "head", "act", "execute", "verify", "reflect", "route", "learn",
             "end", "raised"}
  /\ limit \in {6} \union IterationLimits
  /\ status \in {"new", "continue", "done", "error", "stopped"}
  /\ completions \in 0..2
  /\ obs \in Observations \union {NoObservation}
  /\ pending \in {"none"} \union Makers
  /\ verdict \in {"none", "passed", "failed", "skipped"}
  /\ reason \in {"none", "signal", "answer", "plan", "model"}
  /\ {signal, answered} \subseteq BOOLEAN

LEMMA RecoverTypes ==
  ASSUME NEW p, NEW category, Recover(p, category), answered \in BOOLEAN,
         status \in {"new", "continue", "done", "error", "stopped"}
  PROVE  /\ answered' \in BOOLEAN /\ reason' = reason
         /\ status' \in {"new", "continue", "done", "error", "stopped"}
<1>1. \A f : TryAgain(f) => status' = "continue" /\ UNCHANGED <<answered, reason>>
  BY DEF TryAgain, GoOn
<1>2. \A f : GoPast(f) =>
        status' \in {status, "continue"} /\ answered' \in BOOLEAN /\ reason' = reason
  BY DEF GoPast
<1>3. \A s : EndWith(s) => status' = s /\ answered' = TRUE /\ reason' = reason
  BY DEF EndWith
<1> QED  BY <1>1, <1>2, <1>3 DEF Recover

LEMMA ReflectTypes ==
  ASSUME Scratch, EndInv, Reflect
  PROVE  /\ status' \in {"new", "continue", "done", "error", "stopped"}
         /\ reason' \in {"none", "signal", "answer", "plan", "model"}
         /\ {signal', answered'} \subseteq BOOLEAN /\ completions' \in 0..2
<1>1. PICK p \in {Refocus(plan)} :
        \/ FinishQuietly(p) \/ RejectOutput(p) \/ GiveUp(p) \/ RecoverFromFailure(p)
        \/ AnswerInformation(p) \/ HonourSignal(p) \/ FinishPlan(p) \/ AskModel(p)
  BY DEF Reflect
<1>2. completions' \in 0..2
  BY ReflectJudges DEF Judged
<1>3. \A why \in {"signal", "answer", "plan", "model"} : Done(why) =>
        status' = "done" /\ answered' = TRUE /\ reason' = why
  BY DEF Done
<1>4. \A category : Recover(p, category) =>
        /\ answered' \in BOOLEAN /\ reason' = reason
        /\ status' \in {"new", "continue", "done", "error", "stopped"}
  BY RecoverTypes DEF Scratch
<1>5. signal' \in BOOLEAN
  BY <1>1 DEF FinishQuietly, RejectOutput, GiveUp, RecoverFromFailure, AnswerInformation,
              HonourSignal, FinishPlan, AskModel, Scratch
<1>6. CASE FinishQuietly(p) \/ AnswerInformation(p) \/ FinishPlan(p)
  BY <1>2, <1>3, <1>5, <1>6 DEF FinishQuietly, AnswerInformation, FinishPlan
<1>7. CASE RejectOutput(p) \/ RecoverFromFailure(p) \/ HonourSignal(p)
  BY <1>2, <1>3, <1>4, <1>5, <1>7 DEF RejectOutput, RecoverFromFailure, HonourSignal, Scratch
<1>8. CASE GiveUp(p)
  BY <1>2, <1>5, <1>8 DEF GiveUp, EndWith, Scratch
<1>9. CASE AskModel(p)
  BY <1>2, <1>3, <1>5, <1>9 DEF AskModel, EndWith, FinalizePartial, PartialAnswer, GoOn, Scratch
<1> QED  BY <1>1, <1>6, <1>7, <1>8, <1>9

LEMMA ActTypes ==
  ASSUME Scratch, Act \/ Execute
  PROVE  /\ obs' \in Observations \union {NoObservation} /\ signal' \in BOOLEAN
         /\ pending' \in {"none"} \union Makers /\ limit' = limit
<1> USE DEF Scratch, Makers
<1>1. ASSUME NEW o \in {Ok(out, "rlm") : out \in Outputs}
                         \union {Failure(s, "rlm") : s \in {"unknown", "timeout", "tool"}},
             RunRLM(o)
      PROVE  o \in Observations /\ obs' = o /\ signal' \in BOOLEAN /\ UNCHANGED <<pending, limit>>
  BY <1>1 DEF RunRLM, Observe, Observations, Categories
<1>2. ASSUME NEW s \in {"sandbox", "tool"}, RunRLMRaises(s)
      PROVE  obs' \in Observations /\ UNCHANGED <<signal, pending, limit>>
  BY <1>2 DEF RunRLMRaises, Observe, Observations, Categories
<1>3. ASSUME NEW by \in {"tool", "complete_task"}, SelectAction(by)
      PROVE  UNCHANGED <<obs, signal, limit>> /\ pending' = by
  BY <1>3 DEF SelectAction
<1>4. ASSUME NEW s \in {"tool", "parse"}, SelectFails(s)
      PROVE  obs' \in Observations /\ UNCHANGED <<signal, pending, limit>>
  BY <1>4 DEF SelectFails, Observe, Observations, Categories
<1>5. ASSUME NEW o \in {Ok(out, by) : out \in Outputs, by \in {"tool", "complete_task"}}
                         \union {Failure(s, "tool") : s \in {"denied", "tool", "empty", "fatal"}},
             ExecuteAction(o)
      PROVE  o \in Observations /\ obs' = o /\ signal' \in BOOLEAN /\ pending' = "none"
             /\ limit' = limit
  BY <1>5 DEF ExecuteAction, Observe, Observations, Categories
<1>6. CASE Act
  BY <1>1, <1>2, <1>3, <1>4, <1>6 DEF Act
<1>7. CASE Execute
  BY <1>5, <1>7 DEF Execute
<1> QED  BY <1>6, <1>7

LEMMA ScratchStays == EndInv /\ Scratch /\ [Next]_vars => Scratch'
<1> SUFFICES ASSUME EndInv, Scratch, [Next]_vars PROVE Scratch'
  OBVIOUS
<1>1. CASE MakePlan
  BY <1>1 DEF MakePlan, Plan, PlanFails, AfterPlan, Scratch
<1>2. CASE FinalizePlan
  BY <1>2 DEF FinalizePlan, Scratch
<1>3. CASE LoopHead
  BY <1>3 DEF LoopHead, FinalizePartial, PartialAnswer, Scratch
<1>4. CASE Act \/ Execute
  BY <1>4, ActTypes, ActingDecidesNothing DEF Scratch
<1>5. ASSUME NEW v \in {"none", "passed", "failed", "skipped"}, Verify(v) PROVE Scratch'
  BY <1>5 DEF Verify, Scratch
<1>6. CASE Reflect
  <2>1. pc' = "route" /\ UNCHANGED <<config, limit, obs, pending, verdict>>
    BY <1>6 DEF Reflect
  <2> QED  BY <1>6, <2>1, ReflectTypes DEF Scratch
<1>7. CASE Route
  <2>1. pc = "route" /\ pc' \in {"learn", "head"} /\ completions' \in {completions, completions + 1}
        /\ UNCHANGED <<config, limit, status, obs, pending, signal, verdict, answered, reason>>
    BY <1>7 DEF Route
  <2>2. completions \in {0, 1}
    BY <2>1 DEF EndInv, ClaimedOnce
  <2> QED  BY <2>1, <2>2 DEF Scratch
<1>8. CASE Learn \/ Raise
  BY <1>8 DEF Learn, Raise, Scratch
<1>9. CASE UNCHANGED vars
  BY <1>9 DEF vars, Scratch
<1> QED
  BY <1>1, <1>2, <1>3, <1>4, <1>5, <1>6, <1>7, <1>8, <1>9 DEF Next, Step, Over

\* For any numbers of iterations and steps the state has its types; no backend
\* reflects more often than there are iterations, and no step is tried more often.
THEOREM TypeCorrect == Spec => []TypeOK
<1>1. Init => EndInv /\ Scratch
  <2> SUFFICES ASSUME Init PROVE Scratch
    BY EndInit
  <2>1. /\ config \in Configs /\ pc = "plan" /\ limit = 6 /\ status = "new" /\ obs = NoObservation
        /\ pending = "none" /\ signal = FALSE /\ verdict = "none" /\ answered = FALSE
        /\ completions = 0 /\ reason = "none"
    BY DEF Init
  <2>2. {signal, answered} \subseteq BOOLEAN
    BY <2>1
  <2>3. limit \in {6} \union IterationLimits /\ obs \in Observations \union {NoObservation}
    BY <2>1
  <2> QED  BY <2>1, <2>2, <2>3 DEF Scratch
<1>2. EndInv /\ Scratch /\ [Next]_vars => (EndInv /\ Scratch)'
  BY EndStep, ScratchStays
<1>3. Scratch /\ PlanInv => TypeOK
  <2> SUFFICES ASSUME Scratch, PlanInv PROVE TypeOK
    OBVIOUS
  <2> DEFINE S == [id : 1..MaxSteps, status : StepStatuses, attempts : 0..MaxIterations,
                   chained : BOOLEAN]
  <2>1. plan \in Plans /\ Tried(plan, attempt) /\ attempt \in 0..MaxIterations
    BY DEF PlanInv, Sound
  <2>2. plan.steps \in Seq(PlanSteps) /\ plan.current \in 0..MaxSteps
    BY <2>1 DEF Plans
  <2>3. \A i \in Steps(plan) : plan.steps[i] \in S
    BY <2>1, StepTypes, GraphAssumption DEF PlanSteps, Tried
  <2>4. plan.steps \in Seq(S)
    <3>1. plan.steps \in [1..Len(plan.steps) -> S] /\ Len(plan.steps) \in Nat
      BY <2>2, <2>3, LenProperties DEF Steps
    <3> HIDE DEF S
    <3> QED  BY <3>1, SeqDef
  <2> QED  BY <2>1, <2>2, <2>4 DEF Scratch, TypeOK
<1> QED
  BY <1>1, <1>2, <1>3, PlanIsSound, PTL DEF Spec
-----------------------------------------------------------------------------
\* The gate that the verify node calls, with state of its own while it runs, for
\* every set of targets.  Neither property of its verdict is inductive: a
\* project command that found fault is recorded as failed or its exception has
\* given the verdict already; and only what found fault is recorded as failed.

\* A project command that found fault is recorded, unless its exception ended
\* the gate.
Recorded ==
  /\ "project_command" \in wrong /\ outcome \in {"none", "passed"} => "project_command" \in failed
  /\ outcome = "passed" => failed = {}

\* What becomes of a project command that was not clean and has been run.
LEMMA CommandOutcomes ==
  ASSUME NEW end \in Ends, end \notin Faultless
  PROVE  Outcome("project_command", end) \in {"fail", "raise"}
BY DEF Outcome, CommandOutcome

LEMMA InitRecorded == GateInit => Recorded
BY DEF GateInit, Recorded

\* Running a check.
LEMMA RunCheckKeeps ==
  ASSUME Recorded, NEW end \in Ends, RunCheck(end)
  PROVE  Recorded'
<1>1. outcome = "none" /\ todo # <<>>
  BY DEF RunCheck
<1>2. PICK o \in {Outcome(Head(todo), end)} :
        /\ failed' = IF o = "fail" THEN failed \cup {Head(todo)} ELSE failed
        /\ IF o = "raise" THEN outcome' \in Excuses ELSE outcome' = outcome
  BY DEF RunCheck
<1>3. wrong' = IF end \in Faultless THEN wrong ELSE wrong \cup {Head(todo)}
  BY DEF RunCheck
<1>4. outcome' # "passed"
  BY <1>1, <1>2 DEF Excuses
<1>5. CASE o = "raise"
  BY <1>2, <1>4, <1>5 DEF Recorded, Excuses
<1>6. CASE o # "raise"
  <2>1. outcome' = "none"
    BY <1>1, <1>2, <1>6
  <2>2. CASE "project_command" \in wrong
    BY <1>1, <1>2, <1>4, <2>1, <2>2 DEF Recorded
  <2>3. CASE "project_command" \notin wrong /\ "project_command" \in wrong'
    <3>1. Head(todo) = "project_command" /\ end \notin Faultless
      BY <1>3, <2>3
    <3>2. o = "fail"
      BY <1>2, <1>6, <3>1, CommandOutcomes
    <3>3. QED
      BY <1>2, <1>4, <3>1, <3>2 DEF Recorded
  <2>4. CASE "project_command" \notin wrong'
    BY <1>4, <2>4 DEF Recorded
  <2>5. QED
    BY <2>2, <2>3, <2>4
<1>7. QED
  BY <1>5, <1>6

LEMMA StepKeeps == Recorded /\ [GateNext]_gateVars => Recorded'
<1>1. ASSUME Recorded, Conclude PROVE Recorded'
  BY <1>1 DEF Conclude, Recorded
<1>2. ASSUME Recorded, UNCHANGED gateVars PROVE Recorded'
  BY <1>2 DEF gateVars, Recorded
<1>3. QED
  BY <1>1, <1>2, RunCheckKeeps DEF GateNext, GateStep, GateOver

LEMMA RecordedIsEarned == Recorded => PassedIsEarned
BY DEF Recorded, PassedIsEarned

\* The gate passes only if no project command found fault, was missing or ran
\* out of time.
THEOREM PassIsEarned == GateSpec => []PassedIsEarned
<1>1. GateSpec => []Recorded
  BY InitRecorded, StepKeeps, PTL DEF GateSpec
<1>2. QED
  BY <1>1, RecordedIsEarned, PTL
-----------------------------------------------------------------------------
\* A check fails only when its program found fault, was missing or ran out of
\* time, or when what a faultless one prints is misread.
Deserved == failed \subseteq wrong \cup misread

LEMMA FailingOutcomes ==
  ASSUME NEW check, NEW end \in Ends, Outcome(check, end) = "fail"
  PROVE  end \notin Faultless \/ Misreads(check, end)
BY DEF Outcome, RuffOutcome, SyntaxOutcome, CollectionOutcome, CommandOutcome,
       Timeouts, Ends, Bytes, Faultless, Misreads, Undecodable

LEMMA StepDeserved == Deserved /\ [GateNext]_gateVars => Deserved'
<1>1. ASSUME Deserved, NEW end \in Ends, RunCheck(end) PROVE Deserved'
  <2>1. PICK o \in {Outcome(Head(todo), end)} :
          failed' = IF o = "fail" THEN failed \cup {Head(todo)} ELSE failed
    BY <1>1 DEF RunCheck
  <2>2. wrong' = IF end \in Faultless THEN wrong ELSE wrong \cup {Head(todo)}
    BY <1>1 DEF RunCheck
  <2>6. misread' = IF Misreads(Head(todo), end) THEN misread \cup {Head(todo)} ELSE misread
    BY <1>1 DEF RunCheck
  <2>3. CASE o = "fail"
    <3>1. end \notin Faultless \/ Misreads(Head(todo), end)
      BY <2>1, <2>3, FailingOutcomes
    <3>2. QED
      BY <1>1, <2>1, <2>2, <2>3, <2>6, <3>1 DEF Deserved
  <2>4. CASE o # "fail"
    BY <1>1, <2>1, <2>2, <2>4, <2>6 DEF Deserved
  <2>5. QED
    BY <2>3, <2>4
<1>2. ASSUME Deserved, Conclude PROVE Deserved'
  BY <1>2 DEF Conclude, Deserved
<1>3. ASSUME Deserved, UNCHANGED gateVars PROVE Deserved'
  BY <1>3 DEF gateVars, Deserved
<1>4. QED
  BY <1>1, <1>2, <1>3 DEF GateNext, GateStep, GateOver

\* When the gate fails, every check recorded as failed is one whose program found
\* fault, ran out of time or is not there, or one whose clean output was misread:
\* the collection on the word error, and in the sandbox what is not text.
THEOREM FailIsDeserved == GateSpec => []FailedIsDeserved
<1>1. GateInit => Deserved
  BY DEF GateInit, Deserved
<1>2. Deserved => FailedIsDeserved
  BY DEF Deserved, FailedIsDeserved
<1>3. QED
  BY <1>1, <1>2, StepDeserved, PTL DEF GateSpec
-----------------------------------------------------------------------------
\* The checks of a project: at most three of the gate's own and four commands,
\* however many the project names.
IsSequence(s) == \E S : s \in Seq(S)

LEMMA Listed ==
  ASSUME NEW n \in Nat, NEW f, f = [i \in 1 .. n |-> f[i]]
  PROVE  IsSequence(f)
<1> DEFINE S == {f[i] : i \in 1 .. n}
<1>1. \A i \in 1 .. n : f[i] \in S
  OBVIOUS
<1> HIDE DEF S
<1>2. f \in Seq(S)
  BY <1>1
<1> QED
  BY <1>2 DEF IsSequence

LEMMA Joined ==
  ASSUME NEW s, NEW t, IsSequence(s), IsSequence(t)
  PROVE  IsSequence(s \o t)
<1>1. PICK S : s \in Seq(S)
  BY DEF IsSequence
<1>2. PICK T : t \in Seq(T)
  BY DEF IsSequence
<1>3. s \in Seq(S \cup T) /\ t \in Seq(S \cup T)
  BY <1>1, <1>2
<1> QED
  BY <1>3, ConcatProperties DEF IsSequence

LEMMA WhenIsSequence ==
  ASSUME NEW condition \in BOOLEAN, NEW command
  PROVE  IsSequence(When(condition, command))
<1>1. <<>> \in Seq({command}) /\ <<command>> \in Seq({command})
  OBVIOUS
<1> QED
  BY <1>1 DEF When, IsSequence

TargetNames == {"test", "lint", "typecheck", "build"}

LEMMA PreferredIsSequence ==
  ASSUME NEW targets \in SUBSET TargetNames, NEW runner
  PROVE  IsSequence(Preferred(targets, runner))
<1>1. TargetNames = {"test"} \cup {"lint"} \cup {"typecheck"} \cup {"build"}
  BY DEF TargetNames
<1>2. IsFiniteSet(TargetNames)
  BY <1>1, FS_Singleton, FS_Union
<1>3. Cardinality(targets) \in Nat
  BY <1>2, FS_Subset, FS_CardinalityType
<1> DEFINE f == Preferred(targets, runner)
<1>4. f = [i \in 1 .. Cardinality(targets) |-> f[i]]
  BY DEF Preferred
<1> HIDE DEF f
<1>5. IsSequence(f)
  BY <1>3, <1>4, Listed
<1> QED
  BY <1>5 DEF f

LEMMA CommandsAreFew ==
  ASSUME NEW w \in Projects
  PROVE  Len(ProjectCommands(w)) \in 0 .. 4
<1>1. /\ w.rootTests \in BOOLEAN /\ w.ruff \in BOOLEAN
      /\ w.scripts \in SUBSET TargetNames /\ w.make \in SUBSET TargetNames
      /\ w.just \in SUBSET TargetNames
  BY TargetsAssumption DEF Projects, Recipes, TargetNames
<1>2. IsSequence(FromPythonTests(w))
  BY <1>1, WhenIsSequence DEF FromPythonTests
<1>3. IsSequence(FromPyproject(w))
  <2>1. IsSequence(<<>>)
    <3>1. <<>> \in Seq({})
      OBVIOUS
    <3> QED
      BY <3>1 DEF IsSequence
  <2>2. /\ IsSequence(When(w.pyproject = "dev" \/ w.testsDir = "tests", <<"python", "pytest">>))
        /\ IsSequence(When(w.ruff, <<"ruff", "check">>))
    BY <1>1, WhenIsSequence
  <2> QED
    BY <2>1, <2>2, Joined DEF FromPyproject
<1>4. IsSequence(FromPackageJson(w))
  <2>1. w.scripts \cap {"test"} \in SUBSET TargetNames
    BY <1>1
  <2> QED
    BY <1>1, <2>1, PreferredIsSequence DEF FromPackageJson
<1>5. IsSequence(FromMakefile(w)) /\ IsSequence(FromJustfile(w))
  BY <1>1, PreferredIsSequence DEF FromMakefile, FromJustfile
<1>6. IsSequence(AllCommands(w))
  BY <1>2, <1>3, <1>4, <1>5, Joined DEF AllCommands
<1> DEFINE s == AllCommands(w)
           m == IF Len(s) < 4 THEN Len(s) ELSE 4
<1>7. PICK S : s \in Seq(S)
  BY <1>6 DEF IsSequence
<1>8. Len(s) \in Nat /\ \A i \in 1 .. Len(s) : s[i] \in S
  BY <1>7, LenProperties, ElementOfSeq
<1>9. ProjectCommands(w) = SubSeq(s, 1, m)
  BY DEF ProjectCommands
<1> HIDE DEF s
<1>10. m \in 0 .. 4 /\ m <= Len(s)
  <2> DEFINE len == Len(s)
  <2>1. len \in Nat
    BY <1>8
  <2> HIDE DEF len
  <2>2. (IF len < 4 THEN len ELSE 4) \in 0 .. 4 /\ (IF len < 4 THEN len ELSE 4) <= len
    BY <2>1
  <2> QED
    BY <2>2 DEF len
<1> HIDE DEF m
<1>11. \A i \in 1 .. m : s[i] \in S
  BY <1>8, <1>10
<1>12. Len(SubSeq(s, 1, m)) = IF 1 <= m THEN m - 1 + 1 ELSE 0
  BY <1>10, <1>11, SubSeqProperties
<1> QED
  BY <1>9, <1>10, <1>12

LEMMA ChecksAreFew ==
  ASSUME NEW w \in Projects
  PROVE  Checks(w) \in Seq(CheckTypes) /\ Len(Checks(w)) <= 7
<1> DEFINE own == IF "python" \in w.changed THEN <<"ruff", "python_syntax">> ELSE <<>>
           collection == When(TestSurface(w), "test_collection")
           n == Len(ProjectCommands(w))
           commands == [i \in 1 .. n |-> "project_command"]
<1>1. own \in Seq(CheckTypes) /\ Len(own) <= 2 /\ Len(own) \in Nat
  <2>1. /\ <<>> \in Seq(CheckTypes) /\ Len(<<>>) = 0
        /\ <<"ruff", "python_syntax">> \in Seq(CheckTypes) /\ Len(<<"ruff", "python_syntax">>) = 2
    BY DEF CheckTypes
  <2> QED
    BY <2>1
<1>2. collection \in Seq(CheckTypes) /\ Len(collection) <= 1 /\ Len(collection) \in Nat
  <2>1. /\ <<>> \in Seq(CheckTypes) /\ Len(<<>>) = 0
        /\ <<"test_collection">> \in Seq(CheckTypes) /\ Len(<<"test_collection">>) = 1
    BY DEF CheckTypes
  <2> QED
    BY <2>1 DEF When
<1>3. commands \in Seq(CheckTypes) /\ Len(commands) = n /\ n \in 0 .. 4
  <2>1. n \in 0 .. 4
    BY CommandsAreFew
  <2> HIDE DEF n
  <2> QED
    BY <2>1 DEF CheckTypes
<1>4. Checks(w) = own \o collection \o commands
  BY DEF Checks
<1> HIDE DEF own, collection, commands, n
<1>5. /\ own \o collection \in Seq(CheckTypes)
      /\ Len(own \o collection) = Len(own) + Len(collection)
  BY <1>1, <1>2, ConcatProperties
<1>6. /\ own \o collection \o commands \in Seq(CheckTypes)
      /\ Len(own \o collection \o commands) = Len(own) + Len(collection) + n
  <2> DEFINE first == own \o collection
  <2>1. first \in Seq(CheckTypes) /\ commands \in Seq(CheckTypes)
    BY <1>3, <1>5
  <2>2. Len(first) = Len(own) + Len(collection) /\ Len(commands) = n
    BY <1>3, <1>5
  <2> HIDE DEF first
  <2>3. /\ first \o commands \in Seq(CheckTypes)
        /\ Len(first \o commands) = Len(first) + Len(commands)
    BY <2>1, ConcatProperties
  <2> QED
    BY <2>2, <2>3 DEF first
<1> QED
  BY <1>1, <1>2, <1>3, <1>4, <1>6

GateTypes ==
  /\ project \in Projects /\ place \in {"host", "sandbox"}
  /\ todo \in Seq(CheckTypes) /\ Len(todo) <= 7
  /\ failed \cup wrong \cup misread \subseteq CheckTypes
  /\ outcome \in {"none", "passed", "failed", "skipped", "escaped"}

\* The types of the gate's variables; it never runs more than seven checks,
\* whatever the project names.
THEOREM GateTypeCorrect == GateSpec => []GateTypeOK
<1>1. GateInit => GateTypes
  BY ChecksAreFew DEF GateInit, GateTypes
<1>2. GateTypes /\ [GateNext]_gateVars => GateTypes'
  <2> SUFFICES ASSUME GateTypes, [GateNext]_gateVars PROVE GateTypes'
    OBVIOUS
  <2>1. ASSUME NEW end \in Ends, RunCheck(end) PROVE GateTypes'
    <3>1. /\ todo # <<>> /\ UNCHANGED <<project, place>> /\ todo' = Tail(todo)
          /\ wrong' \subseteq wrong \cup {Head(todo)} /\ misread' \subseteq misread \cup {Head(todo)}
          /\ failed' \subseteq failed \cup {Head(todo)}
          /\ outcome' \in {outcome, "skipped", "escaped"}
      BY <2>1 DEF RunCheck, Excuses
    <3>2. /\ Head(todo) \in CheckTypes /\ Tail(todo) \in Seq(CheckTypes)
          /\ Len(Tail(todo)) = Len(todo) - 1 /\ Len(todo) \in Nat
      BY <3>1, HeadTailProperties, LenProperties DEF GateTypes
    <3> QED
      BY <3>1, <3>2 DEF GateTypes
  <2>2. CASE Conclude
    BY <2>2 DEF Conclude, GateTypes
  <2>3. CASE UNCHANGED gateVars
    BY <2>3 DEF gateVars, GateTypes
  <2> QED
    BY <2>1, <2>2, <2>3 DEF GateNext, GateStep, GateOver
<1>3. GateTypes => GateTypeOK
  BY DEF GateTypes, GateTypeOK
<1> QED
  BY <1>1, <1>2, <1>3, PTL DEF GateSpec
=============================================================================
