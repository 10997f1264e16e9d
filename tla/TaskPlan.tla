------------------------------ MODULE TaskPlan ------------------------------
(***************************************************************************)
(* The structured plan of the graph runtime (types.py, graph/planning.py)  *)
(* and the recovery table (graph/recovery.py), as operators: a plan is the *)
(* sequence of its steps and the id of the current one, 0 for None.        *)
(*                                                                         *)
(* An id is a number; the parser drops a line that repeats one, and only   *)
(* the default step of a failed recovery can do so.  A dependency is that  *)
(* on the step before: "chained" is false for the first step and for a     *)
(* child that follows a sibling.                                           *)
(***************************************************************************)
EXTENDS Integers, Sequences

StepStatuses == {"pending", "in_progress", "completed", "failed", "skipped"}
Open == {"pending", "in_progress"}

PlanStep(id, chained) ==
  [id |-> id, status |-> "pending", attempts |-> 0, chained |-> chained]

\* parse_structured_plan and detect_dependencies: n steps of which some depend
\* on the one before; an empty answer gives no step at all.
ParsedPlan(n, chained) ==
  [steps |-> [i \in 1..n |-> PlanStep(i, i \in chained)],
   current |-> IF n = 0 THEN 0 ELSE 1]

Steps(p) == 1..Len(p.steps)
\* The first of some steps, 0 if there is none.
First(S) == IF S = {} THEN 0 ELSE CHOOSE i \in S : \A j \in S : i <= j
WithStatus(p, statuses) == {i \in Steps(p) : p.steps[i].status \in statuses}
SetStatus(p, i, status) == [p EXCEPT !.steps[i].status = status]

HasMore(p) == WithStatus(p, Open) # {}

\* plan_step_by_id: ids are not unique once there is a default step.
ById(p, id) == First({i \in Steps(p) : p.steps[i].id = id})

\* _find_current_step: the step the plan names, else the first open one.
CurrentStep(p) ==
  IF ById(p, p.current) # 0 THEN ById(p, p.current) ELSE First(WithStatus(p, Open))

\* What reflect does with the plan before it looks at the observation.
Refocus(p) ==
  LET i == CurrentStep(p) IN
  IF i = 0 \/ p.current = p.steps[i].id THEN p
  ELSE [steps |-> [j \in Steps(p) |->
          IF j = i THEN [p.steps[j] EXCEPT !.status = "in_progress"]
          ELSE IF p.steps[j].status = "in_progress"
               THEN [p.steps[j] EXCEPT !.status = "pending"] ELSE p.steps[j]],
        current |-> p.steps[i].id]

DependenciesMet(p, i) ==
  p.steps[i].chained =>
    \E j \in WithStatus(p, {"completed"}) : p.steps[j].id = p.steps[i].id - 1

\* get_next_pending_step: the first whose dependencies are met, else the first.
NextPending(p) ==
  LET pending == WithStatus(p, {"pending"})
      ready == {i \in pending : DependenciesMet(p, i)}
  IN IF ready # {} THEN First(ready) ELSE First(pending)

\* advance_to_next_step: the current step is completed, whatever it was.
Advance(p) ==
  LET i == ById(p, p.current)
      q == IF i = 0 THEN p ELSE SetStatus(p, i, "completed")
      n == NextPending(q)
  IN [q EXCEPT !.current = IF n = 0 THEN 0 ELSE q.steps[n].id]
-----------------------------------------------------------------------------
\* RECOVERY_MAP.
Strategies(category) ==
  CASE category = "parse"   -> <<"retry_clarify", "abort">>
    [] category = "timeout" -> <<"simplify", "retry", "skip", "abort">>
    [] category = "tool"    -> <<"alternative", "retry", "skip", "abort">>
    [] category = "sandbox" -> <<"abort">>
    [] category = "empty"   -> <<"retry_clarify", "simplify", "skip", "abort">>
    [] category = "verification" -> <<"retry", "alternative", "skip", "abort">>
    [] category = "unknown" -> <<"retry", "retry_clarify", "skip", "abort">>

\* RecoverySelector.select.
Strategy(category, attempts) ==
  LET list == Strategies(category) IN
  list[IF attempts < Len(list) THEN attempts + 1 ELSE Len(list)]

\* _find_or_create_default_step, for a plan without an open step.
DefaultStep(p) == [steps |-> Append(p.steps, PlanStep(1, FALSE)), current |-> 1]

\* _apply_recovery's first half: the step that failed, or a new default step.
\* The result names the step recovery goes on with.
Failed(p, i) ==
  IF i # 0
  THEN [plan |-> [p EXCEPT !.steps[i].status = "failed", !.steps[i].attempts = @ + 1],
        step |-> i]
  ELSE [plan |-> DefaultStep(p), step |-> Len(p.steps) + 1]
=============================================================================
