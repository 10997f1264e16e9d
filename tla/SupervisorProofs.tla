--------------------------- MODULE SupervisorProofs ---------------------------
(***************************************************************************)
(* Theorems about the supervisor for every number of turns.  IInv is the   *)
(* inductive invariant: it ties what the row, the verdict and the trace    *)
(* say to the place where the process stands, which none of the properties *)
(* proved from it does alone.                                              *)
(***************************************************************************)
EXTENDS Supervisor, SequenceTheorems, TLAPS

\* A row is open exactly between start_run and the write that closes it, and a
\* process that can still report has not reported yet.
RowFollowsControl ==
  /\ pc = "cli" => row = "absent"
  /\ pc \in {"opened", "setup", "turns", "streaming", "between", "verify",
             "judging", "completing", "closing", "handling"} => row = "running"
  /\ pc = "closed" => row = closing
  /\ pc = "errored" => row = "error"
  /\ pc \notin Stopped => report = "none"
  /\ pc = "returned" /\ report # "refused" =>
       row \in Closed /\ (report = "done") = (row = "done")

\* The status to be written and the phase to be shown were decided together.
ClosingFollowsPhase ==
  pc \in {"completing", "closing", "closed"} =>
    /\ closing \in Closed
    /\ phase \in {"done", "failed", "stopped", "unverified"}
    /\ closing = phase \/ (closing = "error" /\ phase = "failed")

\* What the judgement rests on: the outcome of the last turn and the verdict.
Judged(s) ==
  /\ s = "done" => /\ result.status = "done"
                   /\ verdict \in {"verified", "not_applicable"}
                   /\ ~Logged("verifier_error") /\ ~Logged("error")
  /\ s = "stopped" => turn = MaxTurns /\ result.status = "stopped"

JudgementStands ==
  /\ pc \in {"cli", "opened", "setup", "turns", "streaming", "between", "verify"} =>
       ~Logged("verifier_error") /\ ~Logged("error")
  /\ pc = "judging" => /\ ~Logged("error") /\ verdict \in Verdicts
                       /\ Logged("verifier_error") => verdict = "unverified"
  /\ pc \in {"cli", "opened", "setup", "turns", "streaming"} =>
       result.status \notin {"done", "error"}
  /\ pc = "between" => result.status \in {"done", "stopped"}
  /\ pc \in {"verify", "judging"} =>
       result.status = "done" \/ (turn = MaxTurns /\ result.status = "stopped")
  /\ pc \in {"completing", "closing", "closed"} => Judged(closing)
  /\ Judged(row)

\* The answer a caller will be shown is in the trace before the row closes.
AnswerFollowsControl ==
  /\ pc \in {"cli", "opened", "setup", "turns", "streaming", "between", "verify",
             "judging"} => answer = "none"
  /\ pc \in {"closing", "closed"} /\ closing # "error"
       /\ answer \notin {"none", "empty"} => Logged("completion")
  /\ AnswerBeforeClose

IInv ==
  /\ TypeOK
  /\ RowFollowsControl
  /\ ClosingFollowsPhase
  /\ JudgementStands
  /\ AnswerFollowsControl
-----------------------------------------------------------------------------
\* Appending an event adds its kind to the kinds a log has, and no other.
LEMMA HasAppend ==
  ASSUME NEW l \in Seq(Events), NEW e \in Events, NEW k
  PROVE  Has(Append(l, e), k) <=> Has(l, k) \/ e.kind = k
<1>1. Len(Append(l, e)) = Len(l) + 1 /\ Len(l) \in Nat
  BY AppendProperties, LenProperties
<1>2. Append(l, e)[Len(l) + 1] = e
  BY AppendProperties
<1>3. \A i \in 1..Len(l) : Append(l, e)[i] = l[i]
  BY AppendProperties
<1> QED  BY <1>1, <1>2, <1>3 DEF Has

\* Appending to a log keeps it a log; in terms of the kinds alone.
LEMMA LogAppend ==
  ASSUME NEW l \in Seq(Events), NEW kind \in EventKinds, NEW note \in Notes
  PROVE  /\ With(l, kind, note) \in Seq(Events)
         /\ \A k : Has(With(l, kind, note), k) <=> Has(l, k) \/ kind = k
<1>1. Event(kind, note) \in Events /\ Event(kind, note).kind = kind
  BY DEF Events, Event
<1> QED  BY <1>1, HasAppend, AppendProperties DEF With

-----------------------------------------------------------------------------
\* Every step is one of the actions, or changes nothing.
LEMMA StepCases ==
  ASSUME [Next]_vars
  PROVE  \/ PreflightFails \/ StartRun \/ RecordRunStarted \/ EnterSupervisor
         \/ BeginTurn \/ EditWorkspace \/ EndTurn \/ BetweenTurns
         \/ SkipVerifier \/ RunTheVerifier \/ VerifierRaises \/ Judge
         \/ RecordCompletion \/ FinishRun \/ Return
         \/ RaiseHandled \/ HandleError \/ ReturnError \/ Abort \/ TurnHangs
         \/ UNCHANGED vars
BY DEF Next, Step, Over

\* The trace after any step: nothing is lost from it, and the three kinds of
\* event the properties speak of appear only where the code writes them.
TraceGrows ==
  /\ log' \in Seq(Events)
  /\ \A k : Has(log, k) => Has(log', k)
  /\ Has(log', "error") => Has(log, "error") \/ pc' = "handling"
  /\ Has(log', "verifier_error") =>
       Has(log, "verifier_error") \/ (pc' = "judging" /\ verdict' = "unverified")
  /\ pc = "completing" /\ pc' = "closing" /\ answer # "empty" =>
       Has(log', "completion")

LEMMA TraceStep ==
  ASSUME TypeOK, [Next]_vars
  PROVE  TraceGrows
<1>0. log \in Seq(Events)
  BY DEF TypeOK
<1>1. CASE RecordRunStarted
  <2>1. log' = With(log, "run_started", "cli")
    BY <1>1 DEF RecordRunStarted, Append1
  <2> QED
    BY <1>0, <1>1, <2>1, LogAppend DEF RecordRunStarted, TraceGrows,
       EventKinds, Notes
<1>2. CASE EnterSupervisor
  <2>1. log' = With(log, "run_started", "supervisor")
    BY <1>2 DEF EnterSupervisor, Append1
  <2> QED
    BY <1>0, <1>2, <2>1, LogAppend DEF EnterSupervisor, TraceGrows,
       EventKinds, Notes
<1>3. CASE BeginTurn
  <2>1. log' = With(log, "turn_started", "none")
    BY <1>3 DEF BeginTurn, Append1
  <2> QED
    BY <1>0, <1>3, <2>1, LogAppend DEF BeginTurn, TraceGrows, EventKinds,
       Notes
<1>4. CASE Judge
  <2>1. PICK v \in Notes : log' = With(log, "verification", v)
    BY <1>4 DEF Judge, Append1, TypeOK, Notes
  <2> QED
    BY <1>0, <1>4, <2>1, LogAppend DEF Judge, Finalize, TraceGrows, EventKinds
<1>5. CASE RaiseHandled
  <2>1. log' = With(log, "error", "cli")
    BY <1>5 DEF RaiseHandled, Append1
  <2> QED
    BY <1>0, <1>5, <2>1, LogAppend, ZenonT(60) DEF RaiseHandled, TraceGrows, EventKinds,
       Notes
<1>6. CASE EndTurn
  <2>1. PICK note \in Notes : log' = With(log, "turn_finished", note)
    BY <1>6 DEF EndTurn, FinishTurn, FailTurn, Append1, TurnStatuses, Notes
  <2>2. pc = "streaming" /\ pc' \in {"between", "closing"}
    BY <1>6 DEF EndTurn, FinishTurn, FailTurn
  <2> QED  BY <1>0, <2>1, <2>2, LogAppend DEF TraceGrows, EventKinds, Notes
<1>7. CASE RunTheVerifier
  <2>1. log' = With(log, "verifier_result", "none") /\ pc' = "judging"
    BY <1>7 DEF RunTheVerifier, RunVerifier, Append1
  <2> QED
    BY <1>0, <1>7, <2>1, LogAppend DEF RunTheVerifier, RunVerifier, TraceGrows, EventKinds, Notes
<1>8. CASE VerifierRaises
  <2>1. log' = With(log, "verifier_error", "none")
    BY <1>8 DEF VerifierRaises, Append1
  <2>2. pc' = "judging" /\ verdict' = "unverified" /\ pc = "verify"
    BY <1>8 DEF VerifierRaises, VerdictOfARaise
  <2> QED
    BY <1>0, <2>1, <2>2, LogAppend DEF TraceGrows, EventKinds, Notes
<1>9. CASE RecordCompletion
  <2>1. CASE answer = "empty"
    BY <1>0, <1>9, <2>1 DEF RecordCompletion, TraceGrows
  <2>2. CASE answer # "empty"
    <3>1. PICK note \in Notes : log' = With(log, "completion", note)
      BY <1>9, <2>2 DEF RecordCompletion, Append1, CompletionStatus, Notes
    <3> QED
      BY <1>0, <1>9, <3>1, LogAppend DEF RecordCompletion, TraceGrows,
         EventKinds
  <2> QED  BY <2>1, <2>2
<1>10. CASE \/ PreflightFails \/ StartRun \/ EditWorkspace \/ BetweenTurns
           \/ SkipVerifier \/ FinishRun \/ Return \/ HandleError \/ ReturnError \/ Abort \/ TurnHangs
  BY <1>0, <1>10 DEF PreflightFails, StartRun, EditWorkspace, BetweenTurns,
     SkipVerifier, FinishRun, Return, HandleError, ReturnError, Abort, TurnHangs, TraceGrows
<1>11. CASE UNCHANGED vars
  BY <1>0, <1>11 DEF vars, TraceGrows
<1> QED
  BY StepCases, <1>1, <1>2, <1>3, <1>4, <1>5, <1>6, <1>7, <1>8, <1>9, <1>10, <1>11

-----------------------------------------------------------------------------
\* The state a process starts in satisfies the invariant.
LEMMA InitInv == Init => IInv
<1> SUFFICES ASSUME Init PROVE IInv
  OBVIOUS
<1>1. log \in Seq(Events) /\ \A k : ~Logged(k)
  BY DEF Init, Has, Logged
<1>2. TypeOK
  <2>1. turn \in 0..MaxTurns
    BY MaxTurnsAssumption DEF Init
  <2>2. pc = "cli" /\ row = "absent" /\ report = "none" /\ phase = "new"
          /\ result = NoResult /\ answer = "none" /\ verdict = "none"
          /\ closing = "none" /\ edited = FALSE
          /\ hasVerifier \in BOOLEAN /\ hasPager \in BOOLEAN
    BY DEF Init
  <2> QED  BY <1>1, <2>1, <2>2 DEF TypeOK, Phases
<1>3. pc = "cli" /\ row = "absent" /\ report = "none" /\ answer = "none"
        /\ closing = "none" /\ result.status = "none"
  BY DEF Init, NoResult
<1>4. RowFollowsControl /\ ClosingFollowsPhase
  BY <1>3 DEF RowFollowsControl, ClosingFollowsPhase
<1>5. JudgementStands
  BY <1>1, <1>3 DEF JudgementStands, Judged
<1>6. AnswerFollowsControl
  BY <1>3 DEF AnswerFollowsControl, AnswerBeforeClose, Closed
<1> QED  BY <1>2, <1>4, <1>5, <1>6 DEF IInv

\* Every step keeps the variables within their types.
LEMMA TypeStep == IInv /\ [Next]_vars => TypeOK'
<1> SUFFICES ASSUME IInv, [Next]_vars PROVE TypeOK'
  OBVIOUS
<1> USE MaxTurnsAssumption DEF IInv
<1>0. TraceGrows
  BY TraceStep
<1>1. CASE PreflightFails
  BY <1>0, <1>1 DEF PreflightFails, TraceGrows, TypeOK, ClosingFollowsPhase,
       RowFollowsControl, Stopped, Closed, Phases, Results, NoResult, Answers,
       Verdicts, TurnStatuses, config
<1>2. CASE StartRun
  BY <1>0, <1>2 DEF StartRun, TraceGrows, TypeOK, ClosingFollowsPhase,
       RowFollowsControl, Stopped, Closed, Phases, Results, NoResult, Answers,
       Verdicts, TurnStatuses, config
<1>3. CASE RecordRunStarted
  BY <1>0, <1>3 DEF RecordRunStarted, TraceGrows, TypeOK, ClosingFollowsPhase,
       RowFollowsControl, Stopped, Closed, Phases, Results, NoResult, Answers,
       Verdicts, TurnStatuses, config
<1>4. CASE EnterSupervisor
  BY <1>0, <1>4 DEF EnterSupervisor, TraceGrows, TypeOK, ClosingFollowsPhase,
       RowFollowsControl, Stopped, Closed, Phases, Results, NoResult, Answers,
       Verdicts, TurnStatuses, config
<1>5. CASE BeginTurn
  BY <1>0, <1>5 DEF BeginTurn, FinishTurn, FailTurn, LoopOver,
       CleanFinalAnswer, TraceGrows, TypeOK, ClosingFollowsPhase,
       RowFollowsControl, Stopped, Closed, Phases, Results, NoResult, Answers,
       Verdicts, TurnStatuses, config
<1>6. CASE EditWorkspace
  BY <1>0, <1>6 DEF EditWorkspace, FinishTurn, FailTurn, LoopOver,
       CleanFinalAnswer, TraceGrows, TypeOK, ClosingFollowsPhase,
       RowFollowsControl, Stopped, Closed, Phases, Results, NoResult, Answers,
       Verdicts, TurnStatuses, config
<1>7. CASE BetweenTurns
  BY <1>0, <1>7 DEF BetweenTurns, FinishTurn, FailTurn, LoopOver,
       CleanFinalAnswer, TraceGrows, TypeOK, ClosingFollowsPhase,
       RowFollowsControl, Stopped, Closed, Phases, Results, NoResult, Answers,
       Verdicts, TurnStatuses, config
<1>8. CASE SkipVerifier
  BY <1>0, <1>8 DEF SkipVerifier, RunVerifier, VerdictOfARaise, Classify,
       Finalize, FinalPhase, Silent, CleanFinalAnswer, TraceGrows, TypeOK,
       ClosingFollowsPhase, RowFollowsControl, Stopped, Closed, Phases,
       Results, NoResult, Answers, Verdicts, TurnStatuses, config
<1>9. CASE RunTheVerifier
  BY <1>0, <1>9 DEF RunTheVerifier, RunVerifier, VerdictOfARaise, Classify,
       Finalize, FinalPhase, Silent, CleanFinalAnswer, TraceGrows, TypeOK,
       ClosingFollowsPhase, RowFollowsControl, Stopped, Closed, Phases,
       Results, NoResult, Answers, Verdicts, TurnStatuses, config
<1>10. CASE VerifierRaises
  BY <1>0, <1>10 DEF VerifierRaises, RunVerifier, VerdictOfARaise, Classify,
       Finalize, FinalPhase, Silent, CleanFinalAnswer, TraceGrows, TypeOK,
       ClosingFollowsPhase, RowFollowsControl, Stopped, Closed, Phases,
       Results, NoResult, Answers, Verdicts, TurnStatuses, config
<1>11. CASE RecordCompletion
  BY <1>0, <1>11 DEF RecordCompletion, HarnessStatus, TraceGrows, TypeOK,
       ClosingFollowsPhase, RowFollowsControl, Stopped, Closed, Phases,
       Results, NoResult, Answers, Verdicts, TurnStatuses, config
<1>12. CASE FinishRun
  BY <1>0, <1>12 DEF FinishRun, HarnessStatus, TraceGrows, TypeOK,
       ClosingFollowsPhase, RowFollowsControl, Stopped, Closed, Phases,
       Results, NoResult, Answers, Verdicts, TurnStatuses, config
<1>13. CASE Return
  BY <1>0, <1>13 DEF Return, HarnessStatus, TraceGrows, TypeOK,
       ClosingFollowsPhase, RowFollowsControl, Stopped, Closed, Phases,
       Results, NoResult, Answers, Verdicts, TurnStatuses, config
<1>14. CASE RaiseHandled
  BY <1>0, <1>14 DEF RaiseHandled, InsideTry, TraceGrows, TypeOK,
       ClosingFollowsPhase, RowFollowsControl, Stopped, Closed, Phases,
       Results, NoResult, Answers, Verdicts, TurnStatuses, config
<1>15. CASE HandleError
  BY <1>0, <1>15 DEF HandleError, InsideTry, TraceGrows, TypeOK,
       ClosingFollowsPhase, RowFollowsControl, Stopped, Closed, Phases,
       Results, NoResult, Answers, Verdicts, TurnStatuses, config
<1>16. CASE ReturnError
  BY <1>0, <1>16 DEF ReturnError, InsideTry, TraceGrows, TypeOK,
       ClosingFollowsPhase, RowFollowsControl, Stopped, Closed, Phases,
       Results, NoResult, Answers, Verdicts, TurnStatuses, config
<1>17. CASE Abort
  BY <1>0, <1>17 DEF Abort, InsideTry, TraceGrows, TypeOK,
       ClosingFollowsPhase, RowFollowsControl, Stopped, Closed, Phases,
       Results, NoResult, Answers, Verdicts, TurnStatuses, config
<1>18. CASE TurnHangs
  BY <1>0, <1>18 DEF TurnHangs, InsideTry, TraceGrows, TypeOK,
       ClosingFollowsPhase, RowFollowsControl, Stopped, Closed, Phases,
       Results, NoResult, Answers, Verdicts, TurnStatuses, config
<1>19. CASE EndTurn
  <2>1. PICK a \in Answers : (\E s \in TurnStatuses : FinishTurn(s, a)) \/ FailTurn(a)
    BY <1>19 DEF EndTurn
  <2>2. CASE \E s \in TurnStatuses : FinishTurn(s, a)
    <3>1. PICK s \in TurnStatuses : FinishTurn(s, a)
      BY <2>2
    <3>2. result' \in Results
      BY <3>1 DEF FinishTurn, Results
    <3> QED
      BY <1>0, <3>1, <3>2 DEF FinishTurn, TraceGrows, TypeOK, config
  <2>3. CASE FailTurn(a)
    <3>1. result' \in Results /\ answer' \in Answers
      BY <2>3 DEF FailTurn, Results, TurnStatuses, CleanFinalAnswer, Answers
    <3> QED
      BY <1>0, <2>3, <3>1 DEF FailTurn, TraceGrows, TypeOK, Phases, Closed,
           config
  <2> QED  BY <2>1, <2>2, <2>3
<1>20. CASE Judge
  <2>1. /\ phase' \in Phases /\ closing' \in Closed /\ pc' \in {"closing", "completing"}
        /\ answer' \in {"none"} \union Answers
    BY <1>20 DEF Judge, Finalize, FinalPhase, Silent, CleanFinalAnswer, TypeOK, Phases, Closed,
       Results, NoResult, Answers
  <2> QED
    BY <1>0, <1>20, <2>1 DEF Judge, TraceGrows, TypeOK, config
<1>21. CASE UNCHANGED vars
  BY <1>0, <1>21 DEF TraceGrows, TypeOK, ClosingFollowsPhase,
       RowFollowsControl, Stopped, Closed, Phases, Results, NoResult, Answers,
       Verdicts, TurnStatuses, vars, config
<1> QED
  BY StepCases, <1>1, <1>2, <1>3, <1>4, <1>5, <1>6, <1>7, <1>8, <1>9, <1>10, <1>11,
       <1>12, <1>13, <1>14, <1>15, <1>16, <1>17, <1>18, <1>19, <1>20, <1>21

\* Every step keeps the row in step with the control state.
LEMMA RowStep == IInv /\ [Next]_vars => RowFollowsControl'
<1> SUFFICES ASSUME IInv, [Next]_vars PROVE RowFollowsControl'
  OBVIOUS
<1> USE MaxTurnsAssumption DEF IInv
<1>0. TraceGrows
  BY TraceStep
<1>1. CASE PreflightFails \/ StartRun \/ RecordRunStarted \/ EnterSupervisor
  BY <1>0, <1>1 DEF PreflightFails, StartRun, RecordRunStarted,
       EnterSupervisor, TraceGrows, RowFollowsControl, ClosingFollowsPhase,
       Stopped, Closed, config
<1>2. CASE BeginTurn \/ EditWorkspace \/ EndTurn \/ BetweenTurns
  BY <1>0, <1>2 DEF BeginTurn, EditWorkspace, EndTurn, BetweenTurns,
       FinishTurn, FailTurn, LoopOver, CleanFinalAnswer, TraceGrows,
       RowFollowsControl, ClosingFollowsPhase, Stopped, Closed, config
<1>3. CASE SkipVerifier \/ RunTheVerifier \/ VerifierRaises \/ Judge
  BY <1>0, <1>3 DEF SkipVerifier, RunTheVerifier, VerifierRaises, RunVerifier, Judge,
       VerdictOfARaise, Classify, Finalize, FinalPhase, Silent,
       CleanFinalAnswer, TraceGrows, RowFollowsControl, ClosingFollowsPhase,
       Stopped, Closed, config
<1>4. CASE RecordCompletion \/ FinishRun \/ Return
  BY <1>0, <1>4 DEF RecordCompletion, FinishRun, Return, HarnessStatus,
       TraceGrows, RowFollowsControl, ClosingFollowsPhase, Stopped, Closed,
       config
<1>5. CASE RaiseHandled \/ HandleError \/ ReturnError \/ Abort \/ TurnHangs
  BY <1>0, <1>5 DEF RaiseHandled, HandleError, ReturnError, Abort, TurnHangs,
       InsideTry, TraceGrows, RowFollowsControl, ClosingFollowsPhase, Stopped,
       Closed, config
<1>6. CASE UNCHANGED vars
  BY <1>0, <1>6 DEF TraceGrows, RowFollowsControl, ClosingFollowsPhase,
       Stopped, Closed, vars, config
<1> QED
  BY StepCases, <1>1, <1>2, <1>3, <1>4, <1>5, <1>6

\* Every step keeps the status to be written and the phase together.
LEMMA ClosingStep == IInv /\ [Next]_vars => ClosingFollowsPhase'
<1> SUFFICES ASSUME IInv, [Next]_vars PROVE ClosingFollowsPhase'
  OBVIOUS
<1> USE MaxTurnsAssumption DEF IInv
<1>0. TraceGrows
  BY TraceStep
<1>1. CASE PreflightFails \/ StartRun \/ RecordRunStarted \/ EnterSupervisor
  BY <1>0, <1>1 DEF PreflightFails, StartRun, RecordRunStarted,
       EnterSupervisor, TraceGrows, ClosingFollowsPhase, Closed, Stopped,
       config
<1>2. CASE BeginTurn \/ EditWorkspace \/ EndTurn \/ BetweenTurns
  BY <1>0, <1>2 DEF BeginTurn, EditWorkspace, EndTurn, BetweenTurns,
       FinishTurn, FailTurn, LoopOver, CleanFinalAnswer, TraceGrows,
       ClosingFollowsPhase, Closed, Stopped, config
<1>3. CASE SkipVerifier \/ RunTheVerifier \/ VerifierRaises
  BY <1>3 DEF SkipVerifier, RunTheVerifier, VerifierRaises, RunVerifier, ClosingFollowsPhase
<1>4. CASE RecordCompletion \/ FinishRun \/ Return
  BY <1>0, <1>4 DEF RecordCompletion, FinishRun, Return, HarnessStatus,
       TraceGrows, ClosingFollowsPhase, Closed, Stopped, config
<1>5. CASE RaiseHandled \/ HandleError \/ ReturnError \/ Abort \/ TurnHangs
  BY <1>0, <1>5 DEF RaiseHandled, HandleError, ReturnError, Abort, TurnHangs,
       InsideTry, TraceGrows, ClosingFollowsPhase, Closed, Stopped, config
<1>6. CASE Judge
  <2>1. phase' = FinalPhase(verdict) /\ closing' = FinalPhase(verdict)
    BY <1>6 DEF Judge, Finalize
  <2>2. FinalPhase(verdict) \in {"done", "failed", "stopped", "unverified"}
    BY DEF FinalPhase
  <2> QED
    BY <2>1, <2>2 DEF ClosingFollowsPhase, Closed
<1>7. CASE UNCHANGED vars
  BY <1>0, <1>7 DEF TraceGrows, ClosingFollowsPhase, Closed, Stopped, vars,
       config
<1> QED
  BY StepCases, <1>1, <1>2, <1>3, <1>4, <1>5, <1>6, <1>7

\* Every step keeps what a row's status stands for.
LEMMA JudgementStep == IInv /\ [Next]_vars => JudgementStands'
<1> SUFFICES ASSUME IInv, [Next]_vars PROVE JudgementStands'
  OBVIOUS
<1> USE MaxTurnsAssumption DEF IInv
<1>0. TraceGrows
  BY TraceStep
<1>1. CASE PreflightFails \/ StartRun \/ RecordRunStarted \/ EnterSupervisor
  BY <1>0, <1>1 DEF PreflightFails, StartRun, RecordRunStarted,
       EnterSupervisor, TraceGrows, JudgementStands, Judged,
       RowFollowsControl, Logged, NoResult, Stopped, config
<1>2. CASE BeginTurn \/ EditWorkspace \/ BetweenTurns
  BY <1>0, <1>2 DEF BeginTurn, EditWorkspace, BetweenTurns, LoopOver,
       TraceGrows, JudgementStands, Judged, RowFollowsControl, Logged,
       NoResult, Stopped, config
<1>3. CASE SkipVerifier \/ RunTheVerifier \/ VerifierRaises
  <2>1. /\ pc = "verify" /\ pc' = "judging" /\ verdict' \in Verdicts
        /\ UNCHANGED <<row, turn, result>>
    BY <1>3 DEF SkipVerifier, RunTheVerifier, VerifierRaises, RunVerifier, VerdictOfARaise,
       Classify, Verdicts
  <2> QED
    BY <1>0, <2>1 DEF TraceGrows, JudgementStands, Judged, RowFollowsControl, Logged
<1>4. CASE RecordCompletion \/ FinishRun \/ Return
  BY <1>0, <1>4 DEF RecordCompletion, FinishRun, Return, HarnessStatus,
       TraceGrows, JudgementStands, Judged, RowFollowsControl, Logged,
       NoResult, Stopped, config
<1>5. CASE RaiseHandled \/ HandleError \/ ReturnError \/ Abort \/ TurnHangs
  BY <1>0, <1>5 DEF RaiseHandled, HandleError, ReturnError, Abort, TurnHangs,
       InsideTry, TraceGrows, JudgementStands, Judged, RowFollowsControl,
       Logged, NoResult, Stopped, config
<1>6. CASE EndTurn
  <2>1. PICK a \in Answers : (\E s \in TurnStatuses : FinishTurn(s, a)) \/ FailTurn(a)
    BY <1>6 DEF EndTurn
  <2>2. CASE \E s \in TurnStatuses : FinishTurn(s, a)
    <3>1. PICK s \in TurnStatuses : FinishTurn(s, a)
      BY <2>2
    <3>2. s \in {"done", "stopped"} /\ result'.status = s
            /\ pc = "streaming" /\ pc' = "between" /\ row' = "running"
      BY <3>1 DEF FinishTurn, TurnStatuses, RowFollowsControl, config
    <3> QED
      BY <1>0, <3>2 DEF TraceGrows, JudgementStands, Judged, Logged
  <2>3. CASE FailTurn(a)
    BY <1>0, <2>3 DEF FailTurn, TraceGrows, JudgementStands, Judged,
         RowFollowsControl, Logged, NoResult, Stopped, config
  <2> QED  BY <2>1, <2>2, <2>3
<1>7. CASE Judge
  <2>1. /\ pc = "judging" /\ pc' \in {"completing", "closing"} /\ row = "running"
        /\ closing' = FinalPhase(verdict) /\ UNCHANGED <<row, turn, result, verdict>>
    BY <1>7 DEF Judge, Finalize, RowFollowsControl
  <2>2. /\ Has(log', "error") => Logged("error")
        /\ Has(log', "verifier_error") => Logged("verifier_error")
    BY <1>0, <2>1 DEF TraceGrows, Logged
  <2>3. /\ ~Logged("error") /\ verdict \in Verdicts
        /\ Logged("verifier_error") => verdict = "unverified"
        /\ result.status = "done" \/ (turn = MaxTurns /\ result.status = "stopped")
    BY <2>1 DEF JudgementStands
  <2>4. /\ FinalPhase(verdict) = "done" =>
             result.status = "done" /\ verdict \in {"verified", "not_applicable"}
        /\ FinalPhase(verdict) = "stopped" => result.status # "done"
    BY <2>3 DEF FinalPhase, Verdicts
  <2> QED
    BY <2>1, <2>2, <2>3, <2>4 DEF JudgementStands, Judged, Logged
<1>8. CASE UNCHANGED vars
  BY <1>0, <1>8 DEF TraceGrows, JudgementStands, Judged, RowFollowsControl,
       Logged, NoResult, Stopped, vars, config
<1> QED
  BY StepCases, <1>1, <1>2, <1>3, <1>4, <1>5, <1>6, <1>7, <1>8

\* Every step keeps the answer behind its completion event.
LEMMA AnswerStep == IInv /\ [Next]_vars => AnswerFollowsControl'
<1> SUFFICES ASSUME IInv, [Next]_vars PROVE AnswerFollowsControl'
  OBVIOUS
<1> USE MaxTurnsAssumption DEF IInv
<1>0. TraceGrows
  BY TraceStep
<1>1. CASE PreflightFails \/ StartRun \/ RecordRunStarted \/ EnterSupervisor
  BY <1>0, <1>1 DEF PreflightFails, StartRun, RecordRunStarted,
       EnterSupervisor, TraceGrows, AnswerFollowsControl, AnswerBeforeClose,
       RowFollowsControl, Logged, Closed, Stopped, config
<1>2. CASE BeginTurn \/ EditWorkspace \/ BetweenTurns
  BY <1>0, <1>2 DEF BeginTurn, EditWorkspace, BetweenTurns, LoopOver,
       TraceGrows, AnswerFollowsControl, AnswerBeforeClose, RowFollowsControl,
       Logged, Closed, Stopped, config
<1>3. CASE SkipVerifier \/ RunTheVerifier \/ VerifierRaises \/ Judge
  BY <1>0, <1>3 DEF SkipVerifier, RunTheVerifier, VerifierRaises, RunVerifier, Judge,
       VerdictOfARaise, Classify, Finalize, FinalPhase, Silent,
       CleanFinalAnswer, TraceGrows, AnswerFollowsControl, AnswerBeforeClose,
       RowFollowsControl, Logged, Closed, Stopped, config
<1>4. CASE RecordCompletion \/ FinishRun \/ Return
  BY <1>0, <1>4 DEF RecordCompletion, FinishRun, Return, HarnessStatus,
       TraceGrows, AnswerFollowsControl, AnswerBeforeClose, RowFollowsControl,
       Logged, Closed, Stopped, config
<1>5. CASE RaiseHandled \/ HandleError \/ ReturnError \/ Abort \/ TurnHangs
  BY <1>0, <1>5 DEF RaiseHandled, HandleError, ReturnError, Abort, TurnHangs,
       InsideTry, TraceGrows, AnswerFollowsControl, AnswerBeforeClose,
       RowFollowsControl, Logged, Closed, Stopped, config
<1>6. CASE EndTurn
  <2>1. PICK a \in Answers : (\E s \in TurnStatuses : FinishTurn(s, a)) \/ FailTurn(a)
    BY <1>6 DEF EndTurn
  <2>2. CASE \E s \in TurnStatuses : FinishTurn(s, a)
    <3>1. PICK s \in TurnStatuses : FinishTurn(s, a)
      BY <2>2
    <3> QED
      BY <1>0, <3>1 DEF FinishTurn, TraceGrows, AnswerFollowsControl,
           AnswerBeforeClose, RowFollowsControl, Logged, Closed, Stopped,
           config
  <2>3. CASE FailTurn(a)
    BY <1>0, <2>3 DEF FailTurn, TraceGrows, AnswerFollowsControl,
         AnswerBeforeClose, RowFollowsControl, Logged, Closed, Stopped, config
  <2> QED  BY <2>1, <2>2, <2>3
<1>7. CASE UNCHANGED vars
  BY <1>0, <1>7 DEF TraceGrows, AnswerFollowsControl, AnswerBeforeClose,
       RowFollowsControl, Logged, Closed, Stopped, vars, config
<1> QED
  BY StepCases, <1>1, <1>2, <1>3, <1>4, <1>5, <1>6, <1>7

\* The invariant is inductive.
LEMMA NextInv == IInv /\ [Next]_vars => IInv'
BY TypeStep, RowStep, ClosingStep, JudgementStep, AnswerStep DEF IInv

\* Every reachable state satisfies the invariant.
LEMMA Invariance == Spec => []IInv
BY InitInv, NextInv, PTL DEF Spec

-----------------------------------------------------------------------------
\* What the invariant was strengthened from.
LEMMA Consequences ==
  IInv => TypeOK /\ AnswerBeforeClose /\ ClosedAsJudged /\ ReportMatchesRow
BY DEF IInv, AnswerFollowsControl, JudgementStands, Judged, ClosedAsJudged,
   RowFollowsControl, ReportMatchesRow

\* For every limit on the turns, the variables keep their types and the trace
\* holds only the events of this control plane.
THEOREM TypeCorrect == Spec => []TypeOK
BY Invariance, Consequences, PTL

\* For every limit on the turns, a row closed with a judged status has its
\* completion event, whenever the process stops.
THEOREM AnswerIsRecorded == Spec => []AnswerBeforeClose
BY Invariance, Consequences, PTL

\* For every limit on the turns, "done" takes a finished turn and a verdict that
\* is not against it, and "stopped" takes all the turns.
THEOREM StrictPolicy == Spec => []ClosedAsJudged
BY Invariance, Consequences, PTL

\* For every limit on the turns, what the caller is shown agrees with the row.
THEOREM ReportsAgree == Spec => []ReportMatchesRow
BY Invariance, Consequences, PTL

\* For every limit on the turns, no turn follows one that was done or failed.
THEOREM NothingFollowsAnOutcome == Spec => NoTurnAfterAnOutcome
<1>1. IInv /\ [Next]_vars => [turn' # turn => result.status \notin {"done", "error"}]_vars
  BY DEF IInv, JudgementStands, Next, Step, Over, vars, config,
     PreflightFails, StartRun,
     RecordRunStarted, EnterSupervisor, BeginTurn, EditWorkspace, EndTurn, FinishTurn,
     FailTurn, BetweenTurns, SkipVerifier, RunTheVerifier, RunVerifier, VerifierRaises,
     Judge, RecordCompletion, FinishRun, Return, RaiseHandled, HandleError, ReturnError, Abort,
     TurnHangs
<1> QED  BY <1>1, Invariance, PTL DEF Spec, NoTurnAfterAnOutcome

\* A run is opened, closed and reported by six of the actions; no other step
\* touches the row or the report.
LEMMA SilentSteps ==
  ASSUME [Next]_vars
  PROVE  \/ PreflightFails \/ StartRun
         \/ FinishRun \/ HandleError
         \/ Return \/ ReturnError
         \/ UNCHANGED <<row, report>>
BY DEF Next, Step, Over, vars, config, RecordRunStarted, EnterSupervisor,
   BeginTurn, EditWorkspace, EndTurn, FinishTurn, FailTurn, BetweenTurns,
   SkipVerifier, RunTheVerifier, RunVerifier, VerifierRaises, Judge, RecordCompletion,
   RaiseHandled, Abort, TurnHangs

\* Each of the six is the step of the lifecycle it stands for.
LEMMA LifecycleStep == IInv /\ [Next]_vars => [Lifecycle!Next]_(Lifecycle!vars)
<1> SUFFICES ASSUME IInv, [Next]_vars PROVE [Lifecycle!Next]_(Lifecycle!vars)
  OBVIOUS
<1> USE DEF IInv, RowFollowsControl, ClosingFollowsPhase, Stopped, Closed,
            Lifecycle!vars, Lifecycle!Next
<1>opened. ASSUME PreflightFails \/ StartRun
           PROVE  Lifecycle!Refuse \/ Lifecycle!Open
  BY <1>opened DEF PreflightFails, StartRun, Lifecycle!Refuse, Lifecycle!Open
<1>closed. ASSUME FinishRun \/ HandleError PROVE Lifecycle!Close
  BY <1>closed DEF FinishRun, HandleError, Lifecycle!Close, Lifecycle!Closed
<1>reported. ASSUME Return \/ ReturnError PROVE Lifecycle!Report
  BY <1>reported DEF Return, ReturnError, HarnessStatus, Lifecycle!Report,
     Lifecycle!Closed, Lifecycle!Rendering
<1> QED  BY <1>opened, <1>closed, <1>reported, SilentSteps

\* For every limit on the turns, the row and the report follow the life of a run.
THEOREM Refinement == Spec => ImplementsLifecycle
<1>1. Init => Lifecycle!Init
  BY DEF Init, Lifecycle!Init
<1> QED
  BY <1>1, LifecycleStep, Invariance, PTL DEF Spec, ImplementsLifecycle, Lifecycle!Spec
=============================================================================
