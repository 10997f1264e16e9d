----------------------------- MODULE RLMRecursion -----------------------------
(***************************************************************************)
(* The recursive language-model runtime (rlm/runtime.py) as it spends its  *)
(* sub-call budget.  A turn is a loop of model calls; a response may carry *)
(* REPL blocks, and a block may ask the model again (llm_query) or start a *)
(* whole child runtime (rlm_query), which is driven to its end before the  *)
(* block goes on.  Every runtime counts on its own against the one limit,  *)
(* and a parent adds what its child reports.                               *)
(*                                                                         *)
(* The runtimes in flight are a stack, the supervisor's runtime at 1.  The *)
(* blocks run either in the process itself or behind the Docker bridge,    *)
(* which keeps a second counter; children inherit the choice.  Text,       *)
(* tokens and the protocol to the sandbox are left out.                    *)
(***************************************************************************)
EXTENDS Integers, Sequences

CONSTANTS
  MaxDepth,       \* RLMSubcallConfig.max_depth
  MaxSubcalls,    \* RLMSubcallConfig.max_subcalls
  MaxIterations,  \* RLMRuntime.max_iterations
  MaxTurns,       \* SupervisorConfig.max_turns
  MaxBlocks       \* bound: the REPL blocks of one response

ASSUME LimitsAssumption ==
  /\ MaxDepth \in Nat
  /\ {MaxSubcalls, MaxIterations, MaxTurns, MaxBlocks} \subseteq Nat \ {0}

VARIABLES
  sandboxed,  \* sandbox_enabled
  stack,      \* the runtimes in flight, each inside a block of the one before
  turn,       \* the supervisor's turn
  raised,     \* some sub-call has ended in an exception
  fate        \* "running", or how the run ended

vars == <<sandboxed, stack, turn, raised, fate>>

\* own: RLMRuntime.subcalls; bridge: DockerREPL._subcalls, mark its value when
\* the block began; iter, blocks: model calls made and blocks left to run;
\* inBlock: a block is running; answered: the sub-calls answered below here.
Frames == {f \in [own : Nat, bridge : Nat, mark : Nat, iter : 0..MaxIterations,
                  blocks : 0..MaxBlocks, inBlock : BOOLEAN, answered : Nat] :
             f.mark <= f.bridge}

Child == [own |-> 0, bridge |-> 0, mark |-> 0, iter |-> 0, blocks |-> 0,
          inBlock |-> FALSE, answered |-> 0]

Depth == Len(stack)
Top == stack[Depth]
Caller == stack[Depth - 1]
SetTop(f) == stack' = [stack EXCEPT ![Depth] = f]
\* The runtime on top is gone; its caller goes on as f.
Pop(f) == stack' = [SubSeq(stack, 1, Depth - 1) EXCEPT ![Depth - 1] = f]
\* The runtime on top waits as f for a child.
Push(f) == stack' = Append([stack EXCEPT ![Depth] = f], Child)
-----------------------------------------------------------------------------
Init ==
  /\ sandboxed \in BOOLEAN
  /\ stack = <<Child>> /\ turn = 1
  /\ raised = FALSE /\ fate = "running"

\* Mutant: the child's own sub-calls are not added.
ReturnForgets(f, child, count) ==
  [f EXCEPT !.bridge = IF sandboxed THEN @ + 1 ELSE @,
            !.answered = @ + child.answered + 1]
\* rlm_query's return: the child's count is added to the parent's.  Behind the
\* bridge, _recursive_completion_from_sandbox passes on how far the parent's
\* count has moved, and the bridge adds that to its own.
Return(f, child, count) ==
  [f EXCEPT !.own = @ + count,
            !.bridge = IF sandboxed THEN @ + 1 + count ELSE @,
            !.answered = @ + child.answered + 1]

\* The supervisor's runtime keeps its count from turn to turn; its REPL is new.
NextTurn(f) == [Child EXCEPT !.own = f.own, !.answered = f.answered]

\* The runtime on top ends with a status and a count.
Finish(status, count) ==
  IF Depth > 1
  THEN /\ Pop(Return(Caller, Top, count))
       /\ UNCHANGED <<turn, fate>>
  ELSE IF status = "stopped" /\ turn < MaxTurns
       THEN /\ turn' = turn + 1 /\ SetTop(NextTurn(Top))
            /\ UNCHANGED fate
       ELSE fate' = status /\ UNCHANGED <<turn, stack>>

\* An LMClientError leaves the runtime on top.  Nobody adds up its count: a
\* parent sees an exception in its block, the supervisor one in its turn.
Raise ==
  /\ raised' = TRUE
  /\ IF Depth > 1
     THEN /\ Pop([Caller EXCEPT !.answered = @ + Top.answered])
          /\ UNCHANGED <<turn, fate>>
     ELSE fate' = "raised" /\ UNCHANGED <<turn, stack>>
-----------------------------------------------------------------------------
AtLoopHead == fate = "running" /\ ~Top.inBlock /\ Top.blocks = 0
InBlock == fate = "running" /\ Top.inBlock

\* Mutant: a response with blocks does not use up an iteration.
CallModelFree(n) ==
  /\ AtLoopHead /\ Top.iter < MaxIterations
  /\ SetTop([Top EXCEPT !.blocks = n])
  /\ UNCHANGED <<sandboxed, turn, raised, fate>>
\* A model call whose response carries n blocks ...
CallModel(n) ==
  /\ AtLoopHead /\ Top.iter < MaxIterations
  /\ SetTop([Top EXCEPT !.iter = @ + 1, !.blocks = n])
  /\ UNCHANGED <<sandboxed, turn, raised, fate>>

\* ... or none, and is the answer ...
AnswerInText ==
  /\ AtLoopHead /\ Top.iter < MaxIterations
  /\ Finish("done", Top.own)
  /\ UNCHANGED <<sandboxed, raised>>

\* ... or does not arrive.
ModelFails ==
  /\ AtLoopHead /\ Top.iter < MaxIterations
  /\ Raise
  /\ UNCHANGED sandboxed

\* The iterations are used up.
Exhausted ==
  /\ AtLoopHead /\ Top.iter = MaxIterations
  /\ Finish("stopped", Top.own)
  /\ UNCHANGED <<sandboxed, raised>>

\* SandboxError, from starting the container or from running a block.
SandboxFails ==
  /\ sandboxed /\ (InBlock \/ (AtLoopHead /\ Top.iter = 0))
  /\ Finish("error", Top.own)
  /\ UNCHANGED <<sandboxed, raised>>

StartBlock ==
  /\ fate = "running" /\ ~Top.inBlock /\ Top.blocks > 0
  /\ SetTop([Top EXCEPT !.inBlock = TRUE, !.blocks = @ - 1, !.mark = Top.bridge])
  /\ UNCHANGED <<sandboxed, turn, raised, fate>>

EndBlock ==
  /\ InBlock
  /\ SetTop([Top EXCEPT !.inBlock = FALSE])
  /\ UNCHANGED <<sandboxed, turn, raised, fate>>

\* The block leaves a ready answer.  Behind the bridge, what this block asked
\* for is added to the count once more.
AnswerInBlock ==
  /\ InBlock
  /\ Finish("done", IF sandboxed THEN Top.own + Top.bridge - Top.mark ELSE Top.own)
  /\ UNCHANGED <<sandboxed, raised>>
-----------------------------------------------------------------------------
\* Mutant: the limit is compared after the increment.
OneTooMany(f) == f.own <= MaxSubcalls
\* The check of llm_query and rlm_query.  A refusal is an exception inside the
\* block, and changes nothing here.
WithinLimit(f) == f.own < MaxSubcalls

\* The check of _complete_for_sandbox.
BridgeOpen == sandboxed => Top.bridge < MaxSubcalls

\* llm_query of the runtime: from a block in the process, or from a recursive
\* request that may not go deeper.  The attempt counts; behind the bridge only
\* an answer does.
AskModel(answers) ==
  /\ InBlock /\ WithinLimit(Top) /\ BridgeOpen
  /\ SetTop([Top EXCEPT
       !.own = @ + 1,
       !.bridge = IF sandboxed /\ answers THEN @ + 1 ELSE @,
       !.answered = IF answers THEN @ + 1 ELSE @])
  /\ raised' = (raised \/ ~answers)
  /\ UNCHANGED <<sandboxed, turn, fate>>

\* llm_query behind the bridge goes to the model directly: the runtime does not
\* count it, and an attempt that fails leaves no trace.
AskBridge ==
  /\ InBlock /\ sandboxed /\ BridgeOpen
  /\ SetTop([Top EXCEPT !.bridge = @ + 1, !.answered = @ + 1])
  /\ UNCHANGED <<sandboxed, turn, raised, fate>>

\* Mutant: the depth of the caller is compared, not that of the child.
RecurseTooDeep ==
  /\ InBlock /\ WithinLimit(Top) /\ BridgeOpen /\ Depth <= MaxDepth + 1
  /\ Push([Top EXCEPT !.own = @ + 1])
  /\ UNCHANGED <<sandboxed, turn, raised, fate>>
\* rlm_query, while there is room below.
Recurse ==
  /\ InBlock /\ WithinLimit(Top) /\ BridgeOpen /\ Depth <= MaxDepth
  /\ Push([Top EXCEPT !.own = @ + 1])
  /\ UNCHANGED <<sandboxed, turn, raised, fate>>
-----------------------------------------------------------------------------
Ask == AskModel(TRUE) \/ AskModel(FALSE) \/ AskBridge \/ Recurse

Step ==
  \/ \E n \in 1..MaxBlocks : CallModel(n)
  \/ AnswerInText \/ ModelFails \/ Exhausted \/ SandboxFails
  \/ StartBlock \/ EndBlock \/ AnswerInBlock \/ Ask

Over == fate # "running" /\ UNCHANGED vars

Next == Step \/ Over

Spec == Init /\ [][Next]_vars

\* Each call of the model returns or raises and each block ends: the fairness
\* is that of one sequential process, for blocks that do not loop for ever.
FairSpec == Spec /\ WF_vars(Step)
-----------------------------------------------------------------------------
\* Types, and the recursion limit: the supervisor's runtime is at depth 0.
TypeOK ==
  /\ sandboxed \in BOOLEAN /\ raised \in BOOLEAN
  /\ stack \in Seq(Frames) /\ Depth \in 1..(MaxDepth + 1)
  /\ turn \in 1..MaxTurns
  /\ fate \in {"running", "done", "stopped", "error", "raised"}

\* The limit holds for each runtime, not for the turn: in the process, a
\* runtime with h levels below it can count up to h + 1 times the limit, and
\* never more, whatever its children report.
CountIsBounded ==
  ~sandboxed => \A i \in 1..Depth : stack[i].own <= (MaxDepth + 2 - i) * MaxSubcalls

\* Until something raises, the counts in the process are exact: a runtime has
\* counted the sub-calls answered for it and its descendants, and the one in
\* flight.
CountIsExact ==
  ~sandboxed /\ ~raised =>
    \A i \in 1..Depth : stack[i].own = stack[i].answered + (IF i < Depth THEN 1 ELSE 0)

\* However deep the blocks recurse and however much fails, the run ends.
RunEnds == <>(fate # "running")
=============================================================================
