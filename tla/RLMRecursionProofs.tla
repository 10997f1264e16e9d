-------------------------- MODULE RLMRecursionProofs --------------------------
(***************************************************************************)
(* The counts of the sub-calls of a recursive run, for every limit, depth  *)
(* and number of turns.                                                    *)
(*                                                                         *)
(* Their bound: the inductive step rests on one fact the bound alone does  *)
(* not give: a runtime that waits for a child has itself not passed the    *)
(* limit, since it compared its count with the limit before it started the *)
(* child. That they are exact: in the process, and until something raises, *)
(* a runtime has counted what was answered for it, and the call in flight. *)
(*                                                                         *)
(* The second part is about the sandbox a block of such a run is executed  *)
(* in: the host and the worker agree on which block is running. They only  *)
(* see the ends of two pipes, so the invariant says of the lines in the    *)
(* pipes what the two ends cannot see.                                     *)
(***************************************************************************)
EXTENDS RLMRecursion, SandboxProtocol, SequenceTheorems, TLAPS

\* A runtime that waits for a child is within the limit.
CallersWithinLimit ==
  ~sandboxed => \A i \in 1..Depth : i < Depth => stack[i].own <= MaxSubcalls

IInv == TypeOK /\ CountIsBounded /\ CallersWithinLimit

\* What the stack may look like after a step: the same; another frame on top;
\* one runtime fewer; one more.  The counts move as the four cases say.
Same == stack' = stack
Replaced(f) ==
  /\ f \in Frames /\ SetTop(f)
  /\ f.own = Top.own \/ (f.own = Top.own + 1 /\ Top.own < MaxSubcalls)
Popped(f) ==
  /\ Depth > 1 /\ f \in Frames /\ Pop(f)
  /\ ~sandboxed => f.own <= Caller.own + Top.own
Pushed(f) ==
  /\ Depth <= MaxDepth /\ f \in Frames /\ Push(f)
  /\ f.own = Top.own + 1 /\ Top.own < MaxSubcalls
StackMoves ==
  Same \/ (\E f \in Frames : Replaced(f) \/ Popped(f) \/ Pushed(f))
-----------------------------------------------------------------------------
\* Two facts of arithmetic that the provers want separately.
LEMMA Multiples ==
  ASSUME NEW k \in Nat, NEW m \in Nat
  PROVE  /\ k * m \in Nat
         /\ (k + 1) * m = k * m + m
         /\ k >= 1 => m <= k * m
<1>1. k * m \in Nat /\ (k + 1) * m = k * m + m
  OBVIOUS
<1>2. ASSUME k >= 1 PROVE m <= k * m
  <2>1. (k - 1) * m \in Nat
    BY <1>2
  <2>2. k * m = (k - 1) * m + m
    OBVIOUS
  <2> QED  BY <1>1, <2>1, <2>2
<1> QED  BY <1>1, <1>2

\* The three ways to change a stack, element by element.
LEMMA StackOps ==
  ASSUME NEW s \in Seq(Frames), NEW n \in Nat, n = Len(s), n >= 1, NEW f \in Frames
  PROVE  /\ [s EXCEPT ![n] = f] \in Seq(Frames)
         /\ Len([s EXCEPT ![n] = f]) = n
         /\ \A i \in 1..n : [s EXCEPT ![n] = f][i] = IF i = n THEN f ELSE s[i]
<1> QED  BY ExceptSeq

LEMMA PopOps ==
  ASSUME NEW s \in Seq(Frames), NEW n \in Nat, n = Len(s), n > 1, NEW f \in Frames,
         NEW t, t = [SubSeq(s, 1, n - 1) EXCEPT ![n - 1] = f]
  PROVE  /\ t \in Seq(Frames) /\ Len(t) = n - 1
         /\ \A i \in 1..(n - 1) : t[i] = IF i = n - 1 THEN f ELSE s[i]
<1> DEFINE r == SubSeq(s, 1, n - 1)
<1>1. r \in Seq(Frames) /\ Len(r) = n - 1 /\ \A i \in 1..(n - 1) : r[i] = s[i]
  BY SubSeqProperties
<1> HIDE DEF r
<1>2. t = [r EXCEPT ![n - 1] = f]
  BY DEF r
<1> DEFINE m == n - 1
<1>3. m \in Nat /\ m >= 1 /\ m = Len(r) /\ r \in Seq(Frames)
  BY <1>1
<1>4. t = [r EXCEPT ![m] = f] /\ \A i \in 1..m : r[i] = s[i]
  BY <1>1, <1>2
<1> HIDE DEF m
<1> DEFINE u == [r EXCEPT ![m] = f]
<1>5. /\ u \in Seq(Frames) /\ Len(u) = m
      /\ \A i \in 1..m : u[i] = IF i = m THEN f ELSE r[i]
  BY <1>3, ExceptSeq
<1>6. u = t
  BY <1>4
<1> HIDE DEF u
<1>7. /\ t \in Seq(Frames) /\ Len(t) = m
      /\ \A i \in 1..m : t[i] = IF i = m THEN f ELSE s[i]
  BY <1>4, <1>5, <1>6, Zenon
<1> QED  BY <1>7 DEF m

LEMMA PushOps ==
  ASSUME NEW s \in Seq(Frames), NEW n \in Nat, n = Len(s), n >= 1, NEW f \in Frames,
         NEW g \in Frames, NEW t, t = Append([s EXCEPT ![n] = f], g)
  PROVE  /\ t \in Seq(Frames) /\ Len(t) = n + 1
         /\ \A i \in 1..(n + 1) :
              t[i] = IF i = n + 1 THEN g ELSE IF i = n THEN f ELSE s[i]
<1> DEFINE r == [s EXCEPT ![n] = f]
<1>1. r \in Seq(Frames) /\ Len(r) = n /\ \A i \in 1..n : r[i] = IF i = n THEN f ELSE s[i]
  BY StackOps
<1> HIDE DEF r
<1>2. t = Append(r, g)
  BY DEF r
<1> QED  BY <1>1, <1>2, AppendProperties
-----------------------------------------------------------------------------
\* The frame on top, and the one that waits for it, are frames.
LEMMA TopFrame ==
  ASSUME TypeOK
  PROVE  /\ Depth \in Nat /\ Depth >= 1 /\ Depth <= MaxDepth + 1
         /\ Top \in Frames
         /\ Depth > 1 => Caller \in Frames
<1>1. stack \in Seq(Frames) /\ Depth \in 1..(MaxDepth + 1)
  BY DEF TypeOK
<1>2. \A i \in 1..Depth : stack[i] \in Frames
  BY <1>1, ElementOfSeq DEF Depth
<1> QED  BY <1>1, <1>2, LimitsAssumption DEF Top, Caller

\* The updates of a frame that the actions make keep it a frame.
LEMMA CountUpdate ==
  ASSUME NEW f \in Frames, NEW own \in Nat, NEW bridge \in Nat, NEW answered \in Nat,
         f.mark <= bridge
  PROVE  /\ [f EXCEPT !.own = own, !.bridge = bridge, !.answered = answered] \in Frames
         /\ [f EXCEPT !.bridge = bridge, !.answered = answered] \in Frames
<1>1. [f EXCEPT !.own = own, !.bridge = bridge, !.answered = answered] \in Frames
  BY DEF Frames
<1>2. [f EXCEPT !.bridge = bridge, !.answered = answered] \in Frames
  BY DEF Frames
<1> QED  BY <1>1, <1>2

\* The same, for the start of an iteration.
LEMMA CallUpdate ==
  ASSUME NEW f \in Frames, NEW iter \in 0..MaxIterations, NEW blocks \in 0..MaxBlocks
  PROVE  [f EXCEPT !.iter = iter, !.blocks = blocks] \in Frames
BY DEF Frames

\* The same, for the start of a block.
LEMMA BlockUpdate ==
  ASSUME NEW f \in Frames, NEW blocks \in 0..MaxBlocks, NEW mark \in Nat, mark <= f.bridge
  PROVE  [f EXCEPT !.inBlock = TRUE, !.blocks = blocks, !.mark = mark] \in Frames
<1> DEFINE g == [f EXCEPT !.inBlock = TRUE]
           h == [g EXCEPT !.blocks = blocks]
<1>1. g \in Frames /\ g.bridge = f.bridge
  BY DEF Frames
<1> HIDE DEF g
<1>2. h \in Frames /\ h.bridge = f.bridge
  BY <1>1 DEF Frames
<1> HIDE DEF h
<1>3. [h EXCEPT !.mark = mark] \in Frames
  BY <1>2 DEF Frames
<1> QED  BY <1>3 DEF g, h

\* The supervisor's runtime keeps its count into the next turn.
LEMMA TurnUpdate ==
  ASSUME NEW f \in Frames
  PROVE  NextTurn(f) \in Frames /\ NextTurn(f).own = f.own
<1>1. f.own \in Nat /\ f.answered \in Nat
  BY DEF Frames
<1>2. Child \in Frames
  BY LimitsAssumption DEF Child, Frames
<1>3. \A own \in Nat, answered \in Nat :
        [Child EXCEPT !.own = own, !.answered = answered] \in Frames
  <2> TAKE own \in Nat, answered \in Nat
  <2> QED  BY <1>2 DEF Frames
<1> QED  BY <1>1, <1>2, <1>3 DEF NextTurn, Child

\* What a runtime becomes when its child returns.
LEMMA ReturnUpdate ==
  ASSUME NEW f \in Frames, NEW child \in Frames, NEW count \in Nat
  PROVE  Return(f, child, count) \in Frames /\ Return(f, child, count).own = f.own + count
<1> DEFINE own == f.own + count
           bridge == IF sandboxed THEN f.bridge + 1 + count ELSE f.bridge
           answered == f.answered + child.answered + 1
<1>1. bridge \in Nat /\ f.mark <= bridge /\ answered \in Nat /\ own \in Nat
  BY DEF Frames
<1>2. Return(f, child, count)
        = [f EXCEPT !.own = own, !.bridge = bridge, !.answered = answered]
  BY DEF Return
<1> HIDE DEF own, bridge, answered
<1>3. [f EXCEPT !.own = own, !.bridge = bridge, !.answered = answered] \in Frames
  BY <1>1, CountUpdate
<1>4. Return(f, child, count).own = own
  BY <1>2 DEF Frames
<1>5. own = f.own + count
  BY DEF own
<1> QED  BY <1>2, <1>3, <1>4, <1>5

\* Whatever its status, a runtime that ends with a count that in the process is
\* its own moves the stack in one of the four ways.
LEMMA FinishMoves ==
  ASSUME TypeOK, fate = "running", NEW status \in {"done", "stopped", "error"},
         NEW count \in Nat, ~sandboxed => count = Top.own, Finish(status, count)
  PROVE  /\ StackMoves
         /\ turn' \in 1..MaxTurns
         /\ fate' \in {"running", "done", "stopped", "error", "raised"}
<1>1. Depth \in Nat /\ Top \in Frames /\ (Depth > 1 => Caller \in Frames)
        /\ turn \in 1..MaxTurns
  BY TopFrame DEF TypeOK
<1>2. CASE Depth > 1
  <2> DEFINE g == Return(Caller, Top, count)
  <2>0. Caller.own + count <= Caller.own + Top.own \/ sandboxed
    BY <1>1, <1>2 DEF Frames
  <2>1. Pop(g) /\ UNCHANGED <<turn, fate>>
    BY <1>2 DEF Finish
  <2>2. g \in Frames /\ g.own = Caller.own + count
    BY <1>1, <1>2, ReturnUpdate
  <2>3. Popped(g)
    BY <1>2, <2>1, <2>2, <2>0 DEF Popped
  <2> QED  BY <1>1, <2>1, <2>2, <2>3 DEF StackMoves
<1>3. CASE ~(Depth > 1)
  <2>1. CASE status = "stopped" /\ turn < MaxTurns
    <3>1. turn' = turn + 1 /\ SetTop(NextTurn(Top)) /\ fate' = fate
      BY <1>3, <2>1 DEF Finish
    <3>2. NextTurn(Top) \in Frames /\ NextTurn(Top).own = Top.own
      BY <1>1, TurnUpdate
    <3>3. Replaced(NextTurn(Top))
      BY <3>1, <3>2 DEF Replaced
    <3> QED  BY <1>1, <2>1, <3>1, <3>2, <3>3, LimitsAssumption DEF StackMoves
  <2>2. CASE ~(status = "stopped" /\ turn < MaxTurns)
    <3>1. fate' = status /\ turn' = turn /\ stack' = stack
      BY <1>3, <2>2 DEF Finish
    <3> QED  BY <1>1, <3>1 DEF StackMoves, Same
  <2> QED  BY <2>1, <2>2
<1> QED  BY <1>2, <1>3

\* Every step moves the stack in one of the four ways and keeps the types of
\* the other variables.
LEMMA StepMoves ==
  ASSUME TypeOK, [Next]_vars
  PROVE  /\ StackMoves
         /\ sandboxed' = sandboxed /\ raised' \in BOOLEAN
         /\ turn' \in 1..MaxTurns
         /\ fate' \in {"running", "done", "stopped", "error", "raised"}
<1>1. Depth \in Nat /\ Top \in Frames /\ (Depth > 1 => Caller \in Frames)
        /\ turn \in 1..MaxTurns
        /\ fate \in {"running", "done", "stopped", "error", "raised"}
        /\ sandboxed \in BOOLEAN /\ raised \in BOOLEAN
  BY TopFrame DEF TypeOK
<1>2. CASE \E n \in 1..MaxBlocks : CallModel(n)
  <2>1. PICK n \in 1..MaxBlocks : CallModel(n)
    BY <1>2
  <2> DEFINE g == [Top EXCEPT !.iter = @ + 1, !.blocks = n]
  <2>2. g \in Frames /\ g.own = Top.own
    <3>1. n \in 0..MaxBlocks /\ Top.iter + 1 \in 0..MaxIterations
      BY <1>1, <2>1, LimitsAssumption DEF CallModel, Frames
    <3>2. g.own = Top.own
      BY <1>1 DEF Frames
    <3> QED  BY <1>1, <3>1, <3>2, CallUpdate
  <2>3. Replaced(g)
    BY <2>1, <2>2 DEF CallModel, Replaced
  <2> QED  BY <1>1, <2>1, <2>2, <2>3 DEF CallModel, StackMoves
<1>3. CASE AnswerInText \/ Exhausted \/ SandboxFails
  <2>1. fate = "running" /\ UNCHANGED <<sandboxed, raised>>
    BY <1>3 DEF AnswerInText, Exhausted, SandboxFails, AtLoopHead, InBlock
  <2>2. PICK status \in {"done", "stopped", "error"} : Finish(status, Top.own)
    BY <1>3 DEF AnswerInText, Exhausted, SandboxFails
  <2>3. Top.own \in Nat
    BY <1>1 DEF Frames
  <2> QED  BY <1>1, <2>1, <2>2, <2>3, FinishMoves
<1>4. CASE AnswerInBlock
  <2> DEFINE count == IF sandboxed THEN Top.own + Top.bridge - Top.mark ELSE Top.own
  <2>1. fate = "running" /\ UNCHANGED <<sandboxed, raised>> /\ Finish("done", count)
    BY <1>4 DEF AnswerInBlock, InBlock
  <2>2. count \in Nat
    BY <1>1 DEF Frames
  <2> QED  BY <1>1, <2>1, <2>2, FinishMoves
<1>5. CASE ModelFails
  <2>1. Raise /\ UNCHANGED sandboxed
    BY <1>5 DEF ModelFails
  <2>2. CASE Depth > 1
    <3> DEFINE g == [Caller EXCEPT !.answered = @ + Top.answered]
    <3>1. Pop(g) /\ UNCHANGED <<turn, fate>> /\ raised' = TRUE
      BY <2>1, <2>2 DEF Raise
    <3>2. g \in Frames /\ g.own = Caller.own /\ Caller.own \in Nat /\ Top.own \in Nat
      BY <1>1, <2>2 DEF Frames
    <3>3. Popped(g)
      BY <2>2, <3>1, <3>2 DEF Popped
    <3> QED  BY <1>1, <2>1, <3>1, <3>2, <3>3 DEF StackMoves
  <2>3. CASE ~(Depth > 1)
    BY <1>1, <2>1, <2>3 DEF Raise, StackMoves, Same
  <2> QED  BY <2>2, <2>3
<1>6. CASE StartBlock
  <2> DEFINE g == [Top EXCEPT !.inBlock = TRUE, !.blocks = @ - 1, !.mark = Top.bridge]
  <2>1. g \in Frames /\ g.own = Top.own
    <3>1. Top.blocks - 1 \in 0..MaxBlocks /\ Top.bridge \in Nat /\ Top.bridge <= Top.bridge
      BY <1>1, <1>6, LimitsAssumption DEF StartBlock, Frames
    <3>2. g.own = Top.own
      BY <1>1 DEF Frames
    <3> QED  BY <1>1, <3>1, <3>2, BlockUpdate
  <2>2. Replaced(g)
    BY <1>6, <2>1 DEF StartBlock, Replaced
  <2> QED  BY <1>1, <1>6, <2>1, <2>2 DEF StartBlock, StackMoves
<1>7. CASE EndBlock
  <2> DEFINE g == [Top EXCEPT !.inBlock = FALSE]
  <2>1. g \in Frames /\ g.own = Top.own
    BY <1>1 DEF Frames
  <2>2. Replaced(g)
    BY <1>7, <2>1 DEF EndBlock, Replaced
  <2> QED  BY <1>1, <1>7, <2>1, <2>2 DEF EndBlock, StackMoves
<1>8. ASSUME NEW answers \in BOOLEAN, AskModel(answers)
      PROVE  StackMoves /\ UNCHANGED <<sandboxed, turn, fate>> /\ raised' \in BOOLEAN
  <2> DEFINE b == IF sandboxed /\ answers THEN Top.bridge + 1 ELSE Top.bridge
             a == IF answers THEN Top.answered + 1 ELSE Top.answered
             g == [Top EXCEPT !.own = @ + 1, !.bridge = b, !.answered = a]
  <2>1. g \in Frames /\ g.own = Top.own + 1 /\ Top.own < MaxSubcalls
    <3>1. Top.mark <= b /\ b \in Nat /\ a \in Nat /\ Top.own + 1 \in Nat
      BY <1>1 DEF Frames
    <3> HIDE DEF a, b
    <3>2. g \in Frames
      BY <1>1, <3>1, CountUpdate
    <3>3. g.own = Top.own + 1
      BY <1>1 DEF Frames
    <3>4. Top.own < MaxSubcalls
      BY <1>8 DEF AskModel, WithinLimit
    <3> QED  BY <3>2, <3>3, <3>4
  <2>2. Replaced(g)
    BY <1>8, <2>1 DEF AskModel, Replaced
  <2> QED  BY <1>1, <1>8, <2>1, <2>2 DEF AskModel, StackMoves
<1>9. CASE AskBridge
  <2> DEFINE g == [Top EXCEPT !.bridge = @ + 1, !.answered = @ + 1]
  <2>1. g \in Frames /\ g.own = Top.own
    <3>1. /\ Top.mark <= Top.bridge + 1 /\ Top.bridge + 1 \in Nat
          /\ Top.answered + 1 \in Nat /\ Top.own \in Nat
      BY <1>1 DEF Frames
    <3>2. g.own = Top.own
      BY <1>1 DEF Frames
    <3> QED  BY <1>1, <3>1, <3>2, CountUpdate
  <2>2. Replaced(g)
    BY <1>9, <2>1 DEF AskBridge, Replaced
  <2> QED  BY <1>1, <1>9, <2>1, <2>2 DEF AskBridge, StackMoves
<1>10. CASE Recurse
  <2> DEFINE g == [Top EXCEPT !.own = @ + 1]
  <2>1. g \in Frames /\ g.own = Top.own + 1 /\ Top.own < MaxSubcalls
    BY <1>1, <1>10 DEF Recurse, Frames, WithinLimit
  <2>2. Pushed(g)
    BY <1>10, <2>1 DEF Recurse, Pushed
  <2> QED  BY <1>1, <1>10, <2>1, <2>2 DEF Recurse, StackMoves
<1>11. CASE UNCHANGED vars
  BY <1>1, <1>11 DEF vars, StackMoves, Same
<1> QED
  BY <1>1, <1>2, <1>3, <1>4, <1>5, <1>6, <1>7, <1>8, <1>9, <1>10, <1>11
     DEF Next, Step, Ask, Over
-----------------------------------------------------------------------------
\* The first runtime starts with nothing counted.
LEMMA InitInv == Init => IInv
<1> SUFFICES ASSUME Init PROVE IInv
  OBVIOUS
<1>1. Child \in Frames
  BY LimitsAssumption DEF Child, Frames
<1>2. stack \in Seq(Frames) /\ Depth = 1 /\ stack[1] = Child
  BY <1>1 DEF Init, Depth
<1>3. TypeOK
  <2>1. 1 \in 1..(MaxDepth + 1) /\ 1 \in 1..MaxTurns
    BY LimitsAssumption
  <2> QED  BY <1>2, <2>1 DEF Init, TypeOK
<1>4. (MaxDepth + 1) * MaxSubcalls \in Nat
  BY Multiples, LimitsAssumption
<1>5. CountIsBounded
  BY <1>2, <1>4, LimitsAssumption DEF CountIsBounded, Child
<1>6. CallersWithinLimit
  BY <1>2 DEF CallersWithinLimit
<1> QED  BY <1>3, <1>5, <1>6 DEF IInv

\* What a runtime at height h may count, and how the heights compare.
LEMMA Allowance ==
  ASSUME NEW i \in 1..(MaxDepth + 1)
  PROVE  /\ (MaxDepth + 2 - i) * MaxSubcalls \in Nat
         /\ MaxSubcalls <= (MaxDepth + 2 - i) * MaxSubcalls
         /\ (MaxDepth + 2 - (i - 1)) * MaxSubcalls
              = (MaxDepth + 2 - i) * MaxSubcalls + MaxSubcalls
<1> DEFINE k == MaxDepth + 2 - i
<1>1. k \in Nat /\ k >= 1 /\ MaxSubcalls \in Nat /\ MaxDepth + 2 - (i - 1) = k + 1
  BY LimitsAssumption
<1> HIDE DEF k
<1>2. k * MaxSubcalls \in Nat /\ MaxSubcalls <= k * MaxSubcalls
        /\ (k + 1) * MaxSubcalls = k * MaxSubcalls + MaxSubcalls
  BY <1>1, Multiples
<1> QED  BY <1>1, <1>2 DEF k

\* The invariant is inductive: one case per way the stack can move.
LEMMA NextInv == IInv /\ [Next]_vars => IInv'
<1> SUFFICES ASSUME IInv, [Next]_vars PROVE IInv'
  OBVIOUS
<1>1. /\ StackMoves
      /\ sandboxed' = sandboxed /\ raised' \in BOOLEAN
      /\ turn' \in 1..MaxTurns
      /\ fate' \in {"running", "done", "stopped", "error", "raised"}
  BY StepMoves DEF IInv
<1>2. /\ Depth \in Nat /\ Depth >= 1 /\ Depth <= MaxDepth + 1
      /\ Top \in Frames /\ (Depth > 1 => Caller \in Frames)
      /\ stack \in Seq(Frames) /\ Depth = Len(stack) /\ sandboxed \in BOOLEAN
  BY TopFrame DEF IInv, TypeOK, Depth
<1>3. \A i \in 1..Depth : stack[i] \in Frames /\ stack[i].own \in Nat
  BY <1>2, ElementOfSeq DEF Frames
<1>4. MaxSubcalls \in Nat /\ MaxDepth \in Nat
  BY LimitsAssumption
<1> SUFFICES /\ stack' \in Seq(Frames) /\ Depth' \in 1..(MaxDepth + 1)
             /\ ~sandboxed => \A i \in 1..Depth' :
                  /\ stack'[i].own <= (MaxDepth + 2 - i) * MaxSubcalls
                  /\ i < Depth' => stack'[i].own <= MaxSubcalls
  BY <1>1, <1>2 DEF IInv, TypeOK, CountIsBounded, CallersWithinLimit
<1>5. ~sandboxed => \A i \in 1..Depth :
        /\ stack[i].own <= (MaxDepth + 2 - i) * MaxSubcalls
        /\ i < Depth => stack[i].own <= MaxSubcalls
  BY DEF IInv, CountIsBounded, CallersWithinLimit
<1>6. CASE Same
  BY <1>2, <1>5, <1>6 DEF Same, Depth
<1>7. ASSUME NEW f \in Frames, Replaced(f)
      PROVE  /\ stack' \in Seq(Frames) /\ Depth' \in 1..(MaxDepth + 1)
             /\ ~sandboxed => \A i \in 1..Depth' :
                  /\ stack'[i].own <= (MaxDepth + 2 - i) * MaxSubcalls
                  /\ i < Depth' => stack'[i].own <= MaxSubcalls
  <2>1. stack' \in Seq(Frames) /\ Depth' = Depth
          /\ \A i \in 1..Depth : stack'[i] = IF i = Depth THEN f ELSE stack[i]
    BY <1>2, <1>7, StackOps DEF Replaced, SetTop, Depth
  <2>2. f.own = Top.own \/ f.own <= MaxSubcalls
    BY <1>2, <1>4, <1>7 DEF Replaced, Frames
  <2>3. ~sandboxed => f.own <= (MaxDepth + 2 - Depth) * MaxSubcalls
    <3>1. f.own \in Nat /\ Depth \in 1..(MaxDepth + 1)
      BY <1>2, <1>4 DEF Frames
    <3>2. ~sandboxed => Top.own <= (MaxDepth + 2 - Depth) * MaxSubcalls
      BY <1>2, <1>5 DEF Top
    <3> QED  BY <1>4, <2>2, <3>1, <3>2, Allowance
  <2> QED  BY <1>2, <1>5, <2>1, <2>3
<1>8. ASSUME NEW f \in Frames, Popped(f)
      PROVE  /\ stack' \in Seq(Frames) /\ Depth' \in 1..(MaxDepth + 1)
             /\ ~sandboxed => \A i \in 1..Depth' :
                  /\ stack'[i].own <= (MaxDepth + 2 - i) * MaxSubcalls
                  /\ i < Depth' => stack'[i].own <= MaxSubcalls
  <2>1. Depth > 1 /\ stack' = [SubSeq(stack, 1, Depth - 1) EXCEPT ![Depth - 1] = f]
    BY <1>8 DEF Popped, Pop
  <2>2. stack' \in Seq(Frames) /\ Len(stack') = Depth - 1
          /\ \A i \in 1..(Depth - 1) : stack'[i] = IF i = Depth - 1 THEN f ELSE stack[i]
    BY <1>2, <2>1, PopOps
  <2>3. Depth' = Depth - 1
    BY <2>2 DEF Depth
  <2>4. ~sandboxed => f.own <= (MaxDepth + 2 - (Depth - 1)) * MaxSubcalls
    <3>1. /\ f.own \in Nat /\ Top.own \in Nat /\ Caller.own \in Nat
          /\ Depth \in 1..(MaxDepth + 1)
      BY <1>2, <1>4, <2>1 DEF Frames
    <3>2. ~sandboxed => /\ Top.own <= (MaxDepth + 2 - Depth) * MaxSubcalls
                        /\ Caller.own <= MaxSubcalls
      BY <1>2, <1>5, <2>1 DEF Top, Caller
    <3>3. ~sandboxed => f.own <= Caller.own + Top.own
      BY <1>8 DEF Popped
    <3> DEFINE below == (MaxDepth + 2 - Depth) * MaxSubcalls
    <3>4. below \in Nat /\ (MaxDepth + 2 - (Depth - 1)) * MaxSubcalls = below + MaxSubcalls
      BY <3>1, Allowance
    <3>5. ~sandboxed => Top.own <= below
      BY <3>2
    <3> HIDE DEF below
    <3>6. ~sandboxed => f.own <= below + MaxSubcalls
      BY <1>4, <3>1, <3>2, <3>3, <3>4, <3>5
    <3> QED  BY <3>4, <3>6
  <2>5. Depth - 1 \in 1..(MaxDepth + 1)
    BY <1>2, <1>4, <2>1
  <2>6. ASSUME ~sandboxed, NEW i \in 1..(Depth - 1)
        PROVE  /\ stack'[i].own <= (MaxDepth + 2 - i) * MaxSubcalls
               /\ i < Depth - 1 => stack'[i].own <= MaxSubcalls
    <3>1. CASE i = Depth - 1
      BY <2>2, <2>4, <2>6, <3>1
    <3>2. CASE i # Depth - 1
      <4>1. i \in 1..Depth /\ i < Depth /\ stack'[i] = stack[i]
        BY <1>2, <2>2, <3>2
      <4> QED  BY <1>5, <2>6, <4>1
    <3> QED  BY <3>1, <3>2
  <2> QED  BY <2>2, <2>3, <2>5, <2>6
<1>9. ASSUME NEW f \in Frames, Pushed(f)
      PROVE  /\ stack' \in Seq(Frames) /\ Depth' \in 1..(MaxDepth + 1)
             /\ ~sandboxed => \A i \in 1..Depth' :
                  /\ stack'[i].own <= (MaxDepth + 2 - i) * MaxSubcalls
                  /\ i < Depth' => stack'[i].own <= MaxSubcalls
  <2>1. Depth <= MaxDepth /\ stack' = Append([stack EXCEPT ![Depth] = f], Child)
    BY <1>9 DEF Pushed, Push
  <2>2. Child \in Frames /\ Child.own = 0
    BY LimitsAssumption DEF Child, Frames
  <2>3. stack' \in Seq(Frames) /\ Len(stack') = Depth + 1
          /\ \A i \in 1..(Depth + 1) :
               stack'[i] = IF i = Depth + 1 THEN Child ELSE IF i = Depth THEN f ELSE stack[i]
    BY <1>2, <2>1, <2>2, PushOps
  <2>4. Depth' = Depth + 1
    BY <2>3 DEF Depth
  <2>5. f.own <= MaxSubcalls
    BY <1>2, <1>4, <1>9 DEF Pushed, Frames
  <2>6. Depth \in 1..(MaxDepth + 1) /\ Depth + 1 \in 1..(MaxDepth + 1) /\ f.own \in Nat
    BY <1>2, <1>4, <2>1 DEF Frames
  <2>7. f.own <= (MaxDepth + 2 - Depth) * MaxSubcalls
    BY <1>4, <2>5, <2>6, Allowance
  <2>8. 0 <= (MaxDepth + 2 - (Depth + 1)) * MaxSubcalls
    BY <2>6, Allowance
  <2> QED  BY <1>2, <1>5, <2>2, <2>3, <2>4, <2>5, <2>6, <2>7, <2>8
<1> QED  BY <1>1, <1>6, <1>7, <1>8, <1>9 DEF StackMoves

\* Every reachable state satisfies the invariant.
LEMMA Invariance == Spec => []IInv
BY InitInv, NextInv, PTL DEF Spec
-----------------------------------------------------------------------------
\* While nothing has raised, a step in the process keeps what a frame has
\* counted and what was answered below it in step: it changes both alike; it
\* adds what a child counted, and its answer; or it counts a child it starts.
BothAlike(f) ==
  SetTop(f) /\ f.own + Top.answered = Top.own + f.answered
ChildAdded(f) ==
  /\ Depth > 1 /\ Pop(f)
  /\ f.own = Caller.own + Top.own
  /\ f.answered = Caller.answered + Top.answered + 1
ChildCounted(f) ==
  Push(f) /\ f.own = Top.own + 1 /\ f.answered = Top.answered

\* The ends of a runtime, but for an exception, are such steps.
LEMMA FinishKeepsPace ==
  ASSUME TypeOK, ~sandboxed, NEW status, Finish(status, Top.own)
  PROVE  Same \/ \E f \in Frames : BothAlike(f) \/ ChildAdded(f)
<1>1. Depth \in Nat /\ Top \in Frames /\ (Depth > 1 => Caller \in Frames)
  BY TopFrame
<1>2. Top.own \in Nat /\ Top.answered \in Nat
  BY <1>1 DEF Frames
<1>3. CASE Depth > 1
  <2> DEFINE f == Return(Caller, Top, Top.own)
  <2>1. f \in Frames
    BY <1>1, <1>2, <1>3, ReturnUpdate
  <2>2. f.own = Caller.own + Top.own /\ f.answered = Caller.answered + Top.answered + 1
    BY <1>1, <1>3 DEF Return, Frames
  <2>3. ChildAdded(f)
    BY <1>3, <2>2 DEF Finish, ChildAdded
  <2> QED  BY <2>1, <2>3
<1>4. CASE ~(Depth > 1)
  <2>1. Same \/ SetTop(NextTurn(Top))
    BY <1>4 DEF Finish, Same
  <2>2. /\ NextTurn(Top) \in Frames /\ NextTurn(Top).own = Top.own
        /\ NextTurn(Top).answered = Top.answered
    BY <1>1, TurnUpdate DEF NextTurn, Child
  <2>3. SetTop(NextTurn(Top)) => BothAlike(NextTurn(Top))
    BY <2>2 DEF BothAlike
  <2> QED  BY <2>1, <2>2, <2>3
<1> QED  BY <1>3, <1>4

LEMMA KeepsPace ==
  ASSUME TypeOK, [Next]_vars, ~sandboxed, ~raised'
  PROVE  /\ ~raised
         /\ Same \/ \E f \in Frames : BothAlike(f) \/ ChildAdded(f) \/ ChildCounted(f)
<1>1. /\ Depth \in Nat /\ Top \in Frames /\ raised \in BOOLEAN
      /\ Top.own \in Nat /\ Top.answered \in Nat
  BY TopFrame DEF TypeOK, Frames
<1>2. ASSUME NEW n \in 1..MaxBlocks, CallModel(n)
      PROVE  ~raised /\ \E f \in Frames : BothAlike(f)
  <2> DEFINE f == [Top EXCEPT !.iter = @ + 1, !.blocks = n]
  <2>1. n \in 0..MaxBlocks /\ Top.iter + 1 \in 0..MaxIterations
    BY <1>1, <1>2, LimitsAssumption DEF CallModel, Frames
  <2>2. f \in Frames
    BY <1>1, <2>1, CallUpdate
  <2>3. f.own = Top.own /\ f.answered = Top.answered
    BY <1>1 DEF Frames
  <2> QED  BY <1>2, <2>2, <2>3 DEF CallModel, BothAlike
<1>3. CASE AnswerInText \/ Exhausted \/ AnswerInBlock
  <2>1. UNCHANGED raised /\ \E status : Finish(status, Top.own)
    BY <1>3 DEF AnswerInText, Exhausted, AnswerInBlock
  <2> QED  BY <2>1, FinishKeepsPace
<1>4. CASE StartBlock
  <2> DEFINE f == [Top EXCEPT !.inBlock = TRUE, !.blocks = @ - 1, !.mark = Top.bridge]
  <2>1. Top.blocks - 1 \in 0..MaxBlocks /\ Top.bridge \in Nat /\ Top.bridge <= Top.bridge
    BY <1>1, <1>4, LimitsAssumption DEF StartBlock, Frames
  <2>2. f \in Frames
    BY <1>1, <2>1, BlockUpdate
  <2>3. f.own = Top.own /\ f.answered = Top.answered
    BY <1>1 DEF Frames
  <2> QED  BY <1>4, <2>2, <2>3 DEF StartBlock, BothAlike
<1>5. CASE EndBlock
  <2> DEFINE f == [Top EXCEPT !.inBlock = FALSE]
  <2>1. f \in Frames /\ f.own = Top.own /\ f.answered = Top.answered
    BY <1>1 DEF Frames
  <2> QED  BY <1>5, <2>1 DEF EndBlock, BothAlike
<1>6. CASE AskModel(TRUE)
  <2> DEFINE f == [Top EXCEPT !.own = Top.own + 1, !.bridge = Top.bridge,
                              !.answered = Top.answered + 1]
  <2>1. SetTop(f) /\ ~raised
    BY <1>1, <1>6 DEF AskModel, SetTop
  <2>2. f \in Frames
    <3>1. /\ Top.mark <= Top.bridge /\ Top.bridge \in Nat
          /\ Top.own + 1 \in Nat /\ Top.answered + 1 \in Nat
      BY <1>1 DEF Frames
    <3> QED  BY <1>1, <3>1, CountUpdate
  <2>3. f.own = Top.own + 1 /\ f.answered = Top.answered + 1
    BY <1>1 DEF Frames
  <2> HIDE DEF f
  <2>4. BothAlike(f)
    BY <1>1, <2>1, <2>3 DEF BothAlike
  <2> QED  BY <2>1, <2>2, <2>4
<1>7. CASE Recurse
  <2> DEFINE f == [Top EXCEPT !.own = @ + 1]
  <2>1. f \in Frames /\ f.own = Top.own + 1 /\ f.answered = Top.answered
    BY <1>1 DEF Frames
  <2> QED  BY <1>7, <2>1 DEF Recurse, ChildCounted
<1>8. CASE UNCHANGED vars
  BY <1>8 DEF vars, Same
<1>9. ~ModelFails /\ ~AskModel(FALSE)
  BY DEF ModelFails, Raise, AskModel
<1> QED
  BY <1>2, <1>3, <1>4, <1>5, <1>6, <1>7, <1>8, <1>9
     DEF Next, Step, Ask, Over, SandboxFails, AskBridge

\* So exact counts stay exact.
LEMMA NextExact ==
  ASSUME TypeOK, CountIsExact, [Next]_vars
  PROVE  CountIsExact'
<1> SUFFICES ASSUME ~sandboxed', ~raised'
             PROVE  \A i \in 1..Depth' :
                      stack'[i].own = stack'[i].answered + (IF i < Depth' THEN 1 ELSE 0)
  BY DEF CountIsExact
<1>1. ~sandboxed
  BY StepMoves
<1>2. ~raised
  BY <1>1, KeepsPace
<1>3. /\ Depth \in Nat /\ Depth >= 1 /\ stack \in Seq(Frames)
      /\ Top.own \in Nat /\ Top.answered \in Nat
      /\ Depth > 1 => Caller.own \in Nat /\ Caller.answered \in Nat
  BY TopFrame DEF TypeOK, Frames
<1>4. \A i \in 1..Depth :
        stack[i].own = stack[i].answered + (IF i < Depth THEN 1 ELSE 0)
  BY <1>1, <1>2 DEF CountIsExact
<1>5. Top.own = Top.answered /\ (Depth > 1 => Caller.own = Caller.answered + 1)
  BY <1>3, <1>4 DEF Top, Caller
<1>6. CASE Same
  BY <1>4, <1>6 DEF Same, Depth
<1>7. ASSUME NEW f \in Frames, BothAlike(f)
      PROVE  \A i \in 1..Depth' :
               stack'[i].own = stack'[i].answered + (IF i < Depth' THEN 1 ELSE 0)
  <2>1. Depth' = Depth /\ \A i \in 1..Depth : stack'[i] = IF i = Depth THEN f ELSE stack[i]
    BY <1>3, <1>7, StackOps DEF BothAlike, SetTop, Depth
  <2>2. f.own = f.answered
    BY <1>3, <1>5, <1>7 DEF BothAlike, Frames
  <2>3. f.own = f.answered + 0
    BY <2>2 DEF Frames
  <2> QED  BY <1>3, <1>4, <2>1, <2>3
<1>8. ASSUME NEW f \in Frames, ChildAdded(f)
      PROVE  \A i \in 1..Depth' :
               stack'[i].own = stack'[i].answered + (IF i < Depth' THEN 1 ELSE 0)
  <2>1. Depth > 1 /\ stack' = [SubSeq(stack, 1, Depth - 1) EXCEPT ![Depth - 1] = f]
    BY <1>8 DEF ChildAdded, Pop
  <2>2. Depth' = Depth - 1
          /\ \A i \in 1..(Depth - 1) : stack'[i] = IF i = Depth - 1 THEN f ELSE stack[i]
    BY <1>3, <2>1, PopOps, SMTT(30) DEF Depth
  <2>3. f.own = f.answered + 0
    BY <1>3, <1>5, <1>8 DEF ChildAdded
  <2> QED  BY <1>3, <1>4, <2>1, <2>2, <2>3
<1>9. ASSUME NEW f \in Frames, ChildCounted(f)
      PROVE  \A i \in 1..Depth' :
               stack'[i].own = stack'[i].answered + (IF i < Depth' THEN 1 ELSE 0)
  <2>1. Child \in Frames /\ Child.own = 0 /\ Child.answered = 0
    BY LimitsAssumption DEF Child, Frames
  <2>2. Depth' = Depth + 1
          /\ \A i \in 1..(Depth + 1) :
               stack'[i] = IF i = Depth + 1 THEN Child ELSE IF i = Depth THEN f ELSE stack[i]
    BY <1>3, <1>9, <2>1, PushOps DEF ChildCounted, Push, Depth
  <2>3. f.own = f.answered + 1
    BY <1>3, <1>5, <1>9 DEF ChildCounted
  <2> QED  BY <1>3, <1>4, <2>1, <2>2, <2>3
<1> QED  BY <1>1, <1>6, <1>7, <1>8, <1>9, KeepsPace
-----------------------------------------------------------------------------
\* For all limits, the stack is one of well-formed frames and never deeper than
\* the limit on the depth.
THEOREM TypeCorrect == Spec => []TypeOK
<1>1. IInv => TypeOK
  BY DEF IInv
<1> QED  BY <1>1, Invariance, PTL

\* For all limits, what a runtime in the process counts is bounded by its height
\* above the deepest level, however its children end.
THEOREM SubcallsAreBounded == Spec => []CountIsBounded
<1>1. IInv => CountIsBounded
  BY DEF IInv
<1> QED  BY <1>1, Invariance, PTL

\* For all limits, until something raises, a runtime in the process has counted
\* exactly the sub-calls answered for it and below it, and the one in flight.
THEOREM CountsAreExact == Spec => []CountIsExact
<1>1. Init => CountIsExact
  BY DEF Init, CountIsExact, Depth, Child
<1>2. TypeOK /\ CountIsExact /\ [Next]_vars => CountIsExact'
  BY NextExact
<1> QED  BY <1>1, <1>2, TypeCorrect, PTL DEF Spec
-----------------------------------------------------------------------------
\* The sandbox in which the blocks of a runtime run, with state of its own: host
\* and worker agree on the block that runs, for any numbers of blocks and
\* requests, wherever the worker dies and whenever the timer rings.
\*
\* SameBlock speaks of where host and worker stand; what keeps them in step is
\* on the way between them.  A block is in one place at a time: it is a line the
\* worker has not read, or it runs, or its result is on the way, or it is lost.
\* Behind its result there is nothing but lines of no block: complaints about
\* lines the worker could not use, and what others have printed.

\* A line that belongs to no block.
Complaint(m) == m \in Strays \/ (m.kind = "result" /\ m.id = 0)
ResultOfBlock(m) == m.kind = "result" /\ m.id # 0

NoExecute(q) == \A i \in 1 .. Len(q) : q[i].kind # "execute"
OnlyComplaints(q) == \A i \in 1 .. Len(q) : Complaint(q[i])
NoResult(q) == \A i \in 1 .. Len(q) : ~ResultOfBlock(q[i])

\* What the host has sent: its last block, at most once, before which the
\* worker has nothing of that block to say.
LinesToWorker ==
  \A i \in 1 .. Len(toWorker) :
    toWorker[i].kind = "execute" =>
      /\ toWorker[i].id = current
      /\ \A j \in 1 .. Len(toWorker) : toWorker[j].kind = "execute" => j = i
      /\ ~InCell /\ OnlyComplaints(toHost)

\* What the worker has said is of the last block, and its result comes last.
LinesToHost ==
  \A i \in 1 .. Len(toHost) :
    /\ toHost[i].kind = "request" => toHost[i].cell = current
    /\ ResultOfBlock(toHost[i]) =>
         /\ toHost[i].id = current
         /\ \A j \in 1 .. Len(toHost) : i < j => Complaint(toHost[j])

\* A block that runs is the last one, and has no result yet.
BlockRuns == InCell => cell = current /\ cell # 0 /\ NoResult(toHost)

\* The blocks of the gate ask nothing and print nothing, so that a single line
\* comes back for each, and with it the block is done, be the line its result or
\* a complaint.  The gate goes on after a failure, but then the worker is done,
\* or it is dead.
GateIsSimple ==
  gate =>
    /\ positive /\ ~dirty /\ host # "serving"
    /\ \A i \in 1 .. Len(toWorker) : toWorker[i].kind = "execute"
    /\ toHost # <<>> => /\ Len(toHost) = 1 /\ toHost[1].kind # "request"
                        /\ NoExecute(toWorker) /\ ~InCell
    /\ host \in {"idle", "failed", "broken"} /\ worker # "dead" =>
         toHost = <<>> /\ NoExecute(toWorker) /\ ~InCell

\* Where the host is idle, nothing of a block is left.
HostIsDone ==
  /\ host = "idle" => NoExecute(toWorker) /\ ~InCell /\ OnlyComplaints(toHost)
  /\ Busy => current # 0
  /\ host = "serving" => serving \in [cell : {current}, ask : Asks]

SandboxInv ==
  /\ ProtocolTypeOK
  /\ LinesToWorker /\ LinesToHost /\ BlockRuns /\ HostIsDone /\ GateIsSimple
-----------------------------------------------------------------------------
\* The messages, told apart by their kind.
LEMMA Messages ==
  /\ \A m \in ToWorkerMsgs :
       \/ m.kind = "execute" /\ m.id \in Cells
       \/ m.kind = "response" /\ m.id \in Asks
  /\ \A m \in ToHostMsgs :
       \/ m.kind = "request" /\ m.cell \in Cells /\ m.id \in Asks
       \/ m.kind = "result" /\ m.id \in {0} \union Cells
       \/ m \in Strays
  /\ \A m \in Strays : /\ m \in ToHostMsgs /\ Complaint(m)
                        /\ m.kind \notin {"request", "result"}
  /\ \A c \in Cells : /\ Execute(c) \in ToWorkerMsgs
                              /\ Result(c) \in ToHostMsgs
  /\ \A a \in Asks : Response(a) \in ToWorkerMsgs
  /\ \A c \in Cells, a \in Asks : Request(c, a) \in ToHostMsgs
  /\ ProtocolError \in ToHostMsgs /\ Complaint(ProtocolError)
<1>1. \A m \in ToWorkerMsgs :
        \/ m.kind = "execute" /\ m.id \in Cells
        \/ m.kind = "response" /\ m.id \in Asks
  BY DEF ToWorkerMsgs, Execute, Response
<1>2. \A m \in ToHostMsgs :
        \/ m.kind = "request" /\ m.cell \in Cells /\ m.id \in Asks
        \/ m.kind = "result" /\ m.id \in {0} \union Cells
        \/ m \in Strays
  BY DEF ToHostMsgs, Request, Result
<1>3. /\ \A c \in Cells : /\ Execute(c) \in ToWorkerMsgs
                                  /\ Result(c) \in ToHostMsgs
      /\ \A a \in Asks : Response(a) \in ToWorkerMsgs
      /\ \A c \in Cells, a \in Asks : Request(c, a) \in ToHostMsgs
  BY DEF ToWorkerMsgs, ToHostMsgs
<1>4. ProtocolError \in ToHostMsgs /\ Complaint(ProtocolError)
  BY DEF ToHostMsgs, ProtocolError, Result, Complaint
<1>5. \A m \in Strays : /\ m \in ToHostMsgs /\ Complaint(m)
                        /\ m.kind \notin {"request", "result"}
  <2>1. Strays \subseteq ToHostMsgs
    BY DEF ToHostMsgs
  <2>2. \A m \in Strays : m.kind \notin {"request", "result"}
    BY DEF Strays, Noise, Number
  <2> QED
    BY <2>1, <2>2 DEF Complaint
<1> QED
  BY <1>1, <1>2, <1>3, <1>4, <1>5

\* What is left of a queue when its first message is taken ...
LEMMA Taken ==
  ASSUME NEW S, NEW q \in Seq(S), q # <<>>
  PROVE  /\ Tail(q) \in Seq(S) /\ Len(Tail(q)) = Len(q) - 1 /\ Len(q) \in Nat /\ Len(q) >= 1
         /\ Head(q) = q[1] /\ Head(q) \in S
         /\ \A i \in 1 .. Len(Tail(q)) : i + 1 \in 1 .. Len(q) /\ Tail(q)[i] = q[i + 1]
OBVIOUS

\* ... and when one is added.
LEMMA Added ==
  ASSUME NEW S, NEW q \in Seq(S), NEW m \in S
  PROVE  /\ Append(q, m) \in Seq(S) /\ Len(Append(q, m)) = Len(q) + 1 /\ Len(q) \in Nat
         /\ \A i \in 1 .. Len(Append(q, m)) :
              Append(q, m)[i] = IF i = Len(q) + 1 THEN m ELSE q[i]
OBVIOUS

LEMMA SandboxInit ==
  ASSUME ProtocolInit
  PROVE  SandboxInv
<1>1. ProtocolTypeOK
  <2>1. toWorker \in Seq(ToWorkerMsgs) /\ toHost \in Seq(ToHostMsgs)
    BY DEF ProtocolInit
  <2>2. current \in 0 .. MaxCells /\ cell \in 0 .. MaxCells /\ asked \in 0 .. MaxAsks
    BY SandboxBounds DEF ProtocolInit
  <2>3. /\ expired \in BOOLEAN /\ timer \in BOOLEAN /\ missed \in BOOLEAN /\ dirty \in BOOLEAN
        /\ spoilt \in BOOLEAN /\ positive \in BOOLEAN /\ gate \in BOOLEAN
    BY DEF ProtocolInit
  <2> QED
    BY <2>1, <2>2, <2>3 DEF ProtocolInit, ProtocolTypeOK
<1>2. LinesToWorker /\ LinesToHost
  BY DEF ProtocolInit, LinesToWorker, LinesToHost
<1>3. BlockRuns /\ HostIsDone /\ GateIsSimple
  BY DEF ProtocolInit, BlockRuns, HostIsDone, InCell, Busy, NoExecute,
       OnlyComplaints, GateIsSimple
<1> QED
  BY <1>1, <1>2, <1>3 DEF SandboxInv
-----------------------------------------------------------------------------
\* The host sends a block: nothing of the one before is left.
LEMMA SendKeeps ==
  ASSUME SandboxInv, Send \/ SendToNewContainer
  PROVE  SandboxInv'
<1>1. /\ Send => NoExecute(toWorker) /\ ~InCell /\ OnlyComplaints(toHost)
      /\ current \in 0 .. MaxCells /\ current < MaxCells /\ MaxCells \in Nat
      /\ Send /\ gate => toHost = <<>>
  <2>1. current \in 0 .. MaxCells /\ current < MaxCells /\ MaxCells \in Nat
    BY SandboxBounds DEF SandboxInv, ProtocolTypeOK, Send, SendToNewContainer, MaySend
  <2>2. Send => /\ NoExecute(toWorker) /\ ~InCell /\ OnlyComplaints(toHost)
                /\ gate => toHost = <<>>
    <3>1. CASE host = "idle"
      BY <3>1 DEF SandboxInv, HostIsDone, GateIsSimple, Send
    <3>2. CASE gate /\ host \in {"failed", "broken"}
      BY <3>2 DEF SandboxInv, GateIsSimple, Send, OnlyComplaints
    <3> QED
      BY <3>1, <3>2 DEF Send, MaySend
  <2> QED
    BY <2>1, <2>2
<1>2. current' = current + 1 /\ current' \in Cells /\ current' # 0
  BY <1>1 DEF Send, SendToNewContainer, Cells
<1>3. Execute(current') \in ToWorkerMsgs
     /\ Execute(current').kind = "execute"
        /\ Execute(current').id = current'
  BY <1>2, Messages DEF Execute
<1>4. ~InCell' /\ OnlyComplaints(toHost') /\ toHost' \in Seq(ToHostMsgs)
  <2>1. CASE Send
    BY <1>1, <2>1 DEF Send, InCell, SandboxInv, ProtocolTypeOK
  <2>2. CASE SendToNewContainer
    BY <2>2 DEF SendToNewContainer, InCell, OnlyComplaints
  <2> QED
    BY <2>1, <2>2
<1>5. /\ toWorker' \in Seq(ToWorkerMsgs)
      /\ \A i \in 1 .. Len(toWorker') :
           toWorker'[i].kind = "execute" =>
             /\ toWorker'[i].id = current'
             /\ \A j \in 1 .. Len(toWorker') : toWorker'[j].kind = "execute" => j = i
      /\ gate => \A i \in 1 .. Len(toWorker') : toWorker'[i].kind = "execute"
  <2>1. CASE Send
    <3>1. toWorker \in Seq(ToWorkerMsgs)
      BY DEF SandboxInv, ProtocolTypeOK
    <3>2. /\ toWorker' \in Seq(ToWorkerMsgs) /\ Len(toWorker') = Len(toWorker) + 1
          /\ Len(toWorker) \in Nat
          /\ \A i \in 1 .. Len(toWorker') :
               toWorker'[i] = IF i = Len(toWorker) + 1 THEN Execute(current') ELSE toWorker[i]
      BY <1>3, <2>1, <3>1, Added DEF Send
    <3>3. \A i \in 1 .. Len(toWorker') : toWorker'[i].kind = "execute" => i = Len(toWorker) + 1
      BY <1>1, <2>1, <3>2 DEF NoExecute
    <3>4. gate => \A i \in 1 .. Len(toWorker') : toWorker'[i].kind = "execute"
      BY <1>3, <3>2 DEF SandboxInv, GateIsSimple
    <3> QED
      BY <1>3, <3>2, <3>3, <3>4
  <2>2. CASE SendToNewContainer
    BY <1>3, <2>2 DEF SendToNewContainer
  <2> QED
    BY <2>1, <2>2
<1>6. LinesToWorker'
  BY <1>4, <1>5 DEF LinesToWorker
<1>7. LinesToHost'
  BY <1>4, Messages DEF LinesToHost, OnlyComplaints, Complaint, ResultOfBlock
<1>8. ProtocolTypeOK'
  <2>1. /\ host' = "reading" /\ expired' = FALSE /\ current' \in 0 .. MaxCells
        /\ missed' = FALSE /\ spoilt' = FALSE
        /\ UNCHANGED <<serving, cell, asked, positive, gate>>
    BY <1>2 DEF Send, SendToNewContainer, setting, Cells
  <2>2. worker' \in {"main", worker} /\ timer' \in {FALSE, timer} /\ dirty' \in {FALSE, dirty}
    BY DEF Send, SendToNewContainer
  <2> QED
    BY <1>4, <1>5, <2>1, <2>2 DEF SandboxInv, ProtocolTypeOK
<1>9. GateIsSimple'
  <2>1. /\ host' = "reading" /\ UNCHANGED <<positive, gate>> /\ dirty' \in {FALSE, dirty}
        /\ gate => toHost' = <<>>
    BY <1>1 DEF Send, SendToNewContainer, setting
  <2> QED
    BY <1>5, <2>1 DEF SandboxInv, GateIsSimple
<1> QED
  BY <1>2, <1>4, <1>6, <1>7, <1>8, <1>9
  DEF SandboxInv, BlockRuns, HostIsDone, Busy, Send, SendToNewContainer

\* Steps that send nothing, take nothing and start nothing.
LEMMA QuietKeeps ==
  ASSUME SandboxInv, UNCHANGED <<current, toWorker, toHost>>, ProtocolTypeOK',
         InCell' => InCell /\ cell' = cell,
         host' = "idle" => host = "idle",
         Busy' => Busy,
         host' = "serving" => host = "serving" /\ serving' = serving,
         UNCHANGED <<positive, gate>>, gate /\ dirty' => dirty,
         gate /\ host' \in {"failed", "broken"} /\ worker' # "dead" =>
           host \in {"idle", "failed", "broken"} /\ worker # "dead",
         worker' # "dead" => worker # "dead"
  PROVE  SandboxInv'
<1>1. LinesToWorker' /\ LinesToHost' /\ BlockRuns'
  BY DEF SandboxInv, LinesToWorker, LinesToHost, BlockRuns
<1>2. HostIsDone'
  BY DEF SandboxInv, HostIsDone
<1>3. GateIsSimple'
  BY DEF SandboxInv, GateIsSimple, NoExecute
<1> QED
  BY <1>1, <1>2, <1>3 DEF SandboxInv

\* The host reads a line: a request of its block, its result, or a line of none.
LEMMA ReadLineKeeps ==
  ASSUME SandboxInv, ReadLine
  PROVE  SandboxInv'
<1> DEFINE m == Head(toHost)
<1>1. /\ host = "reading" /\ toHost # <<>> /\ toHost' = Tail(toHost)
      /\ UNCHANGED <<current, expired, toWorker, worker, cell, asked, timer, missed, dirty,
                     spoilt, positive, gate>>
  BY DEF ReadLine, workerVars, setting
<1>2. /\ toHost' \in Seq(ToHostMsgs) /\ Len(toHost') = Len(toHost) - 1
      /\ Len(toHost) \in Nat /\ Len(toHost) >= 1 /\ m = toHost[1] /\ m \in ToHostMsgs
      /\ \A i \in 1 .. Len(toHost') : i + 1 \in 1 .. Len(toHost) /\ toHost'[i] = toHost[i + 1]
  BY <1>1, Taken DEF SandboxInv, ProtocolTypeOK
<1>3. LinesToHost'
  BY <1>1, <1>2 DEF SandboxInv, LinesToHost
<1>4. LinesToWorker' /\ BlockRuns'
  BY <1>1, <1>2 DEF SandboxInv, LinesToWorker, BlockRuns, InCell, OnlyComplaints, NoResult
<1>5. current # 0
  BY <1>1 DEF SandboxInv, HostIsDone, Busy
<1>6. GateIsSimple'
  <2> SUFFICES ASSUME gate PROVE GateIsSimple'
    BY <1>1 DEF GateIsSimple
  <2>1. /\ Len(toHost) = 1 /\ m.kind # "request" /\ NoExecute(toWorker) /\ ~InCell
        /\ positive /\ ~dirty
        /\ \A i \in 1 .. Len(toWorker) : toWorker[i].kind = "execute"
    BY <1>1, <1>2 DEF SandboxInv, GateIsSimple
  <2>2. toHost' = <<>>
    BY <1>2, <2>1
  <2>3. host' # "serving"
    BY <2>1 DEF ReadLine, Expected, ReadOn, Noise
  <2> QED
    BY <1>1, <2>1, <2>2, <2>3 DEF GateIsSimple, InCell, NoExecute
<1>7. CASE m.kind = "request" /\ host' = "serving" /\ serving' = [cell |-> m.cell, ask |-> m.id]
  <2>1. m.cell = current /\ m.cell \in Cells /\ m.id \in Asks
    BY <1>2, <1>7, Messages DEF SandboxInv, LinesToHost
  <2>2. ProtocolTypeOK'
    BY <1>1, <1>2, <1>7, <2>1 DEF SandboxInv, ProtocolTypeOK
  <2>3. HostIsDone'
    BY <1>1, <1>5, <1>7, <2>1 DEF HostIsDone
  <2> QED
    BY <1>3, <1>4, <1>6, <2>2, <2>3 DEF SandboxInv
<1>8. CASE Expected(m) /\ host' = "idle" /\ UNCHANGED serving
  <2>1. ResultOfBlock(m)
    BY <1>5, <1>8 DEF Expected, ResultOfBlock
  <2>2. OnlyComplaints(toHost')
    BY <1>2, <2>1 DEF SandboxInv, LinesToHost, OnlyComplaints
  <2>3. NoExecute(toWorker) /\ ~InCell
    BY <1>2, <2>1, Messages DEF SandboxInv, LinesToWorker, BlockRuns, NoExecute,
         OnlyComplaints, NoResult, Complaint, ResultOfBlock
  <2>4. ProtocolTypeOK'
    BY <1>1, <1>2, <1>8 DEF SandboxInv, ProtocolTypeOK
  <2>5. HostIsDone'
    BY <1>1, <1>8, <2>2, <2>3 DEF HostIsDone, Busy, InCell
  <2> QED
    BY <1>3, <1>4, <1>6, <2>4, <2>5 DEF SandboxInv
<1>9. CASE (ReadOn \/ host' = "broken") /\ UNCHANGED serving
  <2>1. host' \in {"failed", "reading", "broken"}
    BY <1>9 DEF ReadOn
  <2>2. ProtocolTypeOK'
    BY <1>1, <1>2, <1>9, <2>1 DEF SandboxInv, ProtocolTypeOK
  <2>3. HostIsDone'
    BY <1>1, <1>5, <2>1 DEF HostIsDone
  <2> QED
    BY <1>3, <1>4, <1>6, <2>2, <2>3 DEF SandboxInv
<1> QED
  BY <1>7, <1>8, <1>9 DEF ReadLine

\* The host answers a request.
LEMMA ServeKeeps ==
  ASSUME SandboxInv, Serve
  PROVE  SandboxInv'
<1> DEFINE m == Response(serving.ask)
<1>1. /\ host = "serving" /\ toWorker' = Append(toWorker, m) /\ serving' = Nobody
      /\ host' \in {"failed", "reading"}
      /\ UNCHANGED <<current, expired, toHost, worker, cell, asked, timer, missed, dirty, spoilt,
                     positive, gate>>
  BY DEF Serve, ReadOn, outputVars, workerVars, setting
<1>2. m \in ToWorkerMsgs /\ m.kind # "execute"
  BY <1>1, Messages DEF SandboxInv, HostIsDone, Response
<1>3. /\ toWorker' \in Seq(ToWorkerMsgs) /\ Len(toWorker') = Len(toWorker) + 1
      /\ Len(toWorker) \in Nat
      /\ \A i \in 1 .. Len(toWorker') :
           toWorker'[i] = IF i = Len(toWorker) + 1 THEN m ELSE toWorker[i]
  BY <1>1, <1>2, Added DEF SandboxInv, ProtocolTypeOK
<1>4. \A i \in 1 .. Len(toWorker') :
        toWorker'[i].kind = "execute" => i \in 1 .. Len(toWorker) /\ toWorker'[i] = toWorker[i]
  BY <1>2, <1>3
<1>5. LinesToWorker'
  BY <1>1, <1>4 DEF SandboxInv, LinesToWorker, InCell
<1>6. LinesToHost' /\ BlockRuns'
  BY <1>1 DEF SandboxInv, LinesToHost, BlockRuns, InCell
<1>7. HostIsDone'
  BY <1>1 DEF SandboxInv, HostIsDone, Busy
<1>8. ProtocolTypeOK'
  BY <1>1, <1>3 DEF SandboxInv, ProtocolTypeOK
<1>9. GateIsSimple'
  BY <1>1 DEF SandboxInv, GateIsSimple
<1> QED
  BY <1>5, <1>6, <1>7, <1>8, <1>9 DEF SandboxInv
-----------------------------------------------------------------------------
\* The worker takes a line: a block to run, or one it complains about.
LEMMA TakeLineKeeps ==
  ASSUME SandboxInv, TakeLine
  PROVE  SandboxInv'
<1> DEFINE m == Head(toWorker)
<1>1. /\ worker = "main" /\ toWorker # <<>> /\ toWorker' = Tail(toWorker)
      /\ UNCHANGED <<host, current, serving, expired, asked, missed, spoilt, positive, gate>>
  BY DEF TakeLine, hostVars, setting
<1>2. /\ toWorker' \in Seq(ToWorkerMsgs) /\ Len(toWorker') = Len(toWorker) - 1
      /\ Len(toWorker) \in Nat /\ Len(toWorker) >= 1 /\ m = toWorker[1]
           /\ m \in ToWorkerMsgs
      /\ \A i \in 1 .. Len(toWorker') :
           i + 1 \in 1 .. Len(toWorker) /\ toWorker'[i] = toWorker[i + 1]
  BY <1>1, Taken DEF SandboxInv, ProtocolTypeOK
<1>3. ~InCell
  BY <1>1 DEF InCell
<1>4. CASE m.kind = "execute" /\ positive
  <2>1. worker' = "cell" /\ cell' = m.id /\ timer' = TRUE /\ UNCHANGED <<toHost, dirty>>
    BY <1>4 DEF TakeLine
  <2>2. /\ m.id = current /\ OnlyComplaints(toHost) /\ m.id \in Cells
        /\ \A j \in 1 .. Len(toWorker) : toWorker[j].kind = "execute" => j = 1
    BY <1>2, <1>4, Messages DEF SandboxInv, LinesToWorker
  <2>3. NoExecute(toWorker')
    BY <1>2, <2>2 DEF NoExecute
  <2>4. LinesToWorker'
    BY <2>3 DEF LinesToWorker, NoExecute
  <2>5. LinesToHost'
    BY <1>1, <2>1 DEF SandboxInv, LinesToHost
  <2>6. BlockRuns'
    BY <1>1, <2>1, <2>2, Messages DEF BlockRuns, NoResult, OnlyComplaints, Complaint, ResultOfBlock,
         Cells
  <2>7. host # "idle"
    BY <1>2, <1>4 DEF SandboxInv, HostIsDone, NoExecute
  <2>8. HostIsDone'
    BY <1>1, <2>7 DEF SandboxInv, HostIsDone, Busy
  <2>9. ProtocolTypeOK'
    BY <1>1, <1>2, <2>1, <2>2 DEF SandboxInv, ProtocolTypeOK, Cells
  <2>10. GateIsSimple'
    <3>1. ~NoExecute(toWorker)
      BY <1>2, <1>4 DEF NoExecute
    <3> QED
      BY <1>1, <1>2, <2>1, <3>1 DEF SandboxInv, GateIsSimple
  <2> QED
    BY <2>4, <2>5, <2>6, <2>8, <2>9, <2>10 DEF SandboxInv
<1>5. CASE ~(m.kind = "execute" /\ positive)
  <2>1. PICK l \in {ProtocolError, Noise} : toHost' = Append(toHost, l)
    BY <1>5 DEF TakeLine, Say
  <2>2. UNCHANGED <<worker, cell, timer>> /\ dirty' = FALSE
    BY <1>5 DEF TakeLine, Say
  <2>3. l \in ToHostMsgs /\ Complaint(l) /\ ~ResultOfBlock(l) /\ l.kind # "request"
    BY Messages DEF Complaint, ResultOfBlock, ProtocolError, Result, Strays
  <2>4. /\ toHost' \in Seq(ToHostMsgs) /\ Len(toHost') = Len(toHost) + 1
        /\ Len(toHost) \in Nat
        /\ \A i \in 1 .. Len(toHost') : toHost'[i] = IF i = Len(toHost) + 1 THEN l ELSE toHost[i]
    BY <2>1, <2>3, Added DEF SandboxInv, ProtocolTypeOK
  <2>5. LinesToHost'
    BY <1>1, <2>3, <2>4 DEF SandboxInv, LinesToHost
  <2>6. OnlyComplaints(toHost) => OnlyComplaints(toHost')
    BY <2>3, <2>4 DEF OnlyComplaints
  <2>7. ~InCell'
    BY <1>3, <2>2 DEF InCell
  <2>8. LinesToWorker'
    BY <1>1, <1>2, <2>6, <2>7 DEF SandboxInv, LinesToWorker
  <2>9. NoExecute(toWorker) => NoExecute(toWorker')
    BY <1>2 DEF NoExecute
  <2>10. HostIsDone'
    BY <1>1, <2>6, <2>7, <2>9 DEF SandboxInv, HostIsDone, Busy
  <2>11. ProtocolTypeOK'
    BY <1>1, <1>2, <2>2, <2>4 DEF SandboxInv, ProtocolTypeOK
  <2>12. GateIsSimple'
    BY <1>1, <1>2, <1>5 DEF SandboxInv, GateIsSimple
  <2> QED
    BY <2>5, <2>7, <2>8, <2>10, <2>11, <2>12 DEF SandboxInv, BlockRuns
<1> QED
  BY <1>4, <1>5

\* A block that runs is the host's last one, of which no line is left.
LEMMA RunningBlock ==
  ASSUME SandboxInv, InCell
  PROVE  /\ cell = current /\ cell \in Cells /\ NoResult(toHost) /\ NoExecute(toWorker)
         /\ host # "idle"
BY DEF SandboxInv, ProtocolTypeOK, BlockRuns, LinesToWorker, NoExecute, HostIsDone, Cells

\* A line is written while a block runs or when it ends: a request, the result,
\* a complaint in place of it, or what others have made of any of these.
LEMMA WritingKeeps ==
  ASSUME SandboxInv, InCell, ProtocolTypeOK', NEW m \in ToHostMsgs,
         toHost' = Append(toHost, m),
         UNCHANGED <<host, current, serving, toWorker, cell, positive, gate>>, ~dirty',
         worker # "dead",
         \/ m.kind = "request" /\ m.cell = current
         \/ m.kind = "result" /\ m.id \in {0, current}
         \/ m \in Strays,
         InCell' => ~gate /\ m.kind # "result", gate => m.kind # "request"
  PROVE  SandboxInv'
<1>1. /\ Len(toHost') = Len(toHost) + 1 /\ Len(toHost) \in Nat
      /\ \A i \in 1 .. Len(toHost') : toHost'[i] = IF i = Len(toHost) + 1 THEN m ELSE toHost[i]
  BY Added DEF SandboxInv, ProtocolTypeOK
<1>2. /\ cell = current /\ cell \in Cells /\ NoResult(toHost) /\ NoExecute(toWorker)
      /\ host # "idle"
  BY RunningBlock
<1>3. LinesToWorker'
  BY <1>2 DEF LinesToWorker, NoExecute
<1>4. m \in Strays => m.kind \notin {"request", "result"}
  BY Messages
<1>5. LinesToHost'
  BY <1>1, <1>2, <1>4 DEF SandboxInv, LinesToHost, NoResult, ResultOfBlock, Complaint
<1>6. BlockRuns'
  BY <1>1, <1>2 DEF BlockRuns, NoResult, ResultOfBlock, Cells
<1>7. HostIsDone'
  BY <1>2 DEF SandboxInv, HostIsDone, Busy
<1>8. ASSUME gate PROVE GateIsSimple'
  <2>1. toHost = <<>> /\ ~InCell'
    BY <1>8 DEF SandboxInv, GateIsSimple
  <2>2. Len(toHost') = 1 /\ toHost'[1] = m
    BY <1>1, <2>1
  <2> QED
    BY <1>2, <1>8, <2>1, <2>2 DEF SandboxInv, GateIsSimple, NoExecute
<1>9. GateIsSimple'
  BY <1>8 DEF GateIsSimple
<1> QED
  BY <1>3, <1>5, <1>6, <1>7, <1>9 DEF SandboxInv

LEMMA WorkerWrites ==
  ASSUME SandboxInv, AskHost \/ WriteResult \/ TimerRingsLate
  PROVE  SandboxInv'
<1>1. InCell /\ worker # "dead"
  BY DEF InCell, AskHost, WriteResult, TimerRingsLate
<1>2. /\ cell = current /\ cell \in Cells /\ toHost \in Seq(ToHostMsgs)
      /\ UNCHANGED <<host, current, serving, expired, toWorker, cell, positive, gate>>
      /\ dirty' = FALSE
  BY <1>1, RunningBlock DEF SandboxInv, ProtocolTypeOK, AskHost, WriteResult,
       TimerRingsLate, hostVars, setting, Say
<1>3. CASE AskHost
  <2> DEFINE r == Request(cell, asked')
  <2>1. asked' \in Asks /\ asked' \in 0 .. MaxAsks
    BY <1>3, SandboxBounds DEF AskHost, SandboxInv, ProtocolTypeOK, Asks
  <2>2. r \in ToHostMsgs /\ r.kind = "request" /\ r.cell = current
    BY <1>2, <2>1, Messages DEF Request
  <2>3. PICK m \in {r, Noise} : toHost' = Append(toHost, m)
    BY <1>3 DEF AskHost, Say
  <2>4. m \in ToHostMsgs /\ m.kind # "result" /\ (m = r \/ m \in Strays)
    BY <2>2, Messages DEF Strays
  <2>5. toHost' \in Seq(ToHostMsgs)
    BY <1>2, <2>3, <2>4, Added
  <2>6. ProtocolTypeOK'
    BY <1>2, <1>3, <2>1, <2>5 DEF AskHost, SandboxInv, ProtocolTypeOK
  <2>7. ~gate
    BY <1>3 DEF AskHost
  <2> QED
    BY <1>1, <1>2, <2>2, <2>3, <2>4, <2>6, <2>7, WritingKeeps
<1>4. CASE WriteResult \/ TimerRingsLate
  <2>1. PICK m \in {Result(cell), ProtocolError, Noise} : toHost' = Append(toHost, m)
    BY <1>4 DEF WriteResult, TimerRingsLate, Say
  <2>2. /\ m \in ToHostMsgs
        /\ m \in Strays \/ (m.kind = "result" /\ m.id \in {0, current})
    BY <1>2, <2>1, Messages DEF Result, ProtocolError, Strays
  <2>3. ~InCell' /\ toHost' \in Seq(ToHostMsgs)
    BY <1>2, <1>4, <2>1, <2>2, Added DEF WriteResult, TimerRingsLate,
         InCell
  <2>4. spoilt' \in BOOLEAN /\ timer' = FALSE /\ missed' \in BOOLEAN
       /\ worker' = "main" /\ UNCHANGED asked
    BY <1>4 DEF WriteResult, TimerRingsLate, SandboxInv, ProtocolTypeOK
  <2>5. ProtocolTypeOK'
    BY <1>2, <2>3, <2>4 DEF SandboxInv, ProtocolTypeOK
  <2>6. m.kind # "request"
    BY <2>2, Messages
  <2> QED
    BY <1>1, <1>2, <2>1, <2>2, <2>3, <2>5, <2>6, WritingKeeps
<1> QED
  BY <1>3, <1>4

\* A block that waits takes a line, which is not a block.
LEMMA TakeResponseKeeps ==
  ASSUME SandboxInv, TakeResponse
  PROVE  SandboxInv'
<1>1. /\ InCell /\ toWorker # <<>> /\ toWorker' = Tail(toWorker) /\ InCell'
      /\ worker' \in {"cell", "waiting"}
      /\ UNCHANGED <<host, current, serving, expired, toHost, cell, asked, timer, missed, dirty,
                     spoilt, positive, gate>>
      /\ worker # "dead"
  BY DEF TakeResponse, InCell, hostVars, outputVars, setting
<1>2. /\ toWorker' \in Seq(ToWorkerMsgs) /\ Len(toWorker') = Len(toWorker) - 1
      /\ \A i \in 1 .. Len(toWorker') :
           i + 1 \in 1 .. Len(toWorker) /\ toWorker'[i] = toWorker[i + 1]
  BY <1>1, Taken DEF SandboxInv, ProtocolTypeOK
<1>3. NoExecute(toWorker) /\ host # "idle"
  BY <1>1, RunningBlock
<1>4. LinesToWorker'
  BY <1>2, <1>3 DEF LinesToWorker, NoExecute
<1>5. LinesToHost' /\ BlockRuns' /\ HostIsDone'
  BY <1>1, <1>3 DEF SandboxInv, LinesToHost, BlockRuns, HostIsDone, Busy
<1>6. ProtocolTypeOK'
  BY <1>1, <1>2 DEF SandboxInv, ProtocolTypeOK
<1>7. GateIsSimple'
  BY <1>1, <1>2 DEF SandboxInv, GateIsSimple
<1> QED
  BY <1>4, <1>5, <1>6, <1>7 DEF SandboxInv
-----------------------------------------------------------------------------
\* The host's other steps: it fails, stops, or sees that time has passed.
LEMMA HostRests ==
  ASSUME SandboxInv, SendFails \/ SeeEof \/ ServeTheDead
       \/ Expire \/ Close \/ KillFails \/ Gone
  PROVE  SandboxInv'
<1>1. UNCHANGED <<current, toWorker, toHost, worker, cell, asked, timer, missed, dirty, spoilt,
                  positive, gate>>
  BY DEF SendFails, SeeEof, ServeTheDead, Expire, Close, KillFails,
       Gone, workerVars, outputVars, setting
<1>2. /\ host' = "idle" => host = "idle"
      /\ Busy' => Busy
      /\ host' = "serving" => host = "serving" /\ serving' = serving
  BY DEF SendFails, SeeEof, ServeTheDead, Expire, Close, KillFails,
       Gone, Busy, ReadOn
<1>3. ProtocolTypeOK'
  BY <1>1 DEF SandboxInv, ProtocolTypeOK, SendFails, SeeEof,
       ServeTheDead, Expire, Close, KillFails, Gone, ReadOn
<1>4. gate /\ host' \in {"failed", "broken"} /\ worker' # "dead" =>
        host \in {"idle", "failed", "broken"} /\ worker # "dead"
  BY <1>1 DEF SendFails, SeeEof, ServeTheDead, Expire, Close, KillFails, Gone, Busy
<1> QED
  BY <1>1, <1>2, <1>3, <1>4, QuietKeeps DEF InCell

\* The worker's other steps: its block goes on or ends, it is killed or dies, or
\* others begin to print.
LEMMA WorkerRests ==
  ASSUME SandboxInv, EndCell \/ TimerRings \/ TimerIsSwallowed
       \/ TakeEof \/ Spill \/ Die \/ Kill
  PROVE  SandboxInv'
<1>1. /\ UNCHANGED <<host, current, serving, expired, toWorker, toHost, cell, asked, spoilt,
                     positive, gate>>
      /\ gate => UNCHANGED dirty
  BY DEF EndCell, TimerRings, TimerIsSwallowed, TakeEof, Spill,
       Die, Kill, hostVars, outputVars, workerVars, setting
<1>2. (InCell' => InCell) /\ (worker' # "dead" => worker # "dead")
  BY DEF InCell, EndCell, TimerRings, TimerIsSwallowed, Spill,
       TakeEof, Die, Kill, workerVars
<1>3. dirty' \in BOOLEAN
  BY DEF EndCell, TimerRings, TimerIsSwallowed, TakeEof, Spill,
       Die, Kill, outputVars, SandboxInv, ProtocolTypeOK
<1>4. ProtocolTypeOK'
  BY <1>1, <1>3 DEF SandboxInv, ProtocolTypeOK, EndCell, TimerRings,
       TimerIsSwallowed, TakeEof, Spill, Die, Kill, workerVars
<1> QED
  BY <1>1, <1>2, <1>4, QuietKeeps DEF Busy

\* Others end the line they have begun, whatever the worker is doing.
LEMMA EndLineKeeps ==
  ASSUME SandboxInv, EndLine
  PROVE  SandboxInv'
<1>1. PICK m \in Strays : toHost' = Append(toHost, m)
  BY DEF EndLine
<1>2. /\ dirty /\ dirty' = FALSE
      /\ UNCHANGED <<host, current, serving, expired, toWorker, worker, cell, asked, timer,
                     missed, spoilt, positive, gate>>
  BY DEF EndLine, hostVars, workerVars, setting
<1>3. m \in ToHostMsgs /\ Complaint(m) /\ m.kind \notin {"request", "result"}
  BY Messages
<1>4. /\ toHost' \in Seq(ToHostMsgs) /\ Len(toHost') = Len(toHost) + 1 /\ Len(toHost) \in Nat
      /\ \A i \in 1 .. Len(toHost') : toHost'[i] = IF i = Len(toHost) + 1 THEN m ELSE toHost[i]
  BY <1>1, <1>3, Added DEF SandboxInv, ProtocolTypeOK
<1>5. /\ OnlyComplaints(toHost) => OnlyComplaints(toHost')
      /\ NoResult(toHost) => NoResult(toHost')
  BY <1>3, <1>4 DEF OnlyComplaints, NoResult, ResultOfBlock
<1>6. LinesToWorker' /\ BlockRuns' /\ HostIsDone'
  BY <1>2, <1>5 DEF SandboxInv, LinesToWorker, BlockRuns, HostIsDone, InCell, Busy
<1>7. LinesToHost'
  BY <1>2, <1>3, <1>4 DEF SandboxInv, LinesToHost, ResultOfBlock
<1>8. ProtocolTypeOK'
  BY <1>2, <1>4 DEF SandboxInv, ProtocolTypeOK
<1>9. GateIsSimple'
  BY <1>2 DEF SandboxInv, GateIsSimple
<1> QED
  BY <1>6, <1>7, <1>8, <1>9 DEF SandboxInv

LEMMA SandboxStep ==
  ASSUME SandboxInv, [ProtocolNext]_protocolVars
  PROVE  SandboxInv'
<1>1. CASE UNCHANGED protocolVars
  BY <1>1
  DEF protocolVars, SandboxInv, ProtocolTypeOK, LinesToWorker, LinesToHost, BlockRuns,
       HostIsDone, GateIsSimple, InCell, Busy
<1> QED
  BY <1>1, SendKeeps, ReadLineKeeps, ServeKeeps, TakeLineKeeps, WorkerWrites, TakeResponseKeeps,
     HostRests, WorkerRests, EndLineKeeps
  DEF ProtocolNext, HostStep, WorkerStep, Timer, Quiet

LEMMA SandboxInvariance == ProtocolSpec => []SandboxInv
<1>1. ProtocolInit => SandboxInv
  BY SandboxInit
<1>2. SandboxInv /\ [ProtocolNext]_protocolVars => SandboxInv'
  BY SandboxStep
<1> QED
  BY <1>1, <1>2, PTL DEF ProtocolSpec
-----------------------------------------------------------------------------
\* The messages between host and worker, and what either remembers, are of
\* their types, for any numbers of blocks and requests.
THEOREM SandboxTypeCorrect == ProtocolSpec => []ProtocolTypeOK
<1>1. SandboxInv => ProtocolTypeOK
  BY DEF SandboxInv
<1> QED
  BY <1>1, SandboxInvariance, PTL

\* When execute() has returned the worker runs none of the host's code, a
\* request is served as one of the block that made it, and no block is dropped
\* by one that waits for an answer; for any numbers of blocks and requests,
\* wherever the worker dies and whenever the timer rings.
THEOREM HostAndWorkerAgree == ProtocolSpec => []SameBlock
<1>1. SandboxInv => SameBlock
  <2> SUFFICES ASSUME SandboxInv PROVE SameBlock
    OBVIOUS
  <2>1. NothingRunsUnattended /\ ChargedToItsBlock
    BY DEF SandboxInv, HostIsDone, NothingRunsUnattended, ChargedToItsBlock
  <2>2. NoBlockIsDropped
    BY RunningBlock DEF NoBlockIsDropped, InCell, NoExecute
  <2> QED
    BY <2>1, <2>2 DEF SameBlock
<1> QED
  BY <1>1, SandboxInvariance, PTL
=============================================================================
