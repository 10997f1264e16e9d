\* The whole of one invocation: every exit of the turn loop, every verdict, a
\* crash or an escaping exception between any two trace writes.
SPECIFICATION Spec
CONSTANT MaxTurns = 3
INVARIANTS TypeOK AnswerBeforeClose ClosedAsJudged
PROPERTIES ImplementsLifecycle
