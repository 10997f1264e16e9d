\* Three levels of runtimes, two iterations, two turns, every choice of what a block asks for.
SPECIFICATION FairSpec
CONSTANTS
  MaxDepth = 2
  MaxSubcalls = 2
  MaxIterations = 2
  MaxTurns = 2
  MaxBlocks = 1
INVARIANTS TypeOK CountIsBounded CountIsExact
PROPERTY RunEnds
