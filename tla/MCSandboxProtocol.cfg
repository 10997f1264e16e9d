\* Three blocks, four requests, a worker that may die between any two steps.
SPECIFICATION FairProtocol
CONSTANTS
  MaxCells = 3
  MaxAsks = 4
INVARIANTS ProtocolTypeOK SameBlock
PROPERTIES ExecuteEnds StopCleansUp
