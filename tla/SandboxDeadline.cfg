\* The deadline of a block, as _read_execute_result raises it.
SPECIFICATION FairProtocol
CONSTANTS
  MaxCells = 2
  MaxAsks = 1
PROPERTY DeadlineIsKept
