\* Two processes at a time, three in all, a preference and a convention.
CONSTANTS
  Processes = {p1, p2}
  Preferences = {brief}
  Conventions = {pytest}
  Issue = issue
  Regression = regression
  Incomplete = incomplete
  FailedEval = failed_eval
  MaxCommands = 3
  MaxSteps = 4
SYMMETRY Twins
SPECIFICATION Spec
CHECK_DEADLOCK FALSE
INVARIANTS TypeOK AcknowledgedStays
PROPERTY UserDecides
