\* Two runs on one store with other writers; three steps of one or three tokens.
SPECIFICATION Spec
CONSTANTS
  Runs = {r1, r2}
  Threads = {t1, t2}
  Hooked = {r1}
  MaxHistoryTokens = 2
  PreserveRecentSteps = 1
  RecallLimit = 1
  RecallWindow = 1
  ArchivalLimit = 1
  CandidateLimit = 1
  OtherKinds = {"decision"}
  StepSizes = {1, 3}
  MaxSteps = 3
  MaxOthers = 1
INVARIANTS TypeOK RecallIsExact SummarisedOnce
PROPERTIES ResumeIsInformed
CHECK_DEADLOCK FALSE
