\* Both backends, the plan command, both act engines, every kind of task, plans of two steps.
SPECIFICATION FairSpec
CONSTANTS
  MaxIterations = 4
  MaxSteps = 2
INVARIANTS TypeOK EndsWithAnswer DependenciesKept
PROPERTIES NothingAfterARefusal RunEnds
