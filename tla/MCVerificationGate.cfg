\* Projects that name tests and a build: up to seven commands, more than the four
\* that are run.
CONSTANT Targets = {"test", "build"}
SPECIFICATION GateSpec
INVARIANTS GateTypeOK PassedIsEarned FailedIsDeserved
