\* Projects that may name a test target.
CONSTANT Targets = {"test"}
SPECIFICATION GateSpec
INVARIANT ChangedFilesCompile
