SPECIFICATION Spec
CHECK_DEADLOCK FALSE
CONSTANTS
    None = None
    j1 = j1
    Jobs = {j1}
    Callers = {c1, c2}
    Formats <- OnlyExport
    MaxBatches = 1
    MaxRuntime = 2
INVARIANT
    RestartRepairsRecovery
