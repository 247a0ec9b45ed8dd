SPECIFICATION Spec
CHECK_DEADLOCK FALSE
CONSTANTS
    None = None
    j1 = j1
    Jobs = {j1}
    Callers = {c1, c2, c3}
    Formats <- AllFormats
    MaxBatches = 2
    MaxRuntime = 2
INVARIANTS
    TypeOK
    NoBatchTwice
    PausedImportIsExact
    OneWorker
    OperationFollowsJob
    NoStrandedPlainJob
PROPERTIES
    ProgressIsMonotone
SYMMETRY CallerSymmetry
