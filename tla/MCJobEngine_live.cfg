SPECIFICATION FairSpec
CHECK_DEADLOCK FALSE
CONSTANTS
    None = None
    j1 = j1
    Jobs = {j1}
    Callers = {c1, c2, c3}
    Formats <- ImportOrPlain
    MaxBatches = 1
    MaxRuntime = 0
PROPERTIES
    CancelSettles
    PauseSettles
