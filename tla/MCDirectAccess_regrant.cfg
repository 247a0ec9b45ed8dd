SPECIFICATION Spec
CHECK_DEADLOCK FALSE
CONSTANTS
    d1 = d1
    d2 = d2
    Devices = {d1, d2}
    MaxPrincipals = 1
    MaxChanges = 3
    Scenarios <- Regranting
INVARIANT
    NoAccessBeforeDatabase
