SPECIFICATION Spec
CONSTANTS
    m1 = m1
    m2 = m2
    Members = {m1, m2}
    Requests = {r1, r2}
    Scenarios <- DeleteAndSwitch
INVARIANT NoConnectionToDeletedBranch
CHECK_DEADLOCK FALSE
