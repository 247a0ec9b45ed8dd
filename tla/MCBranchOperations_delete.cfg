SPECIFICATION FairSpec
CONSTANTS
    m1 = m1
    m2 = m2
    Members = {m1, m2}
    Requests = {r1, r2}
    Scenarios <- OnlyDelete
PROPERTIES
    StartedOperationFinishes
CHECK_DEADLOCK FALSE
