SPECIFICATION FairSpec
CHECK_DEADLOCK FALSE
CONSTANTS
    d1 = d1
    d2 = d2
    Devices = {d1, d2}
    MaxPrincipals = 2
    MaxChanges = 4
    Scenarios <- Everything
INVARIANTS
    TypeOK
    RoleWithinGrant
    RecordCoversRole
    DroppedMeansGone
PROPERTIES
    DepartureDropsTheRole
    RemovalReachesTheRole
