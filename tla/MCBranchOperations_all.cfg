SPECIFICATION FairSpec
CONSTANTS
    m1 = m1
    m2 = m2
    Members = {m1, m2}
    Requests = {r1, r2}
    Scenarios <- EveryKind
INVARIANTS
    TypeOK
    OneProviderMutation
    ClosedMeansUntouched
    ManagedAccessIsFenced
    LeasesFollowTheConnection
    DeletionExcludesImports
PROPERTIES
    TerminalIsFinal
    StartedCreateFinishes
CHECK_DEADLOCK FALSE
