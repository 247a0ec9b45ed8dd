SPECIFICATION Spec
CHECK_DEADLOCK FALSE
CONSTANTS
    l1 = l1
    l2 = l2
    r1 = r1
    r2 = r2
    s1 = s1
    Leases <- MCLeases
    Requests <- MCRequests
    Sweepers <- MCSweepers
    Scenarios <- MCScenarios
SYMMETRY MCSymmetry
INVARIANTS
    TypeOK
    SecretsStayAuthorized
    UsableSecretsAreTracked
    NoStrandedLease
    ProviderRevokedLast
    RefreshTokenSpentOnce
