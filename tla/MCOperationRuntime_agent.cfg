SPECIFICATION Spec
CONSTANTS
    None = None
    w1 = w1
    r1 = r1
    s1 = s1
    Ops = {w1}
    Callers = {t1, t2}
    Consumer = consumer
    Sessions = {s1}
    Payloads = {p1, p2}
    Policies = {q1, q2}
    KindOf <- AgentWriteKind
    SessionOf <- AgentWriteSession
    MaxRuntime = 1
    MaxTracked = 1
    Manual = FALSE
SYMMETRY CallerSymmetry
INVARIANTS
    TypeOK
    MutationsAreApproved
    AtMostOnce
    HonestOutcome
    RevokedSessionsDoNotCommit
    OldRuntimesAreClosed
PROPERTIES
    StoredPlanIsImmutable
    KeepsPromise
