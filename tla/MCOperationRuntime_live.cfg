SPECIFICATION FairSpec
CONSTANTS
    None = None
    w1 = w1
    r1 = r1
    s1 = s1
    Ops = {w1, r1}
    Callers = {t1}
    Consumer = consumer
    Sessions = {s1}
    Payloads = {p1}
    Policies = {q1}
    KindOf <- MixedKind
    SessionOf <- MixedSession
    MaxRuntime = 1
    MaxTracked = 1
    Manual = TRUE
INVARIANT
    HonestOutcome
PROPERTIES
    ExecutionResolves
    RevokedProposalsClose
