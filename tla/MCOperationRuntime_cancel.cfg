SPECIFICATION Spec
CHECK_DEADLOCK FALSE
CONSTANTS
    None = None
    w1 = w1
    r1 = r1
    s1 = s1
    Ops = {w1}
    Callers = {t1, t2}
    Consumer = consumer
    Sessions = {s1}
    Payloads = {p1}
    Policies = {q1}
    KindOf <- AgentWriteKind
    SessionOf <- AgentWriteSession
    MaxRuntime = 0
    MaxTracked = 1
    Manual = FALSE
INVARIANT
    CancelledMeansNotCommitted
