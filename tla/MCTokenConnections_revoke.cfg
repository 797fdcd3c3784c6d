SPECIFICATION Spec
CONSTANTS
    s1 = s1
    s2 = s2
    t1 = t1
    p1 = p1
    p2 = p2
    p3 = p3
    Sessions = {s1, s2}
    Tokens = {t1}
    TokenOf <- OneToken
    ExpiresAt <- NeverExpire
    HTTP = {s2}
    Never = Never
    NoSession = NoSession
    Procs = {p1}
    Callers = {c1}
    MaxTime = 0
    ClockLag = 0
    MaxGen = 0
INVARIANTS
    DisableFence
    ReleaseAfterLeases
    RemovalHasOwner
PROPERTY ImplementsGate
CHECK_DEADLOCK FALSE
