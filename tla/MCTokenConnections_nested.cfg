SPECIFICATION Spec
CONSTANTS
    s1 = s1
    s2 = s2
    t1 = t1
    p1 = p1
    p2 = p2
    p3 = p3
    Sessions = {s1}
    Tokens = {t1}
    TokenOf <- OneToken
    ExpiresAt <- NeverExpire
    HTTP = {}
    Never = Never
    NoSession = NoSession
    Procs = {p1, p2, p3}
    Callers = {c1}
    MaxTime = 0
    ClockLag = 0
    MaxGen = 0
SYMMETRY ProcSymmetry
INVARIANTS
    AcquireNeverBlocks
    SyncFinishNeverWaits
CHECK_DEADLOCK FALSE
