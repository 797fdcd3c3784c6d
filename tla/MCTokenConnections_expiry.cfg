SPECIFICATION Spec
CONSTANTS
    s1 = s1
    s2 = s2
    t1 = t1
    p1 = p1
    p2 = p2
    p3 = p3
    Sessions = {s1}
    Tokens = {t1}
    TokenOf <- OneToken
    ExpiresAt <- ExpireAt1
    HTTP = {}
    Never = Never
    NoSession = NoSession
    Procs = {p1, p2}
    Callers = {c1}
    MaxTime = 1
    ClockLag = 1
    MaxGen = 2
SYMMETRY ProcSymmetry
INVARIANTS
    NoSpuriousDisable
    ExpiryIsWatched
CHECK_DEADLOCK FALSE
