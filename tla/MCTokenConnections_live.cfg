SPECIFICATION FairSpec
CONSTANTS
    s1 = s1
    s2 = s2
    t1 = t1
    p1 = p1
    p2 = p2
    p3 = p3
    Sessions = {s1}
    Tokens = {t1}
    TokenOf <- OneToken
    ExpiresAt <- ExpireAt1
    HTTP = {s1}
    Never = Never
    NoSession = NoSession
    Procs = {p1, p2}
    Callers = {}
    MaxTime = 1
    ClockLag = 0
    MaxGen = 2
PROPERTIES
    DisableTerminates
    StopTerminates
    ExpiredSessionsLeave
CHECK_DEADLOCK FALSE
