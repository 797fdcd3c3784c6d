SPECIFICATION Spec
CONSTANTS
    s1 = s1  s2 = s2  t1 = t1  t2 = t2  u1 = u1  u2 = u2  h1 = h1  h2 = h2  c1 = c1
    NoUID = NoUID  NoSession = NoSession
    Sessions = {s1, s2}  Tokens = {t1}  TokenOf <- OneToken
    UIDs = {u1, u2}  Holders = {h1, h2}  Callers = {c1}
SYMMETRY HolderSymmetry
CHECK_DEADLOCK FALSE
INVARIANTS OwnersAgree PushReachesOwner RevokeIsFinal
PROPERTY TerminalIsFinal
