SPECIFICATION SuiteSpec
CONSTANTS
  c1 = c1 c2 = c2 d1 = d1 d2 = d2
  Tasks = {"auth", "push", "message", "grace", "api", "engine", "outbox"} Kind <- OfEveryKind
  BroadcastCap = 1 MayFailToStart = TRUE
  Scenarios = {"trail", "outbox", "late", "hub", "seeds", "groups", "logins", "run"}
SYMMETRY Symmetric
CHECK_DEADLOCK FALSE
INVARIANTS AuditIsExact StopsInOrder
PROPERTIES HubIsSafe AccountsAreExact
