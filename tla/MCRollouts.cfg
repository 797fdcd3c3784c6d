SPECIFICATION SuiteSpec
CONSTANTS
  r1 = r1 r2 = r2 r3 = r3 d1 = d1 d2 = d2
  Configs = {"c1", "c2"} NoConfig = "none" Unset = "unset" Requests = {r1, r2} MayClear = FALSE
  Scenarios = {"baseline", "clears", "flow", "late", "actions", "choices", "sends", "reads"}
SYMMETRY Symmetric
CHECK_DEADLOCK FALSE
INVARIANT ReportsAreKept
PROPERTIES CompareAndSet DecisionsHold BroadPushIsEarned
