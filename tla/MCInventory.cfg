SPECIFICATION SuiteSpec
CONSTANTS
  u1 = u1 u2 = u2
  UIDs = {"u"} Descriptions <- MovingAgent MaxMessages = 3 MaxReleases = 2 MayDelete = FALSE
  None = None NoAlert = NoAlert NoPush = NoPush NoVersion = NoVersion
  Fleets <- AllFleets Recommended <- Recommendations
  Scenarios = {"rows", "grace", "moves", "health", "history", "rollouts", "pages", "rules", "lookups", "views"}
SYMMETRY Symmetric
CHECK_DEADLOCK FALSE
INVARIANTS DisconnectIsAttended LogIsExact OneOpenAlert ViewsAgree
PROPERTY RewritesKeepTheRow
