SPECIFICATION SuiteSpec
CONSTANTS
  u1 = u1 u2 = u2
  UIDs = {"u"} Descriptions <- MovingAgent MaxMessages = 3 MaxReleases = 2 MayDelete = FALSE
  None = None NoAlert = NoAlert NoPush = NoPush NoVersion = NoVersion
  Fleets <- AllFleets Recommended <- Recommendations
  Scenarios = {"rows"}
CHECK_DEADLOCK FALSE
PROPERTY JanitorSparesLive
