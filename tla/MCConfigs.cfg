SPECIFICATION Spec
CONSTANTS
  u1 = u1 u2 = u2 r1 = r1 r2 = r2
  componentType <- TypeOf
  Missing = Missing NoVersion = NoVersion
  Scenarios = {"versions", "verdicts", "answers", "row", "overlap", "leave", "watch", "baseline", "guided"}
SYMMETRY Symmetric
CHECK_DEADLOCK FALSE
INVARIANTS VersionsAreOrdered VerdictIsExact PlanIsTruthful HistoryFollowsReports
PROPERTY RollbacksAreSound
