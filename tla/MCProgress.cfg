SPECIFICATION Spec
CONSTANTS
  NoAlert = NoAlert
  Scenarios = {"life", "push", "pair", "audit", "hub", "alerts", "run"}
CHECK_DEADLOCK FALSE
PROPERTIES EmptyIsArchived RollbackSettles AllDelivered HubKeepsGoing AlertsFollowTheFleet ShutdownEnds
