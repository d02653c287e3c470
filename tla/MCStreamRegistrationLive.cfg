SPECIFICATION FairSpec
CONSTANTS
  c1 = c1
  c2 = c2
  Stream = {"a", "b"}
  Conn = {c1, c2}
  AdminOps = {"scope"}
  Wanted = {"a", "b"}
  Scoped = {"a"}
  Faults = {"drop", "crash", "panelCrash"}
  MaxFeed = 2
  MaxOps = 1
  MaxAdmin = 0
  MaxFaults = 1
  MaxAttempts = 1
PROPERTIES LiveIsShown EnrichedInTheEnd
CHECK_DEADLOCK FALSE
