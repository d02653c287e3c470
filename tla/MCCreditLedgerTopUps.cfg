SPECIFICATION FairSpec
CONSTANTS
  Principal = {"root", "s", "r"}
  Root = "root"
  AdminTier = {"root"}
  Parent <- MCParent
  Event = {e1, e2}
  EventTo <- MCEventTo
  Client = {c1, c2}
  Ops = {"topup", "transfer", "spend"}
  Amounts = {1, 2}
  Adjusts = {1}
  Faults = {"appendFails"}
  EventsMax = 2
  MaxLines = 4
INVARIANT TopUpCredited
PROPERTIES TopUpOnce Served
CHECK_DEADLOCK FALSE
