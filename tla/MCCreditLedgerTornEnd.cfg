SPECIFICATION Spec
CONSTANTS
  Principal = {"root", "s"}
  Root = "root"
  AdminTier = {"root"}
  Parent <- MCParent
  Event = {}
  EventTo <- MCEventTo
  Client = {c1, c2}
  Ops = {"mint", "spend"}
  Amounts = {1}
  Adjusts = {1}
  Faults = {"crash", "tornPart", "tornEnd"}
  EventsMax = 2
  MaxLines = 3
INVARIANT AckedSurvives
CHECK_DEADLOCK FALSE
