SPECIFICATION Spec
CONSTANTS
  Principal = {"root", "co", "r"}
  Root = "root"
  AdminTier = {"root", "co"}
  Parent <- MCParent
  Event = {}
  EventTo <- MCEventTo
  Client = {c1, c2}
  Ops = {"mint", "reclaim", "delete", "create"}
  Amounts = {1}
  Adjusts = {1}
  Faults = {}
  EventsMax = 2
  MaxLines = 3
SYMMETRY MCSymmetry
INVARIANT CreditsHaveAnOwner
CHECK_DEADLOCK FALSE
