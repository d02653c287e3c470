SPECIFICATION Spec
CONSTANTS
  Principal = {"root", "s", "r"}
  Root = "root"
  AdminTier = {"root"}
  Parent <- MCParent
  Event = {}
  EventTo <- MCEventTo
  Client = {c1, c2}
  Ops = {"mint", "transfer", "reclaim", "adjust", "delete", "create", "spend"}
  Amounts = {1}
  Adjusts = {1}
  Faults = {"crash", "tornPart", "appendFails"}
  EventsMax = 2
  MaxLines = 3
SYMMETRY MCSymmetry
INVARIANTS TypeOK NoOverdraft AckedSurvives CanStart SeqGrows MemoryIsTheFile CreditsHaveAnOwner
CHECK_DEADLOCK FALSE
