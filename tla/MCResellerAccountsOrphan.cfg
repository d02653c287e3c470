SPECIFICATION Spec
CONSTANTS
  Acct = {"x"}
  AdminTier = {}
  Reseller = {"r"}
  Scope <- MCScope
  Credits <- MCCredits
  Foreign = {}
  Client = {c1, c2}
  Ops = {"activate"}
  Months = {1}
  MonthTicks = 2
  TrialTicks = 1
  Repair = FALSE
  Faults = {"crash"}
  MaxFaults = 1
  Horizon = 3
  MaxRecords = 2
SYMMETRY MCSymmetry
INVARIANT NoOrphan
CHECK_DEADLOCK FALSE
