SPECIFICATION Spec
CONSTANTS
  Acct = {"x", "f"}
  AdminTier = {}
  Reseller = {"r"}
  Scope <- MCScope
  Credits <- MCCredits
  Foreign = {"f"}
  Client = {c1, c2}
  Ops = {"activate", "trial", "renew", "suspend", "resume", "remove"}
  Months = {1}
  MonthTicks = 2
  TrialTicks = 1
  Repair = FALSE
  Faults = {"appendFails"}
  MaxFaults = 1
  Horizon = 2
  MaxRecords = 2
SYMMETRY MCSymmetry
INVARIANTS NoOverdraft RefundsWithinPaid
PROPERTY DeletedStaysDeleted
CHECK_DEADLOCK FALSE
