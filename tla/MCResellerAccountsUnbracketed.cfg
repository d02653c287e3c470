SPECIFICATION Spec
CONSTANTS
  Acct = {"x", "f"}
  AdminTier = {}
  Reseller = {"r"}
  Scope <- MCScope
  Credits <- MCCredits
  Foreign = {"f"}
  Client = {c1, c2}
  Ops = {"activate"}
  Months = {1}
  MonthTicks = 2
  TrialTicks = 1
  Repair = FALSE
  Faults = {"crash"}
  MaxFaults = 1
  Horizon = 3
  MaxRecords = 2
SYMMETRY MCSymmetry
INVARIANT JournalBrackets
CHECK_DEADLOCK FALSE
