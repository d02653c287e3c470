SPECIFICATION Spec
CONSTANTS
  Acct = {"x", "f"}
  AdminTier = {}
  Reseller = {"r"}
  Scope <- MCScope
  Credits <- MCCredits
  Foreign = {"f"}
  Client = {c1, c2}
  Ops = {"activate", "trial", "renew", "suspend", "resume", "remove"}
  Months = {1}
  MonthTicks = 2
  TrialTicks = 1
  Repair = FALSE
  Faults = {}
  MaxFaults = 0
  Horizon = 3
  MaxRecords = 2
SYMMETRY MCSymmetry
INVARIANTS JournalBrackets PromiseKept ForeignUntouched
CHECK_DEADLOCK FALSE
