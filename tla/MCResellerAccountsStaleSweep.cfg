SPECIFICATION Spec
CONSTANTS
  Acct = {"x"}
  AdminTier = {}
  Reseller = {"r"}
  Scope <- MCScope
  Credits <- MCCredits
  Foreign = {}
  Client = {c1, c2}
  Ops = {"activate", "renew"}
  Months = {1}
  MonthTicks = 2
  TrialTicks = 1
  Repair = FALSE
  Faults = {}
  MaxFaults = 0
  Horizon = 3
  MaxRecords = 2
SYMMETRY MCSymmetry
PROPERTY SweepCutsOnlyLapsed
CHECK_DEADLOCK FALSE
