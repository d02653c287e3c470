SPECIFICATION FairSpec
CONSTANTS
  Acct = {"x", "y"}
  AdminTier = {"adm"}
  Reseller = {"r"}
  Scope <- MCScope
  Credits <- MCCredits
  Foreign = {}
  Client = {c1}
  Ops = {"trial", "disableAll", "enableAll"}
  Months = {1}
  MonthTicks = 2
  TrialTicks = 1
  Repair = FALSE
  Faults = {"appendFails"}
  MaxFaults = 1
  Horizon = 1
  MaxRecords = 2
PROPERTIES LapsedIsCutOff SuspendReachesAll
CHECK_DEADLOCK FALSE
