SPECIFICATION FairSpec
CONSTANTS
  Acct = {"x"}
  AdminTier = {"adm"}
  Reseller = {"r"}
  Scope <- MCScope
  Credits <- MCCredits
  Foreign = {}
  Client = {c1}
  Ops = {"activate", "renew", "suspend", "resume", "remove", "disableAll", "enableAll"}
  Months = {1}
  MonthTicks = 2
  TrialTicks = 1
  Repair = TRUE
  Faults = {"silent", "crash", "slowDecorate"}
  MaxFaults = 1
  Horizon = 2
  MaxRecords = 1
INVARIANT CoverageIsGranted
PROPERTIES LapsedIsCutOff SuspendReachesAll
CHECK_DEADLOCK FALSE
