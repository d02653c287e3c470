SPECIFICATION FairSpec
CONSTANTS
  d1 = d1
  d2 = d2
  d3 = d3
  Device = {d1, d2}
  Stream = {s1}
  Session = {c1, c2}
  Admin = {a1}
  AdminOps = {"create", "delete"}
  Policy = "reject"
  DefaultCap = 1
  Caps = {1, 2}
  MaxTries = 2
  LegacyUsers <- MCCrowded
  MaxLen = 6
  MaxDay = 2
INVARIANTS RevisionInv NeverSilentlyBack
PROPERTIES DeviceLimitAtWrite SignInAnswered
CHECK_DEADLOCK FALSE
