SPECIFICATION Spec
CONSTANTS
  d1 = d1
  d2 = d2
  d3 = d3
  Device = {d1, d2}
  Stream = {s1}
  Session = {c1, c2}
  Admin = {a1}
  AdminOps = {"create", "delete", "cap"}
  Policy = "evict"
  DefaultCap = 1
  Caps = {1, 2}
  MaxTries = 2
  LegacyUsers <- MCLegacyUsers
  MaxLen = 6
  MaxDay = 2
INVARIANTS NeverSilentlyBack
CHECK_DEADLOCK FALSE
