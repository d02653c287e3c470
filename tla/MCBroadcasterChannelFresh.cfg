SPECIFICATION Spec
CONSTANTS
  Client = {c1, c2}
  Pool = pool
  Faults = {"crash", "refuse", "breaks"}
  MaxGen = 5
  MaxSource = 2
  MaxOps = 5
  MaxFaults = 2
PROPERTY FreshFeed
CHECK_DEADLOCK FALSE
