SPECIFICATION Spec
CONSTANTS
  Stream = {s1, s2}
  Pointers = {}
  Faults = {"restart", "read", "open"}
  MaxFeed = 1
  MaxLen = 1
  MaxChanges = 2
  MaxFaults = 1
INVARIANTS TypeOK WindowIsBounded NoGhostRange NoStrayCore
PROPERTY YoungIsKept
CHECK_DEADLOCK FALSE
