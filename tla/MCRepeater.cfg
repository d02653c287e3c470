SPECIFICATION Spec
CONSTANTS
  Stream = {s1}
  Pointers = {"epg"}
  Faults = {"restart", "read", "open", "park"}
  MaxFeed = 2
  MaxLen = 1
  MaxChanges = 2
  MaxFaults = 1
INVARIANTS WindowIsBounded NoGhostRange
PROPERTIES Follows Expires
CHECK_DEADLOCK FALSE
