SPECIFICATION Spec
CONSTANTS
  Stream = {s1}
  Pointers = {"epg"}
  Faults = {"restart"}
  MaxFeed = 2
  MaxLen = 1
  MaxChanges = 2
  MaxFaults = 1
INVARIANT StorageIsBounded
CHECK_DEADLOCK FALSE
