SPECIFICATION Spec
CONSTANTS
  Stream = {s1}
  Pointers = {"epg"}
  Faults = {"park"}
  MaxFeed = 2
  MaxLen = 1
  MaxChanges = 2
  MaxFaults = 1
PROPERTY DriveIsKept
CHECK_DEADLOCK FALSE
