SPECIFICATION Spec
CONSTANTS
  Stream = {s1}
  Pointers = {"epg"}
  Faults = {"open"}
  MaxFeed = 2
  MaxLen = 1
  MaxChanges = 2
  MaxFaults = 1
PROPERTY FailedIsRetried
CHECK_DEADLOCK FALSE
