SPECIFICATION Spec
CONSTANTS
  Sources = {s1}
  Feeds = {1, 2}
  Faulty = {"put", "retire", "copy", "purge"}
  MaxEpoch = 3
  MaxFaults = 0
  MaxCrashes = 1
  MaxChanges = 2
INVARIANTS LeakEndsWithEpoch
CHECK_DEADLOCK FALSE
