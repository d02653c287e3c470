SPECIFICATION Spec
CONSTANTS
  Sources = {s1}
  Feeds = {1, 2}
  Faulty = {"put", "retire", "copy", "purge"}
  MaxEpoch = 3
  MaxFaults = 2
  MaxCrashes = 1
  MaxChanges = 2
INVARIANTS NamedIsReadable NoOrphanEpoch
PROPERTIES SyncedIsShown FlagIsJudged
CHECK_DEADLOCK FALSE
