SPECIFICATION Spec
CONSTANTS
  Ids = {c1, c2}
  BusyEdits = FALSE
  BusyDeletes = FALSE
  ContentTags = FALSE
  MaxChanges = 3
  MaxCrashes = 1
INVARIANTS NoZombie GrantsFit
PROPERTIES PurgeRevokes Converges
CHECK_DEADLOCK FALSE
