SPECIFICATION Spec
CONSTANTS
  Ids = {c1, c2}
  BusyEdits = TRUE
  BusyDeletes = FALSE
  ContentTags = FALSE
  MaxChanges = 2
  MaxCrashes = 0
PROPERTIES Converges
CHECK_DEADLOCK FALSE
