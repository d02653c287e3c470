SPECIFICATION Spec
CONSTANTS
  Sources = 3
  Ways = {"good", "dead", "hangs"}
  StallGrace = 5
  BackoffReset = 15
  PrimaryRetry = 75
  SlateRetry = 8
  FailoverAfter = 2
  SlateAfter = 3
  MaxChanges = 0
PROPERTY OfflineEndsInSlate
CHECK_DEADLOCK FALSE
