SPECIFICATION Spec
CONSTANTS
  Sources = 2
  Ways = {"good", "dead", "hangs"}
  StallGrace = 5
  BackoffReset = 15
  PrimaryRetry = 75
  SlateRetry = 8
  FailoverAfter = 2
  SlateAfter = 2
  MaxChanges = 2
INVARIANTS DarkIsBounded
PROPERTIES GoodIsFound DeadEndsInSlate
CHECK_DEADLOCK FALSE
