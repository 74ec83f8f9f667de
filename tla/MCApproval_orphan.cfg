SPECIFICATION Spec
CONSTANTS
  HasTimer = FALSE
  MayCancel = FALSE
  MayDelete = TRUE
  Durable = FALSE
  MaxCrashes = 1

PROPERTIES CompletedIsCleanedUp
CHECK_DEADLOCK FALSE
