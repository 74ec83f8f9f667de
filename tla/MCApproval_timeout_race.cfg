SPECIFICATION Spec
CONSTANTS
  HasTimer = TRUE
  MayCancel = FALSE
  MayDelete = FALSE
  Durable = FALSE
  MaxCrashes = 0

PROPERTIES TimeoutSparesDecision
CHECK_DEADLOCK FALSE
