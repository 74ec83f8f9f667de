SPECIFICATION AnsweredSpec
CONSTANTS
  HasTimer = FALSE
  MayCancel = FALSE
  MayDelete = FALSE
  Durable = FALSE
  MaxCrashes = 1

PROPERTIES EventuallyOutcome
CHECK_DEADLOCK FALSE
