SPECIFICATION Spec
CONSTANTS
  HasTimer = TRUE
  MayCancel = TRUE
  MayDelete = TRUE
  Durable = TRUE
  MaxCrashes = 0
INVARIANTS OutcomeMatchesTask
PROPERTIES EventuallyOutcome EndedIsNotAsked DeletedIsCleanedUp
CHECK_DEADLOCK FALSE
