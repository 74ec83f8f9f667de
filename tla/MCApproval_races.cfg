SPECIFICATION Spec
CONSTANTS
  HasTimer = TRUE
  MayCancel = TRUE
  MayDelete = TRUE
  Durable = FALSE
  MaxCrashes = 2
INVARIANTS TypeOK TrueHasResults AskedOnce RestIsDone
PROPERTIES GateSpec CompletedIsFinal
CHECK_DEADLOCK FALSE
