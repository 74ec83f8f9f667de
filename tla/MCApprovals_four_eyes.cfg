SPECIFICATION FairSystemSpec
CONSTANTS
  u1 = u1
  u2 = u2
  Users <- MCUsers
  Nobody = Nobody
  Eligible <- MCEligible
  Strategy = "FOUR_EYES"
  GroupApproval = TRUE
  NEntries = 1
  Durable = TRUE
  MaxCrashes = 2
  HasTimer = FALSE
  MayCancel = TRUE
  MayDelete = FALSE
INVARIANTS TwoPairsOfEyes OutcomeNeedsEyes WaitsForSomebody
PROPERTIES OperatorSpec PipelineGoesOn
\* The run is completed and the operator idle.
CHECK_DEADLOCK FALSE
