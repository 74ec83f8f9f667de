SPECIFICATION Spec
CONSTANTS
  u1 = u1
  u2 = u2
  u3 = u3
  Users <- MCUsers
  Nobody = Nobody
  Eligible <- OnePerson
  Strategy = "FOUR_EYES"
  GroupApproval = FALSE
  NEntries = 1
  Durable = TRUE
  MaxCrashes = 0
INVARIANTS AssigneesDecide
CHECK_DEADLOCK FALSE
