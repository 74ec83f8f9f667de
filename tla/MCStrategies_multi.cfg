SPECIFICATION FairSpec
CONSTANTS
  u1 = u1
  u2 = u2
  u3 = u3
  Users <- MCUsers
  Nobody = Nobody
  Eligible <- MCEligible
  Strategy = "MULTI"
  GroupApproval = TRUE
  NEntries = 3
  Durable = FALSE
  MaxCrashes = 2
INVARIANTS TypeOK NamesSaidSo NoAnswerUncounted
PROPERTIES VoteSpec EventuallyDecided
CHECK_DEADLOCK FALSE
