SPECIFICATION Spec
CONSTANTS
  r1 = r1
  r2 = r2
  r3 = r3
  com = com
  ccm = ccm
  t0 = t0
  t1 = t1
  t2 = t2
  Runs <- MCRuns
  Apps <- MCApps
  Tags <- MCTags
  Stage <- MCStage
  App <- MCApp
  Tag <- MCTag
  Tag0 = t0
INVARIANTS TypeOK DrFollowsMain SuccessIsPublished RejectedByAnother
PROPERTIES BoardSpec ClustersFollow
CHECK_DEADLOCK FALSE
