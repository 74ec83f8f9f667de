SPECIFICATION Spec
CONSTANTS
  r1 = r1
  r2 = r2
  v1 = v1
  v2 = v2
  Runs <- MCRuns
  Revisions <- MCRevisions
  Events <- MCEvents
INVARIANTS
  TypeOK
  DeployedIsApproved
  DeployedIsBuilt
  WholeUnlessShared
  SuccessIsDeployed
  VolumeHasOwners
PROPERTY RunsEnd
\* Runs come to an end; that they do is RunsEnd.
CHECK_DEADLOCK FALSE
