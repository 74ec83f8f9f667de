SPECIFICATION DeliverySpec
CONSTANTS
  r1 = r1
  r2 = r2
  b1 = b1
  b2 = b2
  i1 = i1
  i2 = i2
  old = old
  None = None
  Runs <- MCRuns
  Builds <- MCBuilds
  Images <- MCImages
  Image0 = old
  NMachines = 2
INVARIANTS
  GreenRepairs
  ServiceStays
  ApprovedIsBuilt
  ServedIsWanted
SYMMETRY MCSymmetry
\* Builds and runs are used up in the end.
CHECK_DEADLOCK FALSE
