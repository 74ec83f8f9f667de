SPECIFICATION Spec
CONSTANTS
  j1 = j1
  j2 = j2
  j3 = j3
  Jobs <- MCJobs
  Keep = 2
  MaxBackups = 3
SYMMETRY MCSymmetry
INVARIANTS
  NewestSurvive
  EnoughKept
  SettlesAtKeep
\* Jobs are used up in the end.
CHECK_DEADLOCK FALSE
