\* Each template, six programs, three calls; materials with a low and a high default cutoff.
SPECIFICATION Spec
CONSTANTS
  Requests <- MCRequests
  DefaultMesh = 6
  DefaultBands = 22
  NeededBands = 20
  MaxPrograms = 6
  MaxCalls = 3
INVARIANTS LineageHasCause AxisHasCause
PROPERTY RepairsStrengthen
CHECK_DEADLOCK FALSE
