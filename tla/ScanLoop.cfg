SPECIFICATION FairSpec
CONSTANTS
  Turns = 6
  StallTurns = 3
  FindingsPerScan = 1
  MaxMeasurements = 4
  MaxClaims = 2
INVARIANTS
  MeasuredFirst
  FindingsAreProven
PROPERTIES
  LoopEnds
CHECK_DEADLOCK FALSE
