SPECIFICATION Spec
CONSTANTS
  FindingsPerScan = 1
  MaxCandidates = 1
  RecursionLimit = 12
  Gates = {"ship"}
  HasJournal = TRUE
  HasRepairs = TRUE
  Walls = 1
  MaxFindings = 3
  MaxMeasurements = 2
  MaxOffer = 1
  MaxRuns = 1
  None = None
INVARIANTS
  EvidenceIsFresh
