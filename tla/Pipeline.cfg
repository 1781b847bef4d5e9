SPECIFICATION FairSpec
CONSTANTS
  FindingsPerScan = 1
  MaxCandidates = 2
  RecursionLimit = 9
  Gates = {"ship"}
  HasJournal = TRUE
  HasRepairs = TRUE
  Walls = 1
  MaxFindings = 2
  MaxMeasurements = 4
  MaxOffer = 2
  MaxRuns = 2
  None = None
INVARIANTS
  StateAndRouteAgree
  HistoryNotRepeated
  BacklogIsEmpty
  ShipsWhatWasAudited
  CheckpointCarriesEvidence
  JournalAheadOfCheckpoint
PROPERTIES
  EvidenceAtHand
  ReportIsOfOnePatch
  KeepsPromise
  InvocationEnds
