SPECIFICATION FairSpec
CONSTANTS
  Cycles = 3
  MaxSeq = 5
  MayFail = TRUE
  None = None
INVARIANTS
  CertifiedIsSound
  ExperimentsStartAlike
PROPERTIES
  ChoiceEnds
CHECK_DEADLOCK FALSE
