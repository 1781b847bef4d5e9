SPECIFICATION FairSpec
CONSTANTS
  Approaches = {p,q}
  Edits = {x,y}
  Results <- MCResults
  Baseline <- MCBaseline
  MaxCandidates = 3
  MaxRounds = 3
  PerRound = 2
  CheapAttempts = 2
  Rungs = 2
  Inputs = {i,j}
  MaxTurns = 2
  PerTurn = 1
  HasJournal = TRUE
  NoPatch = NoPatch
INVARIANTS
  NoEditMeasuredTwice
  EscalationIsEarned
PROPERTIES
  KeepsTheBest
  ClearedWasCompared
  NodeEnds
CHECK_DEADLOCK FALSE
