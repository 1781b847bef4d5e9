SPECIFICATION FairSpec
CONSTANTS
  Sessions = {ablation, candidate}
  Candidates = {candidate}
  Paths = {source, test}
  Protected = {test}
  MaxRuns = 2
  None = None
INVARIANTS
  WorktreesKept
  RunningIsKnown
  ProtectedStayOut
PROPERTIES
  CallReturns
CHECK_DEADLOCK FALSE
