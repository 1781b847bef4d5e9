SPECIFICATION Spec
CONSTANTS
  Sessions = {ablation, candidate}
  Candidates = {candidate}
  Paths = {source, test}
  Protected = {test}
  MaxRuns = 2
  None = None
INVARIANTS
  ResultIsTheWorkloads
CHECK_DEADLOCK FALSE
