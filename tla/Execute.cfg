SPECIFICATION FairSpec
CONSTANTS
  Leader = Leader
  Kids = {kid, grandkid}
  Capacity = 1
  MaxWrites = 2
INVARIANTS
  ResultIsWhole
  LeaderNeverOutlives
  OnlyBehindItsLeader
PROPERTIES
  CallEnds
CHECK_DEADLOCK FALSE
