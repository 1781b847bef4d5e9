SPECIFICATION Spec
CONSTANTS
  Launches = {l1, l2}
  Subjects = {"full", "deep", "ino", "tiny"}
  Files <- MCFiles
  MaxFiles = 2
  None = None
INVARIANTS
  NothingRunsUnscreened
  CarriesTheCollector
  OwnImageUnlessRebuilt
  JournalIsGuarded
CHECK_DEADLOCK FALSE
