SPECIFICATION FairSpec
CONSTANTS
  Symbols = {f, g}
  Namings = {"relative"}
  Drivers = {drive}
  Repeats = 2
  MaxCalls = 3
  None = None
INVARIANTS
  OneProgram
  ProfileIsOfItsRun
PROPERTIES
  SubjectUntouched
  CallAnswered
CHECK_DEADLOCK FALSE
