SPECIFICATION Spec
CONSTANTS
  Symbols = {f, g}
  Namings = {"relative", "absolute"}
  Drivers = {drive}
  Repeats = 2
  MaxCalls = 3
  None = None
PROPERTIES
  SubjectUntouched
CHECK_DEADLOCK FALSE
