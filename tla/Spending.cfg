SPECIFICATION SpendingSpec
CONSTANTS
  Price <- MCPrice
  Ceiling = 300
  Prompts = {1}
  Limit = 0
  MaxCalls = 3
  MaxLosses = 1
  NoCall = NoCall
  Findings = {f, g}
  Caps <- MCCaps
  StallAfter = 2
  Conclusions = {flat, linear}
  None = None
SYMMETRY Symmetry
INVARIANTS
  CeilingHolds
  InvoiceBounded
  StopsAreEarned
CHECK_DEADLOCK FALSE
