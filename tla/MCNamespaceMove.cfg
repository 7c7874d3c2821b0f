\* A move onto an entry that has an owner.
SPECIFICATION Spec
SYMMETRY Symmetry
CONSTANTS
  r1 = r1
  r2 = r2
  a = a
  b = b
  c = c
  Request = {r1, r2}
  Top = {a, b}
  Inner = {c}
  Recorded = TRUE
  MaxNodes = 6
  MaxCalls = 3
  MaxDays = 0
  MaxTroubles = 0
CHECK_DEADLOCK FALSE
PROPERTIES
  MoveCarriesRules
