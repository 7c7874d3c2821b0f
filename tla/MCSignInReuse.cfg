\* The same instance, for what is said of replaced codes.
SPECIFICATION Spec
SYMMETRY Symmetry
CONSTANTS
  r1 = r1
  r2 = r2
  Request = {r1, r2}
  Slot = {1, 2}
  SetSize = 1
  Limit = 1
  MaxEra = 1
  MaxSets = 2
  MaxTroubles = 1
CHECK_DEADLOCK FALSE
PROPERTIES
  OldCodesStop
