\* Two requests at once over one account with two sessions, two sets of a code and one cut.
SPECIFICATION Spec
SYMMETRY Symmetry
CONSTANTS
  r1 = r1
  r2 = r2
  Request = {r1, r2}
  Slot = {1, 2}
  SetSize = 1
  Limit = 1
  MaxEra = 1
  MaxSets = 2
  MaxTroubles = 1
CHECK_DEADLOCK FALSE
INVARIANTS
  SessionsEnd
  CodesAreSpentOnce
  AttemptsAreBounded
