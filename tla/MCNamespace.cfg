\* Two requests at a time, four in all, over two names and one beneath them.
SPECIFICATION Spec
SYMMETRY Symmetry
CONSTANTS
  r1 = r1
  r2 = r2
  a = a
  b = b
  c = c
  Request = {r1, r2}
  Top = {a, b}
  Inner = {c}
  Recorded = FALSE
  MaxNodes = 7
  MaxCalls = 4
  MaxDays = 1
  MaxTroubles = 1
CHECK_DEADLOCK FALSE
INVARIANTS
  NamespaceTypeOK
  RowsHaveEntries
  NoTempLeft
PROPERTIES
  NothingVanishes
  CopyIsWhole
