\* As MCNamespace: a copy that is published has everything that was listed and
\* stayed (storage/copy.go:97-99). An entry that cannot be looked at is passed over.
SPECIFICATION Spec
SYMMETRY Symmetry
CONSTANTS
  r1 = r1
  r2 = r2
  a = a
  b = b
  c = c
  Request = {r1, r2}
  Top = {a, b}
  Inner = {c}
  Recorded = FALSE
  MaxNodes = 7
  MaxCalls = 4
  MaxDays = 1
  MaxTroubles = 1
CHECK_DEADLOCK FALSE
PROPERTIES
  CopyMissesNothing
