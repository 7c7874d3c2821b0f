\* Retention beside a purge and a deletion.
SPECIFICATION Spec
SYMMETRY Symmetry
CONSTANTS
  r1 = r1
  r2 = r2
  a = a
  b = b
  c = c
  Request = {r1, r2}
  Top = {a, b}
  Inner = {c}
  Recorded = FALSE
  MaxNodes = 6
  MaxCalls = 4
  MaxDays = 1
  MaxTroubles = 0
CHECK_DEADLOCK FALSE
INVARIANTS
  RetentionSparesNew
