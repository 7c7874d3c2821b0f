\* A link whose account is deleted and whose number is borne again.
SPECIFICATION Spec
SYMMETRY Symmetry
CONSTANTS
  r1 = r1
  r2 = r2
  a = a
  b = b
  Top = Top
  Request = {r1, r2}
  File = {a, b}
  Selections <- MCSelections
  Rights <- MCRights
  MaxLinks = 1
  MaxDownloads = 1
  MaxChanges = 2
  MaxTroubles = 1
CHECK_DEADLOCK FALSE
INVARIANTS
  ServedAsMaker
