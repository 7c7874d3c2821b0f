\* Two calls at once, two accounts at one time and three links.
SPECIFICATION Spec
SYMMETRY Symmetry
CONSTANTS
  r1 = r1
  r2 = r2
  Request = {r1, r2}
  Bodies <- MCBodies
  MaxUsers = 2
  MaxTokens = 3
  MaxTroubles = 1
CHECK_DEADLOCK FALSE
INVARIANTS
  SpentOnce
  AdminRemains
