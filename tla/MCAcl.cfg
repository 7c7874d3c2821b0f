\* One question and two administrators over an account, a group and two levels of folders.
SPECIFICATION Spec
SYMMETRY Symmetry
CONSTANTS
  k = k
  m1 = m1
  m2 = m2
  x = x
  y = y
  User = {1}
  Group = {1}
  Path <- MCPath
  Questions <- MCQuestions
  Bits = {"read"}
  Asker = {k}
  Admin = {m1, m2}
  MaxRules = 2
  MaxStart = 2
  MaxBirths = 3
  MaxChanges = 4
  MaxSeen = 1
  MaxTroubles = 1
CHECK_DEADLOCK FALSE
INVARIANTS
  AclTypeOK
  VerdictOfAMoment
  ReachableIsShown
  RuleStaysWithItsSubject
