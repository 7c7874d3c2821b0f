\* Two jobs and a reader over a file that may hold five archives.
SPECIFICATION Spec
SYMMETRY Symmetry
CONSTANTS
  j1 = j1
  j2 = j2
  r = r
  Job = {j1, j2}
  Reader = {r}
  Archives <- MCArchives
  Stamps = {1, 2}
  Entries = 2
  Bytes = 6
  Ratio = 2
  Floor = 1
  Word = 16
  MaxTroubles = 2
CHECK_DEADLOCK FALSE
INVARIANTS
  DigestIsOfTheFile
  TreesAreWhole
  BytesAreBounded
