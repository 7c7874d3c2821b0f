\* One session of two units: three calls, a sweep, a restart, a fault, another user.
SPECIFICATION Spec
SYMMETRY RequestSym
CONSTANTS
  s1 = s1
  s2 = s2
  r1 = r1
  r2 = r2
  NoOne = NoOne
  Session = {s1}
  Request = {r1, r2}
  Size = 2
  TTL = 1
  BadSum = {s1}
  Purging = TRUE
  MaxTime = 2
  MaxCalls = 3
  MaxSweeps = 1
  MaxStops = 1
  MaxFaults = 1
  MaxOthers = 1
CHECK_DEADLOCK FALSE
INVARIANTS
  UploadTypeOK
  PublishedIsWhole
  DoneIsSettled
PROPERTIES
  CancelIsFinal
  BytesAreKept
