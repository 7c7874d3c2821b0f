\* A session that expires between a Write and a Cancel of it.
SPECIFICATION Spec
CONSTANTS
  s1 = s1
  s2 = s2
  r1 = r1
  r2 = r2
  NoOne = NoOne
  Session = {s1}
  Request = {r1, r2}
  Size = 1
  TTL = 1
  BadSum = {}
  Purging = FALSE
  MaxTime = 1
  MaxCalls = 3
  MaxSweeps = 0
  MaxStops = 0
  MaxFaults = 0
  MaxOthers = 0
CHECK_DEADLOCK FALSE
PROPERTIES
  CancelAbandons
