\* Two clients upload to one name.
SPECIFICATION ClientSpec
CONSTANTS
  s1 = s1
  s2 = s2
  r1 = r1
  r2 = r2
  NoOne = NoOne
  Session = {s1, s2}
  Request = {r1, r2}
  Size = 1
  TTL = 1
  BadSum = {}
  Purging = FALSE
  MaxTime = 0
  MaxCalls = 4
  MaxSweeps = 0
  MaxStops = 0
  MaxFaults = 0
  MaxOthers = 0
CHECK_DEADLOCK FALSE
INVARIANTS
  DoneIsPublished
