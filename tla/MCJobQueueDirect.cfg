\* One job, one Cancel, no crash: the window between claim and registration.
SPECIFICATION Spec
CONSTANTS
  c1 = c1
  c2 = c2
  Client = {c1}
  NJobs = 1
  Unknown = {}
  MaxCalls = 1
  MaxStops = 0
  MaxFails = 0
INVARIANTS
  DirectCancelFinishes
