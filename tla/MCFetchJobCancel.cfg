\* A cancelled download and its staged bytes.
SPECIFICATION FetchSpec
CONSTANTS
  c1 = c1
  Client = {c1}
  NJobs = 1
  Unknown = {}
  MaxCalls = 2
  MaxStops = 0
  MaxFails = 0
  Size = 2
  MaxVersion = 1
  Ranges = TRUE
  Free = {4}
  Reserve = 1
  MaxInt = 4
  MaxOthers = 0
  Faulty = FALSE
INVARIANTS
  CancelDiscardsStage
