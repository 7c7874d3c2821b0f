\* One download, paused, resumed, cancelled, interrupted and failing anywhere.
SPECIFICATION FetchFairSpec
CONSTANTS
  c1 = c1
  Client = {c1}
  NJobs = 1
  Unknown = {}
  MaxCalls = 2
  MaxStops = 1
  MaxFails = 0
  Size = 2
  MaxVersion = 2
  Ranges = TRUE
  Free = {2, 4}
  Reserve = 1
  MaxInt = 4
  MaxOthers = 1
  Faulty = TRUE
INVARIANTS
  PublishedIsWhole
  DoneMeansPublished
  PublishedOnce
PROPERTIES
  BytesAreKept
  EveryJobEnds
