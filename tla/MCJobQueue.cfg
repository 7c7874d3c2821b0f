\* Two jobs, one of a type nobody handles; requests, a stop, a failed statement.
SPECIFICATION FairSpec
CONSTANTS
  c1 = c1
  c2 = c2
  NJobs = 2
  Unknown = {2}
  Client = {c1,c2}
  MaxCalls = 3
  MaxStops = 1
  MaxFails = 1
INVARIANTS
  TypeOK
  RunOwnsRow
  NoRunningRowLeftBehind
  OutcomeWasAsked
PROPERTIES
  FinishedStays
  PauseHolds
  ImplementsLifecycle
  EveryJobEnds
