SPECIFICATION FairSpec
CONSTANTS
  p1 = p1
  p2 = p2
  Proc = {p1, p2}
  Slots <- MCSlots
  ClosedDay = {1}
  TicksPerDay = 4
  Staleness = 2
  MaxClock = 5
  MaxRuns = 2
  MaxFailures = 1
INVARIANTS
  TypeOK
  OneLock
  OverlapOnlyWhenStale
PROPERTIES
  OutcomeIsFinal
  StaleLockIsReleased
