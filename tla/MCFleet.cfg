SPECIFICATION FairSpec
CONSTANTS
  x = x
  y = y
  Symbol = {x, y}
  MaxRestarts = 1
  MaxFailures = 1
  MaxStops = 1
INVARIANTS
  TypeOK
  NoOrphans
  HealthyKept
PROPERTIES
  HangIsReported
CHECK_DEADLOCK FALSE
