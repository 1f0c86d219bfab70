SPECIFICATION Spec
CONSTANTS
  x = x
  y = y
  Symbol = {x, y}
  MaxRestarts = 1
  MaxFailures = 0
  MaxStops = 0
INVARIANTS
  EndsWhenAllExited
CHECK_DEADLOCK FALSE
