\* Resolutions from the bar that is still forming.
CONSTANTS
  Evaluator = {p, q}
  BarShape <- Shapes
  Broken = 1
  HorizonBars = 2
  Lookback = 2
  Limit = 2
  MaxBars = 4
  MaxPredictions = 2
  MaxFaults = 1
SPECIFICATION Spec
CHECK_DEADLOCK FALSE
INVARIANTS
  ResolvingBarsDoNotChange
