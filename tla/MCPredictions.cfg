\* Two evaluators; the first prediction can never be evaluated.
CONSTANTS
  Evaluator = {p, q}
  BarShape <- Shapes
  Broken = 1
  HorizonBars = 2
  Lookback = 2
  Limit = 2
  MaxBars = 4
  MaxPredictions = 2
  MaxFaults = 1
SPECIFICATION FairSpec
CHECK_DEADLOCK FALSE
INVARIANTS
  ResolvedByTheFirstBar
PROPERTIES
  EveryPredictionIsEvaluated
