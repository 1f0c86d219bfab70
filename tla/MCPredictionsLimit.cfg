\* More predictions than the limit of the list, and nothing else goes wrong.
CONSTANTS
  Evaluator = {p}
  BarShape <- Quiet
  Broken = 0
  HorizonBars = 1
  Lookback = 2
  Limit = 1
  MaxBars = 3
  MaxPredictions = 2
  MaxFaults = 0
SPECIFICATION FairSpec
CHECK_DEADLOCK FALSE
PROPERTIES
  EveryPredictionIsEvaluated
