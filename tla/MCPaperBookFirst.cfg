SPECIFICATION Spec
CONSTANTS
  A = A
  B = B
  p1 = p1
  p2 = p2
  Proc = {p1, p2}
  Symbol = {A, B}
  Signal <- MCSignal
  BarShape <- MCBarShape
  InitialCapital = 100
  RiskConfig <- MCRiskConfig
  CostModel <- MCCostModel
  MaxTime = 1
  BarsPerDay = 2
  MaxHoldingBars = 2
  AccountRowAtStart = FALSE
SYMMETRY Symmetry
INVARIANTS
  AccountMatchesTrades
