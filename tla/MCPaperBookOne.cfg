SPECIFICATION Spec
CONSTANTS
  A = A
  B = B
  p1 = p1
  p2 = p2
  Proc = {p1}
  Symbol = {A, B}
  Signal <- MCSignalCash
  BarShape <- MCBarShape
  InitialCapital = 100
  RiskConfig <- MCRiskConfigCash
  CostModel <- MCCostModel
  MaxTime = 2
  BarsPerDay = 2
  MaxHoldingBars = 2
  AccountRowAtStart = FALSE
INVARIANTS
  LedgerReconciles
PROPERTIES
  HistoryIsFinal
  OrdersAreAffordable
