\* Two overlapping runs over two symbols; every fault may happen once.
CONSTANTS
  Process = {p, q}
  Symbol = {x, y}
  NoSymbol = NoSymbol
  Price = {low, high}
  FreeVerdict = {"APPROVE", "REJECT"}
  MaxBar = 2
  MaxRuns = 2
  MaxToggles = 1
  MaxDeletes = 1
  MaxCrashes = 1
SYMMETRY Symmetry
SPECIFICATION Spec
CHECK_DEADLOCK FALSE
INVARIANTS
  TypeOK
  OneOrderPerPrediction
PROPERTIES
  HaltHoldsFills
