SPECIFICATION Spec
CONSTANTS
  main = main
  w1 = w1
  w2 = w2
  x = x
  y = y
  Main = main
  Watcher = {w1}
  Symbol = {x, y}
  MaxReconnectAttempts = 1
  MaxStable = 1
SYMMETRY Symmetry
INVARIANTS
  TypeOK
  ConnectedIsOpen
  SubscriptionSent
  StormBounded
CHECK_DEADLOCK FALSE
