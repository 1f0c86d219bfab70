SPECIFICATION FairSpec
CONSTANTS
  main = main
  w1 = w1
  w2 = w2
  x = x
  y = y
  Main = main
  Watcher = {w1, w2}
  Symbol = {x}
  MaxReconnectAttempts = 1
  MaxStable = 1
PROPERTIES
  AttemptsSettle
  SilenceDetected
CHECK_DEADLOCK FALSE
