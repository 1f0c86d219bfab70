SPECIFICATION Spec
CONSTANTS
  r1 = r1
  r2 = r2
  Receiver = {r1, r2}
  Open = 11
  MaxTime = 16
  Price <- MCPrice
  OddTick <- MCOddTick
  MaxOdd = 2
  MaxLag = 1
  MaxRestarts = 1
  MaxQueuedBars = 2
  MaxBufferBars = 2
  BucketSeconds = 2
  MaxSkew = 3
  MaxReceiptSkew = 3
  MaxDeviation = 20
INVARIANTS
  NoPriceShutsOut
SYMMETRY Symmetry
CHECK_DEADLOCK FALSE
