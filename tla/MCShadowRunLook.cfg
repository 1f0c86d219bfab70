\* One process, one symbol: runs one after the other, with the cached file
\* deleted between them so that the advance sees new bars.
CONSTANTS
  Process = {p}
  Symbol = {x}
  NoSymbol = NoSymbol
  Price = {1}
  FreeVerdict = {"APPROVE", "REJECT"}
  MaxBar = 3
  MaxRuns = 2
  MaxToggles = 0
  MaxDeletes = 2
  MaxCrashes = 0
SPECIFICATION Spec
CHECK_DEADLOCK FALSE
PROPERTIES NoLookAhead
