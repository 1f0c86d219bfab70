\* One process, one symbol: the second run advances from the file of the first.
CONSTANTS
  Process = {p}
  Symbol = {x}
  NoSymbol = NoSymbol
  Price = {1}
  FreeVerdict = {"APPROVE", "REJECT"}
  MaxBar = 3
  MaxRuns = 2
  MaxToggles = 0
  MaxDeletes = 0
  MaxCrashes = 0
SPECIFICATION Spec
CHECK_DEADLOCK FALSE
PROPERTIES FetchIsFresh
