SPECIFICATION Spec
CONSTANTS
  s1 = s1
  s2 = s2
  r1 = r1
  r2 = r2
  a = a
  b = b
  NoSignal = NoSignal
  Session = {s1}
  Request = {}
  AutoSession = {}
  Signal = {a}
  BarOf <- MCBarOf
  MaxBar = 2
  MaxCrashes = 0
PROPERTIES
  NoApprovalAfterKill
