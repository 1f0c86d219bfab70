SPECIFICATION Spec
CONSTANTS
  s1 = s1
  s2 = s2
  r1 = r1
  r2 = r2
  a = a
  b = b
  NoSignal = NoSignal
  Session = {s1, s2}
  Request = {r1}
  AutoSession = {s2}
  Signal = {a}
  BarOf <- MCBarOf
  MaxBar = 2
  MaxCrashes = 1
INVARIANTS
  TypeOK
  ClaimExclusive
  NoOrderWithoutApproval
PROPERTIES
  DecisionIsFinal
