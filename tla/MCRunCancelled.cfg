SPECIFICATION Spec
CONSTANTS
  Run = {r1}
  NoRun = NoRun
  Key = {k1}
  NoKey = NoKey
  Replica = {p1}
  Operator = {o1}
  Cap = 1
  MaxSteps = 1
  MaxCrashes = 0
CHECK_DEADLOCK FALSE
INVARIANTS
  CancelledNeverResurrected
