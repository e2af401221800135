SPECIFICATION Spec
CONSTANTS
  Action = {a1}
  Value = {v1, v2}
  NoValue = NoValue
  Process = {p1, p2}
  Request = {e1}
  Operator = {o1}
  None = None
  Deployments <- OnlyProduction
  MaxWrites = 2
CHECK_DEADLOCK FALSE
PROPERTIES
  RecordedNeverRewritten
