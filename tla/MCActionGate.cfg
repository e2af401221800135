SPECIFICATION Spec
CONSTANTS
  Action = {a1, a2}
  Value = {v1, v2}
  NoValue = NoValue
  Process = {p1}
  Request = {e1, e2}
  Operator = {o1}
  None = None
  Deployments <- ManyDeployments
  MaxWrites = 2
SYMMETRY Symmetry
CHECK_DEADLOCK FALSE
INVARIANTS
  TypeOK
  WritesAreSanctioned
  ExecutedWasWritten
  SystemsOfRecordAgree
  RetriesReplay
