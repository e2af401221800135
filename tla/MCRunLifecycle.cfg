SPECIFICATION FairSpec
CONSTANTS
  Run = {r1, r2}
  NoRun = NoRun
  Key = {k1}
  NoKey = NoKey
  Replica = {p1}
  Operator = {o1}
  Cap = 1
  MaxSteps = 2
  MaxCrashes = 1
CHECK_DEADLOCK FALSE
INVARIANTS
  TypeOK
  OneRunPerKey
  ProposalsMatchOutcome
  AtMostOneLateStep
PROPERTIES
  StartedRunsStayClosed
  EveryRunSettles
