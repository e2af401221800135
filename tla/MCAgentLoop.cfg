SPECIFICATION Spec
CONSTANTS
  Efficiency <- MCEfficiency
  MaxChangePct = 50
  Portfolios <- MCPortfolios
  MaxIterations = 3
  MaxCalls = 11
  MaxLiveChecks = 1
  MaxPreflights = 3
  MaxTargets = 2
  VariantCounts = {1, 3}
  MaxRuns = 2
INVARIANTS
  TypeOK
  QueueIsCoherent
  NothingLostToRefusals
  VerdictsAgree
  OpposedSpendEscalated
  PlanIsOptimal
  HoldsReleasedLast
PROPERTIES
  PublishesOnce
CHECK_DEADLOCK FALSE
