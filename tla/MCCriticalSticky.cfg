SPECIFICATION Spec
CONSTANTS
  Efficiency <- MCEfficiency
  MaxChangePct = 50
  Portfolios <- MCPortfolios
  MaxIterations = 3
  MaxCalls = 11
  MaxLiveChecks = 1
  MaxPreflights = 3
  MaxTargets = 1
  VariantCounts = {1, 3}
  MaxRuns = 2
PROPERTIES
  CriticalIsSticky
CHECK_DEADLOCK FALSE
