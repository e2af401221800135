SPECIFICATION Spec
CONSTANTS
  Process = {p1}
  Rehearsing = {}
  Forcing = {}
  Nobody = Nobody
  NoMark = NoMark
  Lookback = 2
  MaxCatchup = 3
  Busy = {1, 2}
  MaxDay = 4
  MaxStall = 1
  MaxCrashes = 0
CHECK_DEADLOCK FALSE
INVARIANTS
  OwedDaysStayOwed
