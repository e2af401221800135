SPECIFICATION FairSpec
CONSTANTS
  Process = {p1, p2}
  Rehearsing = {}
  Forcing = {p2}
  Nobody = Nobody
  NoMark = NoMark
  Lookback = 2
  MaxCatchup = 3
  Busy = {1, 2}
  MaxDay = 4
  MaxStall = 1
  MaxCrashes = 1
CHECK_DEADLOCK FALSE
INVARIANTS
  TypeOK
  NoSilentHole
  OneLiveHolder
PROPERTIES
  WatermarkOnlyWidens
  EveryDayAccounted
