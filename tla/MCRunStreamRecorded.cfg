SPECIFICATION Spec
CONSTANTS
  Client = {c1}
  Process = {p1}
  Worker = Worker
  Caller = {x1}
  Operator = {}
  NoEvent = NoEvent
  End = End
  QueueSize = 1
  PageSize = 2
  MaxEvents = 3
  MaxFaults = 0
CHECK_DEADLOCK FALSE
INVARIANTS
  EveryCallRecorded
