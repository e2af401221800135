SPECIFICATION FairSpec
CONSTANTS
  Client = {c1}
  Process = {p1, p2}
  Worker = Worker
  Caller = {x1}
  Operator = {o1}
  NoEvent = NoEvent
  End = End
  QueueSize = 1
  PageSize = 2
  MaxEvents = 3
  MaxFaults = 1
CHECK_DEADLOCK FALSE
INVARIANTS
  TypeOK
  TimelinesAscend
  NothingSkipped
  StreamsOutliveTheirRun
PROPERTIES
  StreamsEnd
