SPECIFICATION FairSpec
CONSTANTS
  e1 = e1
  e2 = e2
  e3 = e3
  e4 = e4
  s1 = s1
  Events = {e1, e2, e3, e4}
  Streams = {s1}
  BatchSize = 2
  InsertsFail = TRUE
INVARIANTS
  ShutdownTypeOK
  ClosedIsFlushed
  FlushIsDue
  ExitAbandonsNothing
PROPERTIES
  ImplementsLog
  Drains
  ShutdownEnds
CHECK_DEADLOCK FALSE
