SPECIFICATION FairSpec
CONSTANTS
  e1 = e1
  e2 = e2
  e3 = e3
  s1 = s1
  Events = {e1, e2, e3}
  Streams = {s1}
  BatchSize = 2
  InsertsFail = FALSE
INVARIANT EveryAnswerRecorded
CHECK_DEADLOCK FALSE
