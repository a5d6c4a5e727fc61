CONSTANTS
  Stream = {s1, s2}
  Publisher = {p1, p2}
  LiveBufSize = 1
  LiveMaxSub = 1
  MaxPublished = 2
SPECIFICATION LiveSpec
INVARIANT NeverPanics
CHECK_DEADLOCK FALSE
