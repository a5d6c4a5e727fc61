CONSTANTS
  Conn = {c1}
  Worker = {w1}
  WorkerOf <- OneWorker
  Request = {"login", "reject", "data", "exit"}
  MaxConn = 1
  QueueLen = 1
  BufLen = 1
SPECIFICATION FairSpec
PROPERTIES StopReleasesAll WriteErrorEnds NeedStopEndsSession
CHECK_DEADLOCK FALSE
