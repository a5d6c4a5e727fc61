CONSTANTS
  Conn = {c1, c2}
  Worker = {w1}
  WorkerOf <- OneWorker
  Request = {"login", "exit"}
  MaxConn = 1
  QueueLen = 1
  BufLen = 1
SPECIFICATION Spec
INVARIANT HandlerNeverStuck
CHECK_DEADLOCK FALSE
