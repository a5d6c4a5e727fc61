CONSTANTS
  Conn = {c1, c2}
  Worker = {w1}
  WorkerOf <- OneWorker
  Request = {"exit"}
  MaxConn = 1
  QueueLen = 1
  BufLen = 1
SPECIFICATION Spec
INVARIANTS TypeOK StopsOnce NobodyForgotten WithinMaxConn
SYMMETRY Symmetry
CHECK_DEADLOCK FALSE
