CONSTANTS
  Conn = {c1, c2, c3}
  Key = {a1, a2, a3}
  AllMsa = a1
  NoKey = NoKey
  Absent = Absent
  SupportComm = FALSE
  SupportCasLink = FALSE
  IdSpace = 4
  MaxConn = 2
  FwdWorker = {u1, u2}
  FwdQueueLen = 2
  NoConn = NoConn
  NoJob = NoJob
  MaxAccepts = 4
  MaxFrames = 3
  Start = 6
  End = 1
  Base = 7
  AddrSpace = 8
  MaxTwin = 3
  Max698 = 7
  PType = {"698", "nw", "1376"}
  Streams <- ThreePieces
  MaxLate = 1
  AddrSize = {0, 1, 2, 3, 4, 5, 6, 7, 8, 9, 10, 11, 12, 13, 14, 15}
  AddrFlag = {0, 1, 2, 3, 4, 5, 6, 7, 8, 9, 10, 11, 12, 13, 14, 15}
  AddrBytes <- TwoAddresses
  MasterAddr = {0, 7}
  ShortLen = {19, 20, 21, 22, 23, 28}
  Stream = {v1, v2}
  Publisher = {p1, p2}
  LiveBufSize = 1
  LiveMaxSub = 1
  MaxPublished = 2
SPECIFICATION MCFairSpec
INVARIANTS IndexAgrees OneConnPerAddr
INVARIANTS OnlyHeldOvertaken NoEarlyReuse
INVARIANTS FramesKept BacklogBounded
INVARIANTS ReadsInside AnswerToSender BridgeKeepsAddr
INVARIANTS ShownInOrder
PROPERTIES DirectorySpec AppDirectorySpec DeliverySpec AllSettle
CHECK_DEADLOCK FALSE
