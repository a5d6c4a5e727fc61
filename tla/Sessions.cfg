CONSTANTS
  Conn = {c1, c2}
  Addr = {a1, a2}
  Msa = {m1}
  Key = {a1, a2, m1}
  NoKey = NoKey
  Absent = Absent
  NoBridge = NoBridge
  SupportComm = TRUE
  SupportCasLink = FALSE
  Bridging = TRUE
  MaxBridge = 2
SPECIFICATION MCSpec
INVARIANTS RegisteredAsRole StopUnregisters
INVARIANTS OneBridgeEachShared AddrIsRegisteredShared StopEndsBridgesShared
SYMMETRY Symmetry
CHECK_DEADLOCK FALSE
