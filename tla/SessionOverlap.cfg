CONSTANTS
  Conn = {c1, c2}
  Addr = {a1, a2}
  Msa = {m1}
  Key = {a1, a2, m1}
  NoKey = NoKey
  Absent = Absent
  NoBridge = NoBridge
  SupportComm = TRUE
  SupportCasLink = FALSE
  Bridging = FALSE
  MaxBridge = 2
SPECIFICATION Spec
INVARIANTS CleanStop
CHECK_DEADLOCK FALSE
