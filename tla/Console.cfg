CONSTANTS
  User = {x1, x2}
  FirstUser = x1
  Bootstrap = TRUE
  Request = {r1, r2}
  Boot = Boot
  NoFile = NoFile
  NoProc = NoProc
  Torn = Torn
  MaxKills = 1
  Token = {k1, k2}
  IdleTimes = {1, 2}
  NoSession = NoSession
  MaxTime = 4
  Term = {t1}
  Saver = {s1, s2}
  Login = {g1}
  Console = Console
  Nil = Nil
  Empty = Empty
  Broken = Broken
  MaxSaves = 2
  MaxRestarts = 1
  ReserveDay = 2
  NoLog = NoLog
  TornLog = TornLog
  MaxDay = 3
  MaxLines = 2
  MaxCrashes = 1
  Putter = {w1, w2}
  BadConf = BadConf
  Wrong = Wrong
  Patches <- SomePatches
  MaxPuts = 2
  MaxDowns = 1
  ConnID = {1, 2}
  Proto <- Protocols
  TermAddr = {y1}
  NoAddr = NoAddr
  PageSize = {1, 2}
  TrafficMinBuckets = 1
  WordSize = 64
  MasterConn = {2}
  MaxClock = 2
  MaxBytes = 1
  MaxMinutes = 2
SPECIFICATION MCSpec
INVARIANTS LastAdminStays ActiveServed SavedInForce
INVARIANTS EntriesKept SettingsInStep
INVARIANTS ListComplete BarsRight
PROPERTIES UserDirectorySpec
SYMMETRY Symmetry
CHECK_DEADLOCK FALSE
