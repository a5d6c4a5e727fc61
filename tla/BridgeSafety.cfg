CONSTANTS
  Link = {l1, l2}
  NoLink = NoLink
  MaxUnAck = 1
  MaxAcks = 1
  Sending = TRUE
SPECIFICATION Spec
INVARIANTS TypeOK OneSocket ExitReleases
CHECK_DEADLOCK FALSE
