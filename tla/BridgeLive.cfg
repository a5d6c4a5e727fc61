CONSTANTS
  Link = {l1, l2}
  NoLink = NoLink
  MaxUnAck = 1
  MaxAcks = 1
  Sending = FALSE
SPECIFICATION FairSpec
PROPERTIES StopEndsBridge HungupClosed HeartbeatAnswered
CHECK_DEADLOCK FALSE
