CONSTANTS
  Link = {l1, l2}
  NoLink = NoLink
  MaxUnAck = 1
  MaxAcks = 1
  Sending = FALSE
SPECIFICATION FairSpec
PROPERTIES LostLoginEnds
CHECK_DEADLOCK FALSE
