SPECIFICATION FairSpec
CONSTANTS
  BufCap = 3
  SockCap = 2
  MaxMem = 1
  MaxFile = 4
  MayFail = TRUE
  PeerStays = FALSE
CHECK_DEADLOCK FALSE
INVARIANTS TypeOK Framed WholeWhenDone Delivered WaitIsSet
PROPERTY ResponseEnds
