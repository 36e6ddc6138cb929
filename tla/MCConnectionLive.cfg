SPECIFICATION FairSpec
CONSTANTS
  NULL = NULL
  Scripts <- MCLiveScripts
  PipeCap = 1
  SockCap = 1
  BufSize = 3
  CgiOut = 1
  CgiEager = FALSE
  ClientStays = TRUE
  MayEvict = FALSE
CHECK_DEADLOCK FALSE
PROPERTY AllAnswered
