SPECIFICATION Spec
CONSTANTS
  NULL = NULL
  Scripts <- MCCgiWithBody
  PipeCap = 1
  SockCap = 1
  BufSize = 3
  CgiOut = 1
  CgiEager = TRUE
  ClientStays = TRUE
  MayEvict = FALSE
CHECK_DEADLOCK FALSE
INVARIANT AwaitedIsOpen
