SPECIFICATION Spec
CONSTANTS
  NULL = NULL
  Scripts <- MCScripts
  PipeCap = 1
  SockCap = 1
  BufSize = 3
  CgiOut = 1
  CgiEager = TRUE
  ClientStays = FALSE
  MayEvict = TRUE
CHECK_DEADLOCK FALSE
INVARIANTS TypeOK BodyIsOwn ResponsesInOrder NoForgottenInput NoInternalError PipesInUse
PROPERTY ContractMet
