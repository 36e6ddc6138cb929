SPECIFICATION FairSpec
CONSTANTS
  Client = {c1, c2, c3}
  NoConn = NoConn
  MaxClients = 2
  Event = {"data", "resp"}
  IdleCap = 0
PROPERTIES WaitingIsAccepted EventIsProcessed
