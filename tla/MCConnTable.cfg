SPECIFICATION Spec
CONSTANTS
  Client = {c1, c2, c3}
  NoConn = NoConn
  MaxClients = 3
  Event = {"data", "eof", "resp"}
  IdleCap = 2
SYMMETRY Symmetry
INVARIANTS TypeOK EachOpenOnce AtCapacityNoneIdle OrderedByIdleAge
PROPERTY EvictsMostIdle
