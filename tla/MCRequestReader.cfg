SPECIFICATION Spec
CONSTANTS
  MaxTokens = 4
  Wrap = 256
  Sent <- MCSent
CHECK_DEADLOCK FALSE
INVARIANTS TypeOK RequestsAsSent PartsAsWhole FormAsSent
