SPECIFICATION Spec
CONSTANTS
  Clients <- MCPair
  NULL = NULL
  Socks <- MCPair
  Length <- MCLengths
  PSC_MAX_CLIENTS = 2
  PSC_MAX_RX_MSG_LEN = 1
  SkipChunk = 2
  Wrap = 16
  Talkers <- MCPair
  MaxMsg = 2
  MaxPeriodic = 0
INVARIANTS
  MessagesInStep
CHECK_DEADLOCK FALSE
