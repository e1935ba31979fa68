SPECIFICATION Spec
CONSTANTS
  Clients <- MCClients
  NULL = NULL
  Socks <- MCSocks
  Length <- MCLength
  PSC_MAX_CLIENTS = 2
  PSC_MAX_RX_MSG_LEN = 1
  SkipChunk = 2
  Wrap = 16
  Talkers = {2}
  MaxMsg = 1
  MaxPeriodic = 1
INVARIANTS
  ListHoldsClients
  ClientsBounded
  BroadcastReachesAll
PROPERTIES
  ClientsReleased
CHECK_DEADLOCK FALSE
