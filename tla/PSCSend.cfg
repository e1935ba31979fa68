SPECIFICATION Spec
CONSTANTS
  Block <- MCBlock
  BodyLen <- MCBodyLen
  HEADER_SIZE = 2
  PSCMaxSendBuffer = 6
  MaxCalls = 4
  MaxConn = 3
INVARIANTS
  WellFramed
  InOrderOnce
  QueuedIsPending
  SendBufferBounded
CHECK_DEADLOCK FALSE
