SPECIFICATION MCSpec
CONSTANTS
  Block <- MCBlock
  Limit = 2
  MaxCalls = 5
  Blocks <- MCBlock
  Dgram <- MCDgram
  HEADER_SIZE = 2
  RxInit = 4
  Wrap = 16
  MaxArrive = 4
  MaxErr = 1
INVARIANTS
  InOrderNoGap
  AtMostTwice
  BlocksHoldNewest
  EveryDatagramCounted
PROPERTY AllSent
CHECK_DEADLOCK FALSE
