SPECIFICATION FairSpec
CONSTANTS
  None = None
  Blocks <- MCBlocks
  Msg <- MCMsg
  HEADER_SIZE = 2
  min_max_buf_size = 3
  MaxEmit = 3
  MaxConn = 2
INVARIANTS
  DecoderAligned
PROPERTIES
  DeliversEverything
CHECK_DEADLOCK FALSE
