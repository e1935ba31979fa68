SPECIFICATION FairSpec
CONSTANTS
  b1 = b1
  b2 = b2
  b3 = b3
  b4 = b4
  Buf <- MCBuf
  Sites <- MCSites
INVARIANTS
  BuffersConserved
  NoLostWakeup
PROPERTIES
  Terminates
  StallEnds
  PacketsTaken
CHECK_DEADLOCK FALSE
