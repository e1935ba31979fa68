SPECIFICATION FileSpec
CONSTANTS
  Bases = {b1, b2}
  Unnamed = Unnamed
  MaxLen = 2
  DSyncSize = {0, 2}
  HeaderCount = 1
  MaxBatch = 2
  MaxPacket = 5
  MaxClock = 1
SYMMETRY Symmetry
INVARIANTS
  FilesInOrder
  NoGaps
  RotationBounded
  RecordingHasFile
CHECK_DEADLOCK FALSE
