SPECIFICATION Spec
CONSTANTS
  Rate <- MCRate
  Points <- MCPoints
  Window = {Hann}
  Mult = {0, 2}
  Junk = Junk
  Waves <- MCWaves
  Width <- MCWidth
  MaxSet = 3
  MaxInput = 2
INVARIANTS
  Coherent
  QuietMeansCurrent
PROPERTIES
  RecordsSettle
CHECK_DEADLOCK FALSE
