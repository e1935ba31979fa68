SPECIFICATION RegSpec
CONSTANTS
  Registers <- MCRegisters
  Settings <- MCSettings
  Block <- MCBlock
  Offset <- MCOffset
  Mask <- MCMask
  RegSize = 2
  WfSize = 2
  WfOffset = 0
  WfStep = 3
  WfNelm = 2
  DblSize = 3
  BytesOffset = 1
  BytesNelm = 2
  SiOffset = 1
  MaxString = 5
  TsOffset = 2
  TsSize = 2
  Lengths <- MCLengths
  Zero <- MCZero
  MaxSteps = 3
INVARIANTS
  SettingsKept
PROPERTIES
  ImplementsFlat
