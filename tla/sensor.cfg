SPECIFICATION LiveSpec
CONSTANTS
  BufSize = 6
  MaxMoves = 6
  OtherKeys = TRUE
  ReadFails = TRUE
INVARIANTS ClosingsInOrder
PROPERTIES SensorCallSpec ClosingSent
