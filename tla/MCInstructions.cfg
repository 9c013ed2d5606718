SPECIFICATION ISpec
CONSTANTS
  WideBits = 3
  AluBits = 4
  MaxShift = 11
  MaxTransfers = 2
  MaxFrames = 2
  MaxCalls = 3
CHECK_DEADLOCK FALSE
INVARIANT WideArithmetic
INVARIANT ShiftIsRepeated
INVARIANT ThumbIsArm
INVARIANT TransfersDecompose
INVARIANT MostSpecificFirst
PROPERTY CallsReturn
