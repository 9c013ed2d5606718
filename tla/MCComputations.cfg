SPECIFICATION CSpec
CONSTANTS
  Byte = {0, 255}
  Top = 8
  Dsts = {2}
  Sizes = {0, 3, 5}
  Lengths = {1, 3}
  Displacements = {1, 2}
  Pairs = 5
  DivBits = 4
  WordBits = 8
  ByteBits = 4
  Depth = 3
  HuffSizes = {0, 1, 3}
  SrcLens = {2}
  Widths = {0, 1, 2, 4, 8}
  Offsets = {1, 15}
  MaxPrio = 1
  LastObj = 1
  VDRAW_LINES = 2
  TOTAL_LINES = 3
  Refs = {0, 1}
  Steps = {0, 1}
  MaxWrites = 1
INVARIANT CallsCompute
INVARIANT PixelIsRight
INVARIANT XrayOnlyLooks
PROPERTY StaysInOutput
PROPERTY CallsEnd
