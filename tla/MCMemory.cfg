SPECIFICATION MSpec
CONSTANTS
  Offsets <- MCOffsets
  Writes  <- MCWrites
  MaxProgrammed = 1
  ByteBits = 2
  FlagBits = 1
  LengthBits = 1
  RepeatBit = 0
  TimingBit = 1
  Bytes = {1, 2}
  MaxDmaStores = 2
  Unit = 4
  FastBlock = 2
  Counts = {1, 3}
CONSTRAINT FewProgrammed
INVARIANT StoresReachDevices
INVARIANT StoresSeenEverywhere
INVARIANT CopyArrives
PROPERTY OnlyCommandsChangeTheChip
PROPERTY ImplementsNorFlash
