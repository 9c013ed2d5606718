SPECIFICATION MCSpec
CONSTANTS
  LastCh = 2
  Units = 1
  FullCount <- MCFullCount
  FifoWords = 1
  CpuSetups <- MCCpuSetups
  DmaSetups <- MCDmaSetups
INVARIANT EnteredOnce
INVARIANT TriggerServesAll
PROPERTY DmaReturns
