SPECIFICATION OSpec
CONSTANTS
  SAMPLE_BUFFER_SIZE = 6
  FrameSamples = 5
  LastFifo = 0
  TimerIds = {0, 2}
  FIFO_SIZE = 4
  Half = 2
  WordBytes = 2
  BurstBytes = 2
  Samples = {0, 1}
  Controls <- MCControls
INVARIANT RefillFits
INVARIANT NeverStarves
INVARIANT SoundArrives
INVARIANT NoiseHasFullPeriod
PROPERTY ImplementsQueue
PROPERTY SilenceSettles
