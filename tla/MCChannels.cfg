SPECIFICATION TracedSpec
CONSTANTS
  FRAME_SEQ_PERIOD = 2
  Slices = {1}
  Used = {1, 3}
  FullLength <- MCFullLength
  MaxVolume = 1
  LowFreqs = 2
  HighFreqs = 2
  Lengths = {1}
  EnvPeriods = {1}
  SweepPeriods = {1}
  Shifts = {1}
INVARIANT SoundsOnlyWhenAllowed
INVARIANT NextSweepFits
PROPERTY TimedSoundEnds
