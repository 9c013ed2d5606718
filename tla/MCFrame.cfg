SPECIFICATION FairSpec
CONSTANTS
  TOTAL_LINES = 3
  VDRAW_LINES = 2
  Budget = 2
  Targets = {0, 2}
  EnableSets = {{}, {"VBLANK"}, {"HBLANK", "VCOUNT"}}
  IeSets = {{"VBLANK"}, {"HBLANK"}, {"VCOUNT", "OTHER"}}
INVARIANT StatusMatchesBeam
INVARIANT FrameDelivered
INVARIANT RefBehindBeam
PROPERTY FramesGoOn
PROPERTY SleeperWakes
