SPECIFICATION HSpec
CONSTANTS
  Last = 2
  Modulus = 2
  Prescalers = {1, 2}
  CycleCounts = {3}
  MaxFed = 3
  Reloads = {1}
  Controls <- MCControls
INVARIANT NoCycleLost
INVARIANT CascadeCountsOverflows
PROPERTY TickReturns
