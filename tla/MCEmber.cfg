CONSTANTS
  Pex = 3
  Pey = 2
  Repeats = 1
  Builds <- SmallBuilds
SPECIFICATION FairSpec
INVARIANTS RightMessage WaveFront AllDelivered
PROPERTY AllReturn
CHECK_DEADLOCK FALSE
