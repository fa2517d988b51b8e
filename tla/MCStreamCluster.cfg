SPECIFICATION Spec
CONSTANTS
  Streams <- TwoChunks
  ChunkSize = 3
  Shards = {1, 2}
  KMin = 2
  KMax = 2
  MaxFeasible = 4
  Iter = 2
  Halvings = 1
  MaxPasses = 2
  Flags = {{}, {1}}
INVARIANTS AssignedToCenter SpeedyRight
PROPERTIES AllClustered
