SPECIFICATION Spec
CONSTANTS
  NX = 4
  NY = 1
  NZ = 1
  NThreads = 2
  PPC = 2
  Starts <- RowStarts
  Moves <- RowMoves
  Frames = 2
  Block = 1
  MaxCells = 4
  Builds = {"mutex", "kernels"}
INVARIANTS EachParticleOnce StructuresApart DensitySettled SavedAll
