CONSTANT NThreads = 3
SPECIFICATION MixedFairSpec
INVARIANTS MutualExclusion NoStalePredecessor IInv
PROPERTIES FifoSpec PlaceTakenIsServed
