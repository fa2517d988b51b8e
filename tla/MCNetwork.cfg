CONSTANTS
  PoolSize = 4
  Bulk = 2
  BadEvery = 2
  Retry = 2
  Word = 16
  Checksums = 4
  Addresses = 8
  Setups <- SmallSetups
SPECIFICATION FairSpec
INVARIANTS EachPacketOnce MistakesFit TotalsAddUp
PROPERTY AllReturn
CHECK_DEADLOCK FALSE
