CONSTANTS MiniExp = 1  LenExp = 3  Slaves = {s1, s2}  MaxOnTheFly = 2  QCap = 2
  Inputs <- ZeroOneArrays
SPECIFICATION FairSpec
INVARIANTS DisjointTasks SortedWhenDone
PROPERTY SortReturns
