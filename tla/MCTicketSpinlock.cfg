CONSTANTS NThreads = 4  Stride = 2  Width = 8
SPECIFICATION FairTicketSpec
INVARIANTS MutualExclusion
PROPERTIES FifoSpec TicketIsServed
