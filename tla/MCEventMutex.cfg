CONSTANTS NThreads = 2  Rounds = 4  Exclusive = FALSE
SPECIFICATION FairEventSpec
INVARIANTS WordTellsOwner ParkedHasWaker
PROPERTY AllFinish
CHECK_DEADLOCK FALSE
