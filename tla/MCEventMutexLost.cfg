CONSTANTS NThreads = 3  Rounds = 2  Exclusive = FALSE
SPECIFICATION EventSpec
INVARIANT ParkedHasWaker
CHECK_DEADLOCK FALSE
