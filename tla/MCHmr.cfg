CONSTANTS NThreads = 3  Rounds = 2  Builds = {TRUE, FALSE}
SPECIFICATION FairSpec
INVARIANTS StartTogether EndpointsReady OneToken
PROPERTY BoostFinishes
CHECK_DEADLOCK FALSE
