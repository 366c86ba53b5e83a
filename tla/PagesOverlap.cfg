CONSTANTS
    KeyThreads = {k1, k2}
    Main = main
    Overlap = TRUE
    MaxEvents = 3
    MaxPlugs = 2
SPECIFICATION FairSpec
CHECK_DEADLOCK FALSE
INVARIANT HandlerIsAlive
PROPERTY KeyThreadsEnd
