CONSTANTS
    KeyThreads = {k1, k2}
    Main = main
    Overlap = TRUE
    MaxEvents = 2
    MaxPlugs = 1
SPECIFICATION Spec
CHECK_DEADLOCK FALSE
INVARIANT StopsWhenProcessed
