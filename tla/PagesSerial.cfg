CONSTANTS
    KeyThreads = {k1, k2}
    Main = main
    Overlap = FALSE
    MaxEvents = 6
    MaxPlugs = 1
SPECIFICATION Spec
CHECK_DEADLOCK FALSE
INVARIANTS RootIsThePage CallsLivePages TabIsShown StopsWhenProcessed
PROPERTY ImplementsNavigation
