CONSTANTS
    KeyThreads = {k1}
    Main = main
    Overlap = FALSE
    MaxEvents = 1
    MaxPlugs = 2
SPECIFICATION Spec
CHECK_DEADLOCK FALSE
INVARIANT PlugAnytime
