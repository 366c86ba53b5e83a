CONSTANTS
    Sizes = {0, 1}
    Junk = {0, 2}
    MaxPackages = 3
    MaxFaults = 2
SPECIFICATION FairSpec
CHECK_DEADLOCK FALSE
INVARIANTS CleanArrives StopsForCause
PROPERTIES ImplementsFifo Settles
