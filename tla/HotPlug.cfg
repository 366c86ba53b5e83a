CONSTANTS
    Ports = {acm0, acm1}
    None = None
    MaxPlugs = 3
    MaxKeys = 2
SPECIFICATION FairSpec
CHECK_DEADLOCK FALSE
INVARIANTS ObjectsMatchPorts EndsForCause
PROPERTIES ChangesAreNoticed
