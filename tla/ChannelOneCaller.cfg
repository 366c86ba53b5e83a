CONSTANTS
    main = main
    tool = tool
    Nobody = Nobody
    Callers = {main}
    Requests <- MCRequests
    RequestsOf <- OneCaller
    CodeOf <- MCCodeOf
    SizeOf <- MCSizeOf
    EchoOf <- MCEchoOf
    PayloadRequests <- MCPayloadRequests
    StrayPackages <- MCStrayPackages
    FaultKinds = {"lost", "reject", "corrupt", "stall", "unplug"}
    MaxFaults = 2
    MaxRequests = 3
    MaxKeys = 2
SPECIFICATION FairSpec
CHECK_DEADLOCK FALSE
INVARIANTS TypeOK TokenInv NoLostWakeup
PROPERTIES ImplementsRpc AnswersArrive
