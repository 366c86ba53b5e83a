CONSTANTS
    main = main
    tool = tool
    Nobody = Nobody
    Callers = {main, tool}
    Requests <- MCRequests
    RequestsOf <- TwoApart
    CodeOf <- MCCodeOf
    SizeOf <- MCSizeOf
    EchoOf <- MCEchoOf
    PayloadRequests <- MCPayloadRequests
    StrayPackages <- MCStrayPackages
    FaultKinds = {"lost", "reject", "stray"}
    MaxFaults = 1
    MaxRequests = 2
    MaxKeys = 1
SPECIFICATION FairSpec
CHECK_DEADLOCK FALSE
INVARIANTS OwnAnswer ReturnMeansExecuted QueueBounded NothingIsMistaken
PROPERTY KeysDispatched
