CONSTANTS
    main = main
    tool = tool
    Nobody = Nobody
    Callers = {main, tool}
    Requests <- MCRequests
    RequestsOf <- TwoTogether
    CodeOf <- MCCodeOf
    SizeOf <- MCSizeOf
    EchoOf <- MCEchoOf
    PayloadRequests <- MCPayloadRequests
    StrayPackages <- MCStrayPackages
    FaultKinds = {}
    MaxFaults = 0
    MaxRequests = 2
    MaxKeys = 0
SPECIFICATION Spec
CHECK_DEADLOCK FALSE
INVARIANT EchoAsserted
