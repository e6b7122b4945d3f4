SPECIFICATION FairSpecH
CONSTANTS
    None = None
    c1 = c1
    c2 = c2
    j1 = j1
    v1 = v1
    f1 = f1
    f2 = f2
    INITIAL_DURATION = 1
    MAX_DURATION = 2
    MaxBytes = 1
    JailReasons = {j1}
    AgentValues = {v1}
    StatFields = {"sent", "received"}
    Callers = {c1}
    Calls <- LivenessCalls
    InitialConfigs <- LivenessConfigs
    PeerLists <- OnlyGiven
    Protocols = {"udp"}
    StreamIds = {"s1"}
    Actions <- OpenActions
    ClientDeadlines <- NoDeadline
    AgentInputs <- Nothing
    StreamResults <- RecoveryResults
    MaxPulls = 1
    MaxQueue = 1
PROPERTIES
    ImplementsRecovery
    DisconnectReturns
    NetworkLossReported
    RecoveryWakesThread
