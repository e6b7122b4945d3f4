SPECIFICATION Spec
CONSTANTS
    None = None
    c1 = c1
    c2 = c2
    j1 = j1
    v1 = v1
    f1 = f1
    f2 = f2
    INITIAL_DURATION = 1
    MAX_DURATION = 2
    MaxBytes = 1
    JailReasons = {j1}
    AgentValues = {v1}
    StatFields = {"sent", "received"}
    Callers = {c1}
    Calls <- AgentCalls
    InitialConfigs <- AgentConfigs
    PeerLists <- OnlyGiven
    Protocols = {"udp"}
    StreamIds = {}
    Actions <- Nothing
    ClientDeadlines <- NoDeadline
    AgentInputs <- AgentInputsAll
    StreamResults <- DataResults
    MaxPulls = 1
    MaxQueue = 1
INVARIANTS
    SeenSessionIsCurrent
    JailsReported
    AnsweredStatsDelivered
