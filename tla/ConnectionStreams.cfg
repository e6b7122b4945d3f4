SPECIFICATION Spec
CONSTANTS
    None = None
    c1 = c1
    c2 = c2
    j1 = j1
    v1 = v1
    f1 = f1
    f2 = f2
    INITIAL_DURATION = 1
    MAX_DURATION = 1
    MaxBytes = 1
    JailReasons = {j1}
    AgentValues = {v1}
    StatFields = {"sent", "received"}
    Callers = {c1}
    Calls <- StreamCalls
    InitialConfigs <- StreamConfigs
    PeerLists <- OnlyGiven
    Protocols = {"udp"}
    StreamIds = {"s1"}
    Actions <- StreamActions
    ClientDeadlines <- SomeDeadlines
    AgentInputs <- Nothing
    StreamResults <- OneErrorKind
    MaxPulls = 1
    MaxQueue = 1
INVARIANTS
    StreamsCoverClient
    NeverSleepsPastRecovery
    TimerNeverResetsConnection
