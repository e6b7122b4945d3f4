SPECIFICATION Spec
CONSTANTS
    None = None
    c1 = c1
    c2 = c2
    j1 = j1
    v1 = v1
    f1 = f1
    f2 = f2
    INITIAL_DURATION = 1
    MAX_DURATION = 2
    MaxBytes = 1
    JailReasons = {j1}
    AgentValues = {v1}
    StatFields = {"sent", "received"}
    Callers = {c1, c2}
    Calls <- PeersCalls
    InitialConfigs <- PeersConfigs
    PeerLists <- ManyLists
    Protocols = {"udp"}
    StreamIds = {}
    Actions <- CaptureActions
    ClientDeadlines <- NoDeadline
    AgentInputs <- Nothing
    StreamResults <- QuickResults
    MaxPulls = 1
    MaxQueue = 2
SYMMETRY CallerSymmetry
INVARIANTS
    NoLostWakeup
    NeverConnectedWithoutNetwork
    WaitingMatchesNetwork
    ReportedTunnelIsReal
    ClientConfigInSync
    StoppedIsReported
    CaptureInSync
    FromMatchesReference
PROPERTIES
    CaptureWithinLimit
