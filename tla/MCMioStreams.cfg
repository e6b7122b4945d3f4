SPECIFICATION FairSpec
CONSTANTS
    TcpIds = {"t"}
    UdpIds = {}
    MaxWritten = 3
    MaxChunk = 2
    MaxRoom = 1
    MaxArrivals = 1
    Reregisters = {TRUE, FALSE}
INVARIANTS
    ReadinessKept
    PendingIsWatched
    SentInOrder
PROPERTIES
    ImplementsTransport
    AcceptedIsSent
    ArrivedIsRead
