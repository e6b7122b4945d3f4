SPECIFICATION FairSpec
CONSTANTS
    TcpIds = {"t"}
    UdpIds = {}
    MaxWritten = 3
    MaxChunk = 2
    MaxRoom = 1
    MaxArrivals = 1
    MaxPosts = 1
INVARIANTS
    ReadinessKept
    PendingIsWatched
    PostedIsSeen
PROPERTIES
    ImplementsTransport
    AcceptedIsSent
    ArrivedIsRead
