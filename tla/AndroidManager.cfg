SPECIFICATION Spec
CONSTANTS
    None = None
    Interfaces = {"full", "split"}
    Captures = {"file"}
    Networks = {wifi, mobile}
    NativeStates = {"Connecting", "Connected"}
    AppIntents <- ModeIntents
    MaxIntents = 3
    MaxPosted = 2
SYMMETRY NetworkSymmetry
INVARIANTS
    LatestStateShown
    DisconnectHolds
    NetworkInSync
    ConfigInForce
