SPECIFICATION Spec
CONSTANTS
    None = None
    Interfaces = {"full", "split"}
    Captures = {"file"}
    Networks = {"wifi"}
    NativeStates = {"Connecting", "Connected"}
    AppIntents <- ConfigIntents
    MaxIntents = 3
    MaxPosted = 2
PROPERTY
    ConnectApplies
