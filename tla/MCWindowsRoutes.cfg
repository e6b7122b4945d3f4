SPECIFICATION Spec
CONSTANTS
    None = None
    V4Ips = {a}
    V6Ips = {b}
    Interfaces = {"eth", "wifi"}
    Metric <- MetricOf
    Foreign <- ForeignRoute
    a = a
    b = b
INVARIANTS
    ForeignKept
    RecordedUnlessLost
