SPECIFICATION FairSpec
CONSTANTS
    MaxPackets = 3
    MaxUnits = 2
    MaxFailures = 1
    MaxClock = 2
    QueueSize = 2
    RateLimit = 2
    Window = 2
    Src <- MCSrc
    Dst <- MCDst
    Web <- MCWeb
    Faults = {"rpc", "stop", "restart", "evict"}
INVARIANTS
    PacketsAccounted
    KeysTravelAhead
    LimitsTheRate
    StreamsFollowConnections
PROPERTIES
    PacketsSettle
CHECK_DEADLOCK FALSE
