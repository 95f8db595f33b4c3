SPECIFICATION FairSpec
CONSTANTS
    Row <- MCRow
    Ts <- MCTs
    Limit = 1
    MaxSockets = 3
    MaxMounts = 2
    MaxBreaks = 1
INVARIANTS
    SkipsOnlyLateOrTied
    ExtraSocketsNeedRemount
PROPERTIES
    PageReconnects
CHECK_DEADLOCK FALSE
