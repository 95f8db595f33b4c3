SPECIFICATION FairSpec
CONSTANTS
    MaxEvents = 4
    MaxRestarts = 1
    MaxLen = 2
    Count = 2
    Faults = {"postgres"}
PROPERTIES
    EventsBecomeRows
CHECK_DEADLOCK FALSE
