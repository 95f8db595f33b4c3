SPECIFICATION FairSpec
CONSTANTS
    MaxEvents = 4
    MaxRestarts = 1
    MaxLen = 2
    Count = 2
    Faults = {"postgres", "redis", "stop", "evict"}
INVARIANTS
    TypeOK
    RowsInOrderOnce
    AckedAreRows
    EventsAccounted
PROPERTIES
    EventsAreTried
CHECK_DEADLOCK FALSE
