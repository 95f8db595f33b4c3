SPECIFICATION FairSpec
CONSTANTS
    Post = {1, 2, 3, 4}
    PostKey <- MCPostKey
    PostValue <- MCPostValue
    Default <- MCDefault
    Stored <- MCStored
    Bad = bad
    bad = bad
    MaxRestarts = 1
    Upsets = {"evict", "redis"}
    Scan = {1, 2}
    Score <- MCScore
    Carvable = {2}
    Workload <- MCWorkload
    Faults = {"build", "cancel", "timeout", "worker"}
INVARIANTS
    SettingsAgree
    WorkersBelongToCalls
    VerdictsFollowThePage
PROPERTIES
    WaitersGetIn
CHECK_DEADLOCK FALSE
