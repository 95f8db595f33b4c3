SPECIFICATION FairSpec
CONSTANTS
    c1 = c1
    c2 = c2
    s1 = s1
    s2 = s2
    image = image
    other = other
    Conn = {c1, c2}
    Stream = {s1, s2}
    Content = {image, other}
    ImageContent = {image}
    Chunk <- MCChunk
    ConnOf <- MCConnOf
    StreamOf <- MCStreamOf
    ContentOf <- MCContentOf
    ScanLimits = {1, 2}
    DefaultScans = 1
    Faults = {"limit", "redis", "cancel", "crash", "ml", "evict"}
    Reaper = Reaper
INVARIANTS
    TypeOK
    AtMostOnce
    NothingVanishes
    SlotsAccounted
    AckedNotBuffered
    HitsFollowAnalysis
PROPERTIES
    HeldIsFlushed
