SPECIFICATION Spec
CONSTANTS
    j1 = j1
    pcap = pcap
    cover = cover
    stego = stego
    png = png
    Job = {j1, pcap}
    PcapJobs = {pcap}
    Image = {cover, stego, png}
    Images <- MCImages
    MaxImages = 2
    Suffix = {".jpg", ".png"}
    SuffixOf <- MCSuffixOf
    IsStego = {stego}
    Ephemeral = FALSE
    Faults = {}
INVARIANTS
    CachesAreTrue
CHECK_DEADLOCK FALSE
