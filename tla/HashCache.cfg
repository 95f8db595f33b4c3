SPECIFICATION Spec
CONSTANTS
    r1 = r1
    r2 = r2
    i1 = i1
    h1 = h1
    Router = {r1, r2}
    Ingest = {i1}
    Hash = {h1}
    Verdict = {"CLEAN", "STEGO"}
    Faults = {"delete", "abort"}
INVARIANTS
    TypeOK
    VerdictsFromAnalyses
    EntriesExpire
PROPERTIES
    OnlyStoresSetVerdicts
