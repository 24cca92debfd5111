SPECIFICATION MCSpec
CONSTANTS
    b = b
    c = c
    x = x
    stem = stem
    None = None
    Urls = {b, c, x}
    GhUrls = {c}
    Loadable = {b, c}
    StemOf <- MCStemOf
    Rank <- MCRank
    HandName <- MCHandName
    Ordinals = {1, 2, 3, 4, 5, 6}
    MaxSources = 2
    Window = 2
    WithdrawFloor = 1
    WithdrawPercent = 25
    RetireCycles = 2
    RetireAfter = 1
    MinDrop = 0
    DropPercent = 60
    Overlap = 60
    ConfirmAfter = 1
    RecordTTL = 1
    DeadTTL = 1
    MaxNow = 2
    MaxLists = 2
    MaxEdits = 1
    MaxFaults = 1
    MaxEvents = 3
INVARIANTS
    DeletedOnEvidence
    BarrenWitnessed
    MintSound
    NeverRebuilt
PROPERTIES
    BulkConfirmed
CONSTRAINT Eventful
CHECK_DEADLOCK FALSE
