SPECIFICATION FairGeoSpec
CONSTANTS
    Kinds = {"geofeed", "dbip", "registry", "cidr"}
    s1 = s1
    s2 = s2
    m1 = m1
    m2 = m2
    SourceLists = {s1, s2}
    Mirrors = {m1, m2}
    Interval = 2
    RetryAfter = 1
    MaxShift = 2
    MaxLooks = 1
    NoSources = NoSources
    Never = Never
    Nothing = Nothing
INVARIANTS
    NoSilentVoid
    OwnSources
PROPERTIES
    EventuallyWhole
