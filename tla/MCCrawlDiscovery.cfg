SPECIFICATION Spec
CONSTANTS
    c1 = c1
    d = d
    g = g
    h = h
    u1 = u1
    u2 = u2
    u3 = u3
    f1 = f1
    f2 = f2
    f3 = f3
    r1 = r1
    r2 = r2
    r3 = r3
    None = None
    Urls = {u1, u2, u3, f1, f2, f3}
    Origins = {c1, d, g, h, r1, r2, r3}
    MaxCycles = 3
    MaxFaults = 2
    Slugs = {c1, d, g, h}
    Topics = {1, 2}
    Listing <- MCListing
    Embed <- MCEmbed
    Alive = {u1, u2, u3, f2}
    Configured <- MCConfigured
    Pages = 2
    DiscoveredPages = 1
    MaxDepth = 3
    MaxDiscovered = 3
    LadderGroups = 1
    RefRank <- MCRefRank
    MaxProductive = 5
    StateTTL = 1
    Repos = {r1, r2, r3}
    Files = {f1, f2, f3}
    EndpointsOf <- MCEndpoints
    Curated = {u1}
    Stamped = {}
    CodeHits <- MCCodeHits
    RepoHits <- MCRepoHits
    Meta <- MCMeta
    Tree <- MCTree
    Blob <- MCBlob
    PathRank <- MCPathRank
    RepoRank <- MCRepoRank
    SearchCode = 2
    SearchRepo = 1
    MaxRepos = 2
    FilesPerRepo = 2
    AcceptPerRepo = 2
    MinNovel = 1
    FreshFor = 4
    ForkDivisor = 4
    FloorMin = 1
    FloorPercent = 2
    Concurrency = 2
    MaxRetries = 1
    MaxSources = 2
    CensusTTL = 2
    MaxProductiveRepos = 2
INVARIANTS
    TypeOK
    TopicAskedRight
    SweptKept
    NovelIsReal
    GridInTurn
    SourceCap
