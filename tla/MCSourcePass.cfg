SPECIFICATION Spec
CONSTANTS
    sound = sound
    flaky = flaky
    lit = lit
    six = six
    blk = blk
    kOne = kOne
    kTwo = kTwo
    kThree = kThree
    nOne = nOne
    nTwin = nTwin
    nFlaky = nFlaky
    nStand = nStand
    nLit = nLit
    nSix = nSix
    nBlk = nBlk
    nBad = nBad
    aIn = aIn
    aOut = aOut
    N = 3
    Inline = {3}
    Nodes = {nOne, nTwin, nFlaky, nStand, nLit, nSix, nBlk, nBad}
    Servers = {sound, flaky, lit, six, blk}
    ServerOf <- MCServers
    Keys = {kOne, kTwo, kThree}
    KeyOf <- MCKeys
    Placeholders = {nStand}
    Unlabelled = {nBad}
    Names = {sound, flaky}
    Failing = {flaky}
    Addrs = {aIn, aOut}
    NoAddr = NoAddr
    Literal <- MCLiteral
    Answers <- MCAnswers
    Blocklist = {blk}
    Filters <- MCFilters
    DeniedBy <- MCDenied
    AllowedBy <- MCAllowed
    AsnDenied = {aOut}
    AsnForeign = {}
    CachesAnswers = TRUE
    CachesFailures = TRUE
    Miss = Miss
    Concurrency = 2
    MaxNodes = 3
    BodiesOf <- MCBodies
INVARIANTS
    DeliveredWhole
    NoForeignDrop
    OneVerdictPerAddress
    FirstWins
