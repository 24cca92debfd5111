SPECIFICATION Spec
CONSTANTS
    e1 = e1
    e2 = e2
    e3 = e3
    e4 = e4
    hostA = hostA
    hostB = hostB
    ipA = ipA
    ipB = ipB
    Entries = {e1, e2, e3, e4}
    HostOf <- MCHostOf
    PortOf <- MCPortOf
    IpOf <- MCIpOf
    Literals = {}
    Tcp = {e1, e3}
    Positions = {1, 2, 3, 4}
    EntryOf <- MCEntryOf
    NoIp = NoIp
    NoResult = NoResult
    Attempts = 2
    Rounds = 2
    Concurrency = 2
    MaxFail = 0
    MaxAvg = 5
    Delays = {1, 9}
    BreakerMin = 3
    BreakerPercent = 60
INVARIANTS
    PinsUnanimous
    DeadWasTried
    OutageCondemnsNobody
    KeptOnMerit
