SPECIFICATION FairSpec
CONSTANTS
    c1 = c1
    c2 = c2
    c3 = c3
    ip1 = ip1
    ip2 = ip2
    as = as
    Calls = {c1, c2, c3}
    IpOf <- MCIpOf
    AsnOf <- MCAsnOf
    None = None
    MaxMishaps = 1
INVARIANTS
    OneLookupPerKey
    OwnCancellationOnly
    NobodyRunsForNobody
PROPERTIES
    CommittedByOwner
    EveryCallReturns
