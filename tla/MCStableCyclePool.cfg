SPECIFICATION Spec
CONSTANTS
    a = a
    b = b
    c = c
    shared = shared
    own = own
    Nodes <- MCNodes
    HostOf <- MCHostOf
    Chain <- MCChain
    NoList = NoList
    BreakerMin = 3
    BreakerPercent = 60
PROPERTIES
    WholePoolDisbelieved
