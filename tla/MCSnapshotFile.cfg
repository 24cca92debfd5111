SPECIFICATION Spec
CONSTANTS
    Lists = {l1, l2, l3}
    NoList = NoList
    Partial = Partial
    NoFile = NoFile
INVARIANTS
    DiskIsWhole
PROPERTIES
    KeepsPromise
