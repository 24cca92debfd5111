SPECIFICATION MCFairSpec
CONSTANTS
    pa = pa
    pb = pb
    pk = pk
    ps = ps
    qa = qa
    Policies = {pa, pb, pk, ps}
    Procs = {qa}
    Sourceless = {ps}
    Armed = {pk}
    IntervalOf <- MCIntervals
    MaxOutages = 1
    CanStop = TRUE
    MaxEdits = 2
    Malformed = Malformed
    NoSpec = NoSpec
INVARIANTS
    CycleReadsOneGeneration
    SkipMeansInForce
    IntervalNotMissed
    StoreClosedLast
PROPERTIES
    NeverTwoWorkers
    EditTakesEffect
    PublishedSpecCycles
