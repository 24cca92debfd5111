SPECIFICATION MCSpec
CONSTANTS
    pa = pa
    pb = pb
    pk = pk
    ps = ps
    qa = qa
    Policies = {pa, pb, pk, ps}
    Procs = {qa}
    Sourceless = {ps}
    Armed = {pk}
    IntervalOf <- MCIntervals
    MaxOutages = 1
    CanStop = FALSE
    MaxEdits = 0
    Malformed = Malformed
    NoSpec = NoSpec
INVARIANTS
    CycleAlwaysAgrees
