SPECIFICATION Spec
CONSTANTS
    x1 = x1
    x2 = x2
    x3 = x3
    Rows = {x1, x2}
    SeqOf <- MCSeqOf
    KindOf <- MCMixed
    Manual = manual
    Runners = {manual, background}
    Requests = {q1, q2}
    BatchSize = 2
    MaxFaults = 2
    MaxLocalFaults = 1
    MaxCrashes = 1
CHECK_DEADLOCK FALSE
INVARIANTS
    TypeOK
    SyncedMeansApplied
    SyncingIsOwned
PROPERTIES
    ImplementsDelivery
