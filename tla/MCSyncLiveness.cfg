SPECIFICATION FairSpec
CONSTANTS
    x1 = x1
    x2 = x2
    x3 = x3
    Rows = {x1, x2}
    SeqOf <- MCSeqOf
    KindOf <- MCPoison
    Manual = manual
    Runners = {manual, background}
    Requests = {q1, q2}
    BatchSize = 2
    MaxFaults = 2
    MaxLocalFaults = 0
    MaxCrashes = 0
CHECK_DEADLOCK FALSE
PROPERTIES
    EventuallyDelivered
    ManualSyncEnds
