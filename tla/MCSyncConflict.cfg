SPECIFICATION FairSpec
CONSTANTS
    x1 = x1
    x2 = x2
    x3 = x3
    Rows = {x1, x2}
    SeqOf <- MCSeqOf
    KindOf <- MCConflict
    Manual = manual
    Runners = {background}
    Requests = {q1, q2}
    BatchSize = 2
    MaxFaults = 0
    MaxLocalFaults = 0
    MaxCrashes = 0
CHECK_DEADLOCK FALSE
PROPERTY ConflictsResolved
