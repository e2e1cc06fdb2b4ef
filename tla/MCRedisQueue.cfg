SPECIFICATION FairSpec
CONSTANTS
    line = line
    line2 = line2
    broken = broken
    Items = {line, line2, broken}
    Kind <- MCKind
    Qty <- MCQty
    Opening = 3
    MaxRetries = 2
    MaxFaults = 2
INVARIANTS TypeOK CopiesConserved RetriesCounted DeductedOnce
PROPERTY QueueDrains
CHECK_DEADLOCK FALSE
