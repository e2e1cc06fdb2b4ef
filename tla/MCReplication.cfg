SPECIFICATION FairSpec
CONSTANTS
    Terminals = {t1, t2}
    Products = {p1}
    KnownProducts = {p1}
    Suppliers = {x1}
    SaleIds = {1, 2, 3}
    OrderIds = {o1}
    BatchSize = 9
    MaxClock = 4
    MaxFaults = 1
CHECK_DEADLOCK FALSE
INVARIANTS
    TypeOK
    SyncedMeansStored
    AuditPasses
PROPERTIES
    BillsArrive
