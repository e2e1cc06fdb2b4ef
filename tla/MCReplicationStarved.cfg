SPECIFICATION FairSpec
CONSTANTS
    Terminals = {t1}
    Products = {p1}
    KnownProducts = {p1}
    Suppliers = {x1}
    SaleIds = {1, 2, 3}
    OrderIds = {}
    BatchSize = 2
    MaxClock = 4
    MaxFaults = 0
CHECK_DEADLOCK FALSE
PROPERTIES
    BillsArrive
