SPECIFICATION Spec
CONSTANTS
    p1 = p1
    p2 = p2
    Products = {p1, p2}
    SaleIds = {s1, s2}
    OrderIds = {o1}
    Suppliers = {sup}
    Carts <- MCCarts
    Deliveries <- MCDeliveries
    FiscalYears = {"81/82", "82/83"}
    FYAt <- MCFYAt
    DraftYears = {"69/70"}
    Opening <- MCOpening
    MaxClock = 1
    MaxCommits = 4
    TicksPerSecond = 2
SYMMETRY MCSymmetry
CHECK_DEADLOCK FALSE
INVARIANT CancelRevertsExactly
