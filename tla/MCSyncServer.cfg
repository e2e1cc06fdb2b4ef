SPECIFICATION Spec
CONSTANTS
    p1 = p1
    s1 = s1
    s2 = s2
    c1 = c1
    Products = {p1}
    Sales = {s1, s2}
    Customers = {c1}
    ProductEdits <- MCProductEdits
    SaleEdits <- MCSaleEdits
    CustomerEdits <- MCCustomerEdits
    Items <- MCItems
    Entries <- MCEntries
    BillNumbers = {"B1-1"}
    Handlers = {h1, h2}
    Skew = 1
    MaxClock = 2
SYMMETRY MCSymmetry
INVARIANTS
    TypeOK
    StockAccounted
    SaleIsLatest
    DebtMatchesLedger
    OverdueAsSwept
PROPERTIES
    NoOlderOverwrites
