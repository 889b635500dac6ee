SPECIFICATION Spec
CONSTANTS
    Buyers = {b1}
    Payments = {k1}
    Requests = {r1,r2,r3}
    Skus = {"tee", "red"}
    Rows = {"plain", "dress"}
    RowOf <- MCRowOf
    VariantRows = {"dress"}
    InitialStock <- MCInitialStock
    Endpoints = {"create", "checkout"}
    MaxLines = 2
    MaxInflight = 2
    MaxCrashes = 1
    ClientSerial = FALSE
    Faults = {"step", "redis"}
    NoPayment = NoPayment
    NoBuyer = NoBuyer
CHECK_DEADLOCK FALSE
SYMMETRY Symmetry
INVARIANTS StockAccounting OversellBounded
