SPECIFICATION Spec
CONSTANTS
    Buyers = {b1}
    Payments = {k1}
    Requests = {r1,r2}
    Skus = {"tee"}
    Rows = {"plain", "dress"}
    RowOf <- MCRowOf
    VariantRows = {"dress"}
    InitialStock <- MCInitialStock
    Endpoints = {"verify"}
    MaxLines = 1
    MaxInflight = 2
    MaxCrashes = 0
    ClientSerial = FALSE
    Faults = {}
    NoPayment = NoPayment
    NoBuyer = NoBuyer
CHECK_DEADLOCK FALSE
INVARIANTS RefundOnlyUnplaced
