SPECIFICATION Spec
CONSTANTS
    Orders = {o1, o2}
    LiveOrders = {o1}
    Slots = {r1, r2, r3}
    Endpoints <- AllEndpoints
    Serial = FALSE
    MaxRepeats = 2
CHECK_DEADLOCK FALSE
CONSTRAINT OneOrder
SYMMETRY Symmetry
INVARIANTS TypeOK ShippedWithProof CancelledRestocked OfferedIsAccepted
