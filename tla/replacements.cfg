SPECIFICATION Spec
CONSTANTS
    Orders = {o1}
    Requests = {i1, i2}
    NoRequest = NoRequest
    Sessions = {s1, s2}
    NoSession = NoSession
    Slots = {r1, r2}
    LinePrice = 2
    Prices = {1, 3}
    MinBalance = 1
    MaxShipments = 1
CHECK_DEADLOCK FALSE
SYMMETRY Symmetry
INVARIANTS TypeOK PaidBeforePacked ShippedWithProof OneAttempt ViewsAgree
PROPERTIES FollowsPipeline
