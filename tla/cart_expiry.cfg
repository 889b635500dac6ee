SPECIFICATION FairSpec
CONSTANTS
    Buyers = {b1}
    Streams = {s1}
    Products = {p1}
    Requests = {r1}
    Sweeper = sweeper
    NoStream = NoStream
    Window = 1
    MaxTime = 2
    Dates = {0, 1}
CHECK_DEADLOCK FALSE
INVARIANTS TypeOK WindowCovered ServedInWindow
PROPERTIES CartsExpire
