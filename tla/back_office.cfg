SPECIFICATION MCSpec
CONSTANTS
    Orders = {o1, o2}
    LiveOrders = {o1}
    Slots = {r1, r2}
    Endpoints <- AllEndpoints
    Serial = TRUE
    MaxRepeats = 2
    Pair = {x1, x2}
    Streams = {s1, s2}
    NoStream = NoStream
    Announced = {s1}
    OldDevice = old
    Tokens <- MCTokens
    People <- MCPeople
    NoUser = nobody
    Roles <- MCRoles
    HostOf <- MCHostOf
    Window = 1
    BatchSize = 1
    LastMinute = 4
    MaxMoves = 1
    MailCalls = 2
    MailRestarts = 1
    Bids = {1, 2}
    Kept = 2
    CrowdCalls = 4
    SocketCalls = 2
    CrowdWindows = 1
    ReplayAge = 1
    ReplayPage = 1
    ReplayPages = 5
    LastHour = 3
    Shoppers = {"buyer", "both"}
    Shops = {"shop", "both"}
    Staff = {"admin"}
    RowShapes <- MCShapes
    ListsAsked <- MCLists
    RowStatuses = {"PAID", "PACKED"}
    ListLimit = 1
    MaxRows = 3
    RowMoves = 1
    LastHalfDay = 1
    Billers = {"a", "b"}
    Prefixes <- MCPrefixes
    GstStates <- MCGstStates
    Purchases <- MCPurchases
    SellerAddresses <- MCAddresses
    LastInvoiceDay = 1
    RatedBuyers = {"b"}
    RatedSellers = {"s"}
    BuyerLimit = 2
    SellerLimit = 2
    PointsGiven = {1, 5}
    RatingCalls = 3
    DayUnits = 1
    DayOffset = 0
    QualifiedTime = 1
    RequiredDays = 2
    WindowDays = 1
    LastUnit = 3
    StopsMade = 3
    SheetsSent <- MCSheets
    Variants = {"v1", "v2"}
    NoVariant = "plain"
    OptionNames = {"size", "fit"}
    OptionValues = {"S", "M", "L"}
    ShelfStatuses = {"ACTIVE", "OUT_OF_STOCK"}
    LinesOrdered <- MCLines
    TypedPrices = {2}
    TypedStocks = {0, 1}
    EditsMade = 2
    PiecesSold = 2
CHECK_DEADLOCK FALSE
SYMMETRY Symmetry
INVARIANTS CountedWhenDelivered StepsInOrder ScoresEarned InvoicesAddUp BuyersReminded ProductsSellable BoardsComplete MailTruthful
PROPERTIES FollowsLifecycle CrowdCounted ReplaysPlayable
