----------------------------- MODULE BackOffice -----------------------------
(***************************************************************************)
(* Services that share no table with each other, side by side: the         *)
(* fulfilment of orders one handler at a time, invoices, ratings, live     *)
(* rewards, the audience of a stream, its reminders, the catalogue, the    *)
(* clean-up of replays, the lists of orders, and mail.  A behaviour        *)
(* explores one of them, its part; t1 to t11 are the tables, caches and    *)
(* history of that part, step and task its handlers.                       *)
(***************************************************************************)
EXTENDS OrderViews, Integers

CONSTANTS
    Pair,           \* two documents, streams, users, sockets or devices, by the part
    Streams, NoStream,
    Announced,      \* the streams reminded of
    People, NoUser, Roles, HostOf, Tokens,  \* their hosts and viewers, with their devices
    Window, BatchSize, LastMinute, MaxMoves,    \* of reminders, see LiveAlerts
    MailCalls, MailRestarts,                    \* bounds of Mailing
    Bids, Kept, CrowdCalls, SocketCalls, CrowdWindows,  \* amounts and bounds of Audience
    ReplayAge, ReplayPage, ReplayPages, LastHour,       \* of ReplayCleanup
    Shoppers, Shops, Staff, RowShapes, ListsAsked, RowStatuses, ListLimit,
    MaxRows, RowMoves, LastHalfDay,                     \* of OrderBoards
    SheetsSent, Variants, NoVariant, OptionNames, OptionValues, ShelfStatuses,
    LinesOrdered, TypedPrices, TypedStocks, EditsMade, PiecesSold,    \* of Catalogue
    Billers, Prefixes, GstStates, Purchases, SellerAddresses, LastInvoiceDay,    \* of Invoices
    RatedBuyers, RatedSellers, BuyerLimit, SellerLimit, PointsGiven, RatingCalls,   \* of Ratings
    DayUnits, DayOffset, QualifiedTime, RequiredDays, WindowDays,
    LastUnit, StopsMade                                                             \* of LiveReward

VARIABLES part, serial, step, task, t1, t2, t3, t4, t5, t6, t7, t8, t9, t10, t11

OneStream == CHOOSE s \in Streams : TRUE

Invoice == INSTANCE Invoices WITH
    Documents <- Pair, Sellers <- Billers, Prefix <- Prefixes, StateOf <- GstStates,
    Baskets <- Purchases, Profiles <- SellerAddresses, LastDay <- LastInvoiceDay,
    today <- t1, basket <- t2, row <- t3, seller <- t4, printed <- t5, pc <- step, job <- task

Rating == INSTANCE Ratings WITH
    Buyers <- RatedBuyers, Sellers <- RatedSellers, Given <- PointsGiven, MaxCalls <- RatingCalls,
    score <- t1, counted <- t2, requests <- t3, log <- t4, voted <- t5,
    failed <- t6, pc <- step, job <- task

Reward == INSTANCE LiveReward WITH
    Streams <- Pair, DayLength <- DayUnits, Offset <- DayOffset, MaxNow <- LastUnit,
    MaxStops <- StopsMade, now <- t1, started <- t2, session <- t3,
    day <- t4, waiver <- t5, asked <- t6, recorded <- t7, refreshed <- t8, failed <- t9,
    pc <- step, job <- task

Crowd == INSTANCE Audience WITH
    Users <- Pair, Sockets <- Pair, Amounts <- Bids, Cap <- [k \in {"comments", "bids"} |-> Kept],
    MaxCalls <- CrowdCalls, MaxWindows <- CrowdWindows, live <- t1, client <- t2, viewers <- t3, likes <- t4,
    entries <- t5, views <- t6, window <- t7, summary <- t8, told <- t9, past <- t10,
    calls <- t11, pc <- step, job <- task

Alert == INSTANCE LiveAlerts WITH
    Streams <- Announced, Users <- People, Profiles <- Roles, MaxNow <- LastMinute,
    now <- t1, cron <- t2, row <- t3, device <- t4, owned <- t5, told <- t6, reached <- t7,
    moves <- t8, pc <- step, job <- task

Shelf == INSTANCE Catalogue WITH
    Forms <- SheetsSent, Ids <- Variants, NoId <- NoVariant, Lists <- LinesOrdered,
    Statuses <- ShelfStatuses, Prices <- TypedPrices, Stocks <- TypedStocks, MaxEdits <- EditsMade, MaxLines <- PiecesSold,
    row <- t1, orders <- t2, rows <- t3, typed <- t4, edits <- t5, pc <- step, job <- task

Replay == INSTANCE ReplayCleanup WITH
    Streams <- Pair \cup Streams, MaxAge <- ReplayAge, PageSize <- ReplayPage,
    MaxPages <- ReplayPages, MaxNow <- LastHour,
    now <- t1, cron <- t2, object <- t3, replay <- t4, pc <- t5, run <- t6, backlog <- t7

Board == INSTANCE OrderBoards WITH
    Buyers <- Shoppers, Sellers <- Shops, Admins <- Staff, Shapes <- RowShapes,
    Asked <- ListsAsked, Statuses <- RowStatuses, Limit <- ListLimit, MaxRows <- MaxRows,
    MaxMoves <- RowMoves, MaxNow <- LastHalfDay,
    now <- t1, row <- t2, reader <- t3, moves <- t4

Mail == INSTANCE Mailing WITH
    MaxCalls <- MailCalls, MaxRestarts <- MailRestarts, have <- t1, inbox <- t2, recent <- t3,
    tickets <- t4, answer <- t5, mailed <- t6, calls <- t7, restarts <- t8, asked <- t9,
    pc <- step, job <- task

ASSUME RewardConstants == Reward!RewardAssumption
ASSUME AlertConstants == Alert!AlertsAssumption
ASSUME CrowdConstants == Crowd!AudienceAssumption
ASSUME MailConstants == Mail!MailAssumption
ASSUME ReplayConstants == Replay!ReplaysAssumption
ASSUME BoardConstants == Board!BoardsAssumption
ASSUME InvoiceConstants == Invoice!InvoicesAssumption
ASSUME RatingConstants == Rating!RatingsAssumption
ASSUME ShelfConstants == Shelf!ShelfAssumption

NoTask == step = [r \in Slots |-> "idle"] /\ task = [r \in Slots |-> Free]

PartInit ==
    /\ Init
    /\ \/ /\ part = "orders" /\ serial = TRUE /\ NoTask
          /\ t1 = 0 /\ t2 = 0 /\ t3 = 0 /\ t4 = 0 /\ t5 = 0 /\ t6 = 0 /\ t7 = 0 /\ t8 = 0
          /\ t9 = 0 /\ t10 = 0 /\ t11 = 0
       \/ /\ part = "invoices" /\ Invoice!Init /\ t6 = 0 /\ t7 = 0 /\ t8 = 0 /\ t9 = 0
          /\ t10 = 0 /\ t11 = 0
       \/ /\ part = "ratings" /\ Rating!Init /\ t7 = 0 /\ t8 = 0 /\ t9 = 0
          /\ t10 = 0 /\ t11 = 0
       \/ part = "reward" /\ Reward!Init /\ t10 = 0 /\ t11 = 0
       \/ part \in {"sockets", "likes"} /\ Crowd!Init
       \/ part = "alerts" /\ Alert!Init /\ t9 = 0 /\ t10 = 0 /\ t11 = 0
       \/ /\ part = "catalogue" /\ Shelf!Init /\ t6 = 0 /\ t7 = 0 /\ t8 = 0 /\ t9 = 0
          /\ t10 = 0 /\ t11 = 0
       \/ /\ part = "replays" /\ Replay!Init /\ NoTask /\ t8 = 0 /\ t9 = 0 /\ t10 = 0 /\ t11 = 0
       \/ /\ part = "boards" /\ Board!Init /\ NoTask /\ t5 = 0 /\ t6 = 0 /\ t7 = 0 /\ t8 = 0
          /\ t9 = 0 /\ t10 = 0 /\ t11 = 0
       \/ part = "mail" /\ Mail!Init /\ t10 = 0 /\ t11 = 0

PartNext ==
    /\ \/ /\ part = "orders" /\ Next
          /\ UNCHANGED <<serial, step, task, t1, t2, t3, t4, t5, t6, t7, t8, t9, t10, t11>>
       \/ part = "invoices" /\ Invoice!Next /\ UNCHANGED <<vars, t6, t7, t8, t9, t10, t11>>
       \/ part = "ratings" /\ Rating!Next /\ UNCHANGED <<vars, t7, t8, t9, t10, t11>>
       \/ part = "reward" /\ Reward!Next /\ UNCHANGED <<vars, t10, t11>>
       \/ /\ part = "sockets"
          /\ Crowd!SocketSteps \/ Crowd!ViewSteps \/ Crowd!StopSteps
          /\ t11' <= SocketCalls
          /\ UNCHANGED vars
       \/ /\ part = "likes"
          /\ Crowd!EngagementSteps \/ Crowd!StopSteps
          /\ \A r \in Slots : task'[r] # Free => task'[r].stream = OneStream
          /\ UNCHANGED vars
       \/ part = "alerts" /\ Alert!Next /\ UNCHANGED <<vars, t9, t10, t11>>
       \/ part = "catalogue" /\ Shelf!Next /\ UNCHANGED <<vars, t6, t7, t8, t9, t10, t11>>
       \/ part = "replays" /\ Replay!Next /\ UNCHANGED <<vars, step, task, t8, t9, t10, t11>>
       \/ /\ part = "boards" /\ Board!Next
          /\ UNCHANGED <<vars, step, task, t5, t6, t7, t8, t9, t10, t11>>
       \/ part = "mail" /\ Mail!Next /\ UNCHANGED <<vars, t10, t11>>
    /\ UNCHANGED part

store == <<part, serial, step, task, t1, t2, t3, t4, t5, t6, t7, t8, t9, t10, t11>>

PartSpec == PartInit /\ [][PartNext]_<<vars, store>>

(***************************************************************************)
(* The properties of each part, with the types of its tables: each is      *)
(* stated in the part's own module.                                        *)
(***************************************************************************)
\* No interleaving of penalties, overrides and ratings invents a score, loses a request
\* or leaves the log untrue; and the live reward is earned by time that was streamed.
ScoresEarned ==
    /\ part = "ratings" =>
          /\ Rating!TypeOK /\ Rating!EveryRequestCounted
          /\ Rating!ScoreExplained /\ Rating!LogIsHistory
    /\ part = "reward" =>
          /\ Reward!TypeOK /\ Reward!TimeIsStreamed
          /\ Reward!WaiverEarned /\ Reward!FlagFresh

\* The pages of an invoice add up to the order, under one number that is no other's.
InvoicesAddUp ==
    part = "invoices" =>
        /\ Invoice!TypeOK /\ Invoice!PagesCoverOrder
        /\ Invoice!OneNumber /\ Invoice!NumberNamesOneOrder

\* Viewers are counted as they come and go, views once in a window, the top bid stands,
\* and the summary of a stream agrees with what its buyers were told.
CrowdCounted ==
    /\ [](part \in {"sockets", "likes"} =>
            Crowd!TypeOK /\ Crowd!CountIsAudience /\ Crowd!ViewsCountedOnce)
    /\ [][(part \in {"sockets", "likes"} => Crowd!KeepsTold /\ Crowd!KeepsTopBid)]_store

\* Every device of a buyer is reminded once and in time, and no other is.
BuyersReminded ==
    part = "alerts" =>
        /\ Alert!TypeOK /\ Alert!RemindedOnce /\ Alert!AllReminded
        /\ Alert!NoneMissed /\ Alert!OnlyBuyersReached

\* A product with variants can be bought in each of its combinations, its column is the sum
\* of their stocks, and it is found at its lowest price, on one tab.
ProductsSellable ==
    part = "catalogue" =>
        /\ Shelf!TypeOK /\ Shelf!VariantsSellable /\ Shelf!StockIsOfVariants
        /\ Shelf!ListedAtLowest /\ Shelf!OnOneTab

\* The clean-up leaves no replay without its recording, takes at least half of the old
\* ones or as many as a run may, and no young one.
ReplaysPlayable ==
    /\ [](part = "replays" =>
            Replay!TypeOK /\ Replay!ShownIsStored /\ Replay!RunHalvesBacklog)
    /\ [][(part = "replays" => Replay!YoungStays)]_store

\* Lists skip no order and show none that cannot be opened; badges and figures add up.
BoardsComplete ==
    part = "boards" =>
        /\ Board!TypeOK /\ Board!NoneSkipped /\ Board!TabsAddUp
        /\ Board!ListedOpens /\ Board!RevenueAgrees

\* Mail is sent once, and is never claimed to have been when it was not.
MailTruthful ==
    part = "mail" =>
        /\ Mail!TypeOK /\ Mail!CopiesBounded /\ Mail!NeverOverclaims
        /\ Mail!ApplicationArrives /\ Mail!BackupIsWhole
=============================================================================
