----------------------------- MODULE OrderBoards -----------------------------
(***************************************************************************)
(* The lists of orders and replacement requests that buyers, sellers and   *)
(* admins scroll through while rows arrive and move: OrdersService,        *)
(* ReplacementsService and the dashboard of SellersService.                *)
(*                                                                         *)
(* Rows are kept in the order of their creation and never deleted.  Time   *)
(* is counted in halves of a UTC day, split where a day of India begins,   *)
(* from the second half of a day on.  The app that loads one page after    *)
(* another is not in the repository.                                       *)
(***************************************************************************)
EXTENDS Integers, FiniteSets, Sequences, FiniteSetsExt

CONSTANTS
    Buyers, Sellers,    \* the users with each profile; a user may have both
    Admins,
    Shapes,             \* kind, buyer and sellers of the rows that may arrive
    Statuses,           \* the statuses of orders that the lists tell apart
    Asked,              \* the lists and tabs that are asked for: view, user and filter
    Limit,              \* rows of a page
    MaxRows, MaxMoves, MaxNow   \* bounds

Users == Buyers \cup Sellers \cup Admins
Kinds == {"order", "replacement"}
Lists == {"mine", "sales", "returns", "console"}

\* Filters by day: any, today's, or a day of India.
AnyDay == -1
Today == -2
Wanted == [statuses : SUBSET Statuses, date : {AnyDay, Today} \cup Nat]

BoardsAssumption ==
    /\ Limit \in Nat \ {0} /\ MaxRows \in Nat /\ MaxMoves \in Nat /\ MaxNow \in Nat
    /\ \A s \in Shapes : s \in [kind : Kinds, buyer : Users, sellers : SUBSET Users]
    /\ \A a \in Asked : a \in [view : Lists \cup {"counts"}, user : Users, want : Wanted]
    /\ "PAID" \in Statuses

VARIABLES
    serial,     \* the queries of an answer see one state, fixed at the start
    now,
    row,        \* the Order and ReplacementRequest rows, the oldest first
    reader,     \* one user's list, tabs or nothing, and what it has been answered
    moves       \* changes of a status

vars == <<serial, now, row, reader, moves>>

Rows == DOMAIN row
NoReader == [view |-> "none"]

\* Days of the server, which runs in UTC, and of India.
ServerDay(t) == (t + 1) \div 2
IndianDay(t) == (t + 2) \div 2

Init ==
    /\ serial \in BOOLEAN
    /\ now = 0 /\ row = <<>>
    /\ reader = NoReader
    /\ moves = 0

Tick ==
    /\ now < MaxNow
    /\ now' = now + 1
    /\ UNCHANGED <<serial, row, reader, moves>>

\* An order is placed, or a replacement asked for.
Arrive(shape) ==
    /\ Len(row) < MaxRows
    /\ row' = Append(row, [shape |-> shape, at |-> now, status |-> "PAID"])
    /\ reader' = IF reader = NoReader THEN reader ELSE [reader EXCEPT !.changes = @ + 1]
    /\ UNCHANGED <<serial, now, moves>>

\* A handler of OrderFulfillment moves an order.
Move(i, to) ==
    /\ moves < MaxMoves
    /\ row[i].shape.kind = "order" /\ row[i].status # to
    /\ row' = [row EXCEPT ![i].status = to]
    /\ reader' = IF reader = NoReader THEN reader ELSE [reader EXCEPT !.changes = @ + 1]
    /\ moves' = moves + 1
    /\ UNCHANGED <<serial, now>>

-----------------------------------------------------------------------------
(***************************************************************************)
(* What a query selects.                                                   *)
(***************************************************************************)
\* resolveSellerDateRange: a day of India, today's, or no filter for any other word.  Each
\* request resolves it once, before its queries.
Resolved(want) == [want EXCEPT !.date = IF @ = Today THEN IndianDay(now) ELSE @]
InRange(date, t) == date \in Nat => IndianDay(t) = date

OrdersOf(u) == {i \in Rows : row[i].shape.kind = "order" /\ row[i].shape.buyer = u}
SalesOf(u) == {i \in Rows : row[i].shape.kind = "order" /\ u \in row[i].shape.sellers}
ReplacementsOf(u) ==
    {i \in Rows : row[i].shape.kind = "replacement" /\ u \in row[i].shape.sellers}
AllReplacements == {i \in Rows : row[i].shape.kind = "replacement"}

Filtered(rows, want) ==
    {i \in rows : /\ want.statuses # {} => row[i].status \in want.statuses
                  /\ InRange(want.date, row[i].at)}

\* findMyOrders, findSellerOrders, listForSeller and listAdmin; a user without the profile
\* is refused or answered an empty list.
FindMyOrders(u, want) == Filtered(IF u \in Buyers THEN OrdersOf(u) ELSE {}, want)
FindSellerOrders(u, want) == Filtered(IF u \in Sellers THEN SalesOf(u) ELSE {}, want)
ListForSeller(u, want) == Filtered(IF u \in Sellers THEN ReplacementsOf(u) ELSE {}, want)
ListAdmin(u, want) ==
    Filtered(IF u \in Admins THEN AllReplacements ELSE {}, [want EXCEPT !.date = AnyDay])

Selected(view, u, want) ==
    CASE view = "mine" -> FindMyOrders(u, want)
      [] view = "sales" -> FindSellerOrders(u, want)
      [] view = "returns" -> ListForSeller(u, want)
      [] view = "console" -> ListAdmin(u, want)

Newer(rows, i) == Cardinality({j \in rows : j > i})

\* Mutation: pages are counted from 0.
Page_FromZero(rows, page) ==
    {i \in rows : Newer(rows, i) \in page * Limit .. (page + 1) * Limit - 1}

\* skip and take, the newest row first.
Page(rows, page) ==
    {i \in rows : Newer(rows, i) \in (page - 1) * Limit .. page * Limit - 1}

\* hasNext: page < ceil(total / limit).
HasNext(page, total) == page < (total + Limit - 1) \div Limit

\* getRecentBuyerOrders: the first page, whatever the status.
GetRecentBuyerOrders(u) == Page(FindMyOrders(u, [statuses |-> {}, date |-> AnyDay]), 1)

-----------------------------------------------------------------------------
(***************************************************************************)
(* A user scrolls a list to its end.  The rows and the count of a page are *)
(* two queries that run side by side.                                      *)
(***************************************************************************)
Open(a) ==
    /\ reader = NoReader
    /\ a.view \in Lists
    /\ reader' = [view |-> a.view, user |-> a.user, asked |-> a.want, want |-> Resolved(a.want),
                  page |-> 1, todo |-> {"rows", "count"}, seen |-> {}, total |-> 0,
                  upTo |-> Selected(a.view, a.user, Resolved(a.want)), changes |-> 0]
    /\ UNCHANGED <<serial, now, row, moves>>

Chosen == Selected(reader.view, reader.user, reader.want)
Reading(query) == reader.view \in Lists /\ query \in reader.todo

QueryRows ==
    /\ Reading("rows")
    /\ reader' = [reader EXCEPT !.seen = @ \cup Page(Chosen, reader.page), !.todo = @ \ {"rows"}]
    /\ ~serial
    /\ UNCHANGED <<serial, now, row, moves>>

QueryCount ==
    /\ Reading("count")
    /\ reader' = [reader EXCEPT !.total = Cardinality(Chosen), !.todo = @ \ {"count"}]
    /\ ~serial
    /\ UNCHANGED <<serial, now, row, moves>>

QueryBoth ==
    /\ serial
    /\ Reading("rows")
    /\ reader' = [reader EXCEPT !.seen = @ \cup Page(Chosen, reader.page),
                                !.total = Cardinality(Chosen), !.todo = {}]
    /\ UNCHANGED <<serial, now, row, moves>>

AtEnd == reader.view \in Lists /\ reader.todo = {} /\ ~HasNext(reader.page, reader.total)

NextPage ==
    /\ reader.view \in Lists /\ reader.todo = {} /\ ~AtEnd
    /\ reader' = [reader EXCEPT !.page = @ + 1, !.todo = {"rows", "count"},
                                !.want = Resolved(reader.asked)]
    /\ UNCHANGED <<serial, now, row, moves>>

-----------------------------------------------------------------------------
(***************************************************************************)
(* The badges of the seller's tabs: five counts that run side by side.     *)
(***************************************************************************)
Tabs == [all |-> {}, new |-> {"PAID"}, packed |-> {"PACKED"}, inTransit |-> {"SHIPPED"},
         delivered |-> {"DELIVERED"}]
Unread == -1

CountTab(tab, u, date) == Cardinality(FindSellerOrders(u, [statuses |-> Tabs[tab], date |-> date]))

GetSellerOrderCounts(a) ==
    /\ reader = NoReader
    /\ a.view = "counts" /\ a.user \in Sellers
    /\ LET date == Resolved(a.want).date IN
       reader' = [view |-> "counts", user |-> a.user, date |-> date, changes |-> 0,
                  tab |-> [t \in DOMAIN Tabs |->
                            IF serial THEN CountTab(t, a.user, date) ELSE Unread]]
    /\ UNCHANGED <<serial, now, row, moves>>

QueryTab(t) ==
    /\ reader.view = "counts" /\ reader.tab[t] = Unread
    /\ reader' = [reader EXCEPT !.tab[t] = CountTab(t, reader.user, reader.date)]
    /\ UNCHANGED <<serial, now, row, moves>>

Leave ==
    /\ \/ reader.view \in Lists /\ AtEnd
       \/ reader.view = "counts" /\ \A t \in DOMAIN Tabs : reader.tab[t] # Unread
    /\ reader' = NoReader
    /\ UNCHANGED <<serial, now, row, moves>>

-----------------------------------------------------------------------------
(***************************************************************************)
(* The page of one row.                                                    *)
(***************************************************************************)
GetBuyerOrderDetail(u, i) == u \in Buyers /\ i \in OrdersOf(u)
GetOrderHelp(u, i) == u \in Buyers /\ i \in OrdersOf(u)
GetSellerOrderDetail(u, i) == u \in Sellers /\ i \in SalesOf(u)
FindOne(u, i) == i \in OrdersOf(u) \cup (IF u \in Sellers THEN SalesOf(u) ELSE {})
GetBuyerDetail(u, i) == u \in Buyers /\ i \in AllReplacements /\ row[i].shape.buyer = u
GetSellerDetail(u, i) == u \in Sellers /\ i \in ReplacementsOf(u)

\* getForOrder: an account with both profiles is taken for a buyer.
GetForOrder(u, i) ==
    /\ i \in AllReplacements
    /\ u \notin Admins =>
        IF u \in Buyers THEN row[i].shape.buyer = u ELSE u \in row[i].shape.sellers

-----------------------------------------------------------------------------
(***************************************************************************)
(* The dashboard.  An order is worth its number, to each of its sellers.   *)
(***************************************************************************)
Revenue(u, t) ==
    SumSet({i \in SalesOf(u) : /\ row[i].status \in {"PAID", "SHIPPED", "DELIVERED"}
                               /\ ServerDay(row[i].at) = t})

GetMyDashboardStats(u) == Revenue(u, ServerDay(now))

\* getLast7DaysChartSeries, the oldest day first.
Last7Days(u) == [k \in 1 .. 7 |-> Revenue(u, ServerDay(now) - 7 + k)]

GetRevenueToday(u) ==
    [total |-> Revenue(u, ServerDay(now)), yesterday |-> Revenue(u, ServerDay(now) - 1)]

-----------------------------------------------------------------------------
Next ==
    \/ Tick \/ QueryRows \/ QueryCount \/ QueryBoth \/ NextPage \/ Leave
    \/ \E s \in Shapes : Arrive(s)
    \/ \E i \in Rows, to \in Statuses : Move(i, to)
    \/ \E a \in Asked : Open(a) \/ GetSellerOrderCounts(a)
    \/ \E t \in DOMAIN Tabs : QueryTab(t)

Spec == Init /\ [][Next]_vars

-----------------------------------------------------------------------------
(***************************************************************************)
(* Properties.                                                             *)
(***************************************************************************)
Scrolling ==
    [view : Lists, user : Users, asked : Wanted, want : Wanted, page : Nat \ {0},
     todo : SUBSET {"rows", "count"}, seen : SUBSET Nat, total : Nat, upTo : SUBSET Nat,
     changes : Nat]
Counting ==
    [view : {"counts"}, user : Sellers, date : {AnyDay} \cup Nat, changes : Nat,
     tab : [DOMAIN Tabs -> Nat \cup {Unread}]]

TypeOK ==
    /\ serial \in BOOLEAN
    /\ now \in 0 .. MaxNow /\ moves \in 0 .. MaxMoves
    /\ row \in Seq([shape : Shapes, at : 0 .. MaxNow, status : Statuses]) /\ Len(row) <= MaxRows
    /\ reader \in Scrolling \cup Counting \cup {NoReader}

\* A user who loads pages until there is no next one has been shown every row the list had
\* when it was opened, though rows arrive on its first page meanwhile.  When a row arrives
\* between the count of a page and its rows, the list may end one row early for each.
\* (With a status filter, rows that leave the list pull others past the reader.)
NoneSkipped ==
    AtEnd /\ reader.asked.statuses = {} /\ reader.asked.date # Today =>
        Cardinality(reader.upTo \ reader.seen) <= IF serial THEN 0 ELSE reader.changes

\* The badges of the tabs never add up to more than the badge of all orders, but for the
\* orders that arrived or moved between the counts.
TabsAddUp ==
    reader.view = "counts" /\ (\A t \in DOMAIN Tabs : reader.tab[t] # Unread) =>
        reader.tab.new + reader.tab.packed + reader.tab.inTransit + reader.tab.delivered
            <= reader.tab.all + IF serial THEN 0 ELSE reader.changes

\* Whoever sees a row in a list can open its page.  An account that buys and sells is
\* not shown the replacements of its sales on the page of their order.
ListedOpens ==
    LET any == [statuses |-> {}, date |-> AnyDay] IN
    \A u \in Users :
        /\ \A i \in FindMyOrders(u, any) \cup GetRecentBuyerOrders(u) :
            GetBuyerOrderDetail(u, i) /\ GetOrderHelp(u, i) /\ FindOne(u, i)
        /\ \A i \in FindSellerOrders(u, any) : GetSellerOrderDetail(u, i) /\ FindOne(u, i)
        /\ \A i \in ListForSeller(u, any) : GetSellerDetail(u, i) /\ (u \notin Buyers => GetForOrder(u, i))
        /\ \A i \in AllReplacements : GetBuyerDetail(u, i) => GetForOrder(u, i)

\* The chart of a seller's dashboard ends with the revenue that the dashboard and the
\* revenue page give for today and, before it, for yesterday.
RevenueAgrees ==
    \A u \in Sellers :
        /\ Last7Days(u)[7] = GetMyDashboardStats(u) /\ Last7Days(u)[7] = GetRevenueToday(u).total
        /\ Last7Days(u)[6] = GetRevenueToday(u).yesterday

\* What a reader has not been shown has as many newer rows as the pages before hold, and a
\* count that was read is short by no more than what has arrived since.
ScrollKept ==
    LET left == reader.upTo \ reader.seen
        page == IF "rows" \in reader.todo THEN reader.page - 1 ELSE reader.page IN
    reader.view \in Lists /\ reader.asked.statuses = {} /\ reader.asked.date # Today =>
        /\ reader.want = reader.asked
        /\ reader.upTo \subseteq Chosen
        /\ \A i \in left : Newer(Chosen, i) >= page * Limit
        /\ "count" \notin reader.todo => Cardinality(Chosen) <= reader.total + reader.changes
        /\ serial => reader.todo \in {{}, {"rows", "count"}}
        /\ serial /\ reader.todo = {} /\ reader.total <= reader.page * Limit => left = {}

\* The counts that were read are of rows that still have the status, or have moved since.
Badge(t) == IF reader.tab[t] = Unread THEN 0 ELSE reader.tab[t]
CountsKept ==
    LET rows == FindSellerOrders(reader.user, [statuses |-> {}, date |-> reader.date])
        read == {t \in DOMAIN Tabs \ {"all"} : reader.tab[t] # Unread}
        done == {i \in rows : \E t \in read : row[i].status \in Tabs[t]}
        sum == Badge("new") + Badge("packed") + Badge("inTransit") + Badge("delivered") IN
    reader.view = "counts" =>
        IF serial THEN sum <= reader.tab.all /\ \A t \in DOMAIN Tabs : reader.tab[t] # Unread
        ELSE IF reader.tab.all = Unread THEN sum <= Cardinality(done) + reader.changes
        ELSE sum + Cardinality(rows \ done) <= reader.tab.all + reader.changes

BoardsInv == TypeOK /\ ScrollKept /\ CountsKept
=============================================================================
