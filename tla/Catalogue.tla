----------------------------- MODULE Catalogue -----------------------------
(***************************************************************************)
(* A product of a seller's catalogue (ProductsService) while it is edited  *)
(* and sold: the row with its price, its stock and the JSON of its         *)
(* variants, which an edit writes from a form and a sale or a cancellation *)
(* reads and writes back whole (product-variants.util).                    *)
(*                                                                         *)
(* Products do not touch each other: there is one.  An order has one or    *)
(* two lines of it, of one piece each and of the same variant or not.      *)
(* Module Checkout has the orders' side of a reservation.                  *)
(***************************************************************************)
EXTENDS Integers, Sequences, FiniteSets, SequencesExt

CONSTANTS
    Forms,          \* the variants a seller may send: options and items
    Ids,            \* the ids of variants
    NoId,           \* the line of a product without variants
    Lists,          \* the lines an order may have, by variant
    OptionNames, OptionValues,   \* what options are named, and offer
    Statuses,       \* of ProductStatus
    Prices, Stocks, \* what may be typed for the product itself
    Slots,          \* order requests that can be open at one time
    MaxEdits, MaxLines   \* bounds on the edits and on the order lines

\* The variants as they are sent: an item may lack its id, and be of any price and stock.
Options == [name : OptionNames, values : Seq(OptionValues)]
Picks == UNION {[names -> OptionValues] : names \in SUBSET OptionNames}
Items == [id : Ids \cup {NoId}, choice : Picks, price : Int, stock : Int]

ShelfAssumption ==
    /\ NoId \notin Ids
    /\ Forms \subseteq [options : Seq(Options), items : Seq(Items)]
    /\ Lists \subseteq {<<i>> : i \in Ids \cup {NoId}} \cup {<<i, k>> : i, k \in Ids \cup {NoId}}
    /\ Statuses \subseteq {"ACTIVE", "OUT_OF_STOCK", "DRAFT"}
    /\ Prices \subseteq Nat /\ Stocks \subseteq Nat
    /\ MaxEdits \in Nat /\ MaxLines \in Nat

VARIABLES
    serial,         \* edits never overlap with orders, nor orders with each other
    row,            \* the Product row, or none
    orders,         \* how many orders of each list of lines are not cancelled
    rows,           \* all OrderItem rows of the product
    typed,          \* history: the columns that were written beside the variants
    edits, pc, job

slot == <<pc, job>>
vars == <<serial, row, orders, rows, typed, edits, slot>>

NoRow == [status |-> "none"]
Free == [op |-> "none"]
Exists == row # NoRow
HasVariants(product) == product.items # <<>>

\* An order that lists the product twice.
Twice(list) == Len(list) = 2

-----------------------------------------------------------------------------
(***************************************************************************)
(* The JSON of the variants.  An item chooses a value for each option.     *)
(***************************************************************************)
\* The elements of a sequence that are in a set, in their order.
Only(seq, kept) ==
    LET out[n \in 0 .. Len(seq)] ==
            IF n = 0 THEN <<>>
            ELSE IF seq[n] \in kept THEN Append(out[n - 1], seq[n]) ELSE out[n - 1]
    IN  out[Len(seq)]

\* Options without values are dropped.
ParseOptions(form) == Only(form.options, {o \in ToSet(form.options) : o.values # <<>>})

\* So are unfinished items, silently.
ParseItems(form) ==
    Only(form.items, {i \in ToSet(form.items) : i.id # NoId /\ i.price >= 0 /\ i.stock >= 0})

Names(options) == {options[n].name : n \in DOMAIN options}
ExpectedCount(options) == FoldLeft(LAMBDA acc, o : acc * Len(o.values), 1, options)

\* Of two options of one name the later one counts.
ValuesOf(options, name) ==
    LET last == CHOOSE n \in DOMAIN options :
                    /\ options[n].name = name
                    /\ \A k \in DOMAIN options : options[k].name = name => k <= n
    IN  ToSet(options[last].values)

Combinations(options) ==
    {f \in [Names(options) -> UNION {ValuesOf(options, name) : name \in Names(options)}] :
        \A name \in Names(options) : f[name] \in ValuesOf(options, name)}

\* selectionKey: what the form did not choose is the empty value.
Key(item, options) ==
    [name \in Names(options) |-> IF name \in DOMAIN item.choice THEN item.choice[name] ELSE ""]

TotalStock(items) == MapThenSumSet(LAMBDA n : items[n].stock, DOMAIN items)
Lowest(items) == CHOOSE x \in {items[n].price : n \in DOMAIN items} :
                    \A n \in DOMAIN items : x <= items[n].price

\* validateAndNormalizeSellerVariants accepts the form: one row for each combination.
Complete(form) ==
    LET options == ParseOptions(form)
        items == ParseItems(form)
        keys == [n \in DOMAIN items |-> Key(items[n], options)]
    IN  /\ options # <<>>
        /\ Len(items) = ExpectedCount(options)
        /\ \A n, k \in DOMAIN items : n # k => items[n].id # items[k].id /\ keys[n] # keys[k]
        /\ {keys[n] : n \in DOMAIN items} = Combinations(options)

IndexOf(items, id) == {n \in DOMAIN items : items[n].id = id}

\* applyVariantStockDelta throws without the variant, and below zero.
DeltaThrows(items, id, delta) ==
    \/ IndexOf(items, id) = {}
    \/ \E n \in IndexOf(items, id) : items[n].stock + delta < 0
ApplyDelta(items, id, delta) ==
    [n \in DOMAIN items |->
        IF n \in IndexOf(items, id) THEN [items[n] EXCEPT !.stock = @ + delta] ELSE items[n]]

-----------------------------------------------------------------------------
Init ==
    /\ serial \in BOOLEAN
    /\ row = NoRow
    /\ orders = [list \in Lists |-> 0]
    /\ rows = 0
    /\ typed = {}
    /\ edits = 0
    /\ pc = [r \in Slots |-> "idle"]
    /\ job = [r \in Slots |-> Free]

Quiet == \A r \in Slots : pc[r] = "idle"
Edit == (serial => Quiet) /\ edits < MaxEdits /\ edits' = edits + 1

\* What the normalised variants put into the row.
Sheet(form) ==
    [price |-> Lowest(ParseItems(form)), stock |-> TotalStock(ParseItems(form)),
     options |-> ParseOptions(form), items |-> ParseItems(form)]

\* A form with variants sets price and stock, else they are typed.
Create(status) ==
    /\ ~Exists
    /\ Edit
    /\ \E sheet \in {Sheet(form) : form \in {f \in Forms : Complete(f)}} \cup
                      [price : Prices, stock : Stocks, options : {<<>>}, items : {<<>>}] :
         row' = [status |-> status, price |-> sheet.price, stock |-> sheet.stock,
                 options |-> sheet.options, items |-> sheet.items]
    /\ typed' = {}
    /\ UNCHANGED <<serial, orders, rows, slot>>

\* PATCH with variants overrides what was typed for price and stock.
UpdateVariants(form) ==
    /\ Exists
    /\ Edit
    /\ Complete(form)
    /\ LET sheet == Sheet(form) IN
       row' = [row EXCEPT !.price = sheet.price, !.stock = sheet.stock,
                          !.options = sheet.options, !.items = sheet.items]
    /\ typed' = {}
    /\ UNCHANGED <<serial, orders, rows, slot>>

\* PATCH without variants writes the columns as they are, for any product.
Update(column, value) ==
    /\ Exists
    /\ Edit
    /\ row' = [row EXCEPT ![column] = value]
    /\ typed' = typed \cup {column}
    /\ UNCHANGED <<serial, orders, rows, slot>>

\* An order item keeps its product from being deleted.
RemoveProduct ==
    /\ Exists
    /\ Edit
    /\ rows = 0
    /\ \A r \in Slots : pc[r] # "write"
    /\ row' = NoRow
    /\ UNCHANGED <<serial, orders, rows, typed, slot>>

-----------------------------------------------------------------------------
Goto(r, step, j) == pc' = [pc EXCEPT ![r] = step] /\ job' = [job EXCEPT ![r] = j]
Done(r) == Goto(r, "idle", Free)
Begin(r) == pc[r] = "idle" /\ (serial => Quiet)

OpenOrder(r, list) ==
    /\ Begin(r)
    /\ rows + Len(list) <= MaxLines
    /\ Goto(r, "read", [op |-> "order", ids |-> list, delta |-> -1])
    /\ UNCHANGED <<serial, row, orders, rows, typed, edits>>

\* An order is checked against the row before the transaction, each of its lines alone; the
\* variant named for a product without variants is kept.
CheckItems(r, list) ==
    /\ Exists
    /\ \A n \in DOMAIN list :
          IF HasVariants(row) THEN ~DeltaThrows(row.items, list[n], -1) ELSE row.stock >= 1
    /\ OpenOrder(r, list)

\* A cancellation takes the lines as they were ordered.
CancelOrder(r, list) ==
    /\ Begin(r)
    /\ orders[list] > 0
    /\ Goto(r, "read", [op |-> "cancel", ids |-> list, delta |-> 1])
    /\ UNCHANGED <<serial, row, orders, rows, typed, edits>>

\* In the transaction, with the order's rows inserted: the product is read.
ReadProduct(r) ==
    /\ pc[r] = "read"
    /\ IF Exists THEN Goto(r, "write", [op |-> job[r].op, ids |-> job[r].ids, delta |-> job[r].delta,
                                    options |-> row.options, items |-> row.items])
       ELSE Done(r)
    /\ UNCHANGED <<serial, row, orders, rows, typed, edits>>

Commit(r) ==
    LET j == job[r] IN
    /\ rows' = IF j.op = "order" THEN rows + Len(j.ids) ELSE rows
    /\ orders' = [orders EXCEPT ![j.ids] = @ - j.delta]

\* The JSON that was read is written back with the new stock and the new total.
PutVariants(product, read, items, total) ==
    [product EXCEPT !.options = read.options, !.items = items, !.stock = total]

\* Mutation: the total is counted before the piece is taken.
WriteBack_OldTotal(product, read, id, delta) ==
    PutVariants(product, read, ApplyDelta(read.items, id, delta), TotalStock(read.items))

WriteBack(product, read, id, delta) ==
    LET items == ApplyDelta(read.items, id, delta) IN
    PutVariants(product, read, items, TotalStock(items))

\* A line without a variant changes the column in place, also of a product that has
\* variants by now.
ByVariant(read, id) == id # NoId /\ HasVariants(read)
LineThrows(read, id, delta) == ByVariant(read, id) /\ DeltaThrows(read.items, id, delta)
PutLine(shelf, read, id, delta) ==
    IF ByVariant(read, id)
    THEN [product |-> WriteBack(shelf.product, read, id, delta), typed |-> shelf.typed \ {"stock"}]
    ELSE [product |-> [shelf.product EXCEPT !.stock = @ + delta],
          typed |-> IF HasVariants(shelf.product) THEN shelf.typed \cup {"stock"} ELSE shelf.typed]

\* The first line is put with what was read.  From then on the row is locked, so the second
\* line reads what the first has left; where one throws nothing is kept.
WriteStock(r) ==
    LET j == job[r]
        last == j.ids[Len(j.ids)]
        one == PutLine([product |-> row, typed |-> typed], j, j.ids[1], j.delta)
        done == IF Twice(j.ids) THEN PutLine(one, one.product, last, j.delta) ELSE one
    IN  /\ pc[r] = "write"
        /\ IF \/ LineThrows(j, j.ids[1], j.delta)
              \/ Twice(j.ids) /\ LineThrows(one.product, last, j.delta)
           THEN UNCHANGED <<row, orders, rows, typed>>
           ELSE row' = done.product /\ typed' = done.typed /\ Commit(r)
        /\ Done(r)
        /\ UNCHANGED <<serial, edits>>

Fail(r) ==
    /\ pc[r] # "idle"
    /\ Done(r)
    /\ UNCHANGED <<serial, row, orders, rows, typed, edits>>

Next ==
    \/ RemoveProduct
    \/ \E form \in Forms : UpdateVariants(form)
    \/ \E stock \in Stocks : Update("stock", stock)
    \/ \E price \in Prices : Update("price", price)
    \/ \E status \in Statuses : Update("status", status) \/ Create(status)
    \/ \E r \in Slots : \/ \E list \in Lists : CheckItems(r, list) \/ CancelOrder(r, list)
                        \/ ReadProduct(r) \/ WriteStock(r) \/ Fail(r)

Spec == Init /\ [][Next]_vars

-----------------------------------------------------------------------------
\* The row, the orders and the locals keep to their domains; the stock of a variant never
\* goes below zero, that of a product may.
Wares == [id : Ids, choice : Picks, price : Nat, stock : Nat]
Rows == [status : Statuses, price : Nat, stock : Int, options : Seq(Options), items : Seq(Wares)]
TypeOK ==
    /\ serial \in BOOLEAN
    /\ row \in Rows \cup {NoRow}
    /\ orders \in [Lists -> Int]
    /\ rows \in Nat /\ edits \in 0 .. MaxEdits
    /\ typed \subseteq {"stock", "price", "status"}
    /\ pc \in [Slots -> {"idle", "read", "write"}]
    /\ DOMAIN job = Slots
    /\ \A r \in Slots : pc[r] = "idle" <=> job[r] = Free
    /\ \A r \in Slots : pc[r] # "idle" =>
          /\ job[r].ids \in Lists
          /\ <<job[r].op, job[r].delta>> \in {<<"order", -1>>, <<"cancel", 1>>}
    /\ \A r \in Slots : pc[r] = "write" =>
          job[r].options \in Seq(Options) /\ job[r].items \in Seq(Wares)

Sellable(options, items) ==
    /\ Len(items) = Cardinality(Combinations(options))
    /\ \A key \in Combinations(options) : \E n \in DOMAIN items : Key(items[n], options) = key
    /\ \A n, k \in DOMAIN items : items[n].id = items[k].id => n = k

\* Whatever edits and sales overlap, a buyer finds exactly one variant for each choice of
\* the options, and an id names one variant (product-variants.util.ts:75-129).
VariantsSellable == Exists /\ HasVariants(row) => Sellable(row.options, row.items)

\* The stock of a product with variants is that of its variants, whatever edits, sales
\* and cancellations overlap, until the column is written without them: by a PATCH of it,
\* or by a line ordered before there were variants (products.service.ts:103-127).
StockIsOfVariants ==
    Exists /\ HasVariants(row) /\ "stock" \notin typed => row.stock = TotalStock(row.items)

\* When nothing overlaps, a product with variants is listed at its lowest price until the
\* price is written without them: a sale leaves it so (products.service.ts:106).
ListedAtLowest ==
    Exists /\ serial /\ HasVariants(row) /\ "price" \notin typed => row.price = Lowest(row.items)

\* The tabs of findMyProducts.
Tabs(product) ==
    {tab \in {"active", "out_of_stock", "draft"} :
        CASE tab = "active" -> product.status = "ACTIVE" /\ product.stock > 0
          [] tab = "out_of_stock" -> \/ product.status = "OUT_OF_STOCK"
                                     \/ product.status = "ACTIVE" /\ product.stock = 0
          [] OTHER -> product.status = "DRAFT"}

TwiceOrdered == \E list \in Lists : Twice(list) /\ orders[list] > 0

\* A seller finds every product on exactly one tab, when orders do not overlap, but where an
\* order that lists it twice stands: each of its lines was checked against the same piece,
\* and a stock of minus one is on no tab (products.service.ts:169-179).
OnOneTab ==
    Exists /\ serial =>
        Cardinality(Tabs(row)) = 1 \/ (row.stock = -1 /\ TwiceOrdered)

-----------------------------------------------------------------------------
(***************************************************************************)
(* Why these hold at every step: what an open order or cancellation has    *)
(* read, it may write.                                                     *)
(***************************************************************************)
\* What was read could be bought in each combination, of a product that is still there.
ReadIsSellable ==
    \A r \in Slots : pc[r] = "write" =>
        Exists /\ (job[r].items # <<>> => Sellable(job[r].options, job[r].items))

\* When nothing overlaps there is one of them, what it has read is the row, and what it
\* takes is there.
OneOpen == serial => \A r, q \in Slots : pc[r] # "idle" /\ pc[q] # "idle" => r = q
ReadIsRow ==
    serial => \A r \in Slots : pc[r] = "write" =>
        job[r].options = row.options /\ job[r].items = row.items
PieceIsThere ==
    serial => \A r \in Slots : pc[r] # "idle" /\ job[r].op = "order" =>
        /\ Exists
        /\ IF HasVariants(row) THEN \A n \in DOMAIN job[r].ids : job[r].ids[n] # NoId
           ELSE row.stock >= 1
OrdersStand ==
    serial =>
        /\ \A list \in Lists : orders[list] >= 0
        /\ \A r \in Slots : pc[r] # "idle" /\ job[r].op = "cancel" => orders[job[r].ids] > 0
StockedOrSold ==
    serial /\ Exists => row.stock >= 0 \/ (row.stock = -1 /\ TwiceOrdered)

ShelfInv ==
    /\ TypeOK /\ VariantsSellable /\ StockIsOfVariants /\ ListedAtLowest
    /\ ReadIsSellable /\ OneOpen /\ ReadIsRow /\ PieceIsThere
    /\ OrdersStand /\ StockedOrSold
=============================================================================
