------------------------------ MODULE Checkout ------------------------------
(***************************************************************************)
(* Placing orders and paying for them: OrdersService (validateCart,        *)
(* checkoutFromCart, create) and PaymentsService (createRazorpayOrder,     *)
(* verifyAndCheckout), together with the three stores they share: Redis    *)
(* (carts and pending payment sessions), Postgres (orders, stock, checkout *)
(* failures) and Razorpay (captures and refunds).                          *)
(*                                                                         *)
(* One Node process runs every HTTP handler; handlers interleave at each   *)
(* await.  A request r walks through the program counter pc[r]; one action *)
(* is the code between two awaits whose effects others can see.  Postgres  *)
(* runs at READ COMMITTED, so a transaction that only decrements a column  *)
(* is atomic while one that reads a row and writes it back is two steps.   *)
(*                                                                         *)
(* Abstractions.  A line has quantity one; a cart has one line of a sku, a *)
(* POST /orders body several.  A request creates at most one order, which  *)
(* is named by the request.  Razorpay captures a session at most once, so  *)
(* a payment is named by its Razorpay order.  Prices and addresses are     *)
(* left out: what they can do is make a step throw.                        *)
(***************************************************************************)
EXTENDS Integers, FiniteSets

CONSTANTS
    Buyers,         \* registered buyers
    Payments,       \* Razorpay orders that can be opened
    Requests,       \* executions of an HTTP handler
    Skus,           \* what a cart line can name: a product or one variant of it
    Rows,           \* rows of the Product table
    RowOf,          \* the row a sku is stored in
    VariantRows,    \* rows whose stock lives in the variants JSON
    InitialStock,   \* stock of each sku before the first request
    Endpoints,      \* which of the three order endpoints are called
    MaxLines,       \* lines of one sku in one POST /orders body (bound)
    MaxInflight,    \* requests being handled at one time (bound)
    MaxCrashes,     \* process crashes in a behaviour (bound)
    ClientSerial,   \* TRUE: the app never has two verify calls of a payment open
    Faults,         \* what may fail: "step" any read or check up to MarkPaid,
                    \* "redis" the two deletes after it, "audit" the failure row
    NoPayment, NoBuyer

AllEndpoints == {"verify", "checkout", "create"}

ASSUME CheckoutAssumption ==
    /\ IsFiniteSet(Requests)
    /\ RowOf \in [Skus -> Rows]
    /\ VariantRows \subseteq Rows
    /\ InitialStock \in [Skus -> Nat]
    /\ Endpoints \subseteq AllEndpoints
    /\ MaxLines \in Nat \ {0}
    /\ MaxInflight \in Nat \ {0}
    /\ MaxCrashes \in Nat
    /\ ClientSerial \in BOOLEAN
    /\ Faults \subseteq {"step", "redis", "audit"}
    /\ NoPayment \notin Payments
    /\ NoBuyer \notin Buyers

VARIABLES
    cart,           \* Redis orders:cart:<user>: the skus in each buyer's cart
    windowOpen,     \* the stream is live or ended less than 24h ago
    stock,          \* Postgres: units on sale of each sku
    owner,          \* Razorpay: who opened the session, NoBuyer if nobody has
    pending,        \* Redis payments:razorpay:pending:<order>, expiring keys
    captured,       \* Razorpay: sessions the buyer has paid
    refunded,       \* Razorpay: payments given back in full
    orders,         \* Postgres Order rows, by the request that created them
    failure,        \* Postgres PaymentCheckoutFailure.refundStatus by payment
    pc,             \* where each handler is
    call,           \* what each handler was asked: endpoint, buyer, payment
    lines,          \* how many lines of each sku it has read from cart or body
    snapshot,       \* variant stock read inside the transaction
    crashes,        \* crashes so far
    raced           \* history: variant rows two open transactions were to write

store == <<cart, windowOpen, stock, pending, orders, failure>>
razorpay == <<owner, captured, refunded>>
handler == <<pc, call, lines, snapshot>>
vars == <<cart, windowOpen, stock, owner, pending, captured, refunded,
          orders, failure, pc, call, lines, snapshot, crashes, raced>>

Looking  == {"findOrder", "findFailure", "loadPending"}
Placing  == {"loadCart", "checkItems", "txRead", "txCommit", "markPaid"}
Settling == {"clearCart", "dropPending"}
Failing  == {"refund", "recordRefunded", "recordRefundFailed"}
Running  == Looking \cup Placing \cup Settling \cup Failing
Finished == {"placed", "returned", "refused", "rejected", "done", "crashed"}

Lines == [Skus -> 0..MaxLines]
NoLines == [s \in Skus |-> 0]
NoOrder == [status |-> "NONE", buyer |-> NoBuyer, items |-> NoLines, payment |-> NoPayment]
Order == [status : {"NONE", "PENDING", "PAID"}, buyer : Buyers \cup {NoBuyer},
          items : Lines, payment : Payments \cup {NoPayment}]
Call == [op : AllEndpoints, buyer : Buyers \cup {NoBuyer},
         payment : Payments \cup {NoPayment}]

InFlight == {r \in Requests : pc[r] \in Running}
PaidWith(k) == {r \in Requests : orders[r].status = "PAID" /\ orders[r].payment = k}
IsVariant(s) == RowOf[s] \in VariantRows
InStock(items) == \A s \in items : stock[s] >= 1

Init ==
    /\ cart = [b \in Buyers |-> {}]
    /\ windowOpen = TRUE
    /\ stock = InitialStock
    /\ owner = [k \in Payments |-> NoBuyer]
    /\ pending = {}
    /\ captured = {}
    /\ refunded = {}
    /\ orders = [r \in Requests |-> NoOrder]
    /\ failure = [k \in Payments |-> "NONE"]
    /\ pc = [r \in Requests |-> "idle"]
    /\ call = [r \in Requests |-> [op |-> "verify", buyer |-> NoBuyer, payment |-> NoPayment]]
    /\ lines = [r \in Requests |-> NoLines]
    /\ snapshot = [r \in Requests |-> InitialStock]
    /\ crashes = 0
    /\ raced = {}

(***************************************************************************)
(* Carts.  Every write goes through enforceCartExpiry, which drops the     *)
(* whole cart once the 24h post-live window is over.                       *)
(***************************************************************************)
AddCartItem(b, s) ==
    /\ stock[s] >= 1
    /\ cart' = [cart EXCEPT ![b] = IF windowOpen THEN @ \cup {s} ELSE {}]
    /\ UNCHANGED <<windowOpen, stock, pending, orders, failure, crashes, raced>>
    /\ UNCHANGED razorpay /\ UNCHANGED handler

RemoveCartItem(b, s) ==
    /\ s \in cart[b]
    /\ cart' = [cart EXCEPT ![b] = IF windowOpen THEN @ \ {s} ELSE {}]
    /\ UNCHANGED <<windowOpen, stock, pending, orders, failure, crashes, raced>>
    /\ UNCHANGED razorpay /\ UNCHANGED handler

\* The stream ended 24 hours ago, or its row was removed.
CloseWindow ==
    /\ windowOpen
    /\ windowOpen' = FALSE
    /\ UNCHANGED <<cart, stock, pending, orders, failure, crashes, raced>>
    /\ UNCHANGED razorpay /\ UNCHANGED handler

(***************************************************************************)
(* Payment sessions.  createRazorpayOrder validates the cart, then writes  *)
(* a Razorpay order and a Redis key nobody else can name before the reply  *)
(* is sent: its steps do not interfere with any other and form one action. *)
(***************************************************************************)
CreateRazorpayOrder(b, k) ==
    /\ owner[k] = NoBuyer
    /\ windowOpen
    /\ cart[b] # {}
    /\ InStock(cart[b])
    /\ owner' = [owner EXCEPT ![k] = b]
    /\ pending' = pending \cup {k}
    /\ UNCHANGED <<cart, windowOpen, stock, captured, refunded, orders, failure, crashes, raced>>
    /\ UNCHANGED handler

\* PENDING_TTL_SECONDS have passed.
ExpirePending(k) ==
    /\ k \in pending
    /\ pending' = pending \ {k}
    /\ UNCHANGED <<cart, windowOpen, stock, orders, failure, crashes, raced>>
    /\ UNCHANGED razorpay /\ UNCHANGED handler

\* The buyer pays on Razorpay's sheet; the server is not involved.
Capture(k) ==
    /\ owner[k] # NoBuyer
    /\ k \notin captured
    /\ captured' = captured \cup {k}
    /\ UNCHANGED <<owner, refunded, crashes, raced>>
    /\ UNCHANGED store /\ UNCHANGED handler

(***************************************************************************)
(* Handlers: a request enters at one of three endpoints.                   *)
(***************************************************************************)
Enter(r, op, b, k, items, at) ==
    /\ op \in Endpoints
    /\ pc[r] = "idle"
    /\ Cardinality(InFlight) < MaxInflight
    /\ pc' = [pc EXCEPT ![r] = at]
    /\ call' = [call EXCEPT ![r] = [op |-> op, buyer |-> b, payment |-> k]]
    /\ lines' = [lines EXCEPT ![r] = items]
    /\ UNCHANGED <<snapshot, crashes, raced>>
    /\ UNCHANGED store /\ UNCHANGED razorpay

\* POST /payments/razorpay/verify: a valid signature means Razorpay captured k.
StartVerify(r, b, k) ==
    /\ k \in captured
    /\ ClientSerial => \A q \in InFlight : call[q].payment # k
    /\ Enter(r, "verify", b, k, NoLines, "findOrder")

\* POST /orders/checkout with PAYMENTS_ALLOW_DIRECT_CHECKOUT set.
StartCheckout(r, b) == Enter(r, "checkout", b, NoPayment, NoLines, "loadCart")

\* POST /orders: the lines come with the body, which may repeat a sku, and no
\* payment is asked for.
StartCreate(r, b, items) ==
    items # NoLines /\ Enter(r, "create", b, NoPayment, items, "checkItems")

Goto(r, at) == pc' = [pc EXCEPT ![r] = at]

FindExistingOrder(r) ==
    /\ pc[r] = "findOrder"
    /\ Goto(r, IF PaidWith(call[r].payment) # {} THEN "returned" ELSE "findFailure")
    /\ UNCHANGED <<call, lines, snapshot, crashes, raced>>
    /\ UNCHANGED store /\ UNCHANGED razorpay

\* Mutation: a failed payment is not looked up before it is retried.
FindPriorFailure_Skipped(r) ==
    /\ pc[r] = "findFailure"
    /\ Goto(r, "loadPending")
    /\ UNCHANGED <<call, lines, snapshot, crashes, raced>>
    /\ UNCHANGED store /\ UNCHANGED razorpay

FindPriorFailure(r) ==
    /\ pc[r] = "findFailure"
    /\ Goto(r, IF failure[call[r].payment] # "NONE" THEN "rejected" ELSE "loadPending")
    /\ UNCHANGED <<call, lines, snapshot, crashes, raced>>
    /\ UNCHANGED store /\ UNCHANGED razorpay

\* Mutation: pending.userId is not compared with the caller.
LoadPending_AnyUser(r) ==
    /\ pc[r] = "loadPending"
    /\ Goto(r, IF call[r].payment \in pending THEN "loadCart" ELSE "rejected")
    /\ UNCHANGED <<call, lines, snapshot, crashes, raced>>
    /\ UNCHANGED store /\ UNCHANGED razorpay

\* The session key is gone, or it was opened by another account: throw.
LoadPending(r) ==
    /\ pc[r] = "loadPending"
    /\ Goto(r, IF /\ call[r].payment \in pending
                  /\ owner[call[r].payment] = call[r].buyer
               THEN "loadCart" ELSE "rejected")
    /\ UNCHANGED <<call, lines, snapshot, crashes, raced>>
    /\ UNCHANGED store /\ UNCHANGED razorpay

\* An exception inside checkoutFromCart is caught by verifyAndCheckout only.
OnThrow(r) == IF call[r].op = "verify" THEN "refund" ELSE "rejected"

\* A cart has one line of each sku in it.
CartLines(items) == [s \in Skus |-> IF s \in items THEN 1 ELSE 0]

\* validateCartForCheckout and getCart: the cart is read, and dropped if stale.
LoadCart(r) ==
    LET b == call[r].buyer
        items == IF windowOpen THEN cart[b] ELSE {}
    IN  /\ pc[r] = "loadCart"
        /\ cart' = [cart EXCEPT ![b] = items]
        /\ lines' = [lines EXCEPT ![r] = CartLines(items)]
        /\ Goto(r, IF items = {} THEN OnThrow(r) ELSE "checkItems")
        /\ UNCHANGED <<windowOpen, stock, pending, orders, failure, call, snapshot, crashes, raced>>
        /\ UNCHANGED razorpay

\* Mutation: create no longer looks at the stock.
CheckItems_NoStock(r) ==
    /\ pc[r] = "checkItems"
    /\ Goto(r, IF windowOpen THEN "txRead" ELSE OnThrow(r))
    /\ UNCHANGED <<call, lines, snapshot, crashes, raced>>
    /\ UNCHANGED store /\ UNCHANGED razorpay

\* The skus a handler has a line of, and the rows they are stored in.
Asked(r) == {s \in Skus : lines[r][s] > 0}
Touched(r) == {RowOf[s] : s \in Asked(r)}

\* validateOrderItems inside create, outside the transaction: each line is
\* compared with the stock by itself, also when another one asks for the same.
CheckItems(r) ==
    /\ pc[r] = "checkItems"
    /\ Goto(r, IF windowOpen /\ InStock(Asked(r)) THEN "txRead" ELSE OnThrow(r))
    /\ UNCHANGED <<call, lines, snapshot, crashes, raced>>
    /\ UNCHANGED store /\ UNCHANGED razorpay

\* In the transaction: product rows are read, and applyVariantStockDelta throws
\* when a variant runs out; a second line of a row reads what the first one wrote.
\* A row without variants is not looked at.
TxRead(r) ==
    LET others == {q \in Requests \ {r} : pc[q] = "txCommit"}
    IN  /\ pc[r] = "txRead"
        /\ snapshot' = [snapshot EXCEPT ![r] = stock]
        /\ Goto(r, IF \A s \in Skus : IsVariant(s) => lines[r][s] <= stock[s]
                   THEN "txCommit" ELSE OnThrow(r))
        /\ raced' = raced \cup (VariantRows \cap Touched(r) \cap UNION {Touched(q) : q \in others})
        /\ UNCHANGED <<call, lines, crashes>>
        /\ UNCHANGED store /\ UNCHANGED razorpay

\* Mutation: a plain stock column is read and written back, not decremented.
StockAfter_ReadBack(r, s) == snapshot[r][s] - lines[r][s]

\* What the transaction leaves in sku s: the variants JSON is written back
\* whole from the snapshot, a plain column is decremented in place.
StockAfter(r, s) ==
    (IF IsVariant(s) /\ RowOf[s] \in Touched(r) THEN snapshot[r][s] ELSE stock[s])
        - lines[r][s]

AfterCommit(r) ==
    CASE call[r].op = "verify" -> "markPaid"
      [] call[r].op = "checkout" -> "clearCart"
      [] OTHER -> "done"

TxCommit(r) ==
    /\ pc[r] = "txCommit"
    /\ stock' = [s \in Skus |-> StockAfter(r, s)]
    /\ orders' = [orders EXCEPT ![r] = [status |-> "PENDING", buyer |-> call[r].buyer,
                                        items |-> lines[r], payment |-> NoPayment]]
    /\ Goto(r, AfterCommit(r))
    /\ UNCHANGED <<cart, windowOpen, pending, failure, call, lines, snapshot, crashes, raced>>
    /\ UNCHANGED razorpay

\* The order row once the payment is on it.
PaidRow(o, k) == [status |-> "PAID", buyer |-> o.buyer, items |-> o.items, payment |-> k]

\* Mutation: razorpayPaymentId is not unique.
MarkPaid_NotUnique(r) ==
    /\ pc[r] = "markPaid"
    /\ orders' = [orders EXCEPT ![r] = PaidRow(@, call[r].payment)]
    /\ Goto(r, "clearCart")
    /\ UNCHANGED <<cart, windowOpen, stock, pending, failure, call, lines, snapshot, crashes, raced>>
    /\ UNCHANGED razorpay

\* Mutation: the user id is stored as the payment id (swapped arguments).
MarkPaid_Swapped(r) ==
    /\ pc[r] = "markPaid"
    /\ orders' = [orders EXCEPT ![r] = PaidRow(@, call[r].buyer)]
    /\ Goto(r, "clearCart")
    /\ UNCHANGED <<cart, windowOpen, stock, pending, failure, call, lines, snapshot, crashes, raced>>
    /\ UNCHANGED razorpay

\* order.update to PAID; razorpayPaymentId is unique, a second one throws.
MarkPaid(r) ==
    LET k == call[r].payment
    IN  /\ pc[r] = "markPaid"
        /\ IF PaidWith(k) = {}
           THEN /\ orders' = [orders EXCEPT ![r] = PaidRow(@, k)]
                /\ Goto(r, "clearCart")
           ELSE Goto(r, OnThrow(r)) /\ UNCHANGED orders
        /\ UNCHANGED <<cart, windowOpen, stock, pending, failure, call, lines, snapshot, crashes, raced>>
        /\ UNCHANGED razorpay

\* The whole cart goes, whatever was added since it was read.
ClearCart(r) ==
    /\ pc[r] = "clearCart"
    /\ cart' = [cart EXCEPT ![call[r].buyer] = {}]
    /\ Goto(r, IF call[r].op = "verify" THEN "dropPending" ELSE "done")
    /\ UNCHANGED <<windowOpen, stock, pending, orders, failure, call, lines, snapshot, crashes, raced>>
    /\ UNCHANGED razorpay

DropPending(r) ==
    /\ pc[r] = "dropPending"
    /\ pending' = pending \ {call[r].payment}
    /\ Goto(r, "placed")
    /\ UNCHANGED <<cart, windowOpen, stock, orders, failure, call, lines, snapshot, crashes, raced>>
    /\ UNCHANGED razorpay

\* A query, a missing address or product row, a database or network error.
StepThrows(r) ==
    /\ \/ pc[r] \in Looking /\ "step" \in Faults /\ Goto(r, "rejected")
       \/ pc[r] \in Placing /\ "step" \in Faults /\ Goto(r, OnThrow(r))
       \/ pc[r] \in Settling /\ "redis" \in Faults /\ Goto(r, OnThrow(r))
    /\ UNCHANGED <<call, lines, snapshot, crashes, raced>>
    /\ UNCHANGED store /\ UNCHANGED razorpay

(***************************************************************************)
(* The catch block of verifyAndCheckout.                                   *)
(***************************************************************************)
\* Mutation: a refund that threw is reported as REFUNDED.
AttemptRefund_Optimistic(r) ==
    /\ pc[r] = "refund"
    /\ \/ refunded' = refunded \cup {call[r].payment}
       \/ UNCHANGED refunded
    /\ Goto(r, "recordRefunded")
    /\ UNCHANGED <<owner, captured, call, lines, snapshot, crashes, raced>>
    /\ UNCHANGED store

\* Mutation: the catch block refunds and rethrows, no failure row is written.
AttemptRefund_NoRecord(r) ==
    /\ pc[r] = "refund"
    /\ \/ refunded' = refunded \cup {call[r].payment}
       \/ UNCHANGED refunded
    /\ Goto(r, "refused")
    /\ UNCHANGED <<owner, captured, call, lines, snapshot, crashes, raced>>
    /\ UNCHANGED store

\* Razorpay refuses to refund twice; an answer may be lost after the refund.
AttemptRefund(r) ==
    LET k == call[r].payment
    IN  /\ pc[r] = "refund"
        /\ \/ /\ k \notin refunded
              /\ refunded' = refunded \cup {k}
              /\ Goto(r, "recordRefunded") \/ Goto(r, "recordRefundFailed")
           \/ Goto(r, "recordRefundFailed") /\ UNCHANGED refunded
        /\ UNCHANGED <<owner, captured, call, lines, snapshot, crashes, raced>>
        /\ UNCHANGED store

\* recordCheckoutFailure swallows every error: the unique razorpayPaymentId
\* of an earlier row, or a failed insert ("audit").
RecordCheckoutFailure(r) ==
    LET k == call[r].payment
        outcome == IF pc[r] = "recordRefunded" THEN "REFUNDED" ELSE "REFUND_FAILED"
    IN  /\ pc[r] \in {"recordRefunded", "recordRefundFailed"}
        /\ \/ failure[k] = "NONE" /\ failure' = [failure EXCEPT ![k] = outcome]
           \/ failure[k] # "NONE" /\ UNCHANGED failure
           \/ "audit" \in Faults /\ UNCHANGED failure
        /\ Goto(r, "refused")
        /\ UNCHANGED <<cart, windowOpen, stock, pending, orders, call, lines, snapshot, crashes, raced>>
        /\ UNCHANGED razorpay

\* The process dies: every open handler is gone, the stores stay.
Crash ==
    /\ crashes < MaxCrashes
    /\ InFlight # {}
    /\ crashes' = crashes + 1
    /\ pc' = [r \in Requests |-> IF pc[r] \in Running THEN "crashed" ELSE pc[r]]
    /\ UNCHANGED <<call, lines, snapshot, raced>>
    /\ UNCHANGED store /\ UNCHANGED razorpay

Advance(r) ==
    \/ FindExistingOrder(r) \/ FindPriorFailure(r) \/ LoadPending(r)
    \/ LoadCart(r) \/ CheckItems(r) \/ TxRead(r) \/ TxCommit(r)
    \/ MarkPaid(r) \/ ClearCart(r) \/ DropPending(r)
    \/ AttemptRefund(r) \/ RecordCheckoutFailure(r)

Shopper ==
    \E b \in Buyers :
        \/ \E s \in Skus : AddCartItem(b, s) \/ RemoveCartItem(b, s)
        \/ \E k \in Payments : CreateRazorpayOrder(b, k)

Start(r) ==
    \E b \in Buyers :
        \/ \E k \in Payments : StartVerify(r, b, k)
        \/ StartCheckout(r, b)
        \/ \E items \in Lines : StartCreate(r, b, items)

Next ==
    \/ Shopper
    \/ CloseWindow
    \/ \E k \in Payments : ExpirePending(k) \/ Capture(k)
    \/ \E r \in Requests : Start(r) \/ Advance(r) \/ StepThrows(r)
    \/ Crash

Spec == Init /\ [][Next]_vars

\* An await always settles: every client in use has a timeout or fails.
FairSpec == Spec /\ \A r \in Requests : WF_vars(Advance(r) \/ StepThrows(r))

(***************************************************************************)
(* Properties.                                                             *)
(***************************************************************************)
\* Type invariant of every variable.
TypeOK ==
    /\ cart \in [Buyers -> SUBSET Skus]
    /\ windowOpen \in BOOLEAN
    /\ stock \in [Skus -> Int]
    /\ owner \in [Payments -> Buyers \cup {NoBuyer}]
    /\ pending \subseteq Payments
    /\ captured \subseteq Payments
    /\ refunded \subseteq Payments
    /\ orders \in [Requests -> Order]
    /\ failure \in [Payments -> {"NONE", "REFUNDED", "REFUND_FAILED"}]
    /\ pc \in [Requests -> {"idle"} \cup Running \cup Finished]
    /\ call \in [Requests -> Call]
    /\ lines \in [Requests -> Lines]
    /\ snapshot \in [Requests -> [Skus -> Int]]
    /\ crashes \in 0..MaxCrashes
    /\ raced \subseteq VariantRows

\* A handler past its first step knows its buyer; only verify has a payment,
\* and only verify reaches the steps around the payment.
HandlerOK ==
    \A r \in Requests :
        /\ pc[r] # "idle" => call[r].buyer \in Buyers
        /\ pc[r] # "idle" => (call[r].op = "verify" <=> call[r].payment \in Payments)
        /\ pc[r] \in Looking \cup Failing
                    \cup {"markPaid", "dropPending", "placed", "returned", "refused"}
              => call[r].op = "verify"

\* Units on order rows: the i-th line of a sku in the order of r.
Sold(s) == {u \in Requests \X (1..MaxLines) :
               orders[u[1]].status # "NONE" /\ u[2] <= orders[u[1]].items[s]}

\* A handler has no order row before its transaction commits, and a PENDING
\* one when it goes to mark it paid.
BeforeCommit == {"idle"} \cup Looking \cup (Placing \ {"markPaid"})
RowSinceCommit ==
    \A r \in Requests :
        /\ pc[r] \in BeforeCommit => orders[r].status = "NONE"
        /\ pc[r] = "markPaid" => orders[r].status = "PENDING"

\* Rows whose stock can be trusted: plain columns are decremented in place, and a
\* variant row is as long as no two open transactions were to write it.
Exact(s) == IsVariant(s) => RowOf[s] \notin raced

\* Every unit gone from stock is on an order row and every order row has taken
\* its units, whatever runs or crashes beside it: create's decrement and its row
\* commit together.  A deduction is lost only from a variant row that two
\* overlapping transactions wrote.
StockAccounting ==
    \A s \in Skus : Exact(s) => stock[s] = InitialStock[s] - Cardinality(Sold(s))

\* A plain product can be oversold, because validateOrderItems runs outside the
\* transaction and looks at one line at a time: never by more than the lines the
\* handlers in flight can hold.  A variant's stock never goes below zero, and it
\* is sold more often than it was there only where transactions raced:
\* applyVariantStockDelta reads it again inside, line by line.
OversellBounded ==
    \A s \in Skus :
        IF IsVariant(s)
        THEN /\ stock[s] >= 0
             /\ Exact(s) => Cardinality(Sold(s)) <= InitialStock[s]
        ELSE stock[s] >= 1 - MaxInflight * MaxLines

\* Units of sku s that handlers have seen in stock and not yet taken.
Claimed(s) == {u \in Requests \X (1..MaxLines) :
                  pc[u[1]] \in {"txRead", "txCommit"} /\ u[2] <= lines[u[1]][s]}

\* What makes OversellBounded inductive: the units claimed count as gone.
ClaimsBounded ==
    /\ Cardinality(InFlight) <= MaxInflight
    /\ \A s \in Skus : ~IsVariant(s)
          => stock[s] - Cardinality(Claimed(s)) >= 1 - MaxInflight * MaxLines

\* What keeps variants from going below zero: no copy a handler read does, and
\* one it is about to take from has the units.
VariantsInStock ==
    \A s \in Skus : IsVariant(s) =>
        /\ stock[s] >= 0
        /\ \A r \in Requests :
             /\ snapshot[r][s] >= 0
             /\ pc[r] = "txCommit" => snapshot[r][s] >= lines[r][s]

\* What StockAccounting rests on: the copy a transaction is about to write back
\* is the stock, unless another one was to write that row too.
CopiesFresh ==
    \A r \in Requests : pc[r] = "txCommit" =>
        /\ \A s \in Skus : (IsVariant(s) /\ Exact(s) /\ RowOf[s] \in Touched(r))
              => snapshot[r][s] = stock[s]
        /\ \A q \in Requests \ {r} : pc[q] = "txCommit"
              => VariantRows \cap Touched(r) \cap Touched(q) \subseteq raced

\* Two handlers verifying one payment never both end with a PAID order:
\* Order.razorpayPaymentId is unique.
OneOrderPerPayment == \A k \in Payments : \A q, r \in PaidWith(k) : q = r

\* A PAID order belongs to the account that opened the Razorpay session,
\* and that session was captured (the pending key holds the userId).
PaidByPayer ==
    \A r \in Requests : orders[r].status = "PAID" =>
        /\ orders[r].payment \in captured
        /\ owner[orders[r].payment] = orders[r].buyer

\* What PaidByPayer rests on: verify keeps the payment it was called with, and
\* past LoadPending that payment's session is the caller's.
SessionOK ==
    /\ \A k \in captured : owner[k] \in Buyers
    /\ \A r \in Requests :
        /\ (pc[r] # "idle" /\ call[r].op = "verify") => call[r].payment \in captured
        /\ (pc[r] \in Placing \cup Settling /\ call[r].op = "verify")
              => owner[call[r].payment] = call[r].buyer
        /\ pc[r] = "markPaid" => orders[r].buyer = call[r].buyer

\* verifyAndCheckout answers success, at once or to a retry, only when the
\* payment has an order marked PAID.
PlacedIsPaid ==
    \A r \in Requests : pc[r] \in {"placed", "returned"} => PaidWith(call[r].payment) # {}

\* A PaymentCheckoutFailure row that says REFUNDED is never wrong, whichever
\* of several failing handlers wrote it.
RefundRecordTruthful == \A k \in Payments : failure[k] = "REFUNDED" => k \in refunded

\* Stock held by an order that verify abandoned unpaid can be traced: unless
\* the process died, the payment has a PaymentCheckoutFailure row.
AbandonedOrderTraceable ==
    \A r \in Requests :
        (orders[r].status = "PENDING" /\ call[r].op = "verify" /\ pc[r] \in Finished)
            => pc[r] = "crashed" \/ failure[call[r].payment] # "NONE"

\* Whatever throws, and whoever else verifies the payment: success is answered for a PAID
\* order, REFUNDED is recorded for a refund, and unpaid stock has a row that tells of it.
PlacementTraceable == PlacedIsPaid /\ RefundRecordTruthful /\ AbandonedOrderTraceable

\* A payment that was given back has no order: "Your payment was refunded
\* automatically because the order could not be completed".
RefundOnlyUnplaced == \A k \in refunded : PaidWith(k) = {}

\* The conditions under which a retried verify is safe.
Sequential == ClientSerial /\ Faults \subseteq {"step"} /\ MaxCrashes = 0

Unpaid   == {"findFailure", "loadPending"} \cup Placing \cup Failing
Unfailed == {"loadPending", "refund"} \cup Placing \cup Settling

\* What RefundOnlyUnplaced rests on when Sequential: a payment has one handler,
\* which knows past its look-ups that nothing has settled the payment yet; and
\* a refund is always on record or about to be.
SequentialOK ==
    /\ \A q, r \in InFlight :
          (q # r /\ call[r].op = "verify") => call[q].payment # call[r].payment
    /\ \A r \in Requests : call[r].op = "verify" =>
          /\ pc[r] \in Unpaid => PaidWith(call[r].payment) = {}
          /\ pc[r] \in Unfailed => call[r].payment \notin refunded
    /\ \A k \in refunded :
          \/ failure[k] # "NONE"
          \/ \E r \in Requests : /\ pc[r] \in {"recordRefunded", "recordRefundFailed"}
                                 /\ call[r].payment = k
    /\ RefundOnlyUnplaced

settledBar ==
    [k \in Payments |->
        CASE PaidWith(k) # {} /\ k \in refunded -> "both"
          [] PaidWith(k) # {} /\ k \notin refunded -> "placed"
          [] PaidWith(k) = {} /\ k \in refunded -> "returned"
          [] OTHER -> "open"]

Money == INSTANCE Settlement WITH paid <- captured, settled <- settledBar

\* Every captured payment is settled at most once and one way only: checkout
\* implements Settlement when verify calls of a payment do not overlap, no
\* process dies and the writes after the order's commit succeed.
SettledOnce == Money!Spec

\* A verify that found its payment session ends with the order placed or the failure
\* recorded, and a refund with the row that tells of it, whichever steps throw.
VerifySettles ==
    /\ \A r \in Requests, k \in Payments :
          (pc[r] = "loadCart" /\ call[r].payment = k)
              ~> (PaidWith(k) # {} \/ failure[k] # "NONE")
    /\ \A k \in Payments : k \in refunded ~> failure[k] # "NONE"

=============================================================================
