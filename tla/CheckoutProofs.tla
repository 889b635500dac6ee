--------------------------- MODULE CheckoutProofs ---------------------------
(***************************************************************************)
(* Theorems about Checkout, for every set of buyers, payments, requests    *)
(* and skus and every number of open handlers.                             *)
(***************************************************************************)
EXTENDS Checkout, FiniteSetTheorems, TLAPS

Labels == {"idle"} \cup Running \cup Finished

LEMMA NoLinesTyped == NoLines \in Lines
BY CheckoutAssumption DEF NoLines, Lines

\* What TypeOK needs from a step that only moves the handler on.
LEMMA GotoTyped ==
    ASSUME TypeOK, NEW r \in Requests, NEW at \in Labels, Goto(r, at)
    PROVE  /\ pc' \in [Requests -> Labels]
           /\ pc'[r] = at
           /\ \A q \in Requests : q # r => pc'[q] = pc[q]
BY DEF TypeOK, Labels, Goto

\* Every variable keeps its type, and every handler its buyer and payment.
THEOREM CheckoutTyped == Spec => [](TypeOK /\ HandlerOK)
<1> USE CheckoutAssumption
<1>1. Init => TypeOK /\ HandlerOK
  BY NoLinesTyped DEF Init, TypeOK, HandlerOK, NoOrder, Order, Call, AllEndpoints, Running,
         Looking, Placing, Settling, Failing, Finished
<1>2. TypeOK /\ HandlerOK /\ [Next]_vars => TypeOK' /\ HandlerOK'
  <2> SUFFICES ASSUME TypeOK, HandlerOK, [Next]_vars PROVE TypeOK' /\ HandlerOK'
    OBVIOUS
  <2> USE DEF TypeOK, HandlerOK, Labels, Running, Looking, Placing, Settling, Failing,
              Finished, store, razorpay, handler
  <2>1. ASSUME NEW b \in Buyers, NEW s \in Skus, AddCartItem(b, s) \/ RemoveCartItem(b, s)
        PROVE  TypeOK' /\ HandlerOK'
    <3>1. cart' \in [Buyers -> SUBSET Skus]
      BY <2>1 DEF AddCartItem, RemoveCartItem
    <3>2. QED
      BY <2>1, <3>1 DEF AddCartItem, RemoveCartItem
  <2>2. ASSUME NEW b \in Buyers, NEW k \in Payments, CreateRazorpayOrder(b, k)
        PROVE  TypeOK' /\ HandlerOK'
    BY <2>2 DEF CreateRazorpayOrder
  <2>3. CASE CloseWindow
    BY <2>3 DEF CloseWindow
  <2>4. ASSUME NEW k \in Payments, ExpirePending(k) \/ Capture(k)
        PROVE  TypeOK' /\ HandlerOK'
    BY <2>4 DEF ExpirePending, Capture
  <2>5. ASSUME NEW r \in Requests, Start(r)
        PROVE  TypeOK' /\ HandlerOK'
    <3>1. ASSUME NEW op \in AllEndpoints, NEW b \in Buyers, NEW k \in Payments \cup {NoPayment},
                 NEW items \in Lines, NEW at \in Labels \ Failing,
                 op = "verify" <=> k \in Payments,
                 at \in Looking => op = "verify",
                 at \in {"findOrder", "loadCart", "checkItems"},
                 Enter(r, op, b, k, items, at)
          PROVE  TypeOK' /\ HandlerOK'
      <4>1. [op |-> op, buyer |-> b, payment |-> k] \in Call
        BY DEF Call
      <4>2. TypeOK'
        BY <3>1, <4>1 DEF Enter
      <4>3. HandlerOK'
        BY <3>1, <4>1 DEF Enter, Call
      <4>4. QED
        BY <4>2, <4>3
    <3>2. QED
      BY <2>5, <3>1, NoLinesTyped DEF Start, StartVerify, StartCheckout, StartCreate, AllEndpoints
  <2>6. ASSUME NEW r \in Requests, Advance(r)
        PROVE  TypeOK' /\ HandlerOK'
    <3>1. CASE FindExistingOrder(r) \/ FindPriorFailure(r) \/ LoadPending(r)
      BY <3>1 DEF FindExistingOrder, FindPriorFailure, LoadPending, Goto
    <3>2. CASE LoadCart(r)
      <4>1. /\ cart' \in [Buyers -> SUBSET Skus]
            /\ lines' \in [Requests -> Lines]
        <5>1. call[r].buyer \in Buyers
          BY <3>2 DEF LoadCart
        <5>2. \A items : CartLines(items) \in Lines
          BY DEF CartLines, Lines
        <5>3. QED
          BY <3>2, <5>1, <5>2 DEF LoadCart
      <4>2. PICK at \in {"refund", "rejected", "checkItems"} :
              Goto(r, at) /\ (at = "refund" => call[r].op = "verify")
        BY <3>2 DEF LoadCart, OnThrow
      <4>3. QED
        BY <3>2, <4>1, <4>2, GotoTyped DEF LoadCart
    <3>3. CASE CheckItems(r) \/ TxRead(r)
      <4>1. PICK at \in {"txRead", "txCommit", "refund", "rejected"} :
              Goto(r, at) /\ (at = "refund" => call[r].op = "verify")
        BY <3>3 DEF CheckItems, TxRead, OnThrow
      <4>2. snapshot' \in [Requests -> [Skus -> Int]]
        BY <3>3 DEF CheckItems, TxRead
      <4>3. QED
        BY <3>3, <4>1, <4>2, GotoTyped DEF CheckItems, TxRead
    <3>4. CASE TxCommit(r)
      <4>1. orders' \in [Requests -> Order]
        BY <3>4 DEF TxCommit, Order, Call
      <4>2. stock' \in [Skus -> Int]
        <5>1. ASSUME NEW s \in Skus PROVE StockAfter(r, s) \in Int
          BY DEF StockAfter, Lines
        <5>2. QED
          BY <3>4, <5>1 DEF TxCommit
      <4>3. PICK at \in {"markPaid", "clearCart", "done"} :
              Goto(r, at) /\ (at = "markPaid" => call[r].op = "verify")
        BY <3>4 DEF TxCommit, AfterCommit, Call
      <4>4. QED
        BY <3>4, <4>1, <4>2, <4>3, GotoTyped DEF TxCommit
    <3>5. CASE MarkPaid(r)
      <4>1. orders' \in [Requests -> Order]
        <5>1. PaidRow(orders[r], call[r].payment) \in Order
          BY <3>5 DEF MarkPaid, Order, PaidRow
        <5>2. QED
          BY <3>5, <5>1 DEF MarkPaid
      <4>2. PICK at \in {"clearCart", "refund"} : Goto(r, at)
        BY <3>5 DEF MarkPaid, OnThrow
      <4>3. call[r].op = "verify"
        BY <3>5 DEF MarkPaid
      <4>4. QED
        BY <3>5, <4>1, <4>2, <4>3, GotoTyped DEF MarkPaid
    <3>6. CASE ClearCart(r)
      <4>1. PICK at \in {"dropPending", "done"} :
              Goto(r, at) /\ (at = "dropPending" => call[r].op = "verify")
        BY <3>6 DEF ClearCart
      <4>2. cart' \in [Buyers -> SUBSET Skus]
        BY <3>6 DEF ClearCart
      <4>3. QED
        BY <3>6, <4>1, <4>2, GotoTyped DEF ClearCart
    <3>7. CASE DropPending(r) \/ RecordCheckoutFailure(r)
      BY <3>7 DEF DropPending, RecordCheckoutFailure, Goto
    <3>8. CASE AttemptRefund(r)
      BY <3>8 DEF AttemptRefund, Goto
    <3>9. QED
      BY <2>6, <3>1, <3>2, <3>3, <3>4, <3>5, <3>6, <3>7, <3>8 DEF Advance
  <2>7. ASSUME NEW r \in Requests, StepThrows(r)
        PROVE  TypeOK' /\ HandlerOK'
    <3>1. PICK at \in {"refund", "rejected"} :
            Goto(r, at) /\ (at = "refund" => call[r].op = "verify")
      BY <2>7 DEF StepThrows, OnThrow
    <3>2. pc[r] # "idle"
      BY <2>7 DEF StepThrows
    <3>3. QED
      BY <2>7, <3>1, <3>2, GotoTyped DEF StepThrows
  <2>8. CASE Crash
    BY <2>8 DEF Crash
  <2>9. CASE UNCHANGED vars
    BY <2>9 DEF vars
  <2>10. QED
    BY <2>1, <2>2, <2>3, <2>4, <2>5, <2>6, <2>7, <2>8, <2>9 DEF Next, Shopper
<1>3. QED
  BY <1>1, <1>2, PTL DEF Spec

-----------------------------------------------------------------------------
\* Only the order transaction touches the stock, and only it and the PAID
\* update touch an order row.
LEMMA OrderSteps ==
    [Next]_vars => \/ UNCHANGED <<orders, stock>>
                   \/ \E r \in Requests : TxCommit(r)
                   \/ \E r \in Requests : MarkPaid(r) /\ UNCHANGED stock
BY DEF Next, vars, Shopper, AddCartItem, RemoveCartItem, CreateRazorpayOrder, CloseWindow,
       ExpirePending, Capture, Start, StartVerify, StartCheckout, StartCreate, Enter, Advance,
       FindExistingOrder, FindPriorFailure, LoadPending, LoadCart, CheckItems, TxRead, MarkPaid,
       ClearCart, DropPending, AttemptRefund, RecordCheckoutFailure, StepThrows, Crash,
       store, razorpay, handler

\* A step that leaves the order rows alone moves no handler back before its
\* commit.
LEMMA PcSteps ==
    ASSUME TypeOK, HandlerOK, RowSinceCommit, [Next]_vars, UNCHANGED orders, NEW q \in Requests
    PROVE  /\ pc'[q] \in BeforeCommit => pc[q] \in BeforeCommit
           /\ pc'[q] = "markPaid" => pc[q] = "markPaid"
<1> DEFINE Kept == /\ pc'[q] \in BeforeCommit => pc[q] \in BeforeCommit
                   /\ pc'[q] = "markPaid" => pc[q] = "markPaid"
<1> USE DEF TypeOK, BeforeCommit, Looking, Placing, Settling, Failing, Running, Finished, Goto, handler
<1>1. CASE Shopper \/ CloseWindow \/ \E k \in Payments : ExpirePending(k) \/ Capture(k)
  BY <1>1 DEF Shopper, AddCartItem, RemoveCartItem, CreateRazorpayOrder, CloseWindow,
              ExpirePending, Capture
<1>2. ASSUME NEW r \in Requests, Start(r)
      PROVE  Kept
  BY <1>2 DEF Start, StartVerify, StartCheckout, StartCreate, Enter
<1>3. ASSUME NEW r \in Requests, Advance(r)
      PROVE  Kept
  <2>1. ~TxCommit(r)
    <3> SUFFICES ASSUME TxCommit(r) PROVE FALSE
      OBVIOUS
    <3>1. orders[r].status = "NONE"
      BY DEF TxCommit, RowSinceCommit
    <3>2. orders'[r].status = "PENDING"
      BY DEF TxCommit
    <3>3. QED
      BY <3>1, <3>2
  <2>2. QED
    BY <1>3, <2>1 DEF Advance, FindExistingOrder, FindPriorFailure, LoadPending, LoadCart,
              CheckItems, TxRead, MarkPaid, ClearCart, DropPending, AttemptRefund,
              RecordCheckoutFailure, OnThrow
<1>4. ASSUME NEW r \in Requests, StepThrows(r)
      PROVE  Kept
  BY <1>4 DEF StepThrows, OnThrow
<1>5. CASE Crash
  BY <1>5 DEF Crash
<1>6. CASE UNCHANGED vars
  BY <1>6 DEF vars
<1>7. QED
  BY <1>1, <1>2, <1>3, <1>4, <1>5, <1>6 DEF Next

\* Sets of requests are finite, so their sizes can be compared.
LEMMA RequestSets ==
    ASSUME NEW S \in SUBSET Requests
    PROVE  /\ IsFiniteSet(S)
           /\ Cardinality(S) \in Nat
           /\ \A T \in SUBSET S : Cardinality(T) <= Cardinality(S)
<1>1. IsFiniteSet(S)
  BY FS_Subset, CheckoutAssumption
<1>2. QED
  BY <1>1, FS_Subset, FS_CardinalityType

\* The lines of one handler, or of one order, as a set of units.
LEMMA UnitsOf ==
    ASSUME NEW r, NEW n \in 0..MaxLines
    PROVE  IsFiniteSet({r} \X (1..n)) /\ Cardinality({r} \X (1..n)) = n
<1>1. n \in Nat /\ 1 \in Int /\ n \in Int
  BY CheckoutAssumption
<1>2. IsFiniteSet(1..n) /\ Cardinality(1..n) = n
  BY <1>1, FS_Interval
<1>3. IsFiniteSet({r}) /\ Cardinality({r}) = 1
  BY FS_Singleton
<1>4. IsFiniteSet({r} \X (1..n)) /\ Cardinality({r} \X (1..n)) = 1 * n
  BY <1>2, <1>3, FS_Product
<1>5. QED
  BY <1>1, <1>4

\* Sets of units are finite too, and bounded by the handlers they belong to.
LEMMA UnitSets ==
    ASSUME NEW R \in SUBSET Requests, NEW U \in SUBSET (R \X (1..MaxLines))
    PROVE  /\ IsFiniteSet(U)
           /\ Cardinality(U) \in Nat
           /\ Cardinality(U) <= Cardinality(R) * MaxLines
           /\ \A V \in SUBSET U : Cardinality(V) <= Cardinality(U)
<1>1. MaxLines \in Nat /\ MaxLines \in Int /\ 1 \in Int /\ ~(1 > MaxLines)
  BY CheckoutAssumption
<1>2. IsFiniteSet(1..MaxLines) /\ Cardinality(1..MaxLines) = MaxLines
  BY <1>1, FS_Interval
<1>3. IsFiniteSet(R)
  BY RequestSets
<1>4. /\ IsFiniteSet(R \X (1..MaxLines))
      /\ Cardinality(R \X (1..MaxLines)) = Cardinality(R) * MaxLines
  BY <1>2, <1>3, FS_Product
<1>5. IsFiniteSet(U) /\ Cardinality(U) <= Cardinality(R) * MaxLines
  BY <1>4, FS_Subset
<1>6. QED
  BY <1>5, FS_Subset, FS_CardinalityType

\* Only the commit of the transaction changes stock, and only TxRead lets a
\* handler past with a copy it has just read.
LEMMA VariantSteps ==
    ASSUME TypeOK, [Next]_vars
    PROVE  \/ \E r \in Requests : TxRead(r) \/ TxCommit(r)
           \/ /\ UNCHANGED <<stock, snapshot, raced>>
              /\ \A r \in Requests : pc'[r] = "txCommit" => pc[r] = "txCommit" /\ lines'[r] = lines[r]
<1> USE DEF TypeOK, Looking, Placing, Settling, Failing, Running, Finished, Goto, handler, store
<1>1. CASE Shopper \/ CloseWindow \/ \E k \in Payments : ExpirePending(k) \/ Capture(k)
  BY <1>1 DEF Shopper, AddCartItem, RemoveCartItem, CreateRazorpayOrder, CloseWindow,
              ExpirePending, Capture
<1>2. ASSUME NEW r \in Requests, Start(r)
      PROVE  /\ UNCHANGED <<stock, snapshot, raced>>
             /\ \A q \in Requests : pc'[q] = "txCommit" => pc[q] = "txCommit" /\ lines'[q] = lines[q]
  BY <1>2 DEF Start, StartVerify, StartCheckout, StartCreate, Enter
<1>3. ASSUME NEW r \in Requests, Advance(r), ~TxRead(r), ~TxCommit(r)
      PROVE  /\ UNCHANGED <<stock, snapshot, raced>>
             /\ \A q \in Requests : pc'[q] = "txCommit" => pc[q] = "txCommit" /\ lines'[q] = lines[q]
  <2>1. CASE LoadCart(r) \/ CheckItems(r)
    BY <2>1 DEF LoadCart, CheckItems, OnThrow
  <2>2. CASE FindExistingOrder(r) \/ FindPriorFailure(r) \/ LoadPending(r)
    BY <2>2 DEF FindExistingOrder, FindPriorFailure, LoadPending, OnThrow
  <2>3. CASE MarkPaid(r) \/ ClearCart(r) \/ DropPending(r)
    BY <2>3 DEF MarkPaid, ClearCart, DropPending, OnThrow
  <2>4. CASE AttemptRefund(r) \/ RecordCheckoutFailure(r)
    BY <2>4 DEF AttemptRefund, RecordCheckoutFailure
  <2>5. QED
    BY <1>3, <2>1, <2>2, <2>3, <2>4 DEF Advance
<1>4. ASSUME NEW r \in Requests, StepThrows(r)
      PROVE  /\ UNCHANGED <<stock, snapshot, raced>>
             /\ \A q \in Requests : pc'[q] = "txCommit" => pc[q] = "txCommit" /\ lines'[q] = lines[q]
  BY <1>4 DEF StepThrows, OnThrow
<1>5. CASE Crash
  BY <1>5 DEF Crash
<1>6. CASE UNCHANGED vars
  BY <1>6 DEF vars
<1>7. QED
  BY <1>1, <1>2, <1>3, <1>4, <1>5, <1>6 DEF Next

\* No step forgets that two transactions raced.
LEMMA RacedGrows ==
    ASSUME TypeOK, [Next]_vars
    PROVE  \A s \in Skus : Exact(s)' => Exact(s)
<1>1. raced \subseteq raced'
  BY VariantSteps DEF TxRead, TxCommit
<1>2. QED
  BY <1>1 DEF Exact, IsVariant

\* A handler whose lines stay touches the rows it touched.
LEMMA TouchedStays ==
    ASSUME NEW r \in Requests, lines'[r] = lines[r]
    PROVE  Touched(r)' = Touched(r)
BY DEF Touched, Asked

\* A line of a sku touches the row of that sku.
LEMMA LinesTouch ==
    ASSUME TypeOK, NEW r \in Requests, NEW s \in Skus, RowOf[s] \notin Touched(r)
    PROVE  lines[r][s] = 0
BY CheckoutAssumption DEF Touched, Asked, TypeOK, Lines

\* The commit takes from an exact row what the order has lines for.
LEMMA CommitExact ==
    ASSUME TypeOK, CopiesFresh, NEW r \in Requests, TxCommit(r), NEW s \in Skus, Exact(s)
    PROVE  stock'[s] = stock[s] - lines[r][s]
<1>1. stock'[s] = StockAfter(r, s) /\ pc[r] = "txCommit"
  BY DEF TxCommit
<1>2. CASE IsVariant(s) /\ RowOf[s] \in Touched(r)
  <2>1. snapshot[r][s] = stock[s]
    BY <1>1, <1>2 DEF CopiesFresh
  <2>2. QED
    BY <1>1, <1>2, <2>1 DEF StockAfter
<1>3. CASE ~(IsVariant(s) /\ RowOf[s] \in Touched(r))
  BY <1>1, <1>3 DEF StockAfter
<1>4. QED
  BY <1>2, <1>3

\* A copy grows stale only when another transaction commits to its row, and
\* those two have raced since the later of them read.
LEMMA CopiesStayFresh ==
    ASSUME TypeOK, CopiesFresh, [Next]_vars
    PROVE  CopiesFresh'
<1> DEFINE Copy(q) == \A s \in Skus : (IsVariant(s) /\ Exact(s) /\ RowOf[s] \in Touched(q))
                                         => snapshot[q][s] = stock[s]
           Race(p, q) == VariantRows \cap Touched(p) \cap Touched(q) \subseteq raced
<1>0. \A q \in Requests : pc[q] = "txCommit" =>
         Copy(q) /\ \A p \in Requests \ {q} : pc[p] = "txCommit" => Race(q, p)
  BY DEF CopiesFresh
<1>1. CASE /\ UNCHANGED <<stock, snapshot, raced>>
           /\ \A r \in Requests : pc'[r] = "txCommit" => pc[r] = "txCommit" /\ lines'[r] = lines[r]
  <2> SUFFICES ASSUME NEW q \in Requests, pc'[q] = "txCommit"
               PROVE  Copy(q)' /\ \A p \in Requests \ {q} : pc'[p] = "txCommit" => Race(q, p)'
    BY DEF CopiesFresh
  <2>1. Touched(q)' = Touched(q) /\ Copy(q)
    BY <1>0, <1>1, TouchedStays
  <2>2. Copy(q)'
    BY <1>1, <2>1 DEF Exact, IsVariant
  <2>3. ASSUME NEW p \in Requests \ {q}, pc'[p] = "txCommit"
        PROVE  Race(q, p)'
    <3>1. Touched(p)' = Touched(p) /\ Race(q, p)
      BY <1>0, <1>1, <2>3, TouchedStays
    <3>2. QED
      BY <1>1, <2>1, <3>1
  <2>4. QED
    BY <2>2, <2>3
<1>2. ASSUME NEW r \in Requests, TxRead(r)
      PROVE  CopiesFresh'
  <2> DEFINE others == {q \in Requests \ {r} : pc[q] = "txCommit"}
  <2>1. /\ snapshot' = [snapshot EXCEPT ![r] = stock]
        /\ UNCHANGED <<stock, lines>>
        /\ raced' = raced \cup (VariantRows \cap Touched(r) \cap UNION {Touched(q) : q \in others})
    BY <1>2 DEF TxRead, store
  <2>2. \A q \in Requests : q # r /\ pc'[q] = "txCommit" => q \in others
    BY <1>2 DEF TxRead, Goto, TypeOK
  <2>3. \A q \in Requests : Touched(q)' = Touched(q)
    BY <2>1, TouchedStays
  <2>4. \A q \in others : Race(r, q)' /\ Race(q, r)'
    BY <2>1, <2>3
  <2>5. \A s \in Skus : Exact(s)' => Exact(s)
    BY RacedGrows
  <2> SUFFICES ASSUME NEW q \in Requests, pc'[q] = "txCommit"
               PROVE  Copy(q)' /\ \A p \in Requests \ {q} : pc'[p] = "txCommit" => Race(q, p)'
    BY DEF CopiesFresh
  <2>6. Copy(q)'
    <3>1. CASE q = r
      BY <2>1, <3>1 DEF TypeOK
    <3>2. CASE q # r
      <4>1. Copy(q) /\ snapshot'[q] = snapshot[q]
        BY <1>0, <2>1, <2>2, <3>2 DEF TypeOK
      <4>2. QED
        BY <2>1, <2>3, <2>5, <4>1 DEF IsVariant
    <3>3. QED
      BY <3>1, <3>2
  <2>7. ASSUME NEW p \in Requests \ {q}, pc'[p] = "txCommit"
        PROVE  Race(q, p)'
    <3>1. CASE q = r \/ p = r
      BY <2>2, <2>4, <2>7, <3>1
    <3>2. CASE q # r /\ p # r
      <4>1. Race(q, p)
        BY <1>0, <2>2, <2>7, <3>2
      <4>2. QED
        BY <2>1, <2>3, <4>1
    <3>3. QED
      BY <3>1, <3>2
  <2>8. QED
    BY <2>6, <2>7
<1>3. ASSUME NEW r \in Requests, TxCommit(r)
      PROVE  CopiesFresh'
  <2>1. UNCHANGED <<snapshot, lines, raced>> /\ pc[r] = "txCommit"
    BY <1>3 DEF TxCommit
  <2>2. \A q \in Requests : pc'[q] = "txCommit" => pc[q] = "txCommit" /\ q # r
    BY <1>3 DEF TxCommit, Goto, AfterCommit, TypeOK
  <2>3. \A q \in Requests : Touched(q)' = Touched(q)
    BY <2>1, TouchedStays
  <2> SUFFICES ASSUME NEW q \in Requests, pc'[q] = "txCommit"
               PROVE  Copy(q)' /\ \A p \in Requests \ {q} : pc'[p] = "txCommit" => Race(q, p)'
    BY DEF CopiesFresh
  <2>4. Copy(q) /\ Race(q, r) /\ q # r
    BY <1>0, <2>1, <2>2
  <2>5. ASSUME NEW s \in Skus, IsVariant(s), Exact(s), RowOf[s] \in Touched(q)
        PROVE  snapshot[q][s] = stock'[s]
    <3>1. RowOf[s] \notin Touched(r)
      BY <2>4, <2>5 DEF Exact, IsVariant
    <3>2. lines[r][s] = 0
      BY <3>1, LinesTouch
    <3>3. stock'[s] = stock[s] - lines[r][s] /\ stock[s] \in Int
      BY <1>3, <2>5, CommitExact DEF TypeOK
    <3>4. QED
      BY <2>4, <2>5, <3>2, <3>3
  <2>6. Copy(q)'
    BY <2>1, <2>3, <2>5 DEF Exact, IsVariant
  <2>7. \A p \in Requests \ {q} : pc'[p] = "txCommit" => Race(q, p)'
    BY <1>0, <2>1, <2>2, <2>3
  <2>8. QED
    BY <2>6, <2>7
<1>4. QED
  BY <1>1, <1>2, <1>3, VariantSteps

LEMMA FreshCopies == Spec => []CopiesFresh
<1>1. Init => CopiesFresh
  BY DEF Init, CopiesFresh
<1>2. TypeOK /\ CopiesFresh /\ [Next]_vars => CopiesFresh'
  BY CopiesStayFresh
<1>3. QED
  BY <1>1, <1>2, CheckoutTyped, PTL DEF Spec

\* create's transaction adds one order row and takes its units with it.
LEMMA CommitTakesUnits ==
    ASSUME TypeOK, RowSinceCommit, CopiesFresh, StockAccounting, NEW r \in Requests, TxCommit(r)
    PROVE  StockAccounting'
<1>1. UNCHANGED raced
  BY DEF TxCommit
<1> SUFFICES ASSUME NEW s \in Skus, Exact(s)
             PROVE  stock'[s] = InitialStock[s] - Cardinality(Sold(s)')
  BY <1>1 DEF StockAccounting, Exact, IsVariant
<1> DEFINE n == lines[r][s]
           Mine == {r} \X (1..n)
<1>2. n \in 0..MaxLines /\ MaxLines \in Nat
  BY CheckoutAssumption DEF TypeOK, Lines
<1>3. stock'[s] = stock[s] - n
  BY CommitExact
<1>4. orders[r].status = "NONE"
  BY DEF TxCommit, RowSinceCommit, BeforeCommit, Placing
<1>5. /\ orders'[r].status # "NONE" /\ orders'[r].items[s] = n
      /\ \A q \in Requests : q # r => orders'[q] = orders[q]
  BY DEF TxCommit, TypeOK
<1>6. Sold(s)' = Sold(s) \cup Mine
  <2>1. ASSUME NEW u \in Requests \X (1..MaxLines)
        PROVE  u \in Sold(s)' <=> u \in Sold(s) \cup Mine
    <3>1. u[1] \in Requests /\ u[2] \in 1..MaxLines /\ u = <<u[1], u[2]>>
      OBVIOUS
    <3>2. CASE u[1] = r
      <4>1. u \in Mine <=> u[2] <= n
        BY <1>2, <3>1, <3>2
      <4>2. u \notin Sold(s)
        BY <1>4, <3>2 DEF Sold
      <4>3. QED
        BY <1>5, <3>2, <4>1, <4>2 DEF Sold
    <3>3. CASE u[1] # r
      <4>1. u \notin Mine
        BY <3>3
      <4>2. QED
        BY <1>5, <3>1, <3>3, <4>1 DEF Sold
    <3>4. QED
      BY <3>2, <3>3
  <2>2. Mine \subseteq Requests \X (1..MaxLines)
    BY <1>2
  <2>3. QED
    BY <2>1, <2>2 DEF Sold
<1>7. Sold(s) \cap Mine = {}
  BY <1>4 DEF Sold
<1>8. Sold(s) \in SUBSET (Requests \X (1..MaxLines))
  BY DEF Sold
<1>9. IsFiniteSet(Sold(s)) /\ Cardinality(Sold(s)) \in Nat
  BY <1>8, UnitSets
<1>10. IsFiniteSet(Mine) /\ Cardinality(Mine) = n
  BY <1>2, UnitsOf
<1>11. Cardinality(Sold(s)') = Cardinality(Sold(s)) + n
  <2>1. Cardinality(Sold(s) \cup Mine)
           = Cardinality(Sold(s)) + Cardinality(Mine) - Cardinality(Sold(s) \cap Mine)
    BY <1>9, <1>10, FS_Union
  <2>2. Cardinality(Sold(s) \cap Mine) = 0
    BY <1>7, FS_EmptySet
  <2>3. QED
    BY <1>2, <1>6, <1>9, <1>10, <2>1, <2>2
<1>12. stock[s] = InitialStock[s] - Cardinality(Sold(s)) /\ InitialStock[s] \in Nat
  BY CheckoutAssumption DEF StockAccounting
<1>13. QED
  BY <1>2, <1>3, <1>9, <1>11, <1>12

\* Stock and order rows always add up to the initial stock, with any number of
\* concurrent handlers and crashes, but for variant rows that two transactions
\* raced for; a handler has an order row exactly from its commit on.
THEOREM StockAccounted == Spec => [](RowSinceCommit /\ StockAccounting)
<1> DEFINE Inv == TypeOK /\ HandlerOK /\ RowSinceCommit /\ StockAccounting
<1>1. Init => RowSinceCommit /\ StockAccounting
  <2> SUFFICES ASSUME Init PROVE RowSinceCommit /\ StockAccounting
    OBVIOUS
  <2>1. RowSinceCommit
    BY DEF Init, RowSinceCommit, NoOrder
  <2>2. \A s \in Skus : Sold(s) = {}
    BY DEF Init, Sold, NoOrder
  <2>3. StockAccounting
    <3>1. Cardinality({}) = 0
      BY FS_EmptySet
    <3>2. \A s \in Skus : stock[s] \in Nat /\ stock[s] = InitialStock[s]
      BY CheckoutAssumption DEF Init
    <3>3. QED
      BY <2>2, <3>1, <3>2 DEF StockAccounting
  <2>4. QED
    BY <2>1, <2>3
<1>2. Inv /\ CopiesFresh /\ [Next]_vars => RowSinceCommit' /\ StockAccounting'
  <2> SUFFICES ASSUME Inv, CopiesFresh, [Next]_vars PROVE RowSinceCommit' /\ StockAccounting'
    OBVIOUS
  <2>1. CASE UNCHANGED <<orders, stock>>
    <3>1. RowSinceCommit'
      BY <2>1, PcSteps DEF RowSinceCommit
    <3>2. \A s \in Skus : Sold(s)' = Sold(s)
      BY <2>1 DEF Sold
    <3>3. QED
      BY <2>1, <3>1, <3>2, RacedGrows DEF StockAccounting
  <2>2. ASSUME NEW r \in Requests, TxCommit(r)
        PROVE  RowSinceCommit' /\ StockAccounting'
    <3>1. pc'[r] \in {"markPaid", "clearCart", "done"} /\ \A q \in Requests : q # r => pc'[q] = pc[q]
      BY <2>2 DEF TxCommit, AfterCommit, Goto, TypeOK
    <3>2. \A q \in Requests : q # r => orders'[q] = orders[q]
      BY <2>2 DEF TxCommit, TypeOK
    <3>3. RowSinceCommit'
      BY <2>2, <3>1, <3>2 DEF RowSinceCommit, BeforeCommit, Placing, Looking, TxCommit, TypeOK
    <3>4. QED
      BY <2>2, <3>3, CommitTakesUnits
  <2>3. ASSUME NEW r \in Requests, MarkPaid(r), UNCHANGED stock
        PROVE  RowSinceCommit' /\ StockAccounting'
    <3>1. CASE UNCHANGED orders
      BY <2>1, <2>3, <3>1
    <3>2. CASE orders' = [orders EXCEPT ![r] = PaidRow(@, call[r].payment)] /\ Goto(r, "clearCart")
      <4>1. orders[r].status = "PENDING"
        BY <2>3 DEF MarkPaid, RowSinceCommit
      <4>2. RowSinceCommit'
        BY <3>2 DEF RowSinceCommit, BeforeCommit, Looking, Placing, Goto, TypeOK
      <4>3. \A q \in Requests : /\ orders'[q].status # "NONE" <=> orders[q].status # "NONE"
                                /\ orders'[q].items = orders[q].items
        BY <3>2, <4>1 DEF PaidRow, TypeOK
      <4>4. \A s \in Skus : Sold(s)' = Sold(s)
        BY <4>3 DEF Sold
      <4>5. QED
        BY <2>3, <4>2, <4>4, RacedGrows DEF StockAccounting
    <3>3. QED
      BY <2>3, <3>1, <3>2 DEF MarkPaid
  <2>4. QED
    BY <2>1, <2>2, <2>3, OrderSteps
<1>3. QED
  BY <1>1, <1>2, CheckoutTyped, FreshCopies, PTL DEF Spec

-----------------------------------------------------------------------------
Holding == {"txRead", "txCommit"}

\* A handler joins those that hold a checked claim only at CheckItems; every
\* other step but Start leaves the set of open handlers or shrinks it.
LEMMA ClaimSteps ==
    ASSUME TypeOK, [Next]_vars
    PROVE  /\ \/ InFlight' \subseteq InFlight
              \/ \E r \in Requests : Cardinality(InFlight) < MaxInflight /\ InFlight' = InFlight \cup {r}
           /\ \/ \A q \in Requests : pc'[q] \in Holding => pc[q] \in Holding /\ lines'[q] = lines[q]
              \/ \E r \in Requests : CheckItems(r)
<1> USE DEF TypeOK, Looking, Placing, Settling, Failing, Running, Finished, InFlight, Holding, Goto, handler
<1> DEFINE Claims ==
             \/ \A q \in Requests : pc'[q] \in Holding => pc[q] \in Holding /\ lines'[q] = lines[q]
             \/ \E r \in Requests : CheckItems(r)
<1>1. CASE Shopper \/ CloseWindow \/ \E k \in Payments : ExpirePending(k) \/ Capture(k)
  BY <1>1 DEF Shopper, AddCartItem, RemoveCartItem, CreateRazorpayOrder, CloseWindow,
              ExpirePending, Capture
<1>2. ASSUME NEW r \in Requests, Start(r)
      PROVE  /\ Cardinality(InFlight) < MaxInflight /\ InFlight' = InFlight \cup {r}
             /\ Claims
  <2>1. PICK at \in {"findOrder", "loadCart", "checkItems"} :
          /\ pc[r] = "idle" /\ Cardinality(InFlight) < MaxInflight
          /\ pc' = [pc EXCEPT ![r] = at]
          /\ \A q \in Requests : q # r => lines'[q] = lines[q]
    BY <1>2 DEF Start, StartVerify, StartCheckout, StartCreate, Enter
  <2>2. InFlight' = InFlight \cup {r}
    BY <2>1
  <2>3. Claims
    BY <2>1
  <2>4. QED
    BY <2>1, <2>2, <2>3
<1>3. ASSUME NEW r \in Requests, Advance(r)
      PROVE  InFlight' \subseteq InFlight /\ Claims
  <2>1. CASE LoadCart(r)
    BY <2>1 DEF LoadCart, OnThrow
  <2>2. CASE CheckItems(r)
    BY <2>2 DEF CheckItems, OnThrow
  <2>3. CASE TxCommit(r)
    BY <2>3 DEF TxCommit, AfterCommit
  <2>4. CASE FindExistingOrder(r) \/ FindPriorFailure(r) \/ LoadPending(r) \/ TxRead(r)
    BY <2>4 DEF FindExistingOrder, FindPriorFailure, LoadPending, TxRead, OnThrow
  <2>5. CASE MarkPaid(r) \/ ClearCart(r) \/ DropPending(r)
    BY <2>5 DEF MarkPaid, ClearCart, DropPending, OnThrow
  <2>6. CASE AttemptRefund(r) \/ RecordCheckoutFailure(r)
    BY <2>6 DEF AttemptRefund, RecordCheckoutFailure
  <2>7. QED
    BY <1>3, <2>1, <2>2, <2>3, <2>4, <2>5, <2>6 DEF Advance
<1>4. ASSUME NEW r \in Requests, StepThrows(r)
      PROVE  InFlight' \subseteq InFlight /\ Claims
  BY <1>4 DEF StepThrows, OnThrow
<1>5. CASE Crash
  BY <1>5 DEF Crash
<1>6. CASE UNCHANGED vars
  BY <1>6 DEF vars
<1>7. QED
  BY <1>1, <1>2, <1>3, <1>4, <1>5, <1>6 DEF Next

\* The units claimed of a sku, but for those of a handler that checks its items.
LEMMA ClaimedShrinks ==
    ASSUME NEW s \in Skus,
           \A q \in Requests : pc'[q] \in Holding => pc[q] \in Holding /\ lines'[q] = lines[q]
    PROVE  Claimed(s)' \subseteq Claimed(s)
<1> SUFFICES ASSUME NEW u \in Requests \X (1..MaxLines), u \in Claimed(s)'
             PROVE  u \in Claimed(s)
  BY DEF Claimed
<1>1. u[1] \in Requests /\ pc'[u[1]] \in Holding /\ u[2] <= lines'[u[1]][s]
  BY DEF Claimed, Holding
<1>2. QED
  BY <1>1 DEF Claimed, Holding

\* The commit gives up exactly the units it has claimed.
LEMMA CommitGivesUp ==
    ASSUME TypeOK, NEW r \in Requests, TxCommit(r), NEW s \in Skus
    PROVE  Cardinality(Claimed(s)') = Cardinality(Claimed(s)) - lines[r][s]
<1> DEFINE n == lines[r][s]
           Mine == {r} \X (1..n)
<1>1. n \in 0..MaxLines /\ MaxLines \in Nat
  BY CheckoutAssumption DEF TypeOK, Lines
<1>2. /\ pc[r] = "txCommit" /\ pc'[r] \notin Holding /\ UNCHANGED lines
      /\ \A q \in Requests : q # r => pc'[q] = pc[q]
  BY DEF TxCommit, AfterCommit, Goto, Holding, TypeOK
<1>3. Mine \subseteq Claimed(s)
  <2>1. ASSUME NEW u \in Mine
        PROVE  u \in Requests \X (1..MaxLines) /\ u[1] = r /\ u[2] <= n
    BY <1>1
  <2>2. QED
    BY <1>2, <2>1 DEF Claimed
<1>4. Claimed(s)' = Claimed(s) \ Mine
  <2>1. ASSUME NEW u \in Requests \X (1..MaxLines)
        PROVE  u \in Claimed(s)' <=> u \in Claimed(s) \ Mine
    <3>1. u[1] \in Requests /\ u[2] \in 1..MaxLines /\ u = <<u[1], u[2]>>
      OBVIOUS
    <3>2. CASE u[1] = r
      <4>1. u \in Mine <=> u[2] <= n
        BY <1>1, <3>1, <3>2
      <4>2. u \in Claimed(s) => u[2] <= n
        BY <3>2 DEF Claimed
      <4>3. u \notin Claimed(s)'
        BY <1>2, <3>2 DEF Claimed, Holding
      <4>4. QED
        BY <4>1, <4>2, <4>3
    <3>3. CASE u[1] # r
      <4>1. u \notin Mine
        BY <3>3
      <4>2. QED
        BY <1>2, <3>1, <3>3, <4>1 DEF Claimed
    <3>4. QED
      BY <3>2, <3>3
  <2>2. QED
    BY <2>1 DEF Claimed
<1>5. IsFiniteSet(Claimed(s)) /\ Cardinality(Claimed(s)) \in Nat
  <2>1. Claimed(s) \in SUBSET (Requests \X (1..MaxLines))
    BY DEF Claimed
  <2>2. QED
    BY <2>1, UnitSets
<1>6. Cardinality(Claimed(s) \ Mine) = Cardinality(Claimed(s)) - Cardinality(Claimed(s) \cap Mine)
  BY <1>5, FS_Difference
<1>7. Claimed(s) \cap Mine = Mine /\ Cardinality(Mine) = n
  BY <1>1, <1>3, UnitsOf
<1>8. QED
  BY <1>4, <1>6, <1>7

LEMMA Monotone ==
    ASSUME NEW a \in Nat, NEW b \in Nat, NEW c \in Nat, a <= b
    PROVE  a * c <= b * c /\ a * c \in Nat /\ b * c \in Nat
OBVIOUS

\* A handler that checks its items leaves no more claimed than all in flight can hold.
LEMMA ChecksClaim ==
    ASSUME TypeOK, ClaimsBounded, NEW r \in Requests, CheckItems(r), NEW s \in Skus,
           ~IsVariant(s), Cardinality(InFlight') <= MaxInflight
    PROVE  stock'[s] - Cardinality(Claimed(s)') >= 1 - MaxInflight * MaxLines
<1> USE CheckoutAssumption
<1>1. stock' = stock /\ UNCHANGED lines /\ \A q \in Requests : q # r => pc'[q] = pc[q]
  BY DEF CheckItems, store, Goto, TypeOK
<1>2. stock[s] \in Int /\ lines[r][s] \in 0..MaxLines
  BY DEF TypeOK, Lines
<1>3. /\ Claimed(s) \in SUBSET (Requests \X (1..MaxLines))
      /\ Claimed(s)' \in SUBSET (Requests \X (1..MaxLines))
  BY DEF Claimed
<1>4. CASE pc'[r] \notin Holding \/ lines[r][s] = 0
  <2>1. Claimed(s)' \subseteq Claimed(s)
    <3> SUFFICES ASSUME NEW u \in Requests \X (1..MaxLines), u \in Claimed(s)'
                 PROVE  u \in Claimed(s)
      BY DEF Claimed
    <3>1. u[1] \in Requests /\ u[2] \in 1..MaxLines
      OBVIOUS
    <3>2. pc'[u[1]] \in Holding /\ u[2] <= lines[u[1]][s]
      BY <1>1 DEF Claimed, Holding
    <3>3. u[1] # r
      BY <1>4, <3>1, <3>2
    <3>4. QED
      BY <1>1, <3>1, <3>2, <3>3 DEF Claimed, Holding
  <2>2. /\ Cardinality(Claimed(s)') \in Nat /\ Cardinality(Claimed(s)) \in Nat
        /\ Cardinality(Claimed(s)') <= Cardinality(Claimed(s))
    BY <1>3, <2>1, UnitSets
  <2>3. stock[s] - Cardinality(Claimed(s)) >= 1 - MaxInflight * MaxLines
    BY DEF ClaimsBounded
  <2>4. PICK m \in Nat : m = MaxInflight * MaxLines
    BY Monotone
  <2>5. QED
    BY <1>1, <1>2, <2>2, <2>3, <2>4
<1>5. CASE pc'[r] \in Holding /\ lines[r][s] # 0
  <2>1. stock[s] >= 1
    <3>1. InStock(Asked(r))
      BY <1>5 DEF CheckItems, OnThrow, Goto, Holding, TypeOK
    <3>2. s \in Asked(r)
      BY <1>2, <1>5 DEF Asked
    <3>3. QED
      BY <3>1, <3>2 DEF InStock
  <2>2. InFlight' \subseteq Requests
    BY DEF InFlight
  <2>3. Claimed(s)' \in SUBSET (InFlight' \X (1..MaxLines))
    <3>1. \A u \in Requests \X (1..MaxLines) :
             u[1] \in Requests /\ u[2] \in 1..MaxLines /\ u = <<u[1], u[2]>>
      OBVIOUS
    <3>2. \A u \in Claimed(s)' : pc'[u[1]] \in Running
      BY DEF Claimed, Running, Placing
    <3>3. QED
      BY <3>1, <3>2, <1>3 DEF InFlight
  <2>4. /\ Cardinality(Claimed(s)') \in Nat
        /\ Cardinality(Claimed(s)') <= Cardinality(InFlight') * MaxLines
    BY <2>2, <2>3, UnitSets
  <2>5. Cardinality(InFlight') \in Nat
    BY <2>2, RequestSets
  <2>6. Cardinality(InFlight') * MaxLines <= MaxInflight * MaxLines
    BY <2>5, Monotone
  <2>7. PICK m \in Nat, k \in Nat : m = MaxInflight * MaxLines /\ k = Cardinality(InFlight') * MaxLines
    BY <2>5, Monotone
  <2>8. QED
    BY <1>1, <1>2, <2>1, <2>4, <2>6, <2>7
<1>6. QED
  BY <1>4, <1>5

\* No step brings more handlers in flight, or more units claimed, than allowed.
LEMMA ClaimsStayBounded ==
    ASSUME TypeOK, ClaimsBounded, [Next]_vars
    PROVE  ClaimsBounded'
<1> USE CheckoutAssumption
<1>1. InFlight \subseteq Requests /\ InFlight' \subseteq Requests
  BY DEF InFlight
<1>2. Cardinality(InFlight') <= MaxInflight
  <2>1. CASE InFlight' \subseteq InFlight
    <3>1. Cardinality(InFlight') <= Cardinality(InFlight)
      BY <1>1, <2>1, RequestSets
    <3>2. Cardinality(InFlight') \in Nat /\ Cardinality(InFlight) \in Nat
      BY <1>1, RequestSets
    <3>3. QED
      BY <3>1, <3>2 DEF ClaimsBounded
  <2>2. ASSUME NEW r \in Requests, Cardinality(InFlight) < MaxInflight,
               InFlight' = InFlight \cup {r}
        PROVE  Cardinality(InFlight') <= MaxInflight
    <3>1. Cardinality(InFlight \cup {r}) <= Cardinality(InFlight) + 1
      BY <1>1, RequestSets, FS_AddElement
    <3>2. Cardinality(InFlight) \in Nat /\ Cardinality(InFlight') \in Nat
      BY <1>1, RequestSets
    <3>3. QED
      BY <2>2, <3>1, <3>2
  <2>3. QED
    BY <2>1, <2>2, ClaimSteps
<1>3. ASSUME NEW s \in Skus, ~IsVariant(s)
      PROVE  stock'[s] - Cardinality(Claimed(s)') >= 1 - MaxInflight * MaxLines
  <2>1. /\ Claimed(s) \in SUBSET (Requests \X (1..MaxLines))
        /\ Claimed(s)' \in SUBSET (Requests \X (1..MaxLines))
    BY DEF Claimed
  <2>2. Cardinality(Claimed(s)) \in Nat /\ Cardinality(Claimed(s)') \in Nat
    BY <2>1, UnitSets
  <2>3. PICK m \in Nat : m = MaxInflight * MaxLines
    BY Monotone
  <2>4. stock[s] - Cardinality(Claimed(s)) >= 1 - m /\ stock[s] \in Int
    BY <1>3, <2>3 DEF ClaimsBounded, TypeOK
  <2>5. CASE ~ \E r \in Requests : TxCommit(r) \/ CheckItems(r)
    <3>1. stock' = stock
      BY <2>5, OrderSteps
    <3>2. Claimed(s)' \subseteq Claimed(s)
      BY <2>5, ClaimSteps, ClaimedShrinks
    <3>3. Cardinality(Claimed(s)') <= Cardinality(Claimed(s))
      BY <2>1, <3>2, UnitSets
    <3>4. QED
      BY <2>2, <2>3, <2>4, <3>1, <3>3
  <2>6. ASSUME NEW r \in Requests, CheckItems(r)
        PROVE  stock'[s] - Cardinality(Claimed(s)') >= 1 - MaxInflight * MaxLines
    BY <1>2, <1>3, <2>6, ChecksClaim
  <2>7. ASSUME NEW r \in Requests, TxCommit(r)
        PROVE  stock'[s] - Cardinality(Claimed(s)') >= 1 - MaxInflight * MaxLines
    <3>1. stock'[s] = stock[s] - lines[r][s]
      BY <1>3, <2>7 DEF TxCommit, StockAfter
    <3>2. Cardinality(Claimed(s)') = Cardinality(Claimed(s)) - lines[r][s] /\ lines[r][s] \in Nat
      BY <2>7, CommitGivesUp DEF TypeOK, Lines
    <3>3. QED
      BY <2>2, <2>3, <2>4, <3>1, <3>2
  <2>8. QED
    BY <2>5, <2>6, <2>7
<1>4. QED
  BY <1>2, <1>3 DEF ClaimsBounded, IsVariant

\* No variant is sold below zero, whatever other handler writes it back meanwhile.
LEMMA VariantsStayInStock ==
    ASSUME TypeOK, VariantsInStock, [Next]_vars
    PROVE  VariantsInStock'
<1>1. CASE /\ UNCHANGED <<stock, snapshot, raced>>
           /\ \A r \in Requests : pc'[r] = "txCommit" => pc[r] = "txCommit" /\ lines'[r] = lines[r]
  BY <1>1 DEF VariantsInStock, IsVariant
<1>2. ASSUME NEW r \in Requests, TxRead(r)
      PROVE  VariantsInStock'
  <2>1. snapshot' = [snapshot EXCEPT ![r] = stock] /\ UNCHANGED <<stock, lines>>
    BY <1>2 DEF TxRead, store
  <2>2. \A q \in Requests : pc'[q] = "txCommit" /\ q # r => pc[q] = "txCommit"
    BY <1>2 DEF TxRead, Goto, TypeOK
  <2>3. ASSUME pc'[r] = "txCommit"
        PROVE  \A s \in Skus : IsVariant(s) => lines[r][s] <= stock[s]
    BY <1>2, <2>3 DEF TxRead, Goto, OnThrow, TypeOK
  <2>4. ASSUME NEW s \in Skus, IsVariant(s), NEW q \in Requests
        PROVE  snapshot'[q][s] >= 0 /\ (pc'[q] = "txCommit" => snapshot'[q][s] >= lines'[q][s])
    <3>1. CASE q = r
      <4>1. snapshot'[q][s] = stock[s] /\ lines'[q][s] = lines[r][s]
        BY <2>1, <3>1 DEF TypeOK
      <4>2. stock[s] >= 0 /\ stock[s] \in Int /\ lines[r][s] \in Int
        BY <2>4, CheckoutAssumption DEF VariantsInStock, TypeOK, Lines
      <4>3. QED
        BY <2>3, <2>4, <3>1, <4>1, <4>2
    <3>2. CASE q # r
      BY <2>1, <2>2, <2>4, <3>2 DEF VariantsInStock, TypeOK
    <3>3. QED
      BY <3>1, <3>2
  <2>5. QED
    BY <2>1, <2>4 DEF VariantsInStock, IsVariant
<1>3. ASSUME NEW r \in Requests, TxCommit(r)
      PROVE  VariantsInStock'
  <2>1. UNCHANGED <<snapshot, lines>>
    BY <1>3 DEF TxCommit
  <2>2. \A q \in Requests : pc'[q] = "txCommit" => pc[q] = "txCommit"
    BY <1>3 DEF TxCommit, Goto, AfterCommit, TypeOK
  <2>3. ASSUME NEW s \in Skus, IsVariant(s)
        PROVE  stock'[s] >= 0
    <3>1. stock'[s] = StockAfter(r, s)
      BY <1>3 DEF TxCommit
    <3>2. /\ snapshot[r][s] >= lines[r][s] /\ snapshot[r][s] \in Int
          /\ lines[r][s] \in Int /\ stock[s] >= 0 /\ stock[s] \in Int
      BY <1>3, <2>3, CheckoutAssumption DEF TxCommit, VariantsInStock, TypeOK, Lines
    <3>3. CASE RowOf[s] \in Touched(r)
      BY <2>3, <3>1, <3>2, <3>3 DEF StockAfter
    <3>4. CASE RowOf[s] \notin Touched(r)
      <4>1. lines[r][s] = 0
        BY <3>4, LinesTouch
      <4>2. QED
        BY <3>1, <3>2, <3>4, <4>1 DEF StockAfter
    <3>5. QED
      BY <3>3, <3>4
  <2>4. QED
    BY <2>1, <2>2, <2>3 DEF VariantsInStock, IsVariant
<1>4. QED
  BY <1>1, <1>2, <1>3, VariantSteps

\* A plain product is oversold by fewer units than the handlers in flight can have
\* lines of it; a variant's stock never goes below zero, and it is sold more often
\* than it was there only where two transactions raced for its row.
THEOREM OversellIsBounded == Spec => []OversellBounded
<1> USE CheckoutAssumption
<1>1. Init => ClaimsBounded
  <2> SUFFICES ASSUME Init PROVE ClaimsBounded
    OBVIOUS
  <2>1. InFlight = {} /\ \A s \in Skus : Claimed(s) = {}
    BY DEF Init, InFlight, Claimed, Running, Looking, Placing, Settling, Failing
  <2>2. Cardinality({}) = 0
    BY FS_EmptySet
  <2>3. \A s \in Skus : stock[s] \in Nat
    BY DEF Init
  <2>4. PICK m \in Nat : m = MaxInflight * MaxLines
    BY Monotone
  <2>5. m >= 1
    <3>1. MaxInflight >= 1 /\ 1 * MaxLines <= MaxInflight * MaxLines
      BY Monotone
    <3>2. QED
      BY <2>4, <3>1
  <2>6. QED
    BY <2>1, <2>2, <2>3, <2>4, <2>5 DEF ClaimsBounded
<1>2. TypeOK /\ ClaimsBounded /\ [Next]_vars => ClaimsBounded'
  BY ClaimsStayBounded
<1>3. Init => VariantsInStock
  BY DEF Init, VariantsInStock
<1>4. TypeOK /\ VariantsInStock /\ [Next]_vars => VariantsInStock'
  BY VariantsStayInStock
<1>5. TypeOK /\ ClaimsBounded /\ VariantsInStock /\ StockAccounting => OversellBounded
  <2> SUFFICES ASSUME TypeOK, ClaimsBounded, VariantsInStock, StockAccounting, NEW s \in Skus
               PROVE  /\ IsVariant(s) => /\ stock[s] >= 0
                                         /\ Exact(s) => Cardinality(Sold(s)) <= InitialStock[s]
                      /\ ~IsVariant(s) => stock[s] >= 1 - MaxInflight * MaxLines
    BY DEF OversellBounded
  <2>1. Cardinality(Claimed(s)) \in Nat /\ Cardinality(Sold(s)) \in Nat
    <3>1. /\ Claimed(s) \in SUBSET (Requests \X (1..MaxLines))
          /\ Sold(s) \in SUBSET (Requests \X (1..MaxLines))
      BY DEF Claimed, Sold
    <3>2. QED
      BY <3>1, UnitSets
  <2>2. PICK m \in Nat : m = MaxInflight * MaxLines
    BY Monotone
  <2>3. stock[s] \in Int /\ InitialStock[s] \in Nat
    BY DEF TypeOK
  <2>4. IsVariant(s) => stock[s] >= 0
    BY DEF VariantsInStock
  <2>5. Exact(s) => stock[s] = InitialStock[s] - Cardinality(Sold(s))
    BY DEF StockAccounting
  <2>6. ~IsVariant(s) => stock[s] - Cardinality(Claimed(s)) >= 1 - m
    BY <2>2 DEF ClaimsBounded
  <2>7. QED
    BY <2>1, <2>2, <2>3, <2>4, <2>5, <2>6
<1>6. QED
  BY <1>1, <1>2, <1>3, <1>4, <1>5, CheckoutTyped, StockAccounted, PTL DEF Spec

-----------------------------------------------------------------------------
(***************************************************************************)
(* The money side: whose payment an order carries, and when a payment can  *)
(* be settled twice.                                                       *)
(***************************************************************************)
Handling(r) == Start(r) \/ Advance(r) \/ StepThrows(r)

\* Every step is a handler's, which moves no other handler, or moves none.
LEMMA StepCases ==
    ASSUME TypeOK, [Next]_vars
    PROVE  \/ \E r \in Requests :
                 /\ Handling(r)
                 /\ \A q \in Requests : q # r => pc'[q] = pc[q] /\ call'[q] = call[q]
           \/ Crash
           \/ UNCHANGED handler
<1> USE DEF TypeOK, Goto, handler
<1>1. ASSUME NEW r \in Requests, Start(r)
      PROVE  \A q \in Requests : q # r => pc'[q] = pc[q] /\ call'[q] = call[q]
  BY <1>1 DEF Start, StartVerify, StartCheckout, StartCreate, Enter
<1>2. ASSUME NEW r \in Requests, Advance(r)
      PROVE  \A q \in Requests : q # r => pc'[q] = pc[q] /\ call'[q] = call[q]
  BY <1>2 DEF Advance, FindExistingOrder, FindPriorFailure, LoadPending, LoadCart, CheckItems,
              TxRead, TxCommit, MarkPaid, ClearCart, DropPending, AttemptRefund,
              RecordCheckoutFailure
<1>3. ASSUME NEW r \in Requests, StepThrows(r)
      PROVE  \A q \in Requests : q # r => pc'[q] = pc[q] /\ call'[q] = call[q]
  BY <1>3 DEF StepThrows
<1>4. QED
  BY <1>1, <1>2, <1>3 DEF Next, vars, Handling, Shopper, AddCartItem, RemoveCartItem,
     CreateRazorpayOrder, CloseWindow, ExpirePending, Capture

\* Captures are never taken back and a session never changes hands.
LEMMA SessionSteps ==
    ASSUME TypeOK, [Next]_vars
    PROVE  /\ captured \subseteq captured'
           /\ \A k \in Payments : owner[k] \in Buyers => owner'[k] = owner[k]
           /\ \A k \in captured' \ captured : k \in Payments /\ owner[k] \in Buyers
BY CheckoutAssumption
   DEF TypeOK, Next, vars, Shopper, AddCartItem, RemoveCartItem, CreateRazorpayOrder, CloseWindow,
       ExpirePending, Capture, Start, StartVerify, StartCheckout, StartCreate, Enter, Advance,
       FindExistingOrder, FindPriorFailure, LoadPending, LoadCart, CheckItems, TxRead, TxCommit,
       MarkPaid, ClearCart, DropPending, AttemptRefund, RecordCheckoutFailure, StepThrows, Crash,
       store, razorpay, handler

\* Where a handler's own step can take it, and what the step has seen.
LEMMA HandlerSteps ==
    ASSUME TypeOK, HandlerOK, NEW r \in Requests, Handling(r)
    PROVE  LET k == call[r].payment IN
           \/ /\ pc[r] = "idle" /\ pc'[r] \in {"findOrder", "loadCart", "checkItems"}
              /\ Start(r)
              /\ call'[r].op = "verify" => /\ pc'[r] = "findOrder"
                                           /\ call'[r].payment \in captured
                                           /\ call'[r].payment \in Payments
           \/ /\ call' = call
              /\ pc[r] # "idle"
              /\ \/ pc[r] = "findOrder" /\ pc'[r] = "findFailure" /\ FindExistingOrder(r)
                 \/ pc[r] = "findFailure" /\ pc'[r] = "loadPending" /\ FindPriorFailure(r)
                 \/ pc[r] = "loadPending" /\ pc'[r] = "loadCart" /\ LoadPending(r)
                 \/ pc[r] \in Placing /\ pc'[r] \in (Placing \ {"markPaid"}) \cup {"refund"}
                 \/ pc[r] = "txCommit" /\ pc'[r] = "markPaid" /\ TxCommit(r)
                 \/ pc[r] = "txCommit" /\ pc'[r] = "clearCart" /\ call[r].op = "checkout"
                 \/ pc[r] = "markPaid" /\ pc'[r] = "clearCart" /\ MarkPaid(r)
                 \/ pc[r] = "clearCart" /\ pc'[r] = "dropPending"
                 \/ pc[r] \in Settling /\ pc'[r] = "refund" /\ "redis" \in Faults
                 \/ pc[r] = "refund" /\ pc'[r] \in {"recordRefunded", "recordRefundFailed"}
                 \/ pc'[r] \in Finished
<1> USE DEF TypeOK, Goto
<1>1. CASE Start(r)
  <2>1. ASSUME NEW b \in Buyers, NEW k \in Payments, StartVerify(r, b, k)
        PROVE  /\ pc[r] = "idle" /\ pc'[r] = "findOrder"
               /\ call'[r].payment = k /\ k \in captured
    BY <2>1 DEF StartVerify, Enter
  <2>2. ASSUME NEW b \in Buyers, StartCheckout(r, b)
        PROVE  pc[r] = "idle" /\ pc'[r] = "loadCart" /\ call'[r].op = "checkout"
    BY <2>2 DEF StartCheckout, Enter
  <2>3. ASSUME NEW b \in Buyers, NEW items \in Lines, StartCreate(r, b, items)
        PROVE  pc[r] = "idle" /\ pc'[r] = "checkItems" /\ call'[r].op = "create"
    BY <2>3 DEF StartCreate, Enter
  <2>4. QED
    BY <1>1, <2>1, <2>2, <2>3 DEF Start
<1>2. CASE Advance(r)
  BY <1>2 DEF Advance, FindExistingOrder, FindPriorFailure, LoadPending, LoadCart, CheckItems,
              TxRead, TxCommit, AfterCommit, MarkPaid, ClearCart, DropPending, AttemptRefund,
              RecordCheckoutFailure, OnThrow, Placing, Settling, Finished, Call, AllEndpoints
<1>3. CASE StepThrows(r)
  BY <1>3 DEF StepThrows, OnThrow, Placing, Settling, Looking, Finished
<1>4. QED
  BY <1>1, <1>2, <1>3 DEF Handling

\* Order rows keep what they have; a row is created for the caller of create
\* and paid with the payment of the verify that marks it.
LEMMA RowSteps ==
    ASSUME TypeOK, HandlerOK, [Next]_vars, NEW r \in Requests
    PROVE  \/ orders'[r] = orders[r]
           \/ /\ pc[r] = "txCommit" /\ TxCommit(r)
              /\ orders'[r].status = "PENDING" /\ orders'[r].buyer = call[r].buyer
           \/ /\ pc[r] = "markPaid" /\ MarkPaid(r)
              /\ PaidWith(call[r].payment) = {}
              /\ orders'[r] = PaidRow(orders[r], call[r].payment)
<1> USE DEF TypeOK
<1>1. CASE UNCHANGED orders
  BY <1>1
<1>2. ASSUME NEW q \in Requests, TxCommit(q), q # r
      PROVE  orders'[r] = orders[r]
  BY <1>2 DEF TxCommit
<1>3. ASSUME NEW q \in Requests, MarkPaid(q), q # r
      PROVE  orders'[r] = orders[r]
  BY <1>3 DEF MarkPaid
<1>4. CASE TxCommit(r)
  BY <1>4 DEF TxCommit
<1>5. CASE MarkPaid(r)
  BY <1>5 DEF MarkPaid
<1>6. QED
  BY <1>1, <1>2, <1>3, <1>4, <1>5, OrderSteps

\* Every PAID order carries a captured payment of the buyer it belongs to.
THEOREM PaidOrdersArePayers == Spec => [](SessionOK /\ PaidByPayer)
<1> USE CheckoutAssumption
<1> DEFINE Inv == TypeOK /\ HandlerOK /\ SessionOK /\ PaidByPayer
<1>1. Init => SessionOK /\ PaidByPayer
  BY DEF Init, SessionOK, PaidByPayer, NoOrder, Placing, Settling
<1>2. Inv /\ [Next]_vars => SessionOK'
  <2>0. ASSUME Inv, [Next]_vars, NEW k \in captured'
        PROVE  owner'[k] \in Buyers
    <3>1. k \in Payments /\ owner[k] \in Buyers
      <4>1. CASE k \in captured
        BY <2>0, <4>1 DEF SessionOK, TypeOK
      <4>2. CASE k \notin captured
        BY <2>0, <4>2, SessionSteps
      <4>3. QED
        BY <4>1, <4>2
    <3>2. QED
      BY <2>0, <3>1, SessionSteps
  <2> SUFFICES ASSUME Inv, [Next]_vars, NEW r \in Requests
               PROVE  /\ (pc'[r] # "idle" /\ call'[r].op = "verify") => call'[r].payment \in captured'
                      /\ (pc'[r] \in Placing \cup Settling /\ call'[r].op = "verify")
                            => owner'[call'[r].payment] = call'[r].buyer
                      /\ pc'[r] = "markPaid" => orders'[r].buyer = call'[r].buyer
    BY <2>0 DEF SessionOK
  <2>1. CASE pc'[r] = pc[r] /\ call'[r] = call[r]
    <3>1. pc[r] = "markPaid" => orders'[r].buyer = orders[r].buyer
      <4>1. CASE orders'[r] = PaidRow(orders[r], call[r].payment)
        BY <4>1 DEF PaidRow
      <4>2. QED
        BY <4>1, RowSteps
    <3>2. QED
      BY <2>1, <3>1, SessionSteps DEF SessionOK, HandlerOK, Placing, Settling, TypeOK
  <2>2. CASE Handling(r)
    <3>1. pc'[r] = "markPaid" => orders'[r].buyer = call'[r].buyer
      <4>1. pc'[r] = "markPaid" => TxCommit(r) /\ call' = call
        BY <2>2, HandlerSteps DEF Finished, Placing
      <4>2. TxCommit(r) => orders'[r].buyer = call[r].buyer
        BY DEF TxCommit, TypeOK
      <4>3. QED
        BY <4>1, <4>2
    <3>2. CASE pc[r] = "idle"
      <4>1. /\ pc'[r] \in {"findOrder", "loadCart", "checkItems"}
            /\ call'[r].op = "verify" => pc'[r] = "findOrder" /\ call'[r].payment \in captured
        BY <2>2, <3>2, HandlerSteps
      <4>2. QED
        BY <3>1, <4>1, SessionSteps DEF Placing, Settling
    <3>3. CASE pc[r] # "idle" /\ call' = call
      <4>1. pc'[r] \in Placing \cup Settling =>
               pc[r] \in Placing \cup Settling \/ (pc[r] = "loadPending" /\ LoadPending(r))
        BY <2>2, <3>3, HandlerSteps DEF Placing, Settling, Finished
      <4>2. pc'[r] = "loadCart" /\ LoadPending(r) => owner[call[r].payment] = call[r].buyer
        BY DEF LoadPending, Goto, TypeOK
      <4>3. (pc'[r] \in Placing \cup Settling /\ call[r].op = "verify")
               => owner[call[r].payment] = call[r].buyer
        BY <2>2, <3>3, <4>1, <4>2, HandlerSteps DEF SessionOK, Placing, Settling, Finished
      <4>4. call[r].op = "verify" => call[r].payment \in captured /\ call[r].payment \in Payments
        BY <3>3 DEF SessionOK, HandlerOK
      <4>5. QED
        BY <3>1, <3>3, <4>3, <4>4, SessionSteps DEF SessionOK
    <3>4. QED
      BY <2>2, <3>2, <3>3, HandlerSteps
  <2>3. CASE Crash
    BY <2>3 DEF Crash, SessionOK, Placing, Settling, Running, Looking, Failing, store, razorpay
  <2>4. QED
    BY <2>1, <2>2, <2>3, StepCases DEF handler
<1>3. Inv /\ [Next]_vars => PaidByPayer'
  <2> SUFFICES ASSUME Inv, [Next]_vars, NEW r \in Requests, orders'[r].status = "PAID"
               PROVE  /\ orders'[r].payment \in captured'
                      /\ owner'[orders'[r].payment] = orders'[r].buyer
    BY DEF PaidByPayer
  <2>1. CASE orders'[r] = orders[r]
    <3>1. /\ orders[r].payment \in captured
          /\ owner[orders[r].payment] = orders[r].buyer
      BY <2>1 DEF PaidByPayer
    <3>2. orders[r].payment \in Payments /\ owner[orders[r].payment] \in Buyers
      BY <3>1 DEF SessionOK, TypeOK
    <3>3. QED
      BY <2>1, <3>1, <3>2, SessionSteps
  <2>2. CASE MarkPaid(r) /\ orders'[r] = PaidRow(orders[r], call[r].payment)
    BY <2>2, SessionSteps DEF MarkPaid, PaidRow, SessionOK, HandlerOK, Placing, TypeOK
  <2>3. QED
    BY <2>1, <2>2, RowSteps
<1>4. QED
  BY <1>1, <1>2, <1>3, CheckoutTyped, PTL DEF Spec

-----------------------------------------------------------------------------
\* The PAID orders of a payment change only when a handler marks the first one.
LEMMA PaidSteps ==
    ASSUME TypeOK, HandlerOK, RowSinceCommit, [Next]_vars, NEW k \in Payments
    PROVE  \/ PaidWith(k)' = PaidWith(k)
           \/ \E r \in Requests : /\ MarkPaid(r) /\ call[r].payment = k
                                  /\ PaidWith(k) = {} /\ PaidWith(k)' = {r}
<1> USE DEF PaidWith
<1>1. ASSUME NEW q \in Requests, ~ \E r \in Requests : MarkPaid(r) /\ call[r].payment = k
      PROVE  q \in PaidWith(k)' <=> q \in PaidWith(k)
  <2>1. CASE orders'[q] = orders[q]
    BY <2>1
  <2>2. CASE pc[q] = "txCommit" /\ orders'[q].status = "PENDING"
    BY <2>2 DEF RowSinceCommit, BeforeCommit, Placing
  <2>3. CASE MarkPaid(q) /\ orders'[q] = PaidRow(orders[q], call[q].payment)
    <3>1. call[q].payment # k
      BY <1>1, <2>3
    <3>2. orders[q].status = "PENDING"
      BY <2>3 DEF MarkPaid, RowSinceCommit
    <3>3. QED
      BY <2>3, <3>1, <3>2 DEF PaidRow
  <2>4. QED
    BY <2>1, <2>2, <2>3, RowSteps
<1>2. ASSUME NEW r \in Requests, MarkPaid(r), call[r].payment = k
      PROVE  PaidWith(k)' = PaidWith(k) \/ (PaidWith(k) = {} /\ PaidWith(k)' = {r})
  <2>1. CASE UNCHANGED orders
    BY <2>1
  <2>2. CASE PaidWith(k) = {} /\ orders' = [orders EXCEPT ![r] = PaidRow(@, k)]
    BY <2>2 DEF PaidRow, TypeOK
  <2>3. QED
    BY <1>2, <2>1, <2>2 DEF MarkPaid
<1>3. CASE \E r \in Requests : MarkPaid(r) /\ call[r].payment = k
  BY <1>2, <1>3
<1>4. CASE ~ \E r \in Requests : MarkPaid(r) /\ call[r].payment = k
  BY <1>1, <1>4
<1>5. QED
  BY <1>3, <1>4

\* At most one order is ever PAID with a payment, however many handlers
\* verify it at the same time and wherever they crash.
THEOREM PaymentPaysOnce == Spec => []OneOrderPerPayment
<1>1. Init => OneOrderPerPayment
  BY DEF Init, OneOrderPerPayment, PaidWith, NoOrder
<1>2. TypeOK /\ HandlerOK /\ RowSinceCommit /\ OneOrderPerPayment /\ [Next]_vars
         => OneOrderPerPayment'
  BY PaidSteps DEF OneOrderPerPayment
<1>3. QED
  BY <1>1, <1>2, CheckoutTyped, StockAccounted, PTL DEF Spec

-----------------------------------------------------------------------------
\* Refunds and failure rows are written by the catch block only.
LEMMA LedgerSteps ==
    [Next]_vars => \/ UNCHANGED <<refunded, failure>>
                   \/ \E r \in Requests : AttemptRefund(r)
                   \/ \E r \in Requests : RecordCheckoutFailure(r)
BY DEF Next, vars, Shopper, AddCartItem, RemoveCartItem, CreateRazorpayOrder, CloseWindow,
       ExpirePending, Capture, Start, StartVerify, StartCheckout, StartCreate, Enter, Advance,
       FindExistingOrder, FindPriorFailure, LoadPending, LoadCart, CheckItems, TxRead, TxCommit,
       MarkPaid, ClearCart, DropPending, StepThrows, Crash, store, razorpay, handler

\* The parts of SequentialOK.
OneHandler ==
    \A q, r \in InFlight :
        (q # r /\ call[r].op = "verify") => call[q].payment # call[r].payment
KnowsUnpaid ==
    \A r \in Requests :
        (call[r].op = "verify" /\ pc[r] \in Unpaid) => PaidWith(call[r].payment) = {}
KnowsUnrefunded ==
    \A r \in Requests :
        (call[r].op = "verify" /\ pc[r] \in Unfailed) => call[r].payment \notin refunded
Recorders(k) ==
    {r \in Requests : pc[r] \in {"recordRefunded", "recordRefundFailed"} /\ call[r].payment = k}
RefundOnRecord == \A k \in refunded : failure[k] # "NONE" \/ Recorders(k) # {}

\* The parts of the inductive invariant.
LEMMA SequentialParts ==
    SequentialOK <=> /\ OneHandler /\ KnowsUnpaid /\ KnowsUnrefunded
                     /\ RefundOnRecord /\ RefundOnlyUnplaced
BY DEF SequentialOK, OneHandler, KnowsUnpaid, KnowsUnrefunded, RefundOnRecord, Recorders

\* A handler that enters verify finds its payment in nobody else's hands.
LEMMA EntersAlone ==
    ASSUME Sequential, TypeOK, HandlerOK, NEW r \in Requests, Start(r), NEW q \in InFlight
    PROVE  /\ q # r
           /\ call'[r].payment # call[q].payment
              \/ (call'[r].op # "verify" /\ call[q].op # "verify")
<1> USE CheckoutAssumption DEF TypeOK, HandlerOK, InFlight, Sequential, Running, Looking, Placing, Settling, Failing
<1>1. ASSUME NEW b \in Buyers, NEW k \in Payments, StartVerify(r, b, k)
      PROVE  q # r /\ call'[r].payment # call[q].payment
  BY <1>1 DEF StartVerify, Enter
<1>2. ASSUME NEW b \in Buyers, StartCheckout(r, b)
      PROVE  q # r /\ call'[r].payment = NoPayment /\ call'[r].op = "checkout"
  BY <1>2 DEF StartCheckout, Enter
<1>3. ASSUME NEW b \in Buyers, NEW items \in Lines, StartCreate(r, b, items)
      PROVE  q # r /\ call'[r].payment = NoPayment /\ call'[r].op = "create"
  BY <1>3 DEF StartCreate, Enter
<1>4. call[q].op = "verify" => call[q].payment # NoPayment
  OBVIOUS
<1>5. QED
  BY <1>1, <1>2, <1>3, <1>4 DEF Start

\* No step brings two handlers of one payment together.
LEMMA OneHandlerKept ==
    ASSUME Sequential, TypeOK, HandlerOK, OneHandler, [Next]_vars
    PROVE  OneHandler'
<1> USE DEF OneHandler
<1>1. ASSUME NEW r \in Requests, Handling(r),
             \A q \in Requests : q # r => pc'[q] = pc[q] /\ call'[q] = call[q]
      PROVE  OneHandler'
  <2>1. CASE Start(r)
    <3>1. \A q \in InFlight' : q # r => q \in InFlight /\ call'[q] = call[q]
      BY <1>1 DEF InFlight
    <3>2. \A q \in InFlight' : q # r =>
             \/ call'[r].payment # call'[q].payment
             \/ call'[r].op # "verify" /\ call'[q].op # "verify"
      BY <2>1, <3>1, EntersAlone
    <3>3. QED
      BY <3>1, <3>2
  <2>2. CASE call' = call /\ pc[r] \in Running
    BY <1>1, <2>2 DEF InFlight
  <2>3. CASE call' = call /\ pc'[r] \in Finished
    BY <1>1, <2>3 DEF InFlight, Finished, Running, Looking, Placing, Settling, Failing
  <2>4. QED
    BY <1>1, <2>1, <2>2, <2>3, HandlerSteps DEF Running, Looking, Placing, Settling, Failing
<1>2. CASE Crash
  BY <1>2, CheckoutAssumption DEF Crash, Sequential, TypeOK
<1>3. CASE UNCHANGED handler
  BY <1>3 DEF handler, InFlight
<1>4. QED
  BY <1>1, <1>2, <1>3, StepCases

\* What a verify knows about its payment's orders stays true: only it can
\* mark one, and it has looked before it gets this far.
LEMMA KnowsUnpaidKept ==
    ASSUME Sequential, TypeOK, HandlerOK, RowSinceCommit, OneHandler, KnowsUnpaid, [Next]_vars
    PROVE  KnowsUnpaid'
<1> SUFFICES ASSUME NEW r \in Requests, call'[r].op = "verify", pc'[r] \in Unpaid,
                    NEW k, k = call'[r].payment
             PROVE  PaidWith(k)' = {}
  BY DEF KnowsUnpaid, PaidWith
<1>1. CASE pc[r] \in Unpaid /\ pc'[r] = pc[r] /\ call'[r] = call[r]
  <2>1. k = call[r].payment /\ PaidWith(k) = {} /\ k \in Payments
    BY <1>1 DEF KnowsUnpaid, HandlerOK, Unpaid, Placing, Failing
  <2>2. ASSUME NEW q \in Requests, MarkPaid(q), call[q].payment = k
        PROVE  FALSE
    <3>1. q = r
      BY <1>1, <2>2 DEF OneHandler, InFlight, MarkPaid, Unpaid, Running, Looking, Placing, Failing
    <3>2. pc'[q] # "markPaid"
      BY <2>2 DEF MarkPaid, Goto, OnThrow, TypeOK
    <3>3. QED
      BY <1>1, <2>2, <3>1, <3>2 DEF MarkPaid
  <2>3. QED
    BY <1>1, <2>1, <2>2, PaidSteps
<1>2. CASE Handling(r)
  <2>1. /\ call' = call
        /\ \/ pc[r] = "findOrder" /\ FindExistingOrder(r)
           \/ pc[r] \in Unpaid /\ pc'[r] # "clearCart"
    BY <1>2, HandlerSteps DEF Unpaid, Placing, Settling, Failing, Finished, Sequential
  <2>2. k = call[r].payment /\ PaidWith(k) = {} /\ k \in Payments
    <3>1. CASE FindExistingOrder(r)
      BY <2>1, <3>1 DEF FindExistingOrder, Goto, HandlerOK, Unpaid, Placing, Failing, TypeOK
    <3>2. CASE pc[r] \in Unpaid
      BY <2>1, <3>2 DEF KnowsUnpaid, HandlerOK, Unpaid, Placing, Failing
    <3>3. QED
      BY <2>1, <3>1, <3>2
  <2>3. ASSUME NEW q \in Requests, MarkPaid(q), call[q].payment = k
        PROVE  FALSE
    <3>1. r \in InFlight /\ q \in InFlight
      BY <2>1, <2>3 DEF InFlight, MarkPaid, Unpaid, Running, Looking, Placing, Failing
    <3>2. q = r
      BY <2>1, <2>3, <3>1 DEF OneHandler
    <3>3. pc'[r] = "clearCart"
      BY <2>2, <2>3, <3>2 DEF MarkPaid, Goto, TypeOK
    <3>4. QED
      BY <2>3, <3>2, <3>3 DEF Unpaid, Placing, Failing
  <2>4. QED
    BY <2>1, <2>2, <2>3, PaidSteps
<1>3. CASE Crash
  BY <1>3, CheckoutAssumption DEF Crash, Sequential, TypeOK
<1>4. QED
  <2>1. CASE pc'[r] = pc[r] /\ call'[r] = call[r]
    BY <1>1, <2>1
  <2>2. QED
    BY <1>2, <1>3, <2>1, StepCases DEF handler

\* A handler past FindPriorFailure knows that its payment was not refunded.
LEMMA KnowsUnrefundedKept ==
    ASSUME Sequential, TypeOK, HandlerOK, OneHandler, KnowsUnrefunded, RefundOnRecord, [Next]_vars
    PROVE  KnowsUnrefunded'
<1> SUFFICES ASSUME NEW r \in Requests, call'[r].op = "verify", pc'[r] \in Unfailed,
                    NEW k, k = call'[r].payment
             PROVE  k \notin refunded'
  BY DEF KnowsUnrefunded
<1> USE DEF Unfailed, Placing, Settling, Failing
<1>1. CASE pc[r] \in Unfailed /\ call[r] = call'[r]
  <2>1. k \notin refunded
    BY <1>1 DEF KnowsUnrefunded
  <2>2. ASSUME NEW q \in Requests, AttemptRefund(q), call[q].payment = k
        PROVE  FALSE
    <3>1. q = r
      BY <1>1, <2>2 DEF OneHandler, InFlight, AttemptRefund, Running, Looking
    <3>2. pc'[r] \in {"recordRefunded", "recordRefundFailed"}
      BY <2>2, <3>1 DEF AttemptRefund, Goto, TypeOK
    <3>3. QED
      BY <3>2
  <2>3. QED
    BY <2>1, <2>2, LedgerSteps DEF AttemptRefund, RecordCheckoutFailure, razorpay
<1>2. CASE Handling(r) /\ pc[r] \notin Unfailed
  <2>1. call' = call /\ pc[r] = "findFailure" /\ FindPriorFailure(r)
    BY <1>2, HandlerSteps DEF Finished
  <2>2. k = call[r].payment /\ failure[k] = "NONE" /\ UNCHANGED refunded
    BY <2>1 DEF FindPriorFailure, Goto, TypeOK, razorpay
  <2>3. Recorders(k) = {}
    BY <2>1, <2>2 DEF OneHandler, InFlight, Recorders, Running, Looking
  <2>4. QED
    BY <2>2, <2>3 DEF RefundOnRecord
<1>3. CASE Crash
  BY <1>3, CheckoutAssumption DEF Crash, Sequential, TypeOK
<1>4. CASE Handling(r) /\ pc[r] \in Unfailed
  <2>1. call' = call
    BY <1>4, HandlerSteps
  <2>2. QED
    BY <1>1, <1>4, <2>1
<1>5. CASE pc'[r] = pc[r] /\ call'[r] = call[r]
  BY <1>1, <1>5
<1>6. QED
  BY <1>2, <1>3, <1>4, <1>5, StepCases DEF handler

\* A handler that has refunded stays there until it has written the row.
LEMMA RefundOnRecordKept ==
    ASSUME Sequential, TypeOK, HandlerOK, RefundOnRecord, [Next]_vars
    PROVE  RefundOnRecord'
<1> SUFFICES ASSUME NEW k \in refunded'
             PROVE  failure'[k] # "NONE" \/ Recorders(k)' # {}
  BY DEF RefundOnRecord
<1>1. ASSUME NEW r \in Requests, AttemptRefund(r), k \notin refunded
      PROVE  r \in Recorders(k)'
  BY <1>1 DEF AttemptRefund, Goto, Recorders, TypeOK
<1>2. CASE k \in refunded
  <2>1. ASSUME failure[k] # "NONE" PROVE failure'[k] # "NONE"
    BY <2>1, <1>2, LedgerSteps DEF AttemptRefund, RecordCheckoutFailure, store, TypeOK
  <2>2. ASSUME NEW r \in Recorders(k)
        PROVE  r \in Recorders(k)' \/ failure'[k] # "NONE"
    <3>1. CASE pc'[r] = pc[r] /\ call'[r] = call[r]
      BY <2>2, <3>1 DEF Recorders
    <3>2. CASE Handling(r)
      <4>1. RecordCheckoutFailure(r)
        BY <2>2, <3>2 DEF Recorders, Handling, Start, StartVerify, StartCheckout, StartCreate,
           Enter, Advance, FindExistingOrder, FindPriorFailure, LoadPending, LoadCart, CheckItems,
           TxRead, TxCommit, MarkPaid, ClearCart, DropPending, AttemptRefund, StepThrows,
           Looking, Placing, Settling
      <4>2. failure'[k] # "NONE"
        BY <1>2, <2>2, <4>1 DEF RecordCheckoutFailure, Recorders, Sequential, TypeOK
      <4>3. QED
        BY <4>2
    <3>3. CASE Crash
      BY <3>3, CheckoutAssumption DEF Crash, Sequential, TypeOK
    <3>4. QED
      BY <3>1, <3>2, <3>3, <2>2, StepCases DEF handler, Recorders
  <2>3. QED
    BY <1>2, <2>1, <2>2 DEF RefundOnRecord
<1>3. CASE k \notin refunded
  BY <1>1, <1>3, LedgerSteps DEF RecordCheckoutFailure, razorpay
<1>4. QED
  BY <1>2, <1>3

\* An order is marked only for a payment not refunded, and the other way round.
LEMMA RefundOnlyUnplacedKept ==
    ASSUME TypeOK, HandlerOK, RowSinceCommit, KnowsUnpaid, KnowsUnrefunded, RefundOnlyUnplaced,
           [Next]_vars
    PROVE  RefundOnlyUnplaced'
<1> SUFFICES ASSUME NEW k \in refunded'
             PROVE  PaidWith(k)' = {}
  BY DEF RefundOnlyUnplaced
<1>1. CASE k \in refunded
  <2>1. ASSUME NEW r \in Requests, MarkPaid(r), call[r].payment = k
        PROVE  FALSE
    BY <1>1, <2>1 DEF KnowsUnrefunded, MarkPaid, HandlerOK, Unfailed, Placing
  <2>2. QED
    BY <1>1, <2>1, PaidSteps DEF RefundOnlyUnplaced, TypeOK
<1>2. CASE k \notin refunded
  <2>1. PICK r \in Requests : AttemptRefund(r)
    BY <1>2, LedgerSteps DEF RecordCheckoutFailure, razorpay
  <2>2. k = call[r].payment /\ UNCHANGED orders /\ call[r].op = "verify" /\ pc[r] \in Unpaid
    BY <1>2, <2>1 DEF AttemptRefund, store, HandlerOK, Unpaid, Failing
  <2>3. PaidWith(k) = {}
    BY <2>2 DEF KnowsUnpaid
  <2>4. QED
    BY <2>2, <2>3 DEF PaidWith
<1>3. QED
  BY <1>1, <1>2

\* When verify calls of a payment do not overlap, no process dies and the
\* writes around the order succeed, a refunded payment never has an order.
THEOREM SequentialRefunds ==
    ASSUME Sequential
    PROVE  Spec => [](SequentialOK /\ RefundOnlyUnplaced)
<1>1. Init => SequentialOK
  BY DEF Init, SequentialOK, InFlight, Unpaid, Unfailed, Running, Looking, Placing, Settling,
         Failing, RefundOnlyUnplaced
<1>2. TypeOK /\ HandlerOK /\ RowSinceCommit /\ SequentialOK /\ [Next]_vars => SequentialOK'
  <2>1. SequentialOK' <=> /\ OneHandler' /\ KnowsUnpaid' /\ KnowsUnrefunded'
                          /\ RefundOnRecord' /\ RefundOnlyUnplaced'
    BY SequentialParts, PTL
  <2>2. QED
    BY SequentialParts, <2>1, OneHandlerKept, KnowsUnpaidKept, KnowsUnrefundedKept,
       RefundOnRecordKept, RefundOnlyUnplacedKept
<1>3. SequentialOK => RefundOnlyUnplaced
  BY DEF SequentialOK
<1>4. QED
  BY <1>1, <1>2, <1>3, CheckoutTyped, StockAccounted, PTL DEF Spec

-----------------------------------------------------------------------------
\* Only the buyer's payment on Razorpay adds to the captures.
LEMMA CaptureSteps ==
    [Next]_vars => \/ UNCHANGED captured
                   \/ \E k \in Payments : Capture(k)
BY DEF Next, vars, Shopper, AddCartItem, RemoveCartItem, CreateRazorpayOrder, CloseWindow,
       ExpirePending, Start, StartVerify, StartCheckout, StartCreate, Enter, Advance,
       FindExistingOrder, FindPriorFailure, LoadPending, LoadCart, CheckItems, TxRead, TxCommit,
       MarkPaid, ClearCart, DropPending, AttemptRefund, RecordCheckoutFailure, StepThrows, Crash,
       store, razorpay, handler

\* Checkout implements Settlement under the same conditions: each captured
\* payment is settled by one order or by one refund and never changes sides.
THEOREM CheckoutSettlesOnce ==
    ASSUME Sequential
    PROVE  Spec => SettledOnce
<1> DEFINE Inv == /\ TypeOK /\ HandlerOK /\ RowSinceCommit
                  /\ SessionOK /\ SequentialOK
           next == [Money!Next]_<<captured, settledBar>>
<1>1. Init => Money!Init
  BY DEF Init, Money!Init, settledBar, PaidWith, NoOrder
<1>2. Inv /\ [Next]_vars => next
  <2> SUFFICES ASSUME Inv, [Next]_vars PROVE next
    OBVIOUS
  <2> USE DEF Money!Next, Money!Capture, Money!Settle
  <2>1. ASSUME NEW k \in Payments, Capture(k)
        PROVE  next
    <3>1. UNCHANGED settledBar
      BY <2>1 DEF Capture, settledBar, PaidWith, store
    <3>2. k \notin captured /\ captured' = captured \cup {k}
      BY <2>1 DEF Capture
    <3>3. QED
      BY <3>1, <3>2
  <2>2. ASSUME NEW r \in Requests, MarkPaid(r), ~ UNCHANGED orders
        PROVE  next
    <3>0. PICK k : k = call[r].payment
      OBVIOUS
    <3>1. k \in captured /\ k \in Payments /\ k \notin refunded /\ PaidWith(k) = {}
      BY <2>2, <3>0 DEF MarkPaid, SessionOK, HandlerOK, SequentialOK, Unpaid, Unfailed, Placing
    <3>2. UNCHANGED <<captured, refunded>>
      BY <2>2 DEF MarkPaid, razorpay
    <3>3. PaidWith(k)' # {} /\ \A j \in Payments \ {k} : PaidWith(j)' = PaidWith(j)
      <4>1. orders' = [orders EXCEPT ![r] = PaidRow(orders[r], k)]
        BY <2>2, <3>0, <3>1 DEF MarkPaid
      <4>2. r \in PaidWith(k)'
        BY <4>1 DEF PaidWith, PaidRow, TypeOK
      <4>3. \A j \in Payments \ {k} : PaidWith(j)' = PaidWith(j)
        BY <2>2, PaidSteps, <4>1 DEF PaidWith, PaidRow, TypeOK, MarkPaid, RowSinceCommit
      <4>4. QED
        BY <4>2, <4>3
    <3>4. settledBar[k] = "open" /\ settledBar' = [settledBar EXCEPT ![k] = "placed"]
      BY <3>1, <3>2, <3>3 DEF settledBar
    <3>5. QED
      BY <3>1, <3>2, <3>4
  <2>3. ASSUME NEW r \in Requests, AttemptRefund(r), ~ UNCHANGED refunded
        PROVE  next
    <3>0. PICK k : k = call[r].payment
      OBVIOUS
    <3>1. k \in captured /\ k \in Payments /\ k \notin refunded /\ PaidWith(k) = {}
      BY <2>3, <3>0 DEF AttemptRefund, SessionOK, HandlerOK, SequentialOK, Unpaid, Failing
    <3>2. UNCHANGED <<captured, orders>> /\ refunded' = refunded \cup {k}
      BY <2>3, <3>0, <3>1 DEF AttemptRefund, store
    <3>3. \A j \in Payments : PaidWith(j)' = PaidWith(j)
      BY <3>2 DEF PaidWith
    <3>4. settledBar[k] = "open" /\ settledBar' = [settledBar EXCEPT ![k] = "returned"]
      BY <3>1, <3>2, <3>3 DEF settledBar
    <3>5. QED
      BY <3>1, <3>2, <3>4
  <2>4. CASE UNCHANGED <<captured, refunded>> /\ \A j \in Payments : PaidWith(j)' = PaidWith(j)
    BY <2>4 DEF settledBar
  <2>5. CASE \A r \in Requests : ~ MarkPaid(r) \/ UNCHANGED orders
    <3>1. \A j \in Payments : PaidWith(j)' = PaidWith(j)
      <4>1. ASSUME NEW j \in Payments
            PROVE  PaidWith(j)' = PaidWith(j)
        <5>1. CASE UNCHANGED orders
          BY <5>1 DEF PaidWith
        <5>2. QED
          BY <2>5, <5>1, PaidSteps
      <4>2. QED
        BY <4>1
    <3>2. QED
      BY <2>1, <2>3, <2>4, <3>1, CaptureSteps, LedgerSteps
         DEF RecordCheckoutFailure, razorpay
  <2>6. QED
    BY <2>2, <2>5
<1>3. QED
  BY <1>1, <1>2, CheckoutTyped, StockAccounted, PaidOrdersArePayers, SequentialRefunds, PTL
     DEF Spec, SettledOnce, Money!Spec

-----------------------------------------------------------------------------
\* How a verify ends, and what the step that ends it has seen.
LEMMA VerifyEnds ==
    ASSUME TypeOK, HandlerOK, NEW r \in Requests, Handling(r), pc[r] # "idle",
           call[r].op = "verify"
    PROVE  \/ pc'[r] \notin Finished
           \/ pc'[r] = "returned" /\ FindExistingOrder(r)
           \/ pc'[r] = "rejected" /\ pc[r] \in Looking
           \/ pc'[r] = "placed" /\ pc[r] = "dropPending"
           \/ pc'[r] = "refused" /\ RecordCheckoutFailure(r)
<1> USE DEF TypeOK, Goto, Finished, OnThrow, AfterCommit, Looking, Placing, Settling
<1>1. CASE Start(r)
  BY <1>1 DEF Start, StartVerify, StartCheckout, StartCreate, Enter
<1>2. CASE Advance(r)
  BY <1>2 DEF Advance, FindExistingOrder, FindPriorFailure, LoadPending, LoadCart, CheckItems,
              TxRead, TxCommit, MarkPaid, ClearCart, DropPending, AttemptRefund,
              RecordCheckoutFailure
<1>3. CASE StepThrows(r)
  BY <1>3 DEF StepThrows
<1>4. QED
  BY <1>1, <1>2, <1>3 DEF Handling

\* What a verify that has settled, failed or ended leaves behind it.
Settled(r) ==
    call[r].op = "verify" =>
        /\ pc[r] \in Settling \cup {"placed"} => r \in PaidWith(call[r].payment)
        /\ pc[r] = "returned" => PaidWith(call[r].payment) # {}
        /\ pc[r] = "recordRefunded" => call[r].payment \in refunded
        /\ pc[r] = "refused" => failure[call[r].payment] # "NONE" \/ "audit" \in Faults
        /\ pc[r] \in {"returned", "rejected"} => orders[r].status = "NONE"
        /\ pc[r] # "done"

TracesKept == (\A r \in Requests : Settled(r)) /\ RefundRecordTruthful

\* Orders stay paid, refunds given and failures recorded.
LEMMA LedgersGrow ==
    ASSUME TypeOK, HandlerOK, RowSinceCommit, [Next]_vars, NEW k \in Payments
    PROVE  /\ PaidWith(k) \subseteq PaidWith(k)'
           /\ refunded \subseteq refunded'
           /\ failure[k] # "NONE" => failure'[k] = failure[k]
<1>1. PaidWith(k) \subseteq PaidWith(k)'
  BY PaidSteps
<1>2. refunded \subseteq refunded'
  BY LedgerSteps DEF AttemptRefund, RecordCheckoutFailure, razorpay
<1>3. failure[k] # "NONE" => failure'[k] = failure[k]
  BY LedgerSteps DEF AttemptRefund, RecordCheckoutFailure, store, TypeOK
<1>4. QED
  BY <1>1, <1>2, <1>3

\* A handler that does not move keeps what it left behind.
LEMMA SettledStays ==
    ASSUME TypeOK, HandlerOK, RowSinceCommit, [Next]_vars, NEW r \in Requests,
           Settled(r), call'[r] = call[r], pc'[r] = pc[r] \/ pc'[r] = "crashed"
    PROVE  Settled(r)'
<1> SUFFICES ASSUME call[r].op = "verify", pc'[r] = pc[r], pc[r] # "idle"
             PROVE  Settled(r)'
  BY DEF Settled, Settling
<1>1. call[r].payment \in Payments
  BY DEF HandlerOK
<1>2. pc[r] \in {"returned", "rejected"} => orders'[r] = orders[r]
  BY RowSteps
<1>3. QED
  BY <1>1, <1>2, LedgersGrow DEF Settled

\* The step of a verify leaves behind it what it should.
LEMMA SettledMoves ==
    ASSUME TypeOK, HandlerOK, RowSinceCommit, [Next]_vars, NEW r \in Requests,
           Settled(r), Handling(r)
    PROVE  Settled(r)'
<1> SUFFICES ASSUME call'[r].op = "verify"
             PROVE  Settled(r)'
  BY DEF Settled
<1>1. CASE pc[r] = "idle"
  <2>1. pc'[r] = "findOrder"
    BY <1>1, HandlerSteps
  <2>2. QED
    BY <2>1 DEF Settled, Settling
<1>2. CASE pc[r] # "idle"
  <2> DEFINE k == call[r].payment
  <2>1. call' = call /\ k \in Payments
    BY <1>2, HandlerSteps DEF HandlerOK
  <2>2. pc'[r] \in Settling \cup {"placed"} => r \in PaidWith(k)'
    <3>1. CASE pc'[r] \in Settling
      <4>1. (pc[r] = "markPaid" /\ MarkPaid(r) /\ pc'[r] = "clearCart") \/ pc[r] = "clearCart"
        BY <1>2, <2>1, <3>1, HandlerSteps DEF Settling, Placing, Finished
      <4>2. ASSUME MarkPaid(r), pc'[r] = "clearCart"
            PROVE  r \in PaidWith(k)'
        BY <4>2, <2>1 DEF MarkPaid, Goto, OnThrow, PaidWith, PaidRow, TypeOK
      <4>3. QED
        BY <4>1, <4>2, <2>1, LedgersGrow DEF Settled, Settling
    <3>2. CASE pc'[r] = "placed"
      <4>1. pc[r] = "dropPending"
        BY <1>2, <2>1, <3>2, VerifyEnds DEF Finished
      <4>2. QED
        BY <4>1, <2>1, LedgersGrow DEF Settled, Settling
    <3>3. QED
      BY <3>1, <3>2
  <2>3. pc'[r] = "returned" => PaidWith(k)' # {} /\ orders'[r].status = "NONE"
    <3>1. SUFFICES ASSUME FindExistingOrder(r), pc'[r] = "returned"
                   PROVE  PaidWith(k)' # {} /\ orders'[r].status = "NONE"
      BY <1>2, <2>1, VerifyEnds DEF Finished
    <3>2. PaidWith(k) # {} /\ orders[r].status = "NONE" /\ UNCHANGED orders
      BY <3>1 DEF FindExistingOrder, Goto, store, TypeOK, RowSinceCommit, BeforeCommit, Looking
    <3>3. QED
      BY <3>2, <2>1, LedgersGrow
  <2>4. pc'[r] = "recordRefunded" => k \in refunded'
    <3>1. SUFFICES ASSUME pc'[r] = "recordRefunded"
                   PROVE  k \in refunded'
      OBVIOUS
    <3>2. AttemptRefund(r)
      BY <3>1 DEF Handling, Start, StartVerify, StartCheckout, StartCreate, Enter, Advance, Goto,
         FindExistingOrder, FindPriorFailure, LoadPending, LoadCart, CheckItems, TxRead, TxCommit,
         MarkPaid, ClearCart, DropPending, RecordCheckoutFailure, StepThrows, OnThrow,
         AfterCommit, TypeOK
    <3>3. QED
      BY <3>1, <3>2 DEF AttemptRefund, Goto, TypeOK
  <2>5. pc'[r] = "refused" => failure'[k] # "NONE" \/ "audit" \in Faults
    <3>1. SUFFICES ASSUME RecordCheckoutFailure(r)
                   PROVE  failure'[k] # "NONE" \/ "audit" \in Faults
      BY <1>2, <2>1, VerifyEnds DEF Finished
    <3>2. QED
      BY <2>1, <3>1 DEF RecordCheckoutFailure, TypeOK
  <2>6. pc'[r] = "rejected" => orders'[r].status = "NONE"
    <3>1. SUFFICES ASSUME pc[r] \in Looking
                   PROVE  orders'[r].status = "NONE"
      BY <1>2, <2>1, VerifyEnds DEF Finished
    <3>2. QED
      BY <3>1, RowSteps DEF RowSinceCommit, BeforeCommit, Looking
  <2>7. pc'[r] # "done"
    BY <1>2, <2>1, VerifyEnds DEF Finished
  <2>8. QED
    BY <2>1, <2>2, <2>3, <2>4, <2>5, <2>6, <2>7 DEF Settled
<1>3. QED
  BY <1>1, <1>2

\* Success is answered only for a PAID order and REFUNDED recorded only for a refund,
\* whatever throws or crashes; what a verify left unpaid has a failure row.
LEMMA TracesInvariant == Spec => []TracesKept
<1> DEFINE Inv == TypeOK /\ HandlerOK /\ RowSinceCommit /\ TracesKept
<1>1. Init => TracesKept
  BY DEF Init, TracesKept, Settled, Settling, RefundRecordTruthful
<1>2. Inv /\ [Next]_vars => TracesKept'
  <2> SUFFICES ASSUME Inv, [Next]_vars PROVE TracesKept'
    OBVIOUS
  <2>1. ASSUME NEW r \in Requests PROVE Settled(r)'
    <3>1. Settled(r)
      BY DEF TracesKept
    <3>2. CASE Handling(r)
      BY <3>1, <3>2, SettledMoves
    <3>3. CASE pc'[r] = pc[r] /\ call'[r] = call[r]
      BY <3>1, <3>3, SettledStays
    <3>4. CASE Crash
      <4>1. call'[r] = call[r] /\ (pc'[r] = pc[r] \/ pc'[r] = "crashed")
        BY <3>4 DEF Crash, TypeOK
      <4>2. QED
        BY <3>1, <4>1, SettledStays
    <3>5. QED
      BY <3>2, <3>3, <3>4, StepCases DEF handler
  <2>2. ASSUME NEW k \in Payments, failure'[k] = "REFUNDED" PROVE k \in refunded'
    <3>1. CASE failure[k] = "REFUNDED"
      BY <3>1, LedgersGrow DEF TracesKept, RefundRecordTruthful
    <3>2. CASE failure[k] # "REFUNDED"
      <4>1. PICK r \in Requests : RecordCheckoutFailure(r)
        BY <2>2, <3>2, LedgerSteps DEF AttemptRefund, store
      <4>2. pc[r] = "recordRefunded" /\ k = call[r].payment
        BY <2>2, <3>2, <4>1 DEF RecordCheckoutFailure, TypeOK
      <4>3. k \in refunded
        BY <4>2 DEF TracesKept, Settled, HandlerOK, Failing
      <4>4. QED
        BY <4>3, LedgersGrow
    <3>3. QED
      BY <3>1, <3>2
  <2>3. QED
    BY <2>1, <2>2 DEF TracesKept, RefundRecordTruthful
<1>3. QED
  BY <1>1, <1>2, CheckoutTyped, StockAccounted, PTL DEF Spec

\* Success is answered only for a PAID order, and a failure row says REFUNDED only of a
\* payment that was, whatever throws or crashes and whoever else verifies the payment.
THEOREM AnswersAreTruthful == Spec => [](PlacedIsPaid /\ RefundRecordTruthful)
<1>1. TypeOK /\ HandlerOK /\ TracesKept => PlacedIsPaid /\ RefundRecordTruthful
  BY DEF TracesKept, Settled, PlacedIsPaid, HandlerOK
<1>2. QED
  BY <1>1, CheckoutTyped, TracesInvariant, PTL

\* And when the row of a failure can be written, no verify that ends leaves an unpaid
\* order without one.
THEOREM PlacementsAreTraceable ==
    ASSUME "audit" \notin Faults
    PROVE  Spec => []PlacementTraceable
<1>1. TypeOK /\ HandlerOK /\ TracesKept => AbandonedOrderTraceable
  <2> SUFFICES ASSUME TypeOK, HandlerOK, TracesKept, NEW r \in Requests,
                      orders[r].status = "PENDING", call[r].op = "verify", pc[r] \in Finished
               PROVE  pc[r] = "crashed" \/ failure[call[r].payment] # "NONE"
    BY DEF AbandonedOrderTraceable
  <2>1. pc[r] # "placed" /\ pc[r] # "returned" /\ pc[r] # "rejected" /\ pc[r] # "done"
    BY DEF TracesKept, Settled, PaidWith
  <2>2. QED
    BY <2>1 DEF Finished, TracesKept, Settled
<1>2. QED
  BY <1>1, CheckoutTyped, TracesInvariant, AnswersAreTruthful, PTL DEF PlacementTraceable
=============================================================================
