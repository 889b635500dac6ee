------------------------------ MODULE Invoices ------------------------------
(***************************************************************************)
(* Tax invoices (InvoicesService): a buyer downloads the invoice of a      *)
(* delivered order or replacement, which is numbered at its first          *)
(* download and has a page for each seller.                                *)
(*                                                                         *)
(* A document is an order or a replacement.  What was bought is fixed;     *)
(* delivery, a return and the seller's own details go on while a download  *)
(* runs.  Of a document only what must add up is kept: its number, its     *)
(* amounts and its tax, in paise.                                          *)
(***************************************************************************)
EXTENDS Integers, Sequences, FiniteSets, Functions, Pricing

CONSTANTS
    Documents, Sellers,
    Slots,          \* downloads that can be open at one time
    Prefix,         \* the first eight digits of the id of each document
    StateOf,        \* the state code in the GSTIN of each seller, 0 without one
    Baskets,        \* what a document may be for
    Profiles,       \* the addresses each seller may have saved
    LastDay         \* bound on the calendar

Lines == [seller : Sellers, amount : Nat, gst : Nat]

InvoicesAssumption ==
    /\ Baskets \subseteq [kind : {"order", "replacement"}, lines : Seq(Lines), fee : Nat, pin : Nat]
    /\ Profiles \in [Sellers -> SUBSET SUBSET {"business", "pickup"}]
    /\ LastDay \in Nat

VARIABLES
    serial,         \* deliveries of a document never overlap, fixed at the start
    today,
    basket,         \* the kind, lines, delivery fee and address of each document
    row,            \* its status, deliveredAt and invoiceNumber
    seller,         \* the addresses a seller has, "business" and "pickup"
    printed,        \* the documents buyers have downloaded
    pc, job

slot == <<pc, job>>
vars == <<serial, today, basket, row, seller, printed, slot>>

Statuses == {"open", "DELIVERED", "closed"}
NoDay == -1
Profile == {f \in [Sellers -> UNION {Profiles[s] : s \in Sellers}] : \A s \in Sellers : f[s] \in Profiles[s]}
Days == 0 .. LastDay
NoNumber == <<>>
Free == [op |-> "none"]
Numbers == {<<p, d>> : p \in {Prefix[x] : x \in Documents}, d \in Days}
Job == [doc : Documents, number : Numbers \cup {NoNumber}, on : Days, stored : SUBSET Sellers]

IsReplacement(d) == basket[d].kind = "replacement"
SellersOf(b) == {b.lines[i].seller : i \in DOMAIN b.lines}
LinesOf(b, s) == {i \in DOMAIN b.lines : b.lines[i].seller = s}
Amount(b, lines) == SumFunction([i \in lines |-> b.lines[i].amount])
Subtotal(b) == Amount(b, DOMAIN b.lines)

\* The buyer's state is guessed from the first digit of the PIN.
Intra(b, s) == StateOf[s] # 0 /\ b.pin \in DOMAIN StateOfPin /\ StateOfPin[b.pin] = StateOf[s]

\* buildOrderPage and buildReplacementPage: a split for each line, and one for the share
\* of the delivery fee.
Page(b, s) ==
    LET lines == LinesOf(b, s)
        share == DeliveryShare(b.fee, Amount(b, lines), Subtotal(b), Cardinality(SellersOf(b)))
        split == [i \in lines |-> SplitGst(b.lines[i].amount, b.lines[i].gst, Intra(b, s))]
        carriage == SplitGst(share, ShippingGst, Intra(b, s))
    IN  [total |-> Amount(b, lines) + share,
         net |-> SumFunction([i \in lines |-> split[i].net]) + carriage.net,
         tax |-> SumFunction([i \in lines |-> TaxOf(split[i])]) + TaxOf(carriage)]

Pages(b) == [s \in SellersOf(b) |-> Page(b, s)]

Init ==
    /\ serial \in BOOLEAN
    /\ today = 0
    /\ basket \in [Documents -> Baskets]
    /\ row = [d \in Documents |-> [status |-> "open", on |-> NoDay, number |-> NoNumber]]
    /\ seller \in Profile
    /\ printed = [d \in Documents |-> {}]
    /\ pc = [r \in Slots |-> "idle"]
    /\ job = [r \in Slots |-> Free]

Goto(r, step) == pc' = [pc EXCEPT ![r] = step] /\ UNCHANGED job
Keep(r, step, j) == pc' = [pc EXCEPT ![r] = step] /\ job' = [job EXCEPT ![r] = j]
Close(r) == Keep(r, "idle", Free)

Tick == today < LastDay /\ today' = today + 1
        /\ UNCHANGED <<serial, basket, row, seller, printed, slot>>

\* Of two overlapping deliveries the second writes deliveredAt again.
Deliver(d) ==
    /\ row[d].status = "open" \/ (row[d].status = "DELIVERED" /\ ~serial)
    /\ row' = [row EXCEPT ![d].status = "DELIVERED", ![d].on = today]
    /\ UNCHANGED <<serial, today, basket, seller, printed, slot>>

Return(d) ==
    /\ row[d].status = "DELIVERED"
    /\ row' = [row EXCEPT ![d].status = "closed"]
    /\ UNCHANGED <<serial, today, basket, seller, printed, slot>>

\* The seller empties or fills in the profile, the buyer's app drops the pickup address.
EditSeller(s, has) ==
    /\ seller' = [seller EXCEPT ![s] = has]
    /\ UNCHANGED <<serial, today, basket, row, printed, slot>>

\* The row is read with the sellers' profiles; the pickup addresses are read later.  A
\* replacement is numbered once its seller is known to be ready, an order before.
ReadRow(r, d) ==
    /\ pc[r] = "idle"
    /\ LET step == IF row[d].number # NoNumber \/ IsReplacement(d) THEN "sellers" ELSE "number"
       IN  Keep(r, step, [doc |-> d, number |-> row[d].number, on |-> row[d].on,
                          stored |-> {s \in Sellers : "business" \in seller[s]}])
    /\ UNCHANGED <<serial, today, basket, row, seller, printed>>

Download(r, d) == row[d].status = "DELIVERED" /\ ReadRow(r, d)

NumberOf(d, day) == <<Prefix[d], day>>
Taken(d, number) ==
    \E x \in Documents \ {d} : row[x].number = number /\ IsReplacement(x) = IsReplacement(d)

Issue(r, number) ==
    LET d == job[r].doc IN
    printed' = [printed EXCEPT ![d] = @ \cup {[number |-> number, pages |-> Pages(basket[d])]}]

\* resolveSellerAddress and assertSellerInvoiceReady, for every seller of the order.
ResolveSellers(r) ==
    /\ pc[r] = "sellers"
    /\ LET d == job[r].doc
           ready == \A s \in SellersOf(basket[d]) : s \in job[r].stored \/ "pickup" \in seller[s]
       IN  IF ~ready THEN Close(r) /\ UNCHANGED printed
           ELSE IF job[r].number = NoNumber THEN Goto(r, "number") /\ UNCHANGED printed
           ELSE Issue(r, job[r].number) /\ Close(r)
    /\ UNCHANGED <<serial, today, basket, row, seller>>

\* Mutation: the number carries the day of the download.
AssignNumber_Today(r) ==
    /\ pc[r] = "number"
    /\ LET d == job[r].doc  number == NumberOf(d, today) IN
       /\ row' = [row EXCEPT ![d].number = number]
       /\ IF IsReplacement(d)
          THEN Issue(r, number) /\ Close(r)
          ELSE Keep(r, "sellers", [job[r] EXCEPT !.number = number]) /\ UNCHANGED printed
    /\ UNCHANGED <<serial, today, basket, seller>>

\* invoiceNumber is unique: the update throws when another document has the number.
AssignNumber(r) ==
    /\ pc[r] = "number"
    /\ LET d == job[r].doc  number == NumberOf(d, job[r].on) IN
       IF Taken(d, number) THEN Close(r) /\ UNCHANGED <<row, printed>>
       ELSE /\ row' = [row EXCEPT ![d].number = number]
            /\ IF IsReplacement(d)
               THEN Issue(r, number) /\ Close(r)
               ELSE Keep(r, "sellers", [job[r] EXCEPT !.number = number]) /\ UNCHANGED printed
    /\ UNCHANGED <<serial, today, basket, seller>>

Fail(r) ==
    /\ pc[r] # "idle"
    /\ Close(r)
    /\ UNCHANGED <<serial, today, basket, row, seller, printed>>

Next ==
    \/ Tick
    \/ \E d \in Documents : Deliver(d) \/ Return(d)
    \/ \E s \in Sellers : \E has \in Profiles[s] : EditSeller(s, has)
    \/ \E r \in Slots, d \in Documents : Download(r, d)
    \/ \E r \in Slots : ResolveSellers(r) \/ AssignNumber(r) \/ Fail(r)

Spec == Init /\ [][Next]_vars

-----------------------------------------------------------------------------
\* The rows, the locals and the printed documents keep to their domains.
TypeOK ==
    /\ serial \in BOOLEAN /\ today \in Days
    /\ basket \in [Documents -> Baskets]
    /\ row \in [Documents -> [status : Statuses, on : Days \cup {NoDay},
                              number : Numbers \cup {NoNumber}]]
    /\ seller \in Profile
    /\ DOMAIN printed = Documents
    /\ \A d \in Documents : \A p \in printed[d] : p.number \in Numbers
    /\ pc \in [Slots -> {"idle", "number", "sellers"}]
    /\ DOMAIN job = Slots
    /\ \A r \in Slots : IF pc[r] = "idle" THEN job[r] = Free ELSE job[r] \in Job

Total(b) == Subtotal(b) + b.fee

\* What a buyer downloads adds up: each page is its net and its tax to the paisa, and the
\* pages come to what the order cost, exactly for one seller and to half a paisa for each of
\* several, unless all lines together are less than a rupee (invoices.service.ts:100-125).
PagesCoverOrder ==
    \A d \in Documents : \A p \in printed[d] :
        LET n == Cardinality(DOMAIN p.pages)
            off == SumFunction([s \in DOMAIN p.pages |-> p.pages[s].total]) - Total(basket[d])
        IN  /\ \A s \in DOMAIN p.pages : p.pages[s].net + p.pages[s].tax = p.pages[s].total
            /\ Subtotal(basket[d]) >= 100 => 2 * off <= n /\ -2 * off <= n
            /\ n = 1 => off = 0

\* Every download of a document carries the number its row keeps, whatever downloads
\* overlap, fail after it was assigned, or come on a later day, unless overlapping
\* deliveries move the day it is made of (invoices.service.ts:91-93).
OneNumber ==
    serial => \A d \in Documents : \A p \in printed[d] : p.number = row[d].number

\* No two orders, and no two replacements, are ever invoiced under one number, although
\* it only holds the first digits of an id: the second of a day is never invoiced
\* (invoices.service.ts:474).
NumberNamesOneOrder ==
    serial => \A d, x \in Documents : \A p \in printed[d], q \in printed[x] :
        p.number = q.number => d = x \/ IsReplacement(d) # IsReplacement(x)

-----------------------------------------------------------------------------
(***************************************************************************)
(* Why these hold at every step.                                           *)
(***************************************************************************)
\* A delivered document has its day, and what is printed is what was bought.
DeliveredOn == \A d \in Documents : row[d].status # "open" => row[d].on \in Days
PagesAreBaskets == \A d \in Documents : \A p \in printed[d] : p.pages = Pages(basket[d])

\* The unique column.
NumbersDiffer ==
    \A d, x \in Documents :
        row[d].number = row[x].number /\ row[d].number # NoNumber =>
            d = x \/ IsReplacement(d) # IsReplacement(x)

\* When deliveries do not overlap the day of a document stays: every handler has it, and a
\* number is of that day.
DayStays ==
    serial =>
        /\ \A d \in Documents : row[d].number # NoNumber =>
              row[d].status # "open" /\ row[d].number = NumberOf(d, row[d].on)
        /\ \A r \in Slots : pc[r] # "idle" =>
              LET d == job[r].doc IN
              /\ row[d].status # "open" /\ job[r].on = row[d].on
              /\ job[r].number # NoNumber => row[d].number = job[r].number

InvoicesInv ==
    /\ TypeOK /\ OneNumber
    /\ DeliveredOn /\ PagesAreBaskets /\ NumbersDiffer /\ DayStays
=============================================================================
