---------------------------- MODULE Replacements ----------------------------
(***************************************************************************)
(* Replacement requests of delivered orders: ReplacementsService, and the  *)
(* two endpoints of PaymentsService that take the balance of an upgrade.   *)
(* A handler reads the row, checks its status, awaits Razorpay, Delhivery  *)
(* or the file system, and updates the row by id whatever it has become.   *)
(*                                                                         *)
(* A handler that is done leaves its slot; a crash is every open handler   *)
(* failing.  An order has one line; the buyer and the seller are those the *)
(* ownership checks let through.  Notes, photos and mails are left out.    *)
(***************************************************************************)
EXTENDS Integers, Sequences

CONSTANTS
    Orders,         \* delivered orders
    Requests,       \* ids for rows of ReplacementRequest
    NoRequest,
    Sessions,       \* Razorpay orders for balances
    NoSession,
    Slots,          \* requests that can be open at one time
    LinePrice,      \* what the buyer paid for the line
    Prices,         \* selling prices a replacement variant may have
    MinBalance,     \* the least amount Razorpay takes
    MaxShipments    \* bound on the shipments of one request

ASSUME ReplacementAssumption ==
    /\ NoRequest \notin Requests
    /\ NoSession \notin Sessions
    /\ LinePrice \in Nat
    /\ Prices \subseteq Nat
    /\ MinBalance \in Nat \ {0}
    /\ MaxShipments \in Nat \ {0}

VARIABLES
    serial,         \* orders whose handlers never overlap, fixed at the start
    open,           \* orders delivered less than SUBMIT_DAYS ago
    row,            \* the ReplacementRequest rows, NoRow before they exist
    owner,          \* notes.replacementId of each Razorpay order
    key,            \* payments:replacement:pending:{session} exists
    offered,        \* the buyer's app has been given this session
    captured,       \* Razorpay has the buyer's payment
    shipments,      \* Delhivery shipments created for the request
    arrived,        \* Delhivery reports the parcel delivered
    pc, job         \* what each slot waits for, and its locals

payments == <<owner, key, offered, captured>>
carrier == <<shipments, arrived>>
slot == <<pc, job>>
vars == <<serial, open, row, owner, key, offered, captured, shipments, arrived, pc, job>>

Status == {"PENDING_ADMIN_REVIEW", "AWAITING_PAYMENT", "APPROVED", "REJECTED",
           "PACKED", "SHIPPED", "DELIVERED"}
BalanceStatus == {"NONE", "PENDING", "PAID"}
NoRow == [status |-> "NONE"]
Row == [status : Status, order : Orders, due : Nat, balance : BalanceStatus,
        session : Sessions \cup {NoSession}, video : BOOLEAN, tracked : BOOLEAN]
Exists(i) == row[i] # NoRow

Handlers == {"create", "decide", "pay", "verify", "pack", "request", "poll", "deliver"}
Steps == {"insert", "write", "createSession", "storeSession", "storeKey", "dropKey",
          "createShipment", "track"}
Free == [op |-> "none"]
Job == [op : Handlers, order : Orders, req : Requests \cup {NoRequest},
        session : Sessions \cup {NoSession}, due : Nat, yes : BOOLEAN]

Init ==
    /\ serial \in SUBSET Orders
    /\ open = Orders
    /\ row = [i \in Requests |-> NoRow]
    /\ owner = [s \in Sessions |-> NoRequest]
    /\ key = {} /\ offered = {} /\ captured = {}
    /\ shipments = [i \in Requests |-> 0]
    /\ arrived = {}
    /\ pc = [r \in Slots |-> "idle"]
    /\ job = [r \in Slots |-> Free]

\* The slots of an order that is serial are taken one at a time.
MayOpen(o) == o \in serial => \A q \in Slots : pc[q] # "idle" => job[q].order # o

Begin(r, at, locals) ==
    /\ pc[r] = "idle"
    /\ MayOpen(locals.order)
    /\ pc' = [pc EXCEPT ![r] = at]
    /\ job' = [job EXCEPT ![r] = locals]

\* A handler of request i that goes on to step at; s is the session it is about.
Read(r, i, op, from, s, at) ==
    /\ Exists(i) /\ row[i].status \in from
    /\ Begin(r, at, [op |-> op, order |-> row[i].order, req |-> i, session |-> s,
                     due |-> 0, yes |-> FALSE])
    /\ UNCHANGED <<serial, open, row>> /\ UNCHANGED payments /\ UNCHANGED carrier

Goto(r, at) == pc' = [pc EXCEPT ![r] = at] /\ UNCHANGED job

Close(r) ==
    /\ pc' = [pc EXCEPT ![r] = "idle"]
    /\ job' = [job EXCEPT ![r] = Free]

At(r, op, step) == pc[r] = step /\ job[r].op = op
Of(r) == job[r].req

\* What every write to a row leaves alone.
OnlyRow == UNCHANGED <<serial, open>> /\ UNCHANGED payments /\ UNCHANGED carrier
OnlySlot == UNCHANGED row /\ OnlyRow

(***************************************************************************)
(* Filing a request.                                                       *)
(***************************************************************************)
\* Mutation: a cheaper variant leaves a negative balance.
BalanceDue_NoFloor(p) == p - LinePrice

\* computePricing: what a variant of price p costs on top of the line.
BalanceDue(p) == IF p > LinePrice THEN p - LinePrice ELSE 0

\* resolveApprovalStatus.
Approval(due) ==
    IF due > 0 THEN [status |-> "AWAITING_PAYMENT", balance |-> "PENDING"]
    ELSE [status |-> "APPROVED", balance |-> "NONE"]

\* Mutation: a replacement that has been completed no longer blocks another one.
CreateForOrder_AfterDelivery(r, o, p, auto) ==
    /\ o \in open
    /\ \A i \in Requests : Exists(i) /\ row[i].order = o => row[i].status \in {"REJECTED", "DELIVERED"}
    /\ Begin(r, "insert", [op |-> "create", order |-> o, req |-> NoRequest,
                           session |-> NoSession, due |-> BalanceDue(p), yes |-> auto])
    /\ OnlySlot

\* The look-ups of createForOrder.
MayCreate(o) ==
    o \in open /\ \A i \in Requests : Exists(i) /\ row[i].order = o => row[i].status = "REJECTED"

\* auto is whether the buyer's score is at least AUTO_APPROVE_MIN_SCORE.
CreateForOrder(r, o, p, auto) ==
    /\ MayCreate(o)
    /\ Begin(r, "insert", [op |-> "create", order |-> o, req |-> NoRequest,
                           session |-> NoSession, due |-> BalanceDue(p), yes |-> auto])
    /\ OnlySlot

InsertRequest(r) ==
    /\ At(r, "create", "insert")
    /\ LET due == job[r].due
           verdict == IF job[r].yes THEN Approval(due)
                      ELSE [status |-> "PENDING_ADMIN_REVIEW", balance |-> "NONE"]
       IN  \E i \in Requests :
              /\ ~Exists(i)
              /\ row' = [row EXCEPT ![i] =
                    [status |-> verdict.status, order |-> job[r].order, due |-> due,
                     balance |-> verdict.balance, session |-> NoSession,
                     video |-> FALSE, tracked |-> FALSE]]
    /\ Close(r)
    /\ OnlyRow

\* Mutation: a request that was rejected can be decided again.
DecideRequest_Again(r, i) ==
    Read(r, i, "decide", {"PENDING_ADMIN_REVIEW", "REJECTED"}, NoSession, "write")

DecideRequest(r, i) == Read(r, i, "decide", {"PENDING_ADMIN_REVIEW"}, NoSession, "write")

\* Mutation: an approval goes straight to the seller.
WriteDecision_NoBalance(r) ==
    /\ At(r, "decide", "write")
    /\ \/ row' = [row EXCEPT ![Of(r)].status = "REJECTED"]
       \/ row' = [row EXCEPT ![Of(r)].status = "APPROVED", ![Of(r)].balance = "NONE"]
    /\ Close(r)
    /\ OnlyRow

WriteDecision(r) ==
    /\ At(r, "decide", "write")
    /\ LET approval == Approval(row[Of(r)].due)
       IN  \/ row' = [row EXCEPT ![Of(r)].status = "REJECTED"]
           \/ row' = [row EXCEPT ![Of(r)].status = approval.status,
                                 ![Of(r)].balance = approval.balance]
    /\ Close(r)
    /\ OnlyRow

(***************************************************************************)
(* The balance of an upgrade.                                              *)
(***************************************************************************)
BalanceOpen(q) == q.status = "AWAITING_PAYMENT" /\ q.due > 0 /\ q.balance # "PAID"

\* createReplacementBalanceOrder for a request that has no Razorpay order yet.
CreateBalanceOrder(r, i) ==
    /\ Exists(i) /\ BalanceOpen(row[i])
    /\ row[i].session = NoSession
    /\ row[i].due >= MinBalance
    /\ Read(r, i, "pay", Status, NoSession, "createSession")

CreateSession(r) ==
    /\ At(r, "pay", "createSession")
    /\ \E s \in Sessions :
          /\ owner[s] = NoRequest
          /\ owner' = [owner EXCEPT ![s] = Of(r)]
          /\ pc' = [pc EXCEPT ![r] = "storeSession"]
          /\ job' = [job EXCEPT ![r].session = s]
    /\ UNCHANGED <<serial, open, row, key, offered, captured>> /\ UNCHANGED carrier

StoreSession(r) ==
    /\ At(r, "pay", "storeSession")
    /\ row' = [row EXCEPT ![Of(r)].session = job[r].session]
    /\ Goto(r, "storeKey")
    /\ OnlyRow

\* The key is written and the session answered.
StoreKey(r) ==
    /\ At(r, "pay", "storeKey")
    /\ key' = key \cup {job[r].session}
    /\ offered' = offered \cup {job[r].session}
    /\ Close(r)
    /\ UNCHANGED <<serial, open, row, owner, captured>> /\ UNCHANGED carrier

\* createReplacementBalanceOrder for a request that has one: it is answered
\* again, and nothing is written.
OfferAgain(i) ==
    /\ Exists(i) /\ BalanceOpen(row[i])
    /\ row[i].session # NoSession
    /\ MayOpen(row[i].order)
    /\ offered' = offered \cup {row[i].session}
    /\ UNCHANGED <<serial, open, row, owner, key, captured>> /\ UNCHANGED carrier /\ UNCHANGED slot

\* The buyer pays in Razorpay's checkout, once per Razorpay order.
PayBalance(s) ==
    /\ s \in offered \ captured
    /\ captured' = captured \cup {s}
    /\ UNCHANGED <<serial, open, row, owner, key, offered>> /\ UNCHANGED carrier /\ UNCHANGED slot

\* PENDING_TTL_SECONDS are over.
KeyExpires(s) ==
    /\ s \in key
    /\ key' = key \ {s}
    /\ UNCHANGED <<serial, open, row, owner, offered, captured>> /\ UNCHANGED carrier /\ UNCHANGED slot

\* verifyReplacementBalancePayment up to its update; only a captured payment has
\* a signature, and only the session's own request has a row to find.
VerifyBalance(r, s) ==
    LET i == owner[s]
    IN  /\ s \in captured
        /\ i \in Requests /\ Exists(i)
        /\ row[i].session = s /\ row[i].balance # "PAID"
        /\ s \in key
        /\ Read(r, i, "verify", Status, s, "write")

WriteBalancePaid(r) ==
    /\ At(r, "verify", "write")
    /\ row' = [row EXCEPT ![Of(r)].status = "APPROVED", ![Of(r)].balance = "PAID"]
    /\ Goto(r, "dropKey")
    /\ OnlyRow

DropKey(r) ==
    /\ At(r, "verify", "dropKey")
    /\ key' = key \ {job[r].session}
    /\ Close(r)
    /\ UNCHANGED <<serial, open, row, owner, offered, captured>> /\ UNCHANGED carrier

(***************************************************************************)
(* The seller and the carrier.                                             *)
(***************************************************************************)
\* assertSellerCanFulfill.
CanFulfill(q) == q.status # "AWAITING_PAYMENT" /\ (q.due > 0 => q.balance = "PAID")

CanPack(q) == q.status = "APPROVED" /\ CanFulfill(q)
CanRequest(q) == q.status = "PACKED" /\ CanFulfill(q)

UploadPackingVideo(r, i) ==
    /\ Exists(i) /\ CanPack(row[i])
    /\ Read(r, i, "pack", {"APPROVED"}, NoSession, "write")

WritePacked(r) ==
    /\ At(r, "pack", "write")
    /\ row' = [row EXCEPT ![Of(r)].status = "PACKED", ![Of(r)].video = TRUE]
    /\ Close(r)
    /\ OnlyRow

\* Mutation: an approved replacement can be handed over before it is packed.
RequestDelivery_Unpacked(r, i) ==
    /\ Exists(i) /\ CanFulfill(row[i])
    /\ Read(r, i, "request", {"APPROVED", "PACKED"}, NoSession, "createShipment")

RequestDelivery(r, i) ==
    /\ Exists(i) /\ CanRequest(row[i])
    /\ Read(r, i, "request", {"PACKED"}, NoSession, "createShipment")

\* Delhivery creates the shipment, or no waybill comes back: with or without a
\* shipment having been made, the handler throws.
CreateShipment(r) ==
    /\ At(r, "request", "createShipment")
    /\ shipments[Of(r)] < MaxShipments
    /\ shipments' = [shipments EXCEPT ![Of(r)] = @ + 1]
    /\ Goto(r, "write") \/ Close(r)
    /\ UNCHANGED <<serial, open, row, arrived>> /\ UNCHANGED payments

WriteShipped(r) ==
    /\ At(r, "request", "write")
    /\ row' = [row EXCEPT ![Of(r)].status = "SHIPPED", ![Of(r)].tracked = TRUE]
    /\ Close(r)
    /\ OnlyRow

Arrive(i) ==
    /\ shipments[i] > 0 /\ i \notin arrived
    /\ arrived' = arrived \cup {i}
    /\ UNCHANGED <<serial, open, row, shipments>> /\ UNCHANGED payments /\ UNCHANGED slot

\* getDeliveryStatus looks at the tracking id, not at the status.
PollDelivery(r, i) ==
    /\ Exists(i) /\ row[i].tracked
    /\ Read(r, i, "poll", Status, NoSession, "track")

\* Only an answer that reads as delivered touches the status.
TrackShipment(r) ==
    /\ At(r, "poll", "track")
    /\ \/ Of(r) \in arrived /\ Goto(r, "write")
       \/ Close(r)
    /\ OnlySlot

DeliverReplacement(r, i) == Read(r, i, "deliver", {"SHIPPED"}, NoSession, "write")

WriteDelivered(r) ==
    /\ At(r, "poll", "write") \/ At(r, "deliver", "write")
    /\ row' = [row EXCEPT ![Of(r)].status = "DELIVERED"]
    /\ Close(r)
    /\ OnlyRow

(***************************************************************************)
(* The environment.                                                        *)
(***************************************************************************)
\* More than SUBMIT_DAYS have passed since the order was delivered.
WindowCloses(o) ==
    /\ o \in open
    /\ open' = open \ {o}
    /\ UNCHANGED <<serial, row>> /\ UNCHANGED payments /\ UNCHANGED carrier /\ UNCHANGED slot

\* An await of a handler rejects.
Fail(r) == pc[r] # "idle" /\ Close(r) /\ OnlySlot

Request(r, i) ==
    \/ DecideRequest(r, i) \/ CreateBalanceOrder(r, i)
    \/ UploadPackingVideo(r, i) \/ RequestDelivery(r, i)
    \/ PollDelivery(r, i) \/ DeliverReplacement(r, i)

Step(r) ==
    \/ InsertRequest(r) \/ WriteDecision(r)
    \/ CreateSession(r) \/ StoreSession(r) \/ StoreKey(r)
    \/ WriteBalancePaid(r) \/ DropKey(r)
    \/ WritePacked(r) \/ CreateShipment(r) \/ WriteShipped(r)
    \/ TrackShipment(r) \/ WriteDelivered(r) \/ Fail(r)

Next ==
    \/ \E r \in Slots, o \in Orders, p \in Prices, auto \in BOOLEAN : CreateForOrder(r, o, p, auto)
    \/ \E r \in Slots, i \in Requests : Request(r, i)
    \/ \E r \in Slots, s \in Sessions : VerifyBalance(r, s)
    \/ \E r \in Slots : Step(r)
    \/ \E i \in Requests : OfferAgain(i) \/ Arrive(i)
    \/ \E s \in Sessions : PayBalance(s) \/ KeyExpires(s)
    \/ \E o \in Orders : WindowCloses(o)

Spec == Init /\ [][Next]_vars

(***************************************************************************)
(* What the apps are shown (replacement.mapper.ts).                        *)
(***************************************************************************)
Shown == {"APPROVED", "PACKED", "SHIPPED", "DELIVERED"}

\* The steps of buildReplacementTimeline, and whether each is done.
TimelineSteps(q) ==
    IF q.due > 0
    THEN <<"submitted", "review", "payment", "approved", "packed", "shipped", "delivered">>
    ELSE <<"submitted", "review", "approved", "packed", "shipped", "delivered">>

TimelineDone(q) ==
    [submitted |-> TRUE,
     review |-> q.status # "PENDING_ADMIN_REVIEW",
     payment |-> q.balance = "PAID" \/ q.status # "AWAITING_PAYMENT",
     approved |-> q.status \in Shown,
     packed |-> q.video \/ q.status \in {"PACKED", "SHIPPED", "DELIVERED"},
     shipped |-> q.status \in {"SHIPPED", "DELIVERED"} \/ q.tracked,
     delivered |-> q.status = "DELIVERED"]

\* The state of each step: the first that is not done is the active one.
Timeline(q) ==
    LET steps == TimelineSteps(q)
        done == TimelineDone(q)
        First(k) == \A j \in 1..(k - 1) : done[steps[j]]
    IN  IF q.status = "REJECTED" THEN <<"done", "active", "active">>
        ELSE [k \in DOMAIN steps |->
                IF done[steps[k]] THEN "done" ELSE IF First(k) THEN "active" ELSE "upcoming"]

BuyerNextAction(q) == IF BalanceOpen(q) THEN "PAY_BALANCE" ELSE "NONE"

\* Mutation: the pack action is offered as long as there is no tracking id.
SellerNextAction_Repack(q) ==
    IF q.status \in {"APPROVED", "PACKED"} /\ ~q.tracked THEN "PACK_VIDEO"
    ELSE IF q.status \in {"SHIPPED", "PACKED"} /\ q.tracked THEN "TRACK"
    ELSE "NONE"

SellerNextAction(q) ==
    IF q.status = "APPROVED" /\ ~q.video THEN "PACK_VIDEO"
    ELSE IF q.status = "PACKED" /\ ~q.tracked THEN "REQUEST_DELIVERY"
    ELSE IF q.status \in {"SHIPPED", "PACKED"} /\ q.tracked THEN "TRACK"
    ELSE "NONE"

\* The requests of an order as the list of orders marks them: one under way, one completed.
HasOpen(o) ==
    \E i \in Requests : Exists(i) /\ row[i].order = o /\ row[i].status \notin {"REJECTED", "DELIVERED"}
HasFulfilled(o) == \E i \in Requests : Exists(i) /\ row[i].order = o /\ row[i].status = "DELIVERED"

\* mapBuyerOrderDetail does not look at the day of delivery.
CanRequestReplacement(o) ==
    ~HasOpen(o) /\ ~\E i \in Requests : Exists(i) /\ row[i].order = o /\ row[i].status # "REJECTED"

\* listEligibleForBuyer.
Eligible(o) ==
    o \in open /\ ~\E i \in Requests : Exists(i) /\ row[i].order = o /\ row[i].status # "REJECTED"

(***************************************************************************)
(* Properties.                                                             *)
(***************************************************************************)
\* The handlers that hold a Razorpay order.
Paying(r) ==
    pc[r] # "idle" /\ (job[r].op = "verify" \/ pc[r] \in {"storeSession", "storeKey"})

\* Type invariant of every variable.
TypeOK ==
    /\ serial \subseteq Orders
    /\ open \subseteq Orders
    /\ row \in [Requests -> Row \cup {NoRow}]
    /\ owner \in [Sessions -> Requests \cup {NoRequest}]
    /\ key \subseteq Sessions /\ offered \subseteq Sessions /\ captured \subseteq Sessions
    /\ shipments \in [Requests -> 0..MaxShipments]
    /\ arrived \subseteq Requests
    /\ pc \in [Slots -> {"idle"} \cup Steps]
    /\ job \in [Slots -> Job \cup {Free}]
    /\ \A r \in Slots : pc[r] # "idle" => job[r] \in Job
    /\ \A r \in Slots : pc[r] # "idle" /\ job[r].op # "create" => Of(r) \in Requests /\ Exists(Of(r))
    /\ \A r \in Slots : Paying(r) => job[r].session \in Sessions

\* The money for request i has arrived.
Settled(i) == \E s \in captured : owner[s] = i

\* However the decisions of admins, the payment and the seller's handlers overlap,
\* a replacement that costs more than the line is not packed, shipped or delivered
\* unless a payment for it was captured (assertSellerCanFulfill reads the row
\* before the video is stored or the carrier called, and its status may be
\* rewritten in between).
PaidBeforePacked ==
    \A i \in Requests :
        (Exists(i) /\ row[i].due > 0 /\ row[i].status \in Shown) => Settled(i)

\* Nor is it packed without a video on file, or shipped without a shipment whose
\* tracking id is on the row, even when a late verify or decision takes it back.
ShippedWithProof ==
    \A i \in Requests : Exists(i) =>
        /\ row[i].status \in {"PACKED", "SHIPPED", "DELIVERED"} => row[i].video
        /\ row[i].status \in {"SHIPPED", "DELIVERED"} => row[i].tracked
        /\ row[i].tracked => shipments[i] > 0

\* What the two rest on: what a handler was let through for stays true.
Seen(r) ==
    LET i == Of(r)
    IN  /\ job[r].op \in {"pack", "request", "poll", "deliver"} /\ row[i].due > 0 => Settled(i)
        /\ job[r].op = "verify" => job[r].session \in captured /\ owner[job[r].session] = i
        /\ job[r].op \in {"request", "poll", "deliver"} => row[i].video
        /\ job[r].op \in {"poll", "deliver"} => row[i].tracked
        /\ At(r, "request", "write") => shipments[i] > 0

SeenOK ==
    /\ \A r \in Slots : pc[r] # "idle" /\ job[r].op # "create" => Seen(r)
    /\ \A i \in Requests : Exists(i) /\ row[i].tracked => row[i].video
    /\ \A i \in Requests : Exists(i) /\ row[i].due > 0 /\ row[i].video => Settled(i)
    /\ \A i \in Requests : Exists(i) /\ row[i].balance = "PAID" => Settled(i)

Active(i, o) == Exists(i) /\ row[i].order = o /\ row[i].status # "REJECTED"

\* An order whose handlers do not overlap has at most one request that is not
\* rejected, completed ones included (the look-up of createForOrder).
OneActive ==
    \A o \in serial : \A i, j \in Requests : Active(i, o) /\ Active(j, o) => i = j

\* When the handlers of an order do not overlap, its requests follow the
\* documented pipeline: the service implements ReplacementLifecycle.
Tracked(i) == Exists(i) /\ row[i].order \in serial
stageBar ==
    [i \in Requests |->
        IF ~Tracked(i) THEN "NONE"
        ELSE IF row[i].status = "PENDING_ADMIN_REVIEW" THEN "REVIEW"
        ELSE IF row[i].status = "AWAITING_PAYMENT" THEN "PAYING"
        ELSE row[i].status]
owesBar == {i \in Requests : Tracked(i) /\ row[i].balance = "PENDING"}

Pipeline == INSTANCE ReplacementLifecycle WITH stage <- stageBar, owes <- owesBar

FollowsPipeline == Pipeline!Spec

\* When the handlers of an order do not overlap, the apps are never at a loss: from
\* the decision on, the timeline is a run of done steps, then the active one, then
\* the rest, and a request the seller has to act on is offered the action its
\* endpoint accepts.  (Under review the balance of an upgrade shows as done.)
TimelineAgrees ==
    \A i \in Requests : Tracked(i) =>
        LET q == row[i]
            t == Timeline(q)
        IN  /\ q.status # "PENDING_ADMIN_REVIEW" =>
                  \A j, k \in DOMAIN t : j < k /\ t[k] = "done" => t[j] = "done"
            /\ q.status \in {"APPROVED", "PACKED", "SHIPPED"} =>
                  SellerNextAction(q) # "NONE"
            /\ SellerNextAction(q) = "PACK_VIDEO" => CanPack(q)
            /\ SellerNextAction(q) = "REQUEST_DELIVERY" => CanRequest(q)

\* The list of orders that can be replaced names the orders a request is accepted for, and
\* no other; the page of such an order offers the request, and the list of orders marks no
\* request on it.  The page goes on offering it after the days to ask are over.
EligibleAgrees ==
    \A o \in Orders :
        /\ Eligible(o) <=> MayCreate(o)
        /\ Eligible(o) => CanRequestReplacement(o) /\ ~HasOpen(o) /\ ~HasFulfilled(o)
        /\ CanRequestReplacement(o) /\ o \in open => Eligible(o)

\* What the apps offer is what the endpoints accept.
ViewsAgree == TimelineAgrees /\ EligibleAgrees

\* A payment captured for the balance of a request whose handlers do not overlap is
\* for the session on its row, and is taken once: no second Razorpay order is made.
OneSession ==
    \A s \in Sessions : owner[s] # NoRequest /\ Tracked(owner[s]) /\ s \in offered =>
        row[owner[s]].session = s

\* An order whose handlers do not overlap never has two attempts at one thing.
OneAttempt == OneActive /\ OneSession

=============================================================================
