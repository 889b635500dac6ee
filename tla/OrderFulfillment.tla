-------------------------- MODULE OrderFulfillment --------------------------
(***************************************************************************)
(* The life of an order after it is placed: the seller, buyer and carrier  *)
(* handlers of OrdersService.  Every one of them reads the order, checks   *)
(* its status, awaits something, and then updates the row by id, whatever  *)
(* its status has become.  A handler r is read (one action: nothing is     *)
(* written before the check), the awaits in between, and the write.        *)
(*                                                                         *)
(* A handler that is done leaves its slot, so a behaviour has any number   *)
(* of requests of which at most |Slots| are open together.  A process      *)
(* crash is every open handler failing; it needs no action of its own.     *)
(* Each order has one line of one unit, and the sellers and buyers are     *)
(* those the ownership checks let through.                                 *)
(***************************************************************************)
EXTENDS Naturals, FiniteSets

CONSTANTS
    Orders,
    LiveOrders,     \* orders with a streamId
    Slots,          \* requests that can be open at one time
    Endpoints,      \* which handlers are called
    Serial,         \* TRUE: an order never has two handlers open
    MaxRepeats      \* bound on the counters of one order

Handlers == {"verify", "accept", "pack", "request", "ship", "poll", "deliver", "cancel", "return"}

ASSUME FulfillmentAssumption ==
    /\ LiveOrders \subseteq Orders
    /\ Endpoints \subseteq Handlers
    /\ Serial \in BOOLEAN
    /\ MaxRepeats \in Nat \ {0}

VARIABLES
    status,         \* Order.status, NONE before the row exists
    video,          \* Order.packingVideoUrl is set
    tracked,        \* Order.trackingId and deliveryProvider DELHIVERY are set
    refunded,       \* the payment of the order was given back
    restored,       \* times the order's unit went back to the stock
    counted,        \* times the order was added to BuyerRating.deliveredCount
    shipments,      \* Delhivery shipments created for the order
    arrived,        \* Delhivery's status of the parcel reads as delivered
    pc,             \* what each slot is waiting for
    job             \* the handler and order each slot works on

row == <<status, video, tracked>>
effects == <<refunded, restored, counted>>
carrier == <<shipments, arrived>>
slot == <<pc, job>>
vars == <<status, video, tracked, refunded, restored, counted, shipments, arrived, pc, job>>

Status == {"NONE", "PENDING", "PAID", "PACKED", "SHIPPED", "DELIVERED", "CANCELLED", "RETURNED"}
Steps == {"write", "saveVideo", "createShipment", "track", "recordDelivered"}
Free == [op |-> "none"]
Job == [op : Handlers, order : Orders]

Init ==
    /\ status = [o \in Orders |-> "NONE"]
    /\ video = [o \in Orders |-> FALSE]
    /\ tracked = [o \in Orders |-> FALSE]
    /\ refunded = [o \in Orders |-> FALSE]
    /\ restored = [o \in Orders |-> 0]
    /\ counted = [o \in Orders |-> 0]
    /\ shipments = [o \in Orders |-> 0]
    /\ arrived = [o \in Orders |-> FALSE]
    /\ pc = [r \in Slots |-> "idle"]
    /\ job = [r \in Slots |-> Free]

\* A handler read order o and its checks let it through to step at.
Open(r, o, op, at) ==
    /\ op \in Endpoints
    /\ pc[r] = "idle"
    /\ Serial => \A q \in Slots : pc[q] # "idle" => job[q].order # o
    /\ pc' = [pc EXCEPT ![r] = at]
    /\ job' = [job EXCEPT ![r] = [op |-> op, order |-> o]]

Goto(r, at) == pc' = [pc EXCEPT ![r] = at] /\ UNCHANGED job

Close(r) ==
    /\ pc' = [pc EXCEPT ![r] = "idle"]
    /\ job' = [job EXCEPT ![r] = Free]

\* The pending step of the handler op in slot r, and the order it is about.
At(r, op, step) == pc[r] = step /\ job[r].op = op
Of(r) == job[r].order

(***************************************************************************)
(* Placing.  create commits a PENDING row that buyer and seller can see;   *)
(* in a verify the PAID update is a statement of its own.                  *)
(***************************************************************************)
PlaceOrder(o) ==
    /\ status[o] = "NONE"
    /\ status' = [status EXCEPT ![o] = "PENDING"]
    /\ UNCHANGED <<video, tracked>> /\ UNCHANGED effects /\ UNCHANGED carrier /\ UNCHANGED slot

PlaceInVerify(r, o) ==
    /\ status[o] = "NONE"
    /\ status' = [status EXCEPT ![o] = "PENDING"]
    /\ Open(r, o, "verify", "write")
    /\ UNCHANGED <<video, tracked>> /\ UNCHANGED effects /\ UNCHANGED carrier

\* Reads: nothing is written, so what they leave alone is everything.
Read(r, o, op, from, at) ==
    /\ status[o] \in from
    /\ Open(r, o, op, at)
    /\ UNCHANGED row /\ UNCHANGED effects /\ UNCHANGED carrier

AcceptOrder(r, o) == Read(r, o, "accept", {"PENDING"}, "write")

ShipOrder(r, o) == o \notin LiveOrders /\ Read(r, o, "ship", {"PAID"}, "write")

\* Mutation: marking an order delivered again is let through.
DeliverOrder_Again(r, o) == Read(r, o, "deliver", {"SHIPPED", "DELIVERED"}, "write")

DeliverOrder(r, o) == Read(r, o, "deliver", {"SHIPPED"}, "write")

\* Mutation: the status check of a cancellation also lets SHIPPED through.
CancelOrder_Shipped(r, o) ==
    Read(r, o, "cancel", {"PENDING", "PAID", "PACKED", "SHIPPED"}, "write")

CancelOrder(r, o) == Read(r, o, "cancel", {"PENDING", "PAID", "PACKED"}, "write")

ReturnOrder(r, o) == Read(r, o, "return", {"DELIVERED"}, "write")

UploadPackingVideo(r, o) == o \in LiveOrders /\ Read(r, o, "pack", {"PAID"}, "saveVideo")

\* Mutation: a paid order can be handed over before it is packed.
RequestDelivery_Unpacked(r, o) ==
    o \in LiveOrders /\ Read(r, o, "request", {"PAID", "PACKED"}, "createShipment")

RequestDelivery(r, o) == o \in LiveOrders /\ Read(r, o, "request", {"PACKED"}, "createShipment")

\* getOrderDeliveryStatus looks at the provider and tracking id, not the status.
PollDelivery(r, o) == tracked[o] /\ Read(r, o, "poll", Status, "track")

(***************************************************************************)
(* The awaits between the check and the write.                             *)
(***************************************************************************)
SaveVideo(r) ==
    /\ At(r, "pack", "saveVideo")
    /\ Goto(r, "write")
    /\ UNCHANGED row /\ UNCHANGED effects /\ UNCHANGED carrier

\* Delhivery creates the shipment, or no waybill comes back: with or without
\* a shipment having been made, the handler throws.
CreateShipment(r) ==
    /\ At(r, "request", "createShipment")
    /\ \/ /\ shipments[Of(r)] < MaxRepeats
          /\ shipments' = [shipments EXCEPT ![Of(r)] = @ + 1]
          /\ Goto(r, "write") \/ Close(r)
       \/ Close(r) /\ UNCHANGED shipments
    /\ UNCHANGED arrived /\ UNCHANGED row /\ UNCHANGED effects

\* The carrier, on its own: the parcel reaches the buyer.
Arrive(o) ==
    /\ shipments[o] > 0
    /\ ~arrived[o]
    /\ arrived' = [arrived EXCEPT ![o] = TRUE]
    /\ UNCHANGED shipments /\ UNCHANGED row /\ UNCHANGED effects /\ UNCHANGED slot

\* Only a delivered answer touches Order.status; any other is just stored.
TrackShipment(r) ==
    /\ At(r, "poll", "track")
    /\ \/ arrived[Of(r)] /\ Goto(r, "write")
       \/ Close(r)
    /\ UNCHANGED row /\ UNCHANGED effects /\ UNCHANGED carrier

(***************************************************************************)
(* The writes: order.update where id, with no condition on the status.     *)
(***************************************************************************)
Write(r, op, to) ==
    /\ At(r, op, "write")
    /\ status' = [status EXCEPT ![Of(r)] = to]

WritePaid(r) ==
    /\ Write(r, "verify", "PAID") \/ Write(r, "accept", "PAID")
    /\ Close(r)
    /\ UNCHANGED <<video, tracked>> /\ UNCHANGED effects /\ UNCHANGED carrier

WritePacked(r) ==
    /\ Write(r, "pack", "PACKED")
    /\ video' = [video EXCEPT ![Of(r)] = TRUE]
    /\ Close(r)
    /\ UNCHANGED tracked /\ UNCHANGED effects /\ UNCHANGED carrier

WriteShipped(r) ==
    /\ \/ Write(r, "request", "SHIPPED") /\ tracked' = [tracked EXCEPT ![Of(r)] = TRUE]
       \/ Write(r, "ship", "SHIPPED") /\ UNCHANGED tracked
    /\ Close(r)
    /\ UNCHANGED video /\ UNCHANGED effects /\ UNCHANGED carrier

WriteDelivered(r) ==
    /\ \/ Write(r, "deliver", "DELIVERED") /\ Goto(r, "recordDelivered")
       \/ Write(r, "poll", "DELIVERED") /\ Close(r)
    /\ UNCHANGED <<video, tracked>> /\ UNCHANGED effects /\ UNCHANGED carrier

\* Mutation: the status is updated in its own statement and the stock is left.
WriteCancelled_NoRestock(r) ==
    /\ Write(r, "cancel", "CANCELLED")
    /\ Close(r)
    /\ UNCHANGED <<video, tracked>> /\ UNCHANGED effects /\ UNCHANGED carrier

\* Mutation: the delta keeps the sign it has in create, the unit is taken again.
WriteCancelled_TakesAgain(r) ==
    /\ Write(r, "cancel", "CANCELLED")
    /\ restored' = [restored EXCEPT ![Of(r)] = @ - 1]
    /\ Close(r)
    /\ UNCHANGED <<video, tracked, refunded, counted>> /\ UNCHANGED carrier

\* One transaction: the stock goes back and the order is cancelled.
WriteCancelled(r) ==
    /\ Write(r, "cancel", "CANCELLED")
    /\ restored[Of(r)] < MaxRepeats
    /\ restored' = [restored EXCEPT ![Of(r)] = @ + 1]
    /\ Close(r)
    /\ UNCHANGED <<video, tracked, refunded, counted>> /\ UNCHANGED carrier

WriteReturned(r) ==
    /\ Write(r, "return", "RETURNED")
    /\ Close(r)
    /\ UNCHANGED <<video, tracked>> /\ UNCHANGED effects /\ UNCHANGED carrier

\* ratings.recordDeliveredOrder, an increment of its own after the update.
RecordDelivered(r) ==
    /\ At(r, "deliver", "recordDelivered")
    /\ counted[Of(r)] < MaxRepeats
    /\ counted' = [counted EXCEPT ![Of(r)] = @ + 1]
    /\ Close(r)
    /\ UNCHANGED <<refunded, restored>> /\ UNCHANGED row /\ UNCHANGED carrier

\* An await rejects.  verifyAndCheckout's catch block tries to give the money
\* back; the order row it leaves behind stays PENDING.
Fail(r) ==
    /\ pc[r] # "idle"
    /\ \/ job[r].op = "verify" /\ refunded' = [refunded EXCEPT ![Of(r)] = TRUE]
       \/ UNCHANGED refunded
    /\ Close(r)
    /\ UNCHANGED <<restored, counted>> /\ UNCHANGED row /\ UNCHANGED carrier

Step(r) ==
    \/ SaveVideo(r) \/ CreateShipment(r) \/ TrackShipment(r)
    \/ WritePaid(r) \/ WritePacked(r) \/ WriteShipped(r) \/ WriteDelivered(r)
    \/ WriteCancelled(r) \/ WriteReturned(r) \/ RecordDelivered(r) \/ Fail(r)

Request(r, o) ==
    \/ PlaceInVerify(r, o) \/ AcceptOrder(r, o) \/ ShipOrder(r, o) \/ DeliverOrder(r, o)
    \/ CancelOrder(r, o) \/ ReturnOrder(r, o) \/ UploadPackingVideo(r, o)
    \/ RequestDelivery(r, o) \/ PollDelivery(r, o)

Next ==
    \/ \E o \in Orders : PlaceOrder(o) \/ Arrive(o) \/ \E r \in Slots : Request(r, o)
    \/ \E r \in Slots : Step(r)

Spec == Init /\ [][Next]_vars

(***************************************************************************)
(* Properties.                                                             *)
(***************************************************************************)
\* Type invariant of every variable.
TypeOK ==
    /\ status \in [Orders -> Status]
    /\ video \in [Orders -> BOOLEAN]
    /\ tracked \in [Orders -> BOOLEAN]
    /\ refunded \in [Orders -> BOOLEAN]
    /\ restored \in [Orders -> 0..MaxRepeats]
    /\ counted \in [Orders -> 0..MaxRepeats]
    /\ shipments \in [Orders -> 0..MaxRepeats]
    /\ arrived \in [Orders -> BOOLEAN]
    /\ pc \in [Slots -> {"idle"} \cup Steps]
    /\ job \in [Slots -> Job \cup {Free}]
    /\ \A r \in Slots : pc[r] # "idle" => job[r] \in Job

\* However handlers of a live order overlap, it is packed only with a video
\* on file, and shipped, delivered or returned only with a shipment at the
\* carrier whose tracking id is on the row (uploadPackingVideo and
\* requestDeliveryFromPartner store proof and status together).
ShippedWithProof ==
    \A o \in LiveOrders :
        /\ status[o] \in {"PACKED", "SHIPPED", "DELIVERED", "RETURNED"} => video[o]
        /\ status[o] \in {"SHIPPED", "DELIVERED", "RETURNED"} => tracked[o] /\ shipments[o] > 0

\* What ShippedWithProof rests on: what a handler has seen stays true.
ProofSeen ==
    /\ \A o \in Orders : tracked[o] => o \in LiveOrders /\ video[o] /\ shipments[o] > 0
    /\ \A r \in Slots : pc[r] # "idle" =>
        /\ job[r].op \in {"pack", "request"} => Of(r) \in LiveOrders
        /\ job[r].op = "ship" => Of(r) \notin LiveOrders
        /\ job[r].op = "request" => video[Of(r)]
        /\ At(r, "request", "write") => shipments[Of(r)] > 0
        /\ (job[r].op \in {"poll", "deliver", "return"} /\ Of(r) \in LiveOrders)
              => tracked[Of(r)]

\* A cancelled order has given its unit back: cancelOrder's transaction does
\* both, and no other write leads to CANCELLED.
CancelledRestocked == \A o \in Orders : status[o] = "CANCELLED" => restored[o] > 0

\* The goods side of Order.status: a return request leaves them delivered.
stageBar == [o \in Orders |-> IF status[o] = "RETURNED" THEN "DELIVERED" ELSE status[o]]
unitsBar == [o \in Orders |-> 1 - restored[o]]

Goods == INSTANCE OrderLifecycle WITH stage <- stageBar, units <- unitsBar

\* When an order never has two handlers open, its goods follow the documented
\* lifecycle: fulfilment implements OrderLifecycle.
FollowsLifecycle == Goods!Spec

\* One delivery is counted once in the buyer's rating, and only a delivery.
CountedWhenDelivered ==
    \A o \in Orders : counted[o] > 0 => counted[o] = 1 /\ status[o] \in {"DELIVERED", "RETURNED"}

\* What a handler has seen of the status when it gets to its write.
SeenBy ==
    [verify |-> {"PENDING"}, accept |-> {"PENDING"}, pack |-> {"PAID"}, ship |-> {"PAID"},
     request |-> {"PACKED"}, deliver |-> {"SHIPPED"}, return |-> {"DELIVERED"},
     cancel |-> {"PENDING", "PAID", "PACKED"},
     poll |-> {"SHIPPED", "DELIVERED", "RETURNED"}]

\* What FollowsLifecycle rests on when Serial: a handler's order still is as it
\* was read, and the counters follow the status.
SerialOK ==
    /\ \A q, r \in Slots : (q # r /\ pc[q] # "idle" /\ pc[r] # "idle") => Of(q) # Of(r)
    /\ \A r \in Slots : pc[r] # "idle" =>
        /\ pc[r] # "recordDelivered" => status[Of(r)] \in SeenBy[job[r].op]
        /\ pc[r] = "recordDelivered" => status[Of(r)] = "DELIVERED"
        /\ job[r].op = "deliver" => counted[Of(r)] = 0
    /\ \A o \in Orders :
        /\ restored[o] = IF status[o] = "CANCELLED" THEN 1 ELSE 0
        /\ tracked[o] => status[o] \in SeenBy["poll"]
        /\ counted[o] > 0 => counted[o] = 1 /\ status[o] \in {"DELIVERED", "RETURNED"}

=============================================================================
