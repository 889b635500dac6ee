----------------------------- MODULE OrderViews -----------------------------
(***************************************************************************)
(* What the two apps are shown of an order while it is fulfilled: the      *)
(* seller's timeline and next action (seller-order.mapper), and the        *)
(* buyer's timeline (buyer-order.mapper).  They read the row only.         *)
(***************************************************************************)
EXTENDS OrderFulfillment, Sequences

Late == {"SHIPPED", "DELIVERED"}
SellerSteps == <<"received", "pack_video", "packed", "delhivery", "in_transit", "delivered">>
BuyerSteps == <<"placed", "confirmed", "packed", "shipped", "delivered">>

\* Mutation: a packed order counts as filmed only when the video's URL is there.
SellerDone_VideoOnly(o) ==
    LET s == status[o] IN
    [received |-> s \notin {"PENDING", "CANCELLED"}, pack_video |-> video[o],
     packed |-> s \in {"PACKED"} \cup Late, delhivery |-> tracked[o] \/ s \in Late,
     in_transit |-> s \in Late, delivered |-> s = "DELIVERED"]

SellerDone(o) ==
    LET s == status[o] IN
    [received |-> s \notin {"PENDING", "CANCELLED"},
     pack_video |-> video[o] \/ s \in {"PACKED"} \cup Late,
     packed |-> s \in {"PACKED"} \cup Late,
     delhivery |-> tracked[o] \/ s \in Late,
     in_transit |-> s \in Late,
     delivered |-> s = "DELIVERED"]

\* Of a cancelled order a timeline of its own is shown.
BuyerDone(o) ==
    LET s == status[o] IN
    [placed |-> s # "PENDING",
     confirmed |-> s \in {"PAID", "PACKED"} \cup Late,
     packed |-> s \in {"PACKED"} \cup Late,
     shipped |-> tracked[o] \/ s \in Late,
     delivered |-> s = "DELIVERED"]

\* Mutation: the pickup can be asked for once the order is paid.
NextAction_PaidPickup(o) ==
    CASE status[o] \in {"PAID", "PACKED"} -> "REQUEST_DELIVERY"
      [] status[o] = "SHIPPED" -> "TRACK"
      [] OTHER -> "NONE"

NextAction(o) ==
    CASE status[o] = "PAID" -> "PACK_VIDEO"
      [] status[o] = "PACKED" -> "REQUEST_DELIVERY"
      [] status[o] = "SHIPPED" -> "TRACK"
      [] OTHER -> "NONE"

\* The checks of the handler behind each action.
Accepts(o, action) ==
    CASE action = "PACK_VIDEO" -> o \in LiveOrders /\ status[o] = "PAID"
      [] action = "REQUEST_DELIVERY" -> o \in LiveOrders /\ status[o] = "PACKED"
      [] action = "TRACK" -> tracked[o]
      [] OTHER -> TRUE

\* However handlers overlap, the action a seller is offered for a live order is one that
\* the handler behind it accepts: tracking is offered only with a tracking id on the row
\* (seller-order.mapper.ts:152-175).
OfferedIsAccepted == \A o \in LiveOrders : Accepts(o, NextAction(o))

InOrder(steps, done) ==
    \A i, j \in DOMAIN steps : i < j /\ done[steps[j]] => done[steps[i]]

\* When the handlers of an order do not overlap, no timeline shows a step as done after
\* one that is not, until the order is cancelled or returned
\* (seller-order.mapper.ts:131-149, buyer-order.mapper.ts:116-124).
StepsInOrder ==
    \A o \in Orders : status[o] \notin {"NONE", "CANCELLED", "RETURNED"} =>
        InOrder(SellerSteps, SellerDone(o)) /\ InOrder(BuyerSteps, BuyerDone(o))
=============================================================================
