-------------------------- MODULE BackOfficeProofs --------------------------
(***************************************************************************)
(* Theorems about the parts of BackOffice, for any number of handlers and  *)
(* every value of the constants of the part: reminders, mail, the audience *)
(* of a stream, and before them what holds of an order however its         *)
(* handlers overlap, and that it follows OrderLifecycle when they do not.  *)
(***************************************************************************)
EXTENDS BackOffice, FiniteSetTheorems, SequenceTheorems, WellFoundedInduction, TLAPS

-----------------------------------------------------------------------------
(***************************************************************************)
(* The fulfilment of orders.                                               *)
(***************************************************************************)
\* The three ways a step moves a slot.
LEMMA SlotSteps ==
    ASSUME TypeOK, NEW r \in Slots, pc[r] # "idle"
    PROVE  /\ \A at \in Steps : Goto(r, at) =>
                 /\ pc' \in [Slots -> {"idle"} \cup Steps] /\ pc'[r] = at /\ job' = job
                 /\ \A q \in Slots \ {r} : pc'[q] = pc[q]
           /\ Close(r) =>
                 /\ pc' \in [Slots -> {"idle"} \cup Steps] /\ job' \in [Slots -> Job \cup {Free}]
                 /\ pc'[r] = "idle" /\ job'[r] = Free
                 /\ \A q \in Slots \ {r} : pc'[q] = pc[q] /\ job'[q] = job[q]
BY DEF TypeOK, Goto, Close

\* What opening a handler does to the places and the locals.
LEMMA OpenStep ==
    ASSUME TypeOK, NEW r \in Slots, NEW o \in Orders, NEW op \in Handlers, NEW at \in Steps,
           Open(r, o, op, at)
    PROVE  /\ pc[r] = "idle" /\ pc'[r] = at /\ job'[r] = [op |-> op, order |-> o]
           /\ pc' \in [Slots -> {"idle"} \cup Steps] /\ job' \in [Slots -> Job \cup {Free}]
           /\ \A q \in Slots \ {r} : pc'[q] = pc[q] /\ job'[q] = job[q]
           /\ Serial => \A q \in Slots : pc[q] # "idle" => Of(q) # o
BY DEF TypeOK, Open, Job, Of

\* A request is a new row in a verify or a read that lets a handler in.
LEMMA RequestSteps ==
    ASSUME NEW r \in Slots, NEW o \in Orders, Request(r, o)
    PROVE  \E op \in Handlers, at \in Steps :
              /\ Open(r, o, op, at)
              /\ UNCHANGED <<video, tracked>> /\ UNCHANGED effects /\ UNCHANGED carrier
              /\ \/ op = "verify" /\ status[o] = "NONE"
                    /\ status' = [status EXCEPT ![o] = "PENDING"]
                 \/ /\ op # "verify" /\ UNCHANGED status
                    /\ op = "poll" => tracked[o]
                    /\ op # "poll" => status[o] \in SeenBy[op]
              /\ op \in {"pack", "request"} => o \in LiveOrders
              /\ op = "ship" => o \notin LiveOrders
              /\ at # "recordDelivered"
              /\ op = "request" => at = "createShipment"
              /\ op = "poll" => at = "track"
BY DEF Request, Read, row, Handlers, Steps, SeenBy, PlaceInVerify, AcceptOrder, ShipOrder,
       DeliverOrder, CancelOrder, ReturnOrder, UploadPackingVideo, RequestDelivery, PollDelivery

\* A handler works on an order, and past its check it goes on to its write.
LEMMA WorkingSlot ==
    ASSUME TypeOK, NEW r \in Slots, pc[r] # "idle"
    PROVE  Of(r) \in Orders /\ job[r].op \in Handlers
BY DEF TypeOK, Of, Job

\* Every variable keeps its type, however handlers overlap.
THEOREM FulfillmentTyped == Spec => []TypeOK
<1> USE FulfillmentAssumption
<1>1. Init => TypeOK
  BY DEF Init, TypeOK, Status, Free
<1>2. TypeOK /\ [Next]_vars => TypeOK'
  <2> SUFFICES ASSUME TypeOK, [Next]_vars PROVE TypeOK'
    OBVIOUS
  <2>1. ASSUME NEW o \in Orders, PlaceOrder(o) \/ Arrive(o)
        PROVE  TypeOK'
    BY <2>1 DEF TypeOK, PlaceOrder, Arrive, row, effects, carrier, slot, Status
  <2>2. ASSUME NEW r \in Slots, NEW o \in Orders, Request(r, o)
        PROVE  TypeOK'
    <3>1. PICK op \in Handlers, at \in Steps :
             /\ Open(r, o, op, at)
             /\ UNCHANGED <<video, tracked>> /\ UNCHANGED effects /\ UNCHANGED carrier
             /\ UNCHANGED status \/ status' = [status EXCEPT ![o] = "PENDING"]
      BY <2>2, RequestSteps
    <3>2. job'[r] \in Job
      <4>1. job'[r] = [op |-> op, order |-> o]
        BY <3>1, OpenStep
      <4>2. QED
        BY <4>1 DEF Job
    <3>3. status' \in [Orders -> Status]
      BY <3>1 DEF TypeOK, Status
    <3>4. QED
      BY <3>1, <3>2, <3>3, OpenStep DEF TypeOK, effects, carrier
  <2>3. ASSUME NEW r \in Slots, Step(r)
        PROVE  TypeOK'
    <3>1. pc[r] # "idle"
      BY <2>3 DEF Step, SaveVideo, CreateShipment, TrackShipment, WritePaid, WritePacked,
         WriteShipped, WriteDelivered, WriteCancelled, WriteReturned, RecordDelivered, Fail,
         Write, At
    <3>2. Goto(r, "write") \/ Goto(r, "recordDelivered") \/ Close(r)
      BY <2>3 DEF Step, SaveVideo, CreateShipment, TrackShipment, WritePaid, WritePacked,
         WriteShipped, WriteDelivered, WriteCancelled, WriteReturned, RecordDelivered, Fail
    <3>3. /\ pc' \in [Slots -> {"idle"} \cup Steps]
          /\ job' \in [Slots -> Job \cup {Free}]
          /\ \A q \in Slots : pc'[q] # "idle" => job'[q] \in Job
      BY <3>1, <3>2, SlotSteps DEF TypeOK, Steps
    <3>4. status' \in [Orders -> Status]
      BY <2>3, <3>1, WorkingSlot DEF TypeOK, Status, Step, SaveVideo, CreateShipment,
         TrackShipment, WritePaid, WritePacked, WriteShipped, WriteDelivered, WriteCancelled,
         WriteReturned, RecordDelivered, Fail, Write, row
    <3>5. video' \in [Orders -> BOOLEAN] /\ tracked' \in [Orders -> BOOLEAN]
          /\ refunded' \in [Orders -> BOOLEAN] /\ arrived' \in [Orders -> BOOLEAN]
      BY <2>3, <3>1, WorkingSlot DEF TypeOK, Step, SaveVideo, CreateShipment,
         TrackShipment, WritePaid, WritePacked, WriteShipped, WriteDelivered, WriteCancelled,
         WriteReturned, RecordDelivered, Fail, row, effects, carrier
    <3>6. /\ restored' \in [Orders -> 0..MaxRepeats] /\ counted' \in [Orders -> 0..MaxRepeats]
          /\ shipments' \in [Orders -> 0..MaxRepeats]
      BY <2>3, <3>1, WorkingSlot DEF TypeOK, Step, SaveVideo, CreateShipment,
         TrackShipment, WritePaid, WritePacked, WriteShipped, WriteDelivered, WriteCancelled,
         WriteReturned, RecordDelivered, Fail, effects, carrier
    <3>7. QED
      BY <3>3, <3>4, <3>5, <3>6 DEF TypeOK
  <2>4. CASE UNCHANGED vars
    BY <2>4 DEF TypeOK, vars
  <2>5. QED
    BY <2>1, <2>2, <2>3, <2>4 DEF Next
<1>3. QED
  BY <1>1, <1>2, PTL DEF Spec

-----------------------------------------------------------------------------
\* A step of a handler keeps its slot's job or frees the slot; what it writes
\* depends on the job.
LEMMA StepEffects ==
    ASSUME TypeOK, NEW r \in Slots, Step(r)
    PROVE  /\ pc[r] # "idle"
           /\ \A q \in Slots \ {r} : pc'[q] = pc[q] /\ (pc'[q] # "idle" => job'[q] = job[q])
           /\ pc'[r] # "idle" => job'[r] = job[r]
           /\ pc'[r] = "write" => pc[r] # "write"
           /\ \A o \in Orders : video[o] => video'[o]
           /\ \A o \in Orders : tracked[o] => tracked'[o]
           /\ \A o \in Orders : shipments[o] > 0 => shipments'[o] > 0
           /\ \A o \in Orders : restored[o] > 0 => restored'[o] > 0
           /\ At(r, "request", "createShipment") /\ pc'[r] = "write" => shipments'[Of(r)] > 0
<1>1. pc[r] # "idle"
  BY DEF Step, SaveVideo, CreateShipment, TrackShipment, WritePaid, WritePacked, WriteShipped,
     WriteDelivered, WriteCancelled, WriteReturned, RecordDelivered, Fail, Write, At
<1>2. \/ Goto(r, "write") /\ pc[r] # "write"
      \/ Goto(r, "recordDelivered")
      \/ Close(r)
  BY DEF Step, SaveVideo, CreateShipment, TrackShipment, WritePaid, WritePacked, WriteShipped,
     WriteDelivered, WriteCancelled, WriteReturned, RecordDelivered, Fail, At
<1>3. /\ \A o \in Orders : video[o] => video'[o]
      /\ \A o \in Orders : tracked[o] => tracked'[o]
  BY <1>1, WorkingSlot DEF TypeOK, Step, SaveVideo, CreateShipment, TrackShipment, WritePaid,
     WritePacked, WriteShipped, WriteDelivered, WriteCancelled, WriteReturned, RecordDelivered,
     Fail, row
<1>4. /\ \A o \in Orders : shipments[o] > 0 => shipments'[o] > 0
      /\ \A o \in Orders : restored[o] > 0 => restored'[o] > 0
  BY <1>1, WorkingSlot, FulfillmentAssumption DEF TypeOK, Step, SaveVideo, CreateShipment,
     TrackShipment, WritePaid, WritePacked, WriteShipped, WriteDelivered, WriteCancelled,
     WriteReturned, RecordDelivered, Fail, effects, carrier
<1>5. At(r, "request", "createShipment") /\ pc'[r] = "write" => shipments'[Of(r)] > 0
  <2> SUFFICES ASSUME At(r, "request", "createShipment"), pc'[r] = "write"
               PROVE  shipments'[Of(r)] > 0
    OBVIOUS
  <2>1. CreateShipment(r) /\ ~Close(r)
    BY SlotSteps DEF Step, SaveVideo, CreateShipment, TrackShipment, WritePaid, WritePacked,
       WriteShipped, WriteDelivered, WriteCancelled, WriteReturned, RecordDelivered, Fail,
       Write, At, Close, TypeOK
  <2>2. QED
    BY <2>1, <1>1, WorkingSlot, FulfillmentAssumption DEF CreateShipment, TypeOK
<1>6. QED
  BY <1>1, <1>2, <1>3, <1>4, <1>5, SlotSteps DEF Steps

\* Which rows a step moves out of its way, and into which status.
LEMMA StatusSteps ==
    ASSUME TypeOK, NEW r \in Slots, Step(r)
    PROVE  \/ UNCHANGED <<status, video, tracked>>
           \/ /\ pc[r] = "write" /\ Of(r) \in Orders
              /\ \A o \in Orders \ {Of(r)} : status'[o] = status[o]
              /\ \/ job[r].op \in {"verify", "accept"} /\ status'[Of(r)] = "PAID"
                    /\ UNCHANGED <<video, tracked>>
                 \/ job[r].op = "pack" /\ status'[Of(r)] = "PACKED" /\ video'[Of(r)]
                    /\ UNCHANGED tracked /\ \A o \in Orders \ {Of(r)} : video'[o] = video[o]
                 \/ job[r].op = "request" /\ status'[Of(r)] = "SHIPPED" /\ tracked'[Of(r)]
                    /\ UNCHANGED video /\ \A o \in Orders \ {Of(r)} : tracked'[o] = tracked[o]
                 \/ job[r].op = "ship" /\ status'[Of(r)] = "SHIPPED"
                    /\ UNCHANGED <<video, tracked>>
                 \/ job[r].op \in {"deliver", "poll"} /\ status'[Of(r)] = "DELIVERED"
                    /\ UNCHANGED <<video, tracked>>
                 \/ job[r].op = "cancel" /\ status'[Of(r)] = "CANCELLED"
                    /\ restored'[Of(r)] = restored[Of(r)] + 1 /\ UNCHANGED <<video, tracked>>
                 \/ job[r].op = "return" /\ status'[Of(r)] = "RETURNED"
                    /\ UNCHANGED <<video, tracked>>
<1>1. pc[r] # "idle"
  BY StepEffects
<1>2. Of(r) \in Orders
  BY <1>1, WorkingSlot
<1>3. QED
  BY <1>2 DEF TypeOK, Step, SaveVideo, CreateShipment, TrackShipment, WritePaid, WritePacked,
     WriteShipped, WriteDelivered, WriteCancelled, WriteReturned, RecordDelivered, Fail, Write,
     At, row

\* Live orders are packed with a video and shipped with a tracked shipment,
\* however many handlers of however many orders overlap.
THEOREM LiveOrdersShipWithProof == Spec => [](ProofSeen /\ ShippedWithProof)
<1> USE FulfillmentAssumption
<1> DEFINE Inv == TypeOK /\ ProofSeen /\ ShippedWithProof
<1>1. Init => ProofSeen /\ ShippedWithProof
  BY DEF Init, ProofSeen, ShippedWithProof
<1>2. Inv /\ [Next]_vars => ProofSeen' /\ ShippedWithProof'
  <2> SUFFICES ASSUME Inv, [Next]_vars PROVE ProofSeen' /\ ShippedWithProof'
    OBVIOUS
  <2>1. ASSUME NEW o \in Orders, PlaceOrder(o) \/ Arrive(o)
        PROVE  ProofSeen' /\ ShippedWithProof'
    BY <2>1 DEF ProofSeen, ShippedWithProof, TypeOK, PlaceOrder, Arrive, row, effects, carrier,
       slot, At, Of
  <2>2. ASSUME NEW r \in Slots, NEW o \in Orders, Request(r, o)
        PROVE  ProofSeen' /\ ShippedWithProof'
    <3>1. PICK op \in Handlers, at \in Steps :
             /\ Open(r, o, op, at)
             /\ UNCHANGED <<video, tracked, shipments>>
             /\ \/ op = "verify" /\ status' = [status EXCEPT ![o] = "PENDING"]
                \/ UNCHANGED status
             /\ op = "poll" => tracked[o]
             /\ op \in {"request", "deliver", "return"} => status[o] \in SeenBy[op]
             /\ op \in {"pack", "request"} => o \in LiveOrders
             /\ op = "ship" => o \notin LiveOrders
             /\ op = "request" => at = "createShipment"
      BY <2>2, RequestSteps DEF carrier
    <3>2. ShippedWithProof'
      BY <3>1 DEF ShippedWithProof, TypeOK
    <3>3. ProofSeen'
      <4>1. op = "request" => video[o]
        BY <3>1 DEF ShippedWithProof, SeenBy
      <4>2. op \in {"poll", "deliver", "return"} /\ o \in LiveOrders => tracked[o]
        BY <3>1 DEF ShippedWithProof, SeenBy
      <4>3. /\ pc'[r] = at /\ job'[r].op = op /\ job'[r].order = o
            /\ \A q \in Slots \ {r} : pc'[q] = pc[q] /\ job'[q] = job[q]
        <5>1. /\ pc'[r] = at /\ job'[r] = [op |-> op, order |-> o]
              /\ \A q \in Slots \ {r} : pc'[q] = pc[q] /\ job'[q] = job[q]
          BY <3>1, OpenStep
        <5>2. QED
          BY <5>1
      <4>4. QED
        BY <3>1, <4>1, <4>2, <4>3 DEF ProofSeen, At, Of
    <3>4. QED
      BY <3>2, <3>3
  <2>3. ASSUME NEW r \in Slots, Step(r)
        PROVE  ProofSeen' /\ ShippedWithProof'
    <3>1. pc[r] # "idle" /\ Of(r) \in Orders /\ job[r].op \in Handlers
      BY <2>3, StepEffects, WorkingSlot
    <3>2. ShippedWithProof'
      BY <2>3, <3>1, StepEffects, StatusSteps DEF ShippedWithProof, ProofSeen, At
    <3>3. \A o \in Orders : tracked'[o] => o \in LiveOrders /\ video'[o] /\ shipments'[o] > 0
      BY <2>3, <3>1, StepEffects, StatusSteps DEF ProofSeen, At
    <3>4. ASSUME NEW q \in Slots, pc'[q] # "idle"
          PROVE  /\ job'[q].op \in {"pack", "request"} => job'[q].order \in LiveOrders
                 /\ job'[q].op = "ship" => job'[q].order \notin LiveOrders
                 /\ job'[q].op = "request" => video'[job'[q].order]
                 /\ (pc'[q] = "write" /\ job'[q].op = "request") => shipments'[job'[q].order] > 0
                 /\ (job'[q].op \in {"poll", "deliver", "return"} /\ job'[q].order \in LiveOrders)
                       => tracked'[job'[q].order]
      <4>1. job'[q] = job[q] /\ pc[q] # "idle" /\ Of(q) \in Orders
        BY <2>3, <3>4, StepEffects, WorkingSlot
      <4>2. (pc'[q] = "write" /\ job[q].op = "request") => shipments'[Of(q)] > 0
        <5>1. CASE pc[q] = "write"
          BY <2>3, <4>1, <5>1, StepEffects DEF ProofSeen, At
        <5>2. CASE pc[q] # "write" /\ pc'[q] = "write" /\ job[q].op = "request"
          <6>1. q = r
            BY <2>3, <5>2, StepEffects
          <6>2. At(r, "request", "createShipment")
            BY <2>3, <5>2, <6>1, SlotSteps, <3>1 DEF Step, SaveVideo, CreateShipment,
               TrackShipment, WritePaid, WritePacked, WriteShipped, WriteDelivered,
               WriteCancelled, WriteReturned, RecordDelivered, Fail, Write, At, Steps
          <6>3. QED
            BY <2>3, <5>2, <6>1, <6>2, StepEffects
        <5>3. QED
          BY <5>1, <5>2
      <4>3. QED
        BY <2>3, <4>1, <4>2, StepEffects DEF ProofSeen, Of
    <3>5. QED
      BY <3>2, <3>3, <3>4 DEF ProofSeen, At, Of
  <2>4. CASE UNCHANGED vars
    BY <2>4 DEF vars, ProofSeen, ShippedWithProof, At, Of
  <2>5. QED
    BY <2>1, <2>2, <2>3, <2>4 DEF Next
<1>3. QED
  BY <1>1, <1>2, FulfillmentTyped, PTL DEF Spec

\* A cancelled order has given its unit back, however its handlers overlap.
THEOREM CancellingRestocks == Spec => []CancelledRestocked
<1> USE FulfillmentAssumption
<1>1. Init => CancelledRestocked
  BY DEF Init, CancelledRestocked
<1>2. TypeOK /\ CancelledRestocked /\ [Next]_vars => CancelledRestocked'
  <2> SUFFICES ASSUME TypeOK, CancelledRestocked, [Next]_vars PROVE CancelledRestocked'
    OBVIOUS
  <2>1. ASSUME NEW o \in Orders, PlaceOrder(o) \/ Arrive(o)
        PROVE  CancelledRestocked'
    BY <2>1 DEF CancelledRestocked, TypeOK, PlaceOrder, Arrive, row, effects
  <2>2. ASSUME NEW r \in Slots, NEW o \in Orders, Request(r, o)
        PROVE  CancelledRestocked'
    BY <2>2, RequestSteps DEF CancelledRestocked, TypeOK, effects
  <2>3. ASSUME NEW r \in Slots, Step(r)
        PROVE  CancelledRestocked'
    BY <2>3, StepEffects, StatusSteps DEF CancelledRestocked, TypeOK
  <2>4. CASE UNCHANGED vars
    BY <2>4 DEF vars, CancelledRestocked
  <2>5. QED
    BY <2>1, <2>2, <2>3, <2>4 DEF Next
<1>3. QED
  BY <1>1, <1>2, FulfillmentTyped, PTL DEF Spec

-----------------------------------------------------------------------------
\* Which steps count, and what a handler that has written goes on to.
LEMMA CounterSteps ==
    ASSUME TypeOK, NEW r \in Slots, Step(r)
    PROVE  /\ \/ restored' = restored /\ (status' = status \/ status'[Of(r)] # "CANCELLED")
              \/ /\ pc[r] = "write" /\ job[r].op = "cancel" /\ status'[Of(r)] = "CANCELLED"
                 /\ \A o \in Orders \ {Of(r)} : restored'[o] = restored[o]
                 /\ restored'[Of(r)] = restored[Of(r)] + 1
           /\ \/ counted' = counted
              \/ /\ pc[r] = "recordDelivered" /\ job[r].op = "deliver" /\ pc'[r] = "idle"
                 /\ \A o \in Orders \ {Of(r)} : counted'[o] = counted[o]
                 /\ counted'[Of(r)] = counted[Of(r)] + 1
           /\ pc[r] = "write" => \/ pc'[r] = "idle"
                                 \/ pc'[r] = "recordDelivered" /\ status'[Of(r)] = "DELIVERED"
           /\ pc[r] = "recordDelivered" => pc'[r] = "idle"
           /\ pc'[r] = "recordDelivered" => pc[r] = "write" /\ UNCHANGED <<restored, counted>>
<1>1. pc[r] # "idle" /\ Of(r) \in Orders
  BY StepEffects, WorkingSlot
<1>2. CASE WriteCancelled(r)
  <2>1. pc[r] = "write" /\ job[r].op = "cancel" /\ pc'[r] = "idle" /\ counted' = counted
    BY <1>1, <1>2, SlotSteps DEF WriteCancelled, Write, At
  <2>2. status'[Of(r)] = "CANCELLED"
    BY <1>1, <1>2 DEF WriteCancelled, Write, TypeOK
  <2>3. /\ \A o \in Orders \ {Of(r)} : restored'[o] = restored[o]
        /\ restored'[Of(r)] = restored[Of(r)] + 1
    BY <1>1, <1>2 DEF WriteCancelled, TypeOK
  <2>4. QED
    BY <2>1, <2>2, <2>3
<1>3. CASE RecordDelivered(r)
  <2>1. /\ pc[r] = "recordDelivered" /\ job[r].op = "deliver" /\ pc'[r] = "idle"
        /\ restored' = restored /\ status' = status
    BY <1>1, <1>3, SlotSteps DEF RecordDelivered, At, row
  <2>2. /\ \A o \in Orders \ {Of(r)} : counted'[o] = counted[o]
        /\ counted'[Of(r)] = counted[Of(r)] + 1
    BY <1>1, <1>3 DEF RecordDelivered, TypeOK
  <2>3. QED
    BY <2>1, <2>2
<1>4. CASE WriteDelivered(r)
  <2>1. restored' = restored /\ counted' = counted /\ pc[r] = "write"
        /\ (Goto(r, "recordDelivered") \/ Close(r)) /\ job[r].op # "cancel"
    BY <1>4 DEF WriteDelivered, Write, At, effects
  <2>2. status'[Of(r)] = "DELIVERED"
    BY <1>1, <1>4 DEF WriteDelivered, Write, TypeOK
  <2>3. QED
    BY <1>1, <2>1, <2>2, SlotSteps DEF Steps
<1>5. CASE SaveVideo(r) \/ CreateShipment(r) \/ TrackShipment(r)
  <2>1. restored' = restored /\ counted' = counted /\ pc[r] \notin {"write", "recordDelivered"}
        /\ (Goto(r, "write") \/ Close(r)) /\ status' = status
    BY <1>5 DEF SaveVideo, CreateShipment, TrackShipment, At, effects, row
  <2>2. QED
    BY <1>1, <2>1, SlotSteps DEF Steps
<1>6. CASE WritePaid(r) \/ WritePacked(r) \/ WriteShipped(r) \/ WriteReturned(r)
  <2>1. restored' = restored /\ counted' = counted /\ Close(r)
    BY <1>6 DEF WritePaid, WritePacked, WriteShipped, WriteReturned, effects
  <2>2. status'[Of(r)] # "CANCELLED"
    BY <1>1, <1>6 DEF WritePaid, WritePacked, WriteShipped, WriteReturned, Write, TypeOK
  <2>3. QED
    BY <1>1, <2>1, <2>2, SlotSteps DEF Steps
<1>7. CASE Fail(r)
  <2>1. restored' = restored /\ counted' = counted /\ Close(r) /\ status' = status
    BY <1>7 DEF Fail, row
  <2>2. QED
    BY <1>1, <2>1, SlotSteps DEF Steps
<1>8. QED
  BY <1>2, <1>3, <1>4, <1>5, <1>6, <1>7 DEF Step

\* With one handler per order the order a handler writes is as it was read.
LEMMA SerialKept ==
    ASSUME Serial, TypeOK, SerialOK, [Next]_vars
    PROVE  SerialOK'
<1> DEFINE Apart == \A q, r \in Slots :
                       (q # r /\ pc[q] # "idle" /\ pc[r] # "idle") => job[q].order # job[r].order
           Fresh(r) == pc[r] # "idle" =>
                          /\ pc[r] # "recordDelivered" => status[job[r].order] \in SeenBy[job[r].op]
                          /\ pc[r] = "recordDelivered" => status[job[r].order] = "DELIVERED"
                          /\ job[r].op = "deliver" => counted[job[r].order] = 0
           Tally(o) == /\ restored[o] = IF status[o] = "CANCELLED" THEN 1 ELSE 0
                       /\ tracked[o] => status[o] \in SeenBy["poll"]
                       /\ counted[o] > 0 =>
                             counted[o] = 1 /\ status[o] \in {"DELIVERED", "RETURNED"}
<1>0. SerialOK <=> Apart /\ (\A r \in Slots : Fresh(r)) /\ (\A o \in Orders : Tally(o))
  BY DEF SerialOK, Of
<1>a. SerialOK' <=> Apart' /\ (\A r \in Slots : Fresh(r)') /\ (\A o \in Orders : Tally(o)')
  BY DEF SerialOK, Of
<1>1. ASSUME NEW o \in Orders, PlaceOrder(o)
      PROVE  SerialOK'
  <2>1. Apart' /\ \A q \in Slots : pc'[q] # "idle" => job'[q].order \in Orders
    BY <1>0, <1>1 DEF PlaceOrder, slot, TypeOK, Job
  <2>2. \A q \in Orders : Tally(q)'
    BY <1>0, <1>1 DEF PlaceOrder, TypeOK, effects, SeenBy
  <2>3. ASSUME NEW q \in Slots
        PROVE  Fresh(q)'
    <3>1. pc[q] # "idle" => job[q].op \in Handlers /\ job[q].order \in Orders
      BY DEF TypeOK, Job
    <3>2. pc[q] # "idle" => job[q].order # o
      BY <1>0, <1>1, <3>1 DEF PlaceOrder, SeenBy, Handlers
    <3>3. QED
      BY <1>0, <1>1, <3>1, <3>2 DEF PlaceOrder, TypeOK, slot, effects
  <2>4. QED
    BY <1>a, <2>1, <2>2, <2>3
<1>2. ASSUME NEW o \in Orders, Arrive(o)
      PROVE  SerialOK'
  BY <1>2 DEF Arrive, SerialOK, Of, row, effects, slot
<1>3. ASSUME NEW r \in Slots, NEW o \in Orders, Request(r, o)
      PROVE  SerialOK'
  <2>1. PICK op \in Handlers, at \in Steps :
           /\ Open(r, o, op, at) /\ at # "recordDelivered"
           /\ UNCHANGED <<tracked, restored, counted>>
           /\ \/ op = "verify" /\ status[o] = "NONE" /\ status' = [status EXCEPT ![o] = "PENDING"]
              \/ /\ op # "verify" /\ UNCHANGED status
                 /\ op = "poll" => tracked[o]
                 /\ op # "poll" => status[o] \in SeenBy[op]
    BY <1>3, RequestSteps DEF effects
  <2>2. /\ pc'[r] = at /\ job'[r] = [op |-> op, order |-> o]
        /\ \A q \in Slots \ {r} : pc'[q] = pc[q] /\ job'[q] = job[q]
        /\ \A q \in Slots : pc[q] # "idle" => job[q].order # o
    BY <2>1, OpenStep DEF Of
  <2>3. job'[r].op = op /\ job'[r].order = o
    BY <2>2
  <2>4. Apart'
    BY <1>0, <2>2, <2>3
  <2>5. \A q \in Orders : Tally(q)'
    BY <1>0, <2>1 DEF TypeOK, SeenBy
  <2>6. ASSUME NEW q \in Slots
        PROVE  Fresh(q)'
    <3>1. CASE q = r
      <4>1. status'[o] \in SeenBy[op]
        BY <1>0, <2>1 DEF SeenBy, TypeOK
      <4>2. op = "deliver" => counted[o] = 0
        BY <1>0, <2>1 DEF SeenBy, TypeOK
      <4>3. QED
        BY <2>1, <2>2, <2>3, <3>1, <4>1, <4>2
    <3>2. CASE q # r
      BY <1>0, <2>1, <2>2, <3>2 DEF TypeOK, Job
    <3>3. QED
      BY <3>1, <3>2
  <2>7. QED
    BY <1>a, <2>4, <2>5, <2>6
<1>4. ASSUME NEW r \in Slots, Step(r)
      PROVE  SerialOK'
  <2>0. PICK o : o = job[r].order
    OBVIOUS
  <2>1. pc[r] # "idle" /\ o \in Orders /\ job[r].op \in Handlers
    BY <1>4, <2>0, StepEffects, WorkingSlot DEF Of
  <2>2. Apart'
    BY <1>0, <1>4, StepEffects
  <2>3. \A q \in Slots \ {r} : pc[q] # "idle" => job[q].order # o /\ job[q].order \in Orders
    BY <1>0, <2>0, <2>1, WorkingSlot DEF Of
  <2>4. \A q \in Orders \ {o} : /\ status'[q] = status[q] /\ restored'[q] = restored[q]
                                /\ counted'[q] = counted[q] /\ tracked'[q] = tracked[q]
    BY <1>4, <2>0, StatusSteps, CounterSteps DEF Of, TypeOK
  <2>5. Tally(o)'
    <3>1. Tally(o) /\ Fresh(r)
      BY <1>0, <2>0, <2>1
    <3>2. restored'[o] = IF status'[o] = "CANCELLED" THEN 1 ELSE 0
      BY <1>4, <2>0, <2>1, <3>1, StatusSteps, CounterSteps DEF Of, TypeOK, SeenBy
    <3>3. tracked'[o] => status'[o] \in SeenBy["poll"]
      BY <1>4, <2>0, <2>1, <3>1, StatusSteps DEF Of, TypeOK, SeenBy
    <3>4. counted'[o] > 0 => counted'[o] = 1 /\ status'[o] \in {"DELIVERED", "RETURNED"}
      BY <1>4, <2>0, <2>1, <3>1, StatusSteps, CounterSteps DEF Of, TypeOK, SeenBy
    <3>5. QED
      BY <3>2, <3>3, <3>4
  <2>6. ASSUME NEW q \in Slots
        PROVE  Fresh(q)'
    <3>1. CASE q # r
      BY <1>0, <1>4, <2>0, <2>3, <2>4, <3>1, StepEffects
    <3>2. CASE q = r /\ pc[r] = "write"
      BY <1>0, <1>4, <2>0, <2>1, <3>2, StepEffects, CounterSteps DEF Of
    <3>3. CASE q = r /\ pc[r] # "write"
      BY <1>0, <1>4, <2>0, <2>1, <3>3, StepEffects, StatusSteps, CounterSteps DEF Of
    <3>4. QED
      BY <3>1, <3>2, <3>3
  <2>7. QED
    BY <1>a, <1>0, <2>1, <2>2, <2>4, <2>5, <2>6
<1>5. CASE UNCHANGED vars
  BY <1>5 DEF vars, SerialOK, Of
<1>6. QED
  BY <1>1, <1>2, <1>3, <1>4, <1>5 DEF Next

\* One handler at a time per order: a delivery is counted once, in the rating
\* of the buyer it reached.
THEOREM SerialCounting ==
    ASSUME Serial
    PROVE  Spec => [](SerialOK /\ CountedWhenDelivered)
<1>1. Init => SerialOK
  BY DEF Init, SerialOK
<1>2. TypeOK /\ SerialOK /\ [Next]_vars => SerialOK'
  BY SerialKept
<1>3. SerialOK => CountedWhenDelivered
  BY DEF SerialOK, CountedWhenDelivered
<1>4. QED
  BY <1>1, <1>2, <1>3, FulfillmentTyped, PTL DEF Spec

\* One handler at a time per order: the goods follow the documented lifecycle
\* and stock goes back exactly once, with the cancellation.
THEOREM SerialLifecycle ==
    ASSUME Serial
    PROVE  Spec => FollowsLifecycle
<1> DEFINE next == [Goods!Next]_<<stageBar, unitsBar>>
<1> USE FulfillmentAssumption
<1>1. Init => Goods!Init
  BY DEF Init, Goods!Init, stageBar, unitsBar
<1>2. TypeOK /\ SerialOK /\ SerialOK' /\ [Next]_vars => next
  <2> SUFFICES ASSUME TypeOK, SerialOK, SerialOK', [Next]_vars PROVE next
    OBVIOUS
  <2>0. ASSUME UNCHANGED status PROVE next
    BY <2>0 DEF stageBar, unitsBar, SerialOK
  <2>1. ASSUME NEW o \in Orders, PlaceOrder(o) \/ Arrive(o)
        PROVE  next
    <3>1. CASE Arrive(o)
      BY <2>0, <3>1 DEF Arrive, row
    <3>2. CASE PlaceOrder(o)
      <4>1. stageBar[o] = "NONE" /\ stageBar' = [stageBar EXCEPT ![o] = "PENDING"]
        BY <3>2 DEF PlaceOrder, stageBar, TypeOK
      <4>2. UNCHANGED unitsBar
        BY <3>2 DEF PlaceOrder, unitsBar, effects
      <4>3. QED
        <5>1. "PENDING" \in Goods!Successors[stageBar[o]]
          BY <4>1 DEF Goods!Successors
        <5>2. Goods!Move(o)
          BY <4>1, <4>2, <5>1 DEF Goods!Move
        <5>3. QED
          BY <5>2 DEF Goods!Next
    <3>3. QED
      BY <2>1, <3>1, <3>2
  <2>2. ASSUME NEW r \in Slots, NEW o \in Orders, Request(r, o)
        PROVE  next
    <3>1. CASE status[o] = "NONE" /\ status' = [status EXCEPT ![o] = "PENDING"]
      <4>1. stageBar[o] = "NONE" /\ stageBar' = [stageBar EXCEPT ![o] = "PENDING"]
        BY <3>1 DEF stageBar, TypeOK
      <4>2. UNCHANGED unitsBar
        BY <2>2, RequestSteps DEF unitsBar, effects
      <4>3. QED
        <5>1. "PENDING" \in Goods!Successors[stageBar[o]]
          BY <4>1 DEF Goods!Successors
        <5>2. Goods!Move(o)
          BY <4>1, <4>2, <5>1 DEF Goods!Move
        <5>3. QED
          BY <5>2 DEF Goods!Next
    <3>2. QED
      BY <2>0, <2>2, <3>1, RequestSteps
  <2>3. ASSUME NEW r \in Slots, Step(r)
        PROVE  next
    <3>0. PICK o : o = Of(r)
      OBVIOUS
    <3>1. CASE UNCHANGED status
      BY <2>0, <3>1
    <3>2. CASE ~ UNCHANGED status
      <4>1. o \in Orders /\ \A q \in Orders \ {o} : status'[q] = status[q]
        BY <2>3, <3>0, <3>2, StatusSteps
      <4>2. /\ stageBar' = [stageBar EXCEPT ![o] = stageBar'[o]]
            /\ \A q \in Orders \ {o} : unitsBar'[q] = unitsBar[q]
        <5>1. \A q \in Orders \ {o} : stageBar'[q] = stageBar[q]
          BY <4>1 DEF stageBar
        <5>2. stageBar' = [stageBar EXCEPT ![o] = stageBar'[o]]
          BY <5>1 DEF stageBar
        <5>3. \A q \in Orders \ {o} : restored'[q] = restored[q]
          BY <4>1 DEF SerialOK
        <5>4. \A q \in Orders \ {o} : unitsBar'[q] = unitsBar[q]
          BY <5>3 DEF unitsBar
        <5>5. QED
          BY <5>2, <5>4
      <4>3. pc[r] = "write" /\ status[o] \in SeenBy[job[r].op]
        BY <2>3, <3>0, <3>2, StatusSteps DEF SerialOK
      <4>4. CASE job[r].op = "cancel" /\ status'[o] = "CANCELLED"
        <5>1. status[o] \in {"PENDING", "PAID", "PACKED"}
          BY <4>3, <4>4 DEF SeenBy
        <5>2. stageBar[o] = status[o] /\ stageBar'[o] = "CANCELLED"
          BY <4>1, <4>4, <5>1 DEF stageBar
        <5>3. unitsBar' = [unitsBar EXCEPT ![o] = 0]
          <6>1. restored'[o] = 1
            BY <4>1, <4>4 DEF SerialOK
          <6>2. unitsBar'[o] = 0
            BY <4>1, <6>1 DEF unitsBar
          <6>3. QED
            BY <4>1, <4>2, <6>2 DEF unitsBar
        <5>4. QED
          BY <4>1, <4>2, <5>1, <5>2, <5>3 DEF Goods!Next, Goods!Cancel, Goods!Cancellable
      <4>5. CASE status'[o] # "CANCELLED"
        <5>1. status[o] # "CANCELLED"
          <6>1. job[r].op \in Handlers
            BY <2>3, StepEffects, WorkingSlot
          <6>2. QED
            BY <4>3, <6>1 DEF SeenBy, Handlers
        <5>2. UNCHANGED unitsBar
          <6>1. unitsBar'[o] = unitsBar[o]
            BY <4>1, <4>5, <5>1 DEF unitsBar, SerialOK
          <6>2. QED
            BY <4>2, <6>1 DEF unitsBar
        <5>3. stageBar'[o] = stageBar[o] \/ stageBar'[o] \in Goods!Successors[stageBar[o]]
          <6>1. /\ stageBar[o] = IF status[o] = "RETURNED" THEN "DELIVERED" ELSE status[o]
                /\ stageBar'[o] = IF status'[o] = "RETURNED" THEN "DELIVERED" ELSE status'[o]
            BY <4>1 DEF stageBar
          <6>2. \/ job[r].op \in {"verify", "accept"} /\ status'[o] = "PAID"
                \/ job[r].op = "pack" /\ status'[o] = "PACKED"
                \/ job[r].op \in {"request", "ship"} /\ status'[o] = "SHIPPED"
                \/ job[r].op \in {"deliver", "poll"} /\ status'[o] = "DELIVERED"
                \/ job[r].op = "return" /\ status'[o] = "RETURNED"
            BY <2>3, <3>0, <3>2, <4>5, StatusSteps
          <6>3. \/ status[o] = "PENDING" /\ status'[o] = "PAID"
                \/ status[o] = "PAID" /\ status'[o] = "PACKED"
                \/ status[o] \in {"PAID", "PACKED"} /\ status'[o] = "SHIPPED"
                \/ status[o] \in {"SHIPPED", "DELIVERED", "RETURNED"} /\ status'[o] = "DELIVERED"
                \/ status[o] = "DELIVERED" /\ status'[o] = "RETURNED"
            BY <4>3, <6>2 DEF SeenBy
          <6>4. QED
            BY <6>1, <6>3 DEF Goods!Successors
        <5>4. CASE stageBar'[o] = stageBar[o]
          BY <4>1, <4>2, <5>2, <5>4 DEF stageBar
        <5>5. CASE stageBar'[o] \in Goods!Successors[stageBar[o]]
          BY <4>1, <4>2, <5>2, <5>5 DEF Goods!Next, Goods!Move
        <5>6. QED
          BY <5>3, <5>4, <5>5
      <4>6. QED
        BY <2>3, <3>0, <3>2, <4>4, <4>5, StatusSteps
    <3>3. QED
      BY <3>1, <3>2
  <2>4. CASE UNCHANGED vars
    BY <2>0, <2>4 DEF vars
  <2>5. QED
    BY <2>1, <2>2, <2>3, <2>4 DEF Next
<1>3. QED
  BY <1>1, <1>2, FulfillmentTyped, SerialCounting, PTL DEF Spec, FollowsLifecycle, Goods!Spec

-----------------------------------------------------------------------------
(***************************************************************************)
(* What the apps show (OrderViews).                                        *)
(***************************************************************************)
\* What the seller of a live order is offered next is never refused, however many
\* handlers overlap: the tracking id is on the row of every shipped order.
THEOREM SellersAreOfferedWhatIsAccepted == Spec => []OfferedIsAccepted
<1>1. TypeOK /\ ShippedWithProof => OfferedIsAccepted
  BY DEF OfferedIsAccepted, ShippedWithProof, NextAction, Accepts
<1>2. QED
  BY <1>1, FulfillmentTyped, LiveOrdersShipWithProof, PTL

\* An order that waits for the seller has not been filmed.
Filmed == \A o \in Orders : video[o] => status[o] \notin {"NONE", "PENDING"}

LEMMA FilmedAfterPayment == Spec => []Filmed
<1>1. Init => Filmed
  BY DEF Init, Filmed
<1>2. TypeOK /\ Filmed /\ [Next]_vars => Filmed'
  <2> SUFFICES ASSUME TypeOK, Filmed, [Next]_vars PROVE Filmed'
    OBVIOUS
  <2>1. ASSUME NEW o \in Orders, PlaceOrder(o) \/ Arrive(o)
        PROVE  Filmed'
    BY <2>1 DEF Filmed, TypeOK, PlaceOrder, Arrive, row
  <2>2. ASSUME NEW r \in Slots, NEW o \in Orders, Request(r, o)
        PROVE  Filmed'
    BY <2>2, RequestSteps DEF Filmed, TypeOK
  <2>3. ASSUME NEW r \in Slots, Step(r)
        PROVE  Filmed'
    BY <2>3, StatusSteps DEF Filmed
  <2>4. CASE UNCHANGED vars
    BY <2>4 DEF vars, Filmed
  <2>5. QED
    BY <2>1, <2>2, <2>3, <2>4 DEF Next
<1>3. QED
  BY <1>1, <1>2, FulfillmentTyped, PTL DEF Spec

\* One handler at a time per order: no timeline of the two apps shows a step as done
\* after one that is not.
THEOREM SerialTimelines ==
    ASSUME Serial
    PROVE  Spec => []StepsInOrder
<1>1. ASSUME TypeOK, SerialOK, Filmed
      PROVE  StepsInOrder
  <2>1. SUFFICES ASSUME NEW o \in Orders, status[o] \notin {"NONE", "CANCELLED", "RETURNED"}
                 PROVE  InOrder(SellerSteps, SellerDone(o)) /\ InOrder(BuyerSteps, BuyerDone(o))
    BY DEF StepsInOrder
  <2>2. /\ tracked[o] => status[o] \in Late
        /\ video[o] => status[o] # "PENDING"
    BY <1>1, <2>1 DEF SerialOK, Filmed, SeenBy, Late
  <2>3. InOrder(SellerSteps, SellerDone(o))
    <3> DEFINE d == SellerDone(o)
    <3>1. d["pack_video"] => d["received"]
      BY <2>1, <2>2 DEF SellerDone, Late
    <3>2. d["packed"] => d["pack_video"]
      BY DEF SellerDone
    <3>3. d["delhivery"] => d["packed"]
      BY <2>2 DEF SellerDone
    <3>4. d["in_transit"] => d["delhivery"]
      BY DEF SellerDone
    <3>5. d["delivered"] => d["in_transit"]
      BY DEF SellerDone, Late
    <3> HIDE DEF d
    <3>6. QED
      BY <3>1, <3>2, <3>3, <3>4, <3>5 DEF InOrder, SellerSteps, d
  <2>4. InOrder(BuyerSteps, BuyerDone(o))
    <3> DEFINE d == BuyerDone(o)
    <3>1. /\ d["confirmed"] => d["placed"]
          /\ d["packed"] => d["confirmed"]
          /\ d["shipped"] => d["packed"]
          /\ d["delivered"] => d["shipped"]
      BY <2>2 DEF BuyerDone, Late
    <3> HIDE DEF d
    <3>2. QED
      BY <3>1 DEF InOrder, BuyerSteps, d
  <2>5. QED
    BY <2>3, <2>4
<1>2. QED
  BY <1>1, FulfillmentTyped, SerialCounting, FilmedAfterPayment, PTL

-----------------------------------------------------------------------------
\* A behaviour stays with its part, and each step is one of the part's own.
LEMMA PartStays ==
    ASSUME [PartNext]_<<vars, store>>
    PROVE  part' = part
BY DEF PartNext, store

LEMMA AlertsStart ==
    ASSUME PartInit, part = "alerts"
    PROVE  Alert!Init
BY DEF PartInit

LEMMA AlertsStep ==
    ASSUME [PartNext]_<<vars, store>>, part = "alerts"
    PROVE  [Alert!Next]_Alert!vars
BY DEF PartNext, vars, store, Alert!vars, Alert!history, Alert!slot

-----------------------------------------------------------------------------
(***************************************************************************)
(* Reminders and broadcasts.                                               *)
(***************************************************************************)
\* Where a step leaves the slots.
LEMMA AlertSlots ==
    ASSUME Alert!TypeOK, NEW r \in Slots, NEW at, NEW j, Alert!Keep(r, at, j)
    PROVE  /\ step'[r] = at /\ task'[r] = j
           /\ \A q \in Slots \ {r} : step'[q] = step[q] /\ task'[q] = task[q]
           /\ at \in {"idle", "next", "host", "audience", "batch", "mark"} =>
                 step' \in [Slots -> {"idle", "next", "host", "audience", "batch", "mark"}]
           /\ j \in Alert!RunJob \cup Alert!TellJob \cup {Alert!Free} =>
                 task' \in [Slots -> Alert!RunJob \cup Alert!TellJob \cup {Alert!Free}]
BY DEF Alert!TypeOK, Alert!Keep

\* The places and the locals of one slot fit each other.
AlertSlotOK(r) ==
    /\ step[r] = "idle" => task[r] = Alert!Free
    /\ step[r] = "next" => task[r] \in Alert!RunJob
    /\ step[r] \notin {"idle", "next"} =>
          task[r] \in Alert!TellJob /\ (step[r] = "batch" <=> task[r].left # {})
    /\ step[r] \in {"host", "mark"} => task[r].op = "run"

\* What a run and a broadcast hold.
LEMMA AlertJobs ==
    ASSUME Alert!TypeOK
    PROVE  /\ \A j \in Alert!RunJob :
                 /\ j.op = "run" /\ j.due \subseteq Announced /\ j.on \in 0..LastMinute
                 /\ j = [op |-> "run", due |-> j.due, on |-> j.on]
           /\ \A j \in Alert!TellJob :
                 /\ j.op \in {"run", "broadcast"} /\ j.due \subseteq Announced
                 /\ j.stream \in Announced /\ j.left \subseteq Tokens /\ j.on \in 0..LastMinute
                 /\ \A left \in SUBSET Tokens :
                       LET k == [j EXCEPT !.left = left] IN
                       /\ k \in Alert!TellJob /\ k.left = left
                       /\ k.op = j.op /\ k.due = j.due /\ k.stream = j.stream /\ k.on = j.on
           /\ Alert!Free \notin Alert!RunJob \cup Alert!TellJob
           /\ Alert!RunJob \cap Alert!TellJob = {}
           /\ \A due \in SUBSET Announced, on \in 0..LastMinute :
                 [op |-> "run", due |-> due, on |-> on] \in Alert!RunJob
           /\ \A op \in {"run", "broadcast"}, due \in SUBSET Announced, s \in Announced,
                 left \in SUBSET Tokens, on \in 0..LastMinute :
                 [op |-> op, due |-> due, stream |-> s, left |-> left, on |-> on] \in Alert!TellJob
<1>1. ASSUME NEW j \in Alert!RunJob
      PROVE  /\ j.op = "run" /\ j.due \subseteq Announced /\ j.on \in 0..LastMinute
             /\ j = [op |-> "run", due |-> j.due, on |-> j.on]
  BY <1>1 DEF Alert!RunJob
<1>2. ASSUME NEW j \in Alert!TellJob
      PROVE  /\ j.op \in {"run", "broadcast"} /\ j.due \subseteq Announced
             /\ j.stream \in Announced /\ j.left \subseteq Tokens /\ j.on \in 0..LastMinute
             /\ \A left \in SUBSET Tokens :
                   LET k == [j EXCEPT !.left = left] IN
                   /\ k \in Alert!TellJob /\ k.left = left
                   /\ k.op = j.op /\ k.due = j.due /\ k.stream = j.stream /\ k.on = j.on
  BY <1>2 DEF Alert!TellJob
<1>3. Alert!Free \notin Alert!RunJob \cup Alert!TellJob
  BY DEF Alert!Free, Alert!RunJob, Alert!TellJob
<1>4. Alert!RunJob \cap Alert!TellJob = {}
  <2>1. SUFFICES ASSUME NEW j, j \in Alert!RunJob, j \in Alert!TellJob PROVE FALSE
    OBVIOUS
  <2>2. "stream" \in DOMAIN j
    BY <2>1 DEF Alert!TellJob
  <2>3. "stream" \notin DOMAIN j
    BY <2>1 DEF Alert!RunJob
  <2>. QED BY <2>2, <2>3
<1>5. \A due \in SUBSET Announced, on \in 0..LastMinute :
          [op |-> "run", due |-> due, on |-> on] \in Alert!RunJob
  BY DEF Alert!RunJob
<1>6. \A op \in {"run", "broadcast"}, due \in SUBSET Announced, s \in Announced,
         left \in SUBSET Tokens, on \in 0..LastMinute :
          [op |-> op, due |-> due, stream |-> s, left |-> left, on |-> on] \in Alert!TellJob
  BY DEF Alert!TellJob
<1>. QED
  BY <1>1, <1>2, <1>3, <1>4, <1>5, <1>6

\* A stream as the alerts see it.
AlertRow == [state : Alert!States, at : 0..LastMinute, sentAt : 0..Alert!NoTime,
             setAt : 0..LastMinute]

\* Which place a step of slot r leaves it at, and what of the tables it may change.
LEMMA AlertTyped ==
    ASSUME Alert!TypeOK, [Alert!Next]_Alert!vars
    PROVE  Alert!TypeOK'
<1> USE AlertConstants DEF Alert!AlertsAssumption, Alert!States, Alert!NoTime, Alert!history, Alert!slot,
                          AlertRow
<1>1. ASSUME NEW r \in Slots, NEW at \in {"idle", "next", "host", "audience", "batch", "mark"},
             NEW j, Alert!Keep(r, at, j),
             at = "idle" => j = Alert!Free,
             at = "next" => j \in Alert!RunJob,
             at \notin {"idle", "next"} => j \in Alert!TellJob /\ (at = "batch" <=> j.left # {}),
             at \in {"host", "mark"} => j.op = "run"
      PROVE  /\ step' \in [Slots -> {"idle", "next", "host", "audience", "batch", "mark"}]
             /\ task' \in [Slots -> Alert!RunJob \cup Alert!TellJob \cup {Alert!Free}]
             /\ \A q \in Slots : AlertSlotOK(q)'
  <2>1. /\ step'[r] = at /\ task'[r] = j
        /\ \A q \in Slots \ {r} : step'[q] = step[q] /\ task'[q] = task[q]
        /\ step' \in [Slots -> {"idle", "next", "host", "audience", "batch", "mark"}]
        /\ task' \in [Slots -> Alert!RunJob \cup Alert!TellJob \cup {Alert!Free}]
    BY <1>1, AlertSlots
  <2>2. AlertSlotOK(r)'
    BY <1>1, <2>1 DEF AlertSlotOK
  <2>3. ASSUME NEW q \in Slots \ {r} PROVE AlertSlotOK(q)'
    BY <2>1 DEF AlertSlotOK, Alert!TypeOK
  <2>. QED
    BY <2>1, <2>2, <2>3
<1>2. CASE Alert!Tick
  BY <1>2 DEF Alert!Tick, Alert!TypeOK
<1>3. ASSUME NEW u \in People, NEW t \in Tokens, Alert!RegisterPushDevice(u, t)
      PROVE  Alert!TypeOK'
  BY <1>3 DEF Alert!RegisterPushDevice, Alert!TypeOK
<1>4. ASSUME NEW s \in Announced, NEW at \in 0..LastMinute, Alert!Reschedule(s, at)
      PROVE  Alert!TypeOK'
  <2>1. t3[s] \in AlertRow /\ t1 \in 0..LastMinute
    BY DEF Alert!TypeOK
  <2>2. [t3[s] EXCEPT !.at = at, !.setAt = t1] \in AlertRow
    BY <2>1
  <2>3. t3' \in [Announced -> AlertRow]
    BY <1>4, <2>2 DEF Alert!Reschedule, Alert!TypeOK
  <2>4. t8' \in 0..MaxMoves
    BY <1>4 DEF Alert!Reschedule, Alert!TypeOK
  <2>. QED
    BY <1>4, <2>3, <2>4 DEF Alert!Reschedule, Alert!TypeOK
<1>5. ASSUME NEW r \in Slots, NEW s \in Announced, Alert!Broadcast(r, s)
      PROVE  Alert!TypeOK'
  <2>. DEFINE j == [op |-> "broadcast", due |-> {}, stream |-> s, left |-> {}, on |-> t1]
  <2>1. j \in Alert!TellJob /\ j.left = {} /\ Alert!Keep(r, "audience", j)
    BY <1>5, AlertJobs DEF Alert!Broadcast, Alert!Begin, Alert!Keep, Alert!TypeOK
  <2>2. /\ step' \in [Slots -> {"idle", "next", "host", "audience", "batch", "mark"}]
        /\ task' \in [Slots -> Alert!RunJob \cup Alert!TellJob \cup {Alert!Free}]
        /\ \A q \in Slots : AlertSlotOK(q)'
    BY <1>1, <2>1
  <2>3. t3' \in [Announced -> AlertRow]
    BY <1>5 DEF Alert!Broadcast, Alert!TypeOK
  <2>4. t8' \in 0..MaxMoves
    BY <1>5 DEF Alert!Broadcast, Alert!TypeOK
  <2>. QED
    BY <1>5, <2>2, <2>3, <2>4 DEF Alert!Broadcast, Alert!TypeOK, AlertSlotOK
<1>6. ASSUME NEW r \in Slots, Alert!SendDueReminders(r)
      PROVE  Alert!TypeOK'
  <2>. DEFINE j == [op |-> "run", due |-> Alert!Due, on |-> t1]
  <2>1. j \in Alert!RunJob /\ Alert!Keep(r, "next", j)
    BY <1>6, AlertJobs DEF Alert!SendDueReminders, Alert!Begin, Alert!Keep, Alert!TypeOK, Alert!Due
  <2>2. /\ step' \in [Slots -> {"idle", "next", "host", "audience", "batch", "mark"}]
        /\ task' \in [Slots -> Alert!RunJob \cup Alert!TellJob \cup {Alert!Free}]
        /\ \A q \in Slots : AlertSlotOK(q)'
    BY <1>1, <2>1
  <2>. QED
    BY <1>6, <2>2 DEF Alert!SendDueReminders, Alert!TypeOK, AlertSlotOK
<1>7. ASSUME NEW r \in Slots, NEW s \in Announced, Alert!NextStream(r, s)
      PROVE  Alert!TypeOK'
  <2>. DEFINE j == [op |-> "run", due |-> task[r].due \ {s}, stream |-> s, left |-> {},
                    on |-> task[r].on]
              at == IF Alert!HostTokens(s) = {} THEN "audience" ELSE "host"
  <2>1. task[r] \in Alert!RunJob
    BY <1>7 DEF Alert!NextStream, Alert!TypeOK
  <2>2. j \in Alert!TellJob /\ j.left = {} /\ j.op = "run"
    BY <2>1, AlertJobs
  <2>3. Alert!Keep(r, at, j) /\ at \in {"audience", "host"}
    BY <1>7 DEF Alert!NextStream
  <2>4. /\ step' \in [Slots -> {"idle", "next", "host", "audience", "batch", "mark"}]
        /\ task' \in [Slots -> Alert!RunJob \cup Alert!TellJob \cup {Alert!Free}]
        /\ \A q \in Slots : AlertSlotOK(q)'
    BY <1>1, <2>2, <2>3
  <2>. QED
    BY <1>7, <2>4 DEF Alert!NextStream, Alert!TypeOK, AlertSlotOK
<1>8. ASSUME NEW r \in Slots, Alert!Done(r)
      PROVE  /\ step' \in [Slots -> {"idle", "next", "host", "audience", "batch", "mark"}]
             /\ task' \in [Slots -> Alert!RunJob \cup Alert!TellJob \cup {Alert!Free}]
             /\ \A q \in Slots : AlertSlotOK(q)'
  BY <1>8, <1>1 DEF Alert!Done
<1>9. ASSUME NEW r \in Slots, Alert!EndRun(r) \/ Alert!Fail(r)
      PROVE  Alert!TypeOK'
  BY <1>9, <1>8 DEF Alert!EndRun, Alert!Fail, Alert!TypeOK, AlertSlotOK
<1>10. ASSUME NEW r \in Slots, step[r] \notin {"idle", "next"}, task[r].op = "run",
              Alert!Keep(r, "next", [op |-> "run", due |-> task[r].due, on |-> task[r].on])
       PROVE  /\ step' \in [Slots -> {"idle", "next", "host", "audience", "batch", "mark"}]
              /\ task' \in [Slots -> Alert!RunJob \cup Alert!TellJob \cup {Alert!Free}]
              /\ \A q \in Slots : AlertSlotOK(q)'
  <2>1. [op |-> "run", due |-> task[r].due, on |-> task[r].on] \in Alert!RunJob
    BY <1>10, AlertJobs DEF Alert!TypeOK
  <2>. QED
    BY <1>1, <1>10, <2>1
<1>11. ASSUME NEW r \in Slots, Alert!PushHost(r)
       PROVE  Alert!TypeOK'
  <2>1. step[r] = "host" /\ task[r] \in Alert!TellJob /\ task[r].left = {} /\ task[r].op = "run"
    BY <1>11 DEF Alert!PushHost, Alert!TypeOK
  <2>2. /\ step' \in [Slots -> {"idle", "next", "host", "audience", "batch", "mark"}]
        /\ task' \in [Slots -> Alert!RunJob \cup Alert!TellJob \cup {Alert!Free}]
        /\ \A q \in Slots : AlertSlotOK(q)'
    <3>1. CASE Alert!Keep(r, "audience", task[r])
      BY <1>1, <2>1, <3>1
    <3>2. CASE Alert!Keep(r, "next", [op |-> "run", due |-> task[r].due, on |-> task[r].on])
      BY <1>10, <2>1, <3>2
    <3>. QED
      BY <1>11, <3>1, <3>2 DEF Alert!PushHost
  <2>. QED
    BY <1>11, <2>2 DEF Alert!PushHost, Alert!TypeOK, AlertSlotOK
<1>12. ASSUME NEW r \in Slots, step[r] \in {"audience", "batch"}, Alert!AfterAudience(r)
       PROVE  /\ step' \in [Slots -> {"idle", "next", "host", "audience", "batch", "mark"}]
              /\ task' \in [Slots -> Alert!RunJob \cup Alert!TellJob \cup {Alert!Free}]
              /\ \A q \in Slots : AlertSlotOK(q)'
  <2>1. task[r] \in Alert!TellJob
    BY <1>12 DEF Alert!TypeOK
  <2>2. CASE task[r].op = "run"
    <3>1. [task[r] EXCEPT !.left = {}] \in Alert!TellJob
          /\ [task[r] EXCEPT !.left = {}].left = {} /\ [task[r] EXCEPT !.left = {}].op = "run"
      BY <2>1, <2>2, AlertJobs
    <3>. QED
      BY <1>1, <1>12, <2>2, <3>1 DEF Alert!AfterAudience
  <2>3. CASE task[r].op # "run"
    BY <1>8, <1>12, <2>3 DEF Alert!AfterAudience
  <2>. QED
    BY <2>2, <2>3
<1>13. ASSUME NEW r \in Slots, Alert!ReadAudience(r)
       PROVE  Alert!TypeOK'
  <2>. DEFINE tokens == Alert!AudienceTokens(task[r].stream)
  <2>1. step[r] = "audience" /\ task[r] \in Alert!TellJob /\ tokens \subseteq Tokens
    BY <1>13 DEF Alert!ReadAudience, Alert!TypeOK, Alert!AudienceTokens
  <2>2. /\ step' \in [Slots -> {"idle", "next", "host", "audience", "batch", "mark"}]
        /\ task' \in [Slots -> Alert!RunJob \cup Alert!TellJob \cup {Alert!Free}]
        /\ \A q \in Slots : AlertSlotOK(q)'
    <3>1. CASE tokens # {} /\ Alert!Keep(r, "batch", [task[r] EXCEPT !.left = tokens])
      <4>1. [task[r] EXCEPT !.left = tokens] \in Alert!TellJob
            /\ [task[r] EXCEPT !.left = tokens].left = tokens
        BY <2>1, AlertJobs
      <4>. QED
        BY <1>1, <3>1, <4>1
    <3>2. CASE Alert!AfterAudience(r)
      BY <1>12, <2>1, <3>2
    <3>. QED
      BY <1>13, <3>1, <3>2 DEF Alert!ReadAudience
  <2>. QED
    BY <1>13, <2>2 DEF Alert!ReadAudience, Alert!TypeOK, AlertSlotOK
<1>14. ASSUME NEW r \in Slots, Alert!Mark(r)
       PROVE  Alert!TypeOK'
  <2>1. step[r] = "mark" /\ task[r] \in Alert!TellJob /\ task[r].op = "run"
    BY <1>14 DEF Alert!Mark, Alert!TypeOK
  <2>2. task[r].on \in 0..LastMinute /\ task[r].stream \in Announced
    BY <2>1, AlertJobs
  <2>3. /\ step' \in [Slots -> {"idle", "next", "host", "audience", "batch", "mark"}]
        /\ task' \in [Slots -> Alert!RunJob \cup Alert!TellJob \cup {Alert!Free}]
        /\ \A q \in Slots : AlertSlotOK(q)'
    BY <1>10, <1>14, <2>1 DEF Alert!Mark
  <2>4. t3' \in [Announced -> AlertRow]
    <3>1. task[r].on \in 0..Alert!NoTime
      BY <2>2
    <3>2. t3[task[r].stream] \in AlertRow
      BY <2>2 DEF Alert!TypeOK
    <3>3. [t3[task[r].stream] EXCEPT !.sentAt = task[r].on]
            \in AlertRow
      BY <3>1, <3>2
    <3>. QED
      BY <1>14, <2>2, <3>3 DEF Alert!Mark, Alert!TypeOK
  <2>. QED
    BY <1>14, <2>3, <2>4 DEF Alert!Mark, Alert!TypeOK, AlertSlotOK
<1>15. ASSUME NEW r \in Slots, NEW batch \in SUBSET Tokens, Alert!PushBatch(r, batch)
       PROVE  Alert!TypeOK'
  <2>. DEFINE rest == task[r].left \ batch
              s == task[r].stream
  <2>1. step[r] = "batch" /\ task[r] \in Alert!TellJob
    BY <1>15 DEF Alert!PushBatch, Alert!TypeOK
  <2>2. s \in Announced /\ rest \subseteq Tokens
    BY <2>1, AlertJobs
  <2>3. /\ step' \in [Slots -> {"idle", "next", "host", "audience", "batch", "mark"}]
        /\ task' \in [Slots -> Alert!RunJob \cup Alert!TellJob \cup {Alert!Free}]
        /\ \A q \in Slots : AlertSlotOK(q)'
    <3>1. CASE rest # {} /\ Alert!Keep(r, "batch", [task[r] EXCEPT !.left = rest])
      <4>1. [task[r] EXCEPT !.left = rest] \in Alert!TellJob
            /\ [task[r] EXCEPT !.left = rest].left = rest
        BY <2>1, <2>2, AlertJobs
      <4>. QED
        BY <1>1, <3>1, <4>1
    <3>2. CASE Alert!AfterAudience(r)
      BY <1>12, <2>1, <3>2
    <3>. QED
      BY <1>15, <3>1, <3>2 DEF Alert!PushBatch
  <2>4. PICK got \in SUBSET batch :
          /\ t7' = [t7 EXCEPT ![s] = @ \cup got]
          /\ t6' = IF task[r].op # "run" THEN t6
                   ELSE [t6 EXCEPT ![s] = [t \in Tokens |->
                            IF t \in got /\ @[t] < 2 THEN @[t] + 1 ELSE @[t]]]
    BY <1>15 DEF Alert!PushBatch
  <2>5. t7' \in [Announced -> SUBSET Tokens]
    BY <2>2, <2>4 DEF Alert!TypeOK
  <2>6. t6' \in [Announced -> [Tokens -> 0..2]]
    <3>1. t6[s] \in [Tokens -> 0..2]
      BY <2>2 DEF Alert!TypeOK
    <3>2. [t \in Tokens |-> IF t \in got /\ t6[s][t] < 2 THEN t6[s][t] + 1 ELSE t6[s][t]]
            \in [Tokens -> 0..2]
      <4>1. ASSUME NEW t \in Tokens
            PROVE  (IF t \in got /\ t6[s][t] < 2 THEN t6[s][t] + 1 ELSE t6[s][t]) \in 0..2
        BY <3>1
      <4>. QED BY <4>1
    <3>. QED
      BY <2>2, <2>4, <3>2 DEF Alert!TypeOK
  <2>. QED
    BY <1>15, <2>3, <2>5, <2>6 DEF Alert!PushBatch, Alert!TypeOK, AlertSlotOK
<1>16. CASE UNCHANGED Alert!vars
  BY <1>16 DEF Alert!vars, Alert!TypeOK
<1>. QED
  BY <1>2, <1>3, <1>4, <1>5, <1>6, <1>7, <1>9, <1>11, <1>13, <1>14, <1>15, <1>16 DEF Alert!Next

-----------------------------------------------------------------------------
\* Only the look-up of an audience and the multicasts put devices on a list.
LEMMA AlertLists ==
    ASSUME Alert!TypeOK, [Alert!Next]_Alert!vars
    PROVE  \/ /\ \A q \in Slots : step'[q] = "batch" => step[q] = "batch" /\ task'[q] = task[q]
              /\ t7' = t7
           \/ \E r \in Slots : Alert!ReadAudience(r)
           \/ \E r \in Slots, batch \in SUBSET Tokens : Alert!PushBatch(r, batch)
<1> DEFINE Calm == /\ \A q \in Slots : step'[q] = "batch" => step[q] = "batch" /\ task'[q] = task[q]
                   /\ t7' = t7
<1> USE DEF Alert!history, Alert!slot
<1>1. ASSUME NEW r \in Slots, NEW at, at # "batch", NEW j, Alert!Keep(r, at, j), t7' = t7
      PROVE  Calm
  BY <1>1, AlertSlots
<1>2. CASE Alert!Tick \/ UNCHANGED Alert!vars
  BY <1>2 DEF Alert!Tick, Alert!vars
<1>3. ASSUME NEW u \in People, NEW t \in Tokens, Alert!RegisterPushDevice(u, t)
      PROVE  Calm
  BY <1>3 DEF Alert!RegisterPushDevice
<1>4. ASSUME NEW s \in Announced, NEW at \in 0..LastMinute, Alert!Reschedule(s, at)
      PROVE  Calm
  BY <1>4 DEF Alert!Reschedule
<1>5. ASSUME NEW r \in Slots, NEW s \in Announced, Alert!Broadcast(r, s)
      PROVE  Calm
  BY <1>1, <1>5 DEF Alert!Broadcast, Alert!Begin, Alert!Keep
<1>6. ASSUME NEW r \in Slots, Alert!SendDueReminders(r)
      PROVE  Calm
  BY <1>1, <1>6 DEF Alert!SendDueReminders, Alert!Begin, Alert!Keep
<1>7. ASSUME NEW r \in Slots, NEW s \in Announced, Alert!NextStream(r, s)
      PROVE  Calm
  BY <1>1, <1>7 DEF Alert!NextStream
<1>8. ASSUME NEW r \in Slots,
             Alert!EndRun(r) \/ Alert!PushHost(r) \/ Alert!Mark(r) \/ Alert!Fail(r)
      PROVE  Calm
  BY <1>1, <1>8 DEF Alert!EndRun, Alert!PushHost, Alert!Mark, Alert!Fail, Alert!Done
<1>. QED
  BY <1>2, <1>3, <1>4, <1>5, <1>6, <1>7, <1>8 DEF Alert!Next

\* A device keeps the users it was registered for.
LEMMA OwnedGrows ==
    ASSUME Alert!TypeOK, [Alert!Next]_Alert!vars, NEW t \in Tokens
    PROVE  /\ t5[t] \subseteq t5'[t]
           /\ t4'[t] = t4[t] \/ t4'[t] \in t5'[t]
<1>1. ASSUME NEW u \in People, NEW d \in Tokens, Alert!RegisterPushDevice(u, d)
      PROVE  /\ t5[t] \subseteq t5'[t]
             /\ t4'[t] = t4[t] \/ t4'[t] \in t5'[t]
  BY <1>1 DEF Alert!RegisterPushDevice, Alert!TypeOK
<1>2. CASE UNCHANGED <<t4, t5>>
  BY <1>2
<1>. QED
  BY <1>1, <1>2 DEF Alert!Next, Alert!Tick, Alert!Reschedule, Alert!Broadcast,
     Alert!SendDueReminders, Alert!NextStream, Alert!EndRun, Alert!PushHost, Alert!ReadAudience,
     Alert!PushBatch, Alert!Mark, Alert!Fail, Alert!vars, Alert!history

LEMMA BuyersOnly ==
    ASSUME Alert!TypeOK, Alert!TypeOK', Alert!BuyersListed, Alert!OnlyBuyersReached,
           [Alert!Next]_Alert!vars
    PROVE  Alert!BuyersListed' /\ Alert!OnlyBuyersReached'
<1> DEFINE Bought(t, s) == \E u \in t5[t] : Alert!Hears(u, s)
           StillBought(t, s) == \E u \in t5'[t] : Alert!Hears(u, s)
<1>1. \A t \in Tokens : \A s : Bought(t, s) => StillBought(t, s)
  BY OwnedGrows DEF Alert!Hears
<1>2. \A t \in Tokens : t4'[t] # NoUser => t4'[t] \in t5'[t]
  BY OwnedGrows DEF Alert!BuyersListed, Alert!TypeOK
<1>3. ASSUME NEW r \in Slots, step[r] = "batch"
      PROVE  task[r].stream \in Announced /\ task[r].left \subseteq Tokens
  BY <1>3, AlertJobs DEF Alert!TypeOK
<1>4. ASSUME \A q \in Slots : step'[q] = "batch" => step[q] = "batch" /\ task'[q] = task[q],
             t7' = t7
      PROVE  Alert!BuyersListed' /\ Alert!OnlyBuyersReached'
  <2>1. Alert!OnlyBuyersReached'
    BY <1>1, <1>4 DEF Alert!OnlyBuyersReached, Alert!TypeOK
  <2>2. ASSUME NEW q \in Slots, step'[q] = "batch", NEW t \in task'[q].left
        PROVE  StillBought(t, task'[q].stream)
    BY <1>1, <1>3, <1>4, <2>2 DEF Alert!BuyersListed
  <2>. QED
    BY <1>2, <2>1, <2>2 DEF Alert!BuyersListed
<1>5. ASSUME NEW r \in Slots, NEW at, NEW j, Alert!Keep(r, at, j),
             at = "batch" => \A t \in j.left : t \in Tokens /\ Bought(t, j.stream)
      PROVE  Alert!BuyersListed'
  <2>1. ASSUME NEW q \in Slots, step'[q] = "batch", NEW t \in task'[q].left
        PROVE  StillBought(t, task'[q].stream)
    <3>1. CASE q = r
      BY <1>1, <1>5, <2>1, <3>1, AlertSlots
    <3>2. CASE q # r
      BY <1>1, <1>3, <1>5, <2>1, <3>2, AlertSlots DEF Alert!BuyersListed
    <3>. QED
      BY <3>1, <3>2
  <2>. QED
    BY <1>2, <2>1 DEF Alert!BuyersListed
<1>6. ASSUME NEW r \in Slots, Alert!AfterAudience(r)
      PROVE  Alert!BuyersListed'
  BY <1>5, <1>6 DEF Alert!AfterAudience, Alert!Done
<1>7. ASSUME NEW r \in Slots, Alert!ReadAudience(r)
      PROVE  Alert!BuyersListed' /\ Alert!OnlyBuyersReached'
  <2>. DEFINE tokens == Alert!AudienceTokens(task[r].stream)
  <2>1. task[r] \in Alert!TellJob /\ tokens \subseteq Tokens /\ step[r] = "audience"
    BY <1>7 DEF Alert!ReadAudience, Alert!TypeOK, Alert!AudienceTokens
  <2>2. \A t \in tokens : Bought(t, task[r].stream)
    BY DEF Alert!AudienceTokens, Alert!BuyersListed
  <2>3. CASE Alert!Keep(r, "batch", [task[r] EXCEPT !.left = tokens])
    <3>1. [task[r] EXCEPT !.left = tokens].left = tokens
          /\ [task[r] EXCEPT !.left = tokens].stream = task[r].stream
      BY <2>1, AlertJobs
    <3>2. Alert!BuyersListed'
      BY <1>5, <2>1, <2>2, <2>3, <3>1
    <3>. QED
      BY <1>1, <1>7, <3>2 DEF Alert!ReadAudience, Alert!OnlyBuyersReached, Alert!history, Alert!TypeOK
  <2>4. CASE Alert!AfterAudience(r)
    BY <1>1, <1>6, <1>7, <2>4 DEF Alert!ReadAudience, Alert!OnlyBuyersReached, Alert!history, Alert!TypeOK
  <2>. QED
    BY <1>7, <2>3, <2>4 DEF Alert!ReadAudience
<1>8. ASSUME NEW r \in Slots, NEW batch \in SUBSET Tokens, Alert!PushBatch(r, batch)
      PROVE  Alert!BuyersListed' /\ Alert!OnlyBuyersReached'
  <2>. DEFINE rest == task[r].left \ batch
              s == task[r].stream
  <2>1. /\ step[r] = "batch" /\ task[r] \in Alert!TellJob /\ s \in Announced
        /\ task[r].left \subseteq Tokens /\ batch \subseteq task[r].left
    BY <1>3, <1>8 DEF Alert!PushBatch, Alert!TypeOK
  <2>2. \A t \in task[r].left : Bought(t, s)
    BY <2>1 DEF Alert!BuyersListed
  <2>3. Alert!BuyersListed'
    <3>1. CASE Alert!Keep(r, "batch", [task[r] EXCEPT !.left = rest])
      <4>1. [task[r] EXCEPT !.left = rest].left = rest
            /\ [task[r] EXCEPT !.left = rest].stream = s
        BY <2>1, AlertJobs
      <4>. QED
        BY <1>5, <2>1, <2>2, <3>1, <4>1
    <3>2. CASE Alert!AfterAudience(r)
      BY <1>6, <3>2
    <3>. QED
      BY <1>8, <3>1, <3>2 DEF Alert!PushBatch
  <2>4. PICK got \in SUBSET batch : t7' = [t7 EXCEPT ![s] = @ \cup got]
    BY <1>8 DEF Alert!PushBatch
  <2>5. ASSUME NEW x \in Announced, NEW t \in t7'[x] PROVE StillBought(t, x)
    <3>1. CASE x = s /\ t \in got
      BY <1>1, <2>1, <2>2, <3>1
    <3>2. CASE t \in t7[x]
      BY <1>1, <3>2 DEF Alert!OnlyBuyersReached, Alert!TypeOK
    <3>. QED
      BY <2>1, <2>4, <2>5, <3>1, <3>2 DEF Alert!TypeOK
  <2>. QED
    BY <2>3, <2>5 DEF Alert!OnlyBuyersReached
<1>. QED
  BY <1>4, <1>7, <1>8, AlertLists

-----------------------------------------------------------------------------
\* What is true of reminders when runs do not overlap and nothing fails.
SerialAlerts == Alert!SerialKept /\ Alert!RemindedOnce /\ Alert!AllReminded

\* What Timely says, of any rows.
InTime(rows, time, s) ==
    time <= rows[s].setAt \/ (rows[s].at <= time + Window /\ time <= rows[s].at + Window)

\* A step of one slot leaves the runs of the others alone.
LEMMA OtherRuns ==
    ASSUME Alert!TypeOK, NEW r \in Slots, NEW at, NEW j, Alert!Keep(r, at, j), NEW q \in Slots, q # r
    PROVE  /\ step'[q] = step[q] /\ task'[q] = task[q]
           /\ Alert!Running(q)' <=> Alert!Running(q)
           /\ \A s \in Announced : Alert!About(q, s)' <=> Alert!About(q, s)
BY AlertSlots DEF Alert!Running, Alert!About

\* What a step has to leave alone, so that runs go on unaware of it.
Undisturbed ==
    /\ t1' = t1 /\ t2' = t2 /\ t6' = t6
    /\ t8' = 0 => t8 = 0 /\ t4' = t4
    /\ \A s \in Announced :
          /\ t3'[s].sentAt = t3[s].sentAt
          /\ t3'[s].state = "scheduled" => t3[s].state = "scheduled"
          /\ \/ t3'[s].at = t3[s].at /\ t3'[s].setAt = t3[s].setAt
             \/ t3'[s].setAt = t1

LEMMA RunsUndisturbed ==
    ASSUME Alert!TypeOK, Alert!TypeOK', serial, serial', SerialAlerts, Undisturbed,
           \A r \in Slots :
              /\ Alert!Running(r)' <=> Alert!Running(r)
              /\ Alert!Running(r) => step'[r] = step[r] /\ task'[r] = task[r]
    PROVE  SerialAlerts'
<1> USE AlertConstants DEF Alert!AlertsAssumption
<1>1. \A r \in Slots, s \in Announced : Alert!About(r, s)' <=> Alert!About(r, s)
  BY DEF Alert!About, Alert!Running
<1>2. \A s \in Announced : Alert!Untold(s)' <=> Alert!Untold(s)
  BY DEF Alert!Untold, Undisturbed
<1>0. ASSUME NEW s \in Announced, NEW time \in Int, time <= t1, InTime(t3, time, s)
      PROVE  InTime(t3', time, s)
  <2>1. (t3'[s].at = t3[s].at /\ t3'[s].setAt = t3[s].setAt) \/ t3'[s].setAt = t1
    BY DEF Undisturbed
  <2>. QED
    BY <1>0, <2>1 DEF InTime
<1>8. t1 \in Int /\ t1' = t1 /\ Window \in Int /\ Window > 0
  BY DEF Alert!TypeOK, Undisturbed
<1>3. ASSUME NEW r \in Slots, Alert!Running(r)'
      PROVE  Alert!RunKnows(r)'
  <2>1. Alert!Running(r) /\ Alert!RunKnows(r) /\ step'[r] = step[r] /\ task'[r] = task[r]
    BY <1>3 DEF SerialAlerts, Alert!SerialKept
  <2>2. \A s \in task[r].due : s \in Announced
    BY <2>1, AlertJobs DEF Alert!TypeOK, Alert!Running
  <2>3. \A s \in Announced : t8' = 0 => Alert!AudienceTokens(s)' = Alert!AudienceTokens(s)
    BY DEF Undisturbed, Alert!AudienceTokens, Alert!Hears
  <2>4. /\ task'[r].on = t1' /\ t2' = t1'
        /\ \A s \in task'[r].due : t3'[s].sentAt = Alert!NoTime /\ Alert!Untold(s)'
    BY <1>2, <2>1, <2>2 DEF Alert!RunKnows, Undisturbed
  <2>6. \A s \in task'[r].due : InTime(t3', t1', s)
    <3>1. \A s \in task[r].due : InTime(t3, t1, s)
      BY <2>1, <2>2 DEF Alert!RunKnows, Alert!Timely, Alert!InWindow, InTime
    <3>. QED
      BY <1>0, <1>8, <2>1, <2>2, <3>1
  <2>7. ASSUME NEW s \in Announced, Alert!About(r, s)' PROVE InTime(t3', t1', s)
    <3>1. InTime(t3, t1, s)
      BY <1>1, <2>1, <2>7 DEF Alert!RunKnows, Alert!Timely, Alert!InWindow, InTime
    <3>. QED
      BY <1>0, <1>8, <3>1
  <2>5. ASSUME NEW s \in Announced, Alert!About(r, s)'
        PROVE  /\ s \notin task'[r].due /\ t3'[s].sentAt = Alert!NoTime
               /\ step'[r] \in {"host", "audience"} => Alert!Untold(s)'
               /\ step'[r] = "batch" => \A t \in task'[r].left : t6'[s][t] = 0
               /\ step'[r] \in {"batch", "mark"} /\ t8' = 0 =>
                     \A t \in Alert!AudienceTokens(s)' \ task'[r].left : t6'[s][t] = 1
    <3>1. Alert!About(r, s)
      BY <1>1, <2>5
    <3>. QED
      BY <1>2, <2>1, <2>3, <3>1 DEF Alert!RunKnows, Undisturbed
  <2>. QED
    BY <2>4, <2>5, <2>6, <2>7 DEF Alert!RunKnows, Alert!Timely, Alert!InWindow, InTime
<1>4. ASSUME NEW s \in Announced
      PROVE  Alert!Awaited(s)'
  <2>. SUFFICES ASSUME t3'[s].sentAt = Alert!NoTime
       PROVE  /\ Alert!Untold(s)' \/ \E r \in Slots : Alert!About(r, s)'
              /\ t3'[s].state = "scheduled" /\ t3'[s].setAt < t3'[s].at + Window =>
                    /\ t1' <= t3'[s].at + Window
                    /\ t1' = t3'[s].at + Window /\ t2' = t1' =>
                          \E r \in Slots : /\ Alert!Running(r)'
                                           /\ Alert!About(r, s)' \/ s \in task'[r].due
    BY DEF Alert!Awaited
  <2>1. t3[s].sentAt = Alert!NoTime /\ Alert!Awaited(s)
    BY DEF Undisturbed, SerialAlerts, Alert!SerialKept
  <2>2. Alert!Untold(s)' \/ \E r \in Slots : Alert!About(r, s)'
    BY <1>1, <1>2, <2>1 DEF Alert!Awaited
  <2>3. CASE t3'[s].at = t3[s].at /\ t3'[s].setAt = t3[s].setAt
    BY <1>1, <2>1, <2>2, <2>3 DEF Alert!Awaited, Undisturbed
  <2>4. CASE t3'[s].setAt = t1
    <3>1. t3'[s].at \in Int
      BY DEF Alert!TypeOK
    <3>. QED
      BY <1>8, <2>2, <2>4, <3>1
  <2>. QED
    BY <2>2, <2>3, <2>4 DEF Undisturbed
<1>7. ASSUME NEW s \in Announced
      PROVE  Alert!Marked(s)'
  <2>1. t3'[s].sentAt = t3[s].sentAt /\ t3[s].sentAt \in Int
    BY DEF Undisturbed, Alert!TypeOK, Alert!NoTime
  <2>2. t3[s].sentAt # Alert!NoTime => t3[s].sentAt <= t1 /\ InTime(t3, t3[s].sentAt, s)
    BY DEF SerialAlerts, Alert!SerialKept, Alert!Marked, Alert!Timely, Alert!InWindow, InTime
  <2>3. t3[s].sentAt # Alert!NoTime => t3[s].sentAt <= t1 /\ InTime(t3', t3[s].sentAt, s)
    BY <1>0, <2>1, <2>2
  <2>. QED
    BY <1>8, <2>1, <2>3 DEF Alert!Marked, Alert!Timely, Alert!InWindow, InTime
<1>5. Alert!SerialKept'
  BY <1>3, <1>4, <1>7 DEF SerialAlerts, Alert!SerialKept
<1>6. Alert!RemindedOnce' /\ Alert!AllReminded'
  BY DEF SerialAlerts, Undisturbed, Alert!RemindedOnce, Alert!AllReminded, Alert!Hears
<1>. QED
  BY <1>5, <1>6 DEF SerialAlerts

\* A run goes on, when it keeps what it knows and has each stream still before it, or marked.
LEMMA RunGoesOn ==
    ASSUME Alert!TypeOK, serial, serial', SerialAlerts, NEW r \in Slots, Alert!Running(r),
           NEW at, NEW j, Alert!Keep(r, at, j),
           Alert!Running(r)' => Alert!RunKnows(r)',
           t1' = t1, t2' = t2,
           \A s \in Announced : t3'[s].sentAt = Alert!NoTime =>
               /\ t3'[s] = t3[s]
               /\ Alert!Untold(s) => Alert!Untold(s)' \/ Alert!About(r, s)'
               /\ Alert!About(r, s) => Alert!About(r, s)'
               /\ s \in task[r].due => Alert!Running(r)' /\ (Alert!About(r, s)' \/ s \in task'[r].due),
           \A s \in Announced : t3'[s] = t3[s] \/ Alert!Marked(s)'
    PROVE  Alert!SerialKept'
<1>1. \A q \in Slots \ {r} : ~Alert!Running(q) /\ ~Alert!Running(q)'
  BY OtherRuns DEF SerialAlerts, Alert!SerialKept
<1>2. \A q \in Slots, s \in Announced : Alert!About(q, s) => q = r
  BY <1>1 DEF Alert!About, Alert!Running
<1>3. ASSUME NEW s \in Announced
      PROVE  Alert!Awaited(s)'
  <2>. SUFFICES ASSUME t3'[s].sentAt = Alert!NoTime
       PROVE  /\ Alert!Untold(s)' \/ \E q \in Slots : Alert!About(q, s)'
              /\ t3'[s].state = "scheduled" /\ t3'[s].setAt < t3'[s].at + Window =>
                    /\ t1' <= t3'[s].at + Window
                    /\ t1' = t3'[s].at + Window /\ t2' = t1' =>
                          \E q \in Slots : /\ Alert!Running(q)'
                                           /\ Alert!About(q, s)' \/ s \in task'[q].due
    BY DEF Alert!Awaited
  <2>1. Alert!Awaited(s) /\ t3[s].sentAt = Alert!NoTime /\ t3'[s] = t3[s]
    BY DEF SerialAlerts, Alert!SerialKept
  <2>2. Alert!Untold(s)' \/ \E q \in Slots : Alert!About(q, s)'
    BY <1>2, <2>1 DEF Alert!Awaited
  <2>3. Alert!About(r, s)' => Alert!Running(r)'
    BY DEF Alert!About, Alert!Running
  <2>4. ASSUME t3[s].state = "scheduled", t3[s].setAt < t3[s].at + Window,
               t1 = t3[s].at + Window, t2 = t1
        PROVE  \E q \in Slots : Alert!Running(q)' /\ (Alert!About(q, s)' \/ s \in task'[q].due)
    <3>1. PICK q \in Slots : Alert!Running(q) /\ (Alert!About(q, s) \/ s \in task[q].due)
      BY <2>1, <2>4 DEF Alert!Awaited
    <3>2. q = r
      BY <1>1, <3>1
    <3>. QED
      BY <2>3, <3>1, <3>2
  <2>. QED
    BY <2>1, <2>2, <2>4 DEF Alert!Awaited
<1>4. ASSUME NEW s \in Announced, t3'[s] = t3[s]
      PROVE  Alert!Marked(s)'
  <2>1. Alert!Marked(s)
    BY DEF SerialAlerts, Alert!SerialKept
  <2>. QED
    BY <1>4, <2>1 DEF Alert!Marked, Alert!Timely, Alert!InWindow
<1>. QED
  BY <1>1, <1>3, <1>4 DEF Alert!SerialKept

\* What was told stays true when no stream is marked, no device told and none moved.
LEMMA ToldStays ==
    ASSUME Alert!TypeOK, serial, Alert!RemindedOnce, Alert!AllReminded, t6' = t6,
           t8' = 0 => t8 = 0 /\ t4' = t4,
           \A s \in Announced : t3'[s].sentAt = t3[s].sentAt
    PROVE  Alert!RemindedOnce' /\ Alert!AllReminded'
BY DEF Alert!RemindedOnce, Alert!AllReminded, Alert!Hears, Alert!NoTime

\* The steps that no run takes.
LEMMA SerialOutside ==
    ASSUME Alert!TypeOK, Alert!TypeOK', serial, serial', SerialAlerts,
           \/ UNCHANGED Alert!vars
           \/ \E u \in People, t \in Tokens : Alert!RegisterPushDevice(u, t)
           \/ \E s \in Announced, at \in 0..LastMinute : Alert!Reschedule(s, at)
           \/ \E r \in Slots, s \in Announced : Alert!Broadcast(r, s)
    PROVE  SerialAlerts'
<1> USE AlertConstants DEF Alert!AlertsAssumption, Alert!history, Alert!slot
<1> DEFINE Unaware == \A r \in Slots :
               /\ Alert!Running(r)' <=> Alert!Running(r)
               /\ Alert!Running(r) => step'[r] = step[r] /\ task'[r] = task[r]
<1>1. CASE UNCHANGED Alert!vars
  <2>1. Undisturbed /\ Unaware
    BY <1>1 DEF Alert!vars, Undisturbed, Alert!Running
  <2>. QED BY <2>1, RunsUndisturbed
<1>2. ASSUME NEW u \in People, NEW t \in Tokens, Alert!RegisterPushDevice(u, t)
      PROVE  SerialAlerts'
  <2>1. t8' # 0
    BY <1>2 DEF Alert!RegisterPushDevice, Alert!TypeOK
  <2>2. Undisturbed /\ Unaware
    BY <1>2, <2>1 DEF Alert!RegisterPushDevice, Undisturbed, Alert!Running
  <2>. QED BY <2>2, RunsUndisturbed
<1>3. ASSUME NEW s \in Announced, NEW at \in 0..LastMinute, Alert!Reschedule(s, at)
      PROVE  SerialAlerts'
  <2>1. t8' # 0
    BY <1>3 DEF Alert!Reschedule, Alert!TypeOK
  <2>2. ASSUME NEW x \in Announced
        PROVE  /\ t3'[x].sentAt = t3[x].sentAt
               /\ t3'[x].state = t3[x].state
               /\ t3'[x] = t3[x] \/ t3'[x].setAt = t1
    BY <1>3 DEF Alert!Reschedule, Alert!TypeOK
  <2>3. Undisturbed /\ Unaware
    BY <1>3, <2>1, <2>2 DEF Alert!Reschedule, Undisturbed, Alert!Running
  <2>. QED BY <2>3, RunsUndisturbed
<1>4. ASSUME NEW r \in Slots, NEW s \in Announced, Alert!Broadcast(r, s)
      PROVE  SerialAlerts'
  <2>. DEFINE j == [op |-> "broadcast", due |-> {}, stream |-> s, left |-> {}, on |-> t1]
  <2>1. t8' # 0 /\ step[r] = "idle"
    BY <1>4 DEF Alert!Broadcast, Alert!Begin, Alert!TypeOK
  <2>2. ASSUME NEW x \in Announced
        PROVE  /\ t3'[x].sentAt = t3[x].sentAt
               /\ t3'[x] = t3[x] \/ t3'[x].state # "scheduled"
               /\ t3'[x].at = t3[x].at /\ t3'[x].setAt = t3[x].setAt
    BY <1>4 DEF Alert!Broadcast, Alert!TypeOK
  <2>3. Undisturbed
    BY <1>4, <2>1, <2>2 DEF Alert!Broadcast, Undisturbed
  <2>4. Alert!Keep(r, "audience", j) /\ j.op # "run"
    BY <1>4 DEF Alert!Broadcast, Alert!Begin, Alert!Keep
  <2>5. ~Alert!Running(r) /\ ~Alert!Running(r)'
    BY <2>1, <2>4, AlertSlots DEF Alert!Running
  <2>6. Unaware
    BY <2>4, <2>5, OtherRuns
  <2>. QED BY <2>3, <2>6, RunsUndisturbed
<1>. QED
  BY <1>1, <1>2, <1>3, <1>4

\* While nothing is under way the clock moves, or a run begins.
LEMMA SerialTick ==
    ASSUME Alert!TypeOK, serial, serial', SerialAlerts, Alert!Tick
    PROVE  SerialAlerts'
<1> USE AlertConstants DEF Alert!AlertsAssumption, Alert!history, Alert!slot
<1>1. Alert!Quiet /\ t2 = t1 /\ t1' = t1 + 1 /\ UNCHANGED <<t2, t3, t4, t6, t8, step, task>>
  BY DEF Alert!Tick
<1>2. \A r \in Slots : ~Alert!Running(r) /\ ~Alert!Running(r)'
  BY <1>1 DEF Alert!Quiet, Alert!Running
<1>3. \A r \in Slots, s \in Announced : ~Alert!About(r, s)
  BY <1>2 DEF Alert!About, Alert!Running
<1>4. t1 \in Int /\ t1' # t2'
  BY <1>1 DEF Alert!TypeOK
<1>5. ASSUME NEW s \in Announced PROVE Alert!Awaited(s)'
  <2>1. Alert!Awaited(s) /\ t3[s].at \in Int /\ Window \in Int
    BY DEF SerialAlerts, Alert!SerialKept, Alert!TypeOK
  <2>2. t3[s].sentAt = Alert!NoTime => Alert!Untold(s)'
    BY <1>1, <1>3, <2>1 DEF Alert!Awaited, Alert!Untold
  <2>3. /\ t3[s].sentAt = Alert!NoTime /\ t3[s].state = "scheduled"
        /\ t3[s].setAt < t3[s].at + Window
        => t1 < t3[s].at + Window
    BY <1>1, <1>2, <1>4, <2>1 DEF Alert!Awaited
  <2>. QED
    BY <1>1, <1>4, <2>1, <2>2, <2>3 DEF Alert!Awaited
<1>6. ASSUME NEW s \in Announced PROVE Alert!Marked(s)'
  <2>1. Alert!Marked(s) /\ t3[s].sentAt \in Int
    BY DEF SerialAlerts, Alert!SerialKept, Alert!TypeOK, Alert!NoTime
  <2>. QED
    BY <1>1, <1>4, <2>1 DEF Alert!Marked, Alert!Timely, Alert!InWindow
<1>7. Alert!SerialKept'
  BY <1>2, <1>5, <1>6 DEF Alert!SerialKept
<1>. QED
  BY <1>1, <1>7, ToldStays DEF SerialAlerts

LEMMA SerialSend ==
    ASSUME Alert!TypeOK, serial, serial', SerialAlerts, NEW r \in Slots, Alert!SendDueReminders(r)
    PROVE  SerialAlerts'
<1> USE AlertConstants DEF Alert!AlertsAssumption, Alert!history, Alert!slot
<1> DEFINE j == [op |-> "run", due |-> Alert!Due, on |-> t1]
<1>1. /\ Alert!Quiet /\ t2' = t1 /\ UNCHANGED <<t1, t3, t4, t6, t8>>
      /\ Alert!Keep(r, "next", j)
  BY DEF Alert!SendDueReminders, Alert!Begin, Alert!Keep
<1>2. \A q \in Slots, s \in Announced : ~Alert!About(q, s)
  BY <1>1 DEF Alert!Quiet, Alert!About
<1>3. ASSUME NEW s \in Announced, t3[s].sentAt = Alert!NoTime PROVE Alert!Untold(s)
  BY <1>2, <1>3 DEF SerialAlerts, Alert!SerialKept, Alert!Awaited
<1>4. step'[r] = "next" /\ task'[r] = j /\ \A q \in Slots : q # r => step'[q] = "idle"
  BY <1>1, AlertSlots DEF Alert!Quiet
<1>5. Alert!Running(r)' /\ \A q \in Slots : q # r => ~Alert!Running(q)'
  BY <1>4 DEF Alert!Running
<1>6. Alert!RunKnows(r)'
  <2>1. \A s \in Alert!Due : t3'[s].sentAt = Alert!NoTime /\ Alert!Untold(s)'
    BY <1>1, <1>3 DEF Alert!Due, Alert!Untold
  <2>2. \A s \in Alert!Due : InTime(t3, t1, s)
    BY DEF Alert!Due, Alert!InWindow, InTime
  <2>. QED
    BY <1>1, <1>4, <2>1, <2>2 DEF Alert!RunKnows, Alert!About, Alert!Timely, Alert!InWindow, InTime
<1>7. ASSUME NEW s \in Announced PROVE Alert!Awaited(s)'
  <2>1. Alert!Awaited(s) /\ t3[s].at \in Int /\ Window \in Int /\ Window > 0 /\ t1 \in Int
    BY DEF SerialAlerts, Alert!SerialKept, Alert!TypeOK
  <2>2. t3[s].sentAt = Alert!NoTime => Alert!Untold(s)'
    BY <1>1, <1>3 DEF Alert!Untold
  <2>3. t3[s].sentAt = Alert!NoTime /\ t3[s].state = "scheduled" /\ t1 = t3[s].at + Window
           => s \in task'[r].due
    BY <1>4, <2>1 DEF Alert!Due, Alert!InWindow
  <2>. QED
    BY <1>1, <1>5, <2>1, <2>2, <2>3 DEF Alert!Awaited
<1>8. ASSUME NEW s \in Announced PROVE Alert!Marked(s)'
  <2>1. Alert!Marked(s)
    BY DEF SerialAlerts, Alert!SerialKept
  <2>. QED
    BY <1>1, <2>1 DEF Alert!Marked, Alert!Timely, Alert!InWindow
<1>9. Alert!SerialKept'
  BY <1>5, <1>6, <1>7, <1>8 DEF Alert!SerialKept
<1>. QED
  BY <1>1, <1>9, ToldStays DEF SerialAlerts

\* A step of a run that only moves it on.
LEMMA RunMovesOn ==
    ASSUME Alert!TypeOK, serial, serial', SerialAlerts, NEW r \in Slots, Alert!Running(r),
           NEW at, NEW j, Alert!Keep(r, at, j), UNCHANGED <<t1, t2, t3, t4, t6, t8>>,
           Alert!Running(r)' => Alert!RunKnows(r)',
           \A s \in Announced :
               /\ Alert!About(r, s) => Alert!About(r, s)'
               /\ s \in task[r].due => Alert!Running(r)' /\ (Alert!About(r, s)' \/ s \in task'[r].due)
    PROVE  SerialAlerts'
<1>1. \A s \in Announced : Alert!Untold(s) => Alert!Untold(s)'
  BY DEF Alert!Untold
<1>2. Alert!SerialKept'
  <2>1. \A s \in Announced : t3'[s].sentAt = Alert!NoTime =>
            /\ t3'[s] = t3[s]
            /\ Alert!Untold(s) => Alert!Untold(s)' \/ Alert!About(r, s)'
            /\ Alert!About(r, s) => Alert!About(r, s)'
            /\ s \in task[r].due => Alert!Running(r)' /\ (Alert!About(r, s)' \/ s \in task'[r].due)
    BY <1>1
  <2>. QED
    BY <2>1, RunGoesOn
<1>. QED
  BY <1>2, ToldStays DEF SerialAlerts

\* What is known of the stream a run is about, and of those it has left.
LEMMA RunFacts ==
    ASSUME Alert!TypeOK, serial, SerialAlerts, NEW r \in Slots, step[r] # "idle", task[r].op = "run"
    PROVE  /\ Alert!Running(r) /\ Alert!RunKnows(r) /\ task[r].due \subseteq Announced
           /\ task[r].on = t1 /\ t1 \in 0..LastMinute /\ t1 # Alert!NoTime
           /\ step[r] # "next" =>
                 /\ task[r] \in Alert!TellJob /\ task[r].stream \in Announced
                 /\ task[r].left \subseteq Tokens
                 /\ \A s \in Announced : Alert!About(r, s) <=> s = task[r].stream
           /\ step[r] = "next" => task[r] \in Alert!RunJob /\ \A s \in Announced : ~Alert!About(r, s)
<1> USE AlertConstants DEF Alert!AlertsAssumption
<1>1. Alert!Running(r) /\ Alert!RunKnows(r)
  BY DEF SerialAlerts, Alert!SerialKept, Alert!Running
<1>2. t1 \in 0..LastMinute /\ t1 # Alert!NoTime
  BY DEF Alert!TypeOK, Alert!NoTime
<1>3. step[r] # "next" => task[r] \in Alert!TellJob
  BY DEF Alert!TypeOK
<1>4. step[r] = "next" => task[r] \in Alert!RunJob
  BY DEF Alert!TypeOK
<1>5. task[r].due \subseteq Announced
  BY <1>3, <1>4, AlertJobs
<1>6. step[r] # "next" => task[r].stream \in Announced /\ task[r].left \subseteq Tokens
  BY <1>3, AlertJobs
<1>7. task[r].on = t1
  BY <1>1 DEF Alert!RunKnows
<1>. QED
  BY <1>1, <1>2, <1>3, <1>4, <1>5, <1>6, <1>7 DEF Alert!About

\* A run takes up a stream, ends, or has tried the seller.
LEMMA SerialRun ==
    ASSUME Alert!TypeOK, serial, serial', SerialAlerts, NEW r \in Slots,
           \/ \E s \in Announced : Alert!NextStream(r, s)
           \/ Alert!EndRun(r)
           \/ Alert!PushHost(r)
    PROVE  SerialAlerts'
<1> USE DEF Alert!history, Alert!slot
<1>1. ASSUME NEW s \in Announced, Alert!NextStream(r, s)
      PROVE  SerialAlerts'
  <2>. DEFINE j == [op |-> "run", due |-> task[r].due \ {s}, stream |-> s, left |-> {},
                    on |-> task[r].on]
              at == IF Alert!HostTokens(s) = {} THEN "audience" ELSE "host"
  <2>1. /\ step[r] = "next" /\ s \in task[r].due /\ Alert!Keep(r, at, j)
        /\ UNCHANGED <<t1, t2, t3, t4, t6, t8>>
    BY <1>1 DEF Alert!NextStream
  <2>2. task[r] \in Alert!RunJob /\ task[r].op = "run"
    BY <2>1, AlertJobs DEF Alert!TypeOK
  <2>3. Alert!Running(r) /\ Alert!RunKnows(r) /\ \A x \in Announced : ~Alert!About(r, x)
    BY <2>1, <2>2, RunFacts
  <2>4. step'[r] = at /\ task'[r] = j /\ at \in {"audience", "host"}
    BY <2>1, AlertSlots
  <2>5. Alert!Running(r)' /\ \A x \in Announced : Alert!About(r, x)' <=> x = s
    BY <2>4 DEF Alert!Running, Alert!About
  <2>6. Alert!RunKnows(r)'
    <3>1. \A x \in task[r].due : t3[x].sentAt = Alert!NoTime /\ Alert!Untold(x)
      BY <2>3 DEF Alert!RunKnows
    <3>2. \A x \in task[r].due : t3'[x].sentAt = Alert!NoTime /\ Alert!Untold(x)'
      BY <2>1, <3>1 DEF Alert!Untold
    <3>3. task'[r].on = t1' /\ t2' = t1'
      BY <2>1, <2>3, <2>4 DEF Alert!RunKnows
    <3>4. \A x \in task[r].due : InTime(t3, t1, x)
      BY <2>3 DEF Alert!RunKnows, Alert!Timely, Alert!InWindow, InTime
    <3>5. \A x \in task'[r].due : x \in task[r].due /\ x # s
      BY <2>4
    <3>6. \A x \in task[r].due : InTime(t3', t1', x)
      BY <2>1, <3>4 DEF InTime
    <3>. QED
      BY <2>1, <2>4, <2>5, <3>2, <3>3, <3>5, <3>6
         DEF Alert!RunKnows, Alert!Timely, Alert!InWindow, InTime
  <2>7. \A x \in task[r].due : x = s \/ x \in task'[r].due
    BY <2>4
  <2>. QED
    BY <2>1, <2>3, <2>5, <2>6, <2>7, RunMovesOn
<1>2. CASE Alert!EndRun(r)
  <2>1. /\ step[r] = "next" /\ task[r].due = {} /\ Alert!Keep(r, "idle", Alert!Free)
        /\ UNCHANGED <<t1, t2, t3, t4, t6, t8>>
    BY <1>2 DEF Alert!EndRun, Alert!Done
  <2>2. task[r].op = "run"
    BY <2>1, AlertJobs DEF Alert!TypeOK
  <2>3. Alert!Running(r) /\ \A x \in Announced : ~Alert!About(r, x)
    BY <2>1, <2>2, RunFacts
  <2>4. ~Alert!Running(r)'
    BY <2>1, AlertSlots DEF Alert!Running
  <2>. QED
    BY <2>1, <2>3, <2>4, RunMovesOn
<1>3. CASE Alert!PushHost(r)
  <2>1. /\ step[r] = "host" /\ Alert!Keep(r, "audience", task[r])
        /\ UNCHANGED <<t1, t2, t3, t4, t6, t8>>
    BY <1>3 DEF Alert!PushHost
  <2>2. task[r].op = "run"
    BY <2>1 DEF Alert!TypeOK
  <2>3. Alert!Running(r) /\ Alert!RunKnows(r)
    BY <2>1, <2>2, RunFacts
  <2>4. step'[r] = "audience" /\ task'[r] = task[r]
    BY <2>1, AlertSlots
  <2>5. Alert!Running(r)' /\ \A x \in Announced : Alert!About(r, x)' <=> Alert!About(r, x)
    BY <2>1, <2>2, <2>4 DEF Alert!Running, Alert!About
  <2>6. Alert!RunKnows(r)'
    BY <2>1, <2>3, <2>4, <2>5 DEF Alert!RunKnows, Alert!Untold, Alert!Timely, Alert!InWindow
  <2>. QED
    BY <2>1, <2>3, <2>4, <2>5, <2>6, RunMovesOn
<1>. QED
  BY <1>1, <1>2, <1>3

LEMMA SerialAudience ==
    ASSUME Alert!TypeOK, Alert!TypeOK', serial, serial', SerialAlerts, NEW r \in Slots,
           Alert!ReadAudience(r)
    PROVE  SerialAlerts'
<1> DEFINE tokens == Alert!AudienceTokens(task[r].stream)
<1>1. /\ step[r] = "audience" /\ UNCHANGED <<t1, t2, t3, t4, t6, t8>>
      /\ \/ tokens # {} /\ Alert!Keep(r, "batch", [task[r] EXCEPT !.left = tokens])
         \/ tokens = {} /\ Alert!AfterAudience(r)
  BY DEF Alert!ReadAudience, Alert!history
<1>2. task[r] \in Alert!TellJob /\ tokens \in SUBSET Tokens
  BY <1>1 DEF Alert!TypeOK, Alert!AudienceTokens
<1>3. ASSUME NEW left \in SUBSET Tokens, NEW at \in {"batch", "mark"}, task[r].op = "run",
             left = tokens, Alert!Keep(r, at, [task[r] EXCEPT !.left = left])
      PROVE  SerialAlerts'
  <2>1. /\ Alert!Running(r) /\ Alert!RunKnows(r) /\ task[r].stream \in Announced
        /\ \A s \in Announced : Alert!About(r, s) <=> s = task[r].stream
    BY <1>1, <1>3, RunFacts
  <2>2. /\ step'[r] = at /\ task'[r].left = left /\ task'[r].due = task[r].due
        /\ task'[r].stream = task[r].stream /\ task'[r].op = "run" /\ task'[r].on = task[r].on
    <3>. DEFINE k == [task[r] EXCEPT !.left = left]
    <3>1. /\ k.left = left /\ k.due = task[r].due /\ k.stream = task[r].stream
          /\ k.op = task[r].op /\ k.on = task[r].on
      BY <1>2, AlertJobs
    <3>2. step'[r] = at /\ task'[r] = k
      BY <1>3, AlertSlots
    <3>. QED
      BY <1>3, <3>1, <3>2
  <2>3. Alert!Running(r)' /\ \A s \in Announced : Alert!About(r, s)' <=> s = task[r].stream
    BY <2>2 DEF Alert!Running, Alert!About
  <2>4. Alert!Untold(task[r].stream)
    BY <1>1, <2>1 DEF Alert!RunKnows
  <2>5. Alert!AudienceTokens(task[r].stream)' = tokens
    BY <1>1, <1>2, <2>2 DEF Alert!AudienceTokens, Alert!Hears
  <2>6. Alert!RunKnows(r)'
    <3>1. /\ task'[r].on = t1' /\ t2' = t1'
          /\ \A s \in task'[r].due : t3'[s].sentAt = Alert!NoTime /\ Alert!Untold(s)'
      BY <1>1, <2>1, <2>2 DEF Alert!RunKnows, Alert!Untold
    <3>3. \A s \in Announced : s \in task'[r].due \/ Alert!About(r, s)' => InTime(t3', t1', s)
      <4>1. \A s \in Announced : s \in task[r].due \/ Alert!About(r, s) => InTime(t3, t1, s)
        BY <2>1 DEF Alert!RunKnows, Alert!Timely, Alert!InWindow, InTime
      <4>2. \A s \in Announced : s \in task'[r].due \/ Alert!About(r, s)' => InTime(t3, t1, s)
        BY <2>1, <2>2, <2>3, <4>1
      <4>. QED
        BY <1>1, <4>2
    <3>4. task'[r].due \subseteq Announced
      BY <1>2, <2>2, AlertJobs
    <3>2. ASSUME NEW s \in Announced, Alert!About(r, s)'
          PROVE  /\ s \notin task'[r].due /\ t3'[s].sentAt = Alert!NoTime
                 /\ step'[r] \in {"host", "audience"} => Alert!Untold(s)'
                 /\ step'[r] = "batch" => \A t \in task'[r].left : t6'[s][t] = 0
                 /\ step'[r] \in {"batch", "mark"} /\ t8' = 0 =>
                       \A t \in Alert!AudienceTokens(s)' \ task'[r].left : t6'[s][t] = 1
      <4>1. s = task[r].stream /\ Alert!About(r, s)
        BY <2>1, <2>3, <3>2
      <4>2. Alert!AudienceTokens(s)' = task'[r].left
        BY <1>3, <2>2, <2>5, <4>1
      <4>. QED
        BY <1>1, <1>2, <1>3, <2>1, <2>2, <2>4, <4>1, <4>2 DEF Alert!RunKnows, Alert!Untold
    <3>. QED
      BY <3>1, <3>2, <3>3, <3>4 DEF Alert!RunKnows, Alert!Timely, Alert!InWindow, InTime
  <2>. QED
    BY <1>1, <1>3, <2>1, <2>2, <2>3, <2>6, RunMovesOn
<1>4. CASE task[r].op = "run"
  BY <1>1, <1>2, <1>3, <1>4 DEF Alert!AfterAudience
<1>5. CASE task[r].op # "run"
  <2>1. ~Alert!Running(r) /\ ~Alert!Running(r)'
    <3>1. CASE Alert!Keep(r, "batch", [task[r] EXCEPT !.left = tokens])
      <4>1. [task[r] EXCEPT !.left = tokens].op = task[r].op
        BY <1>2, AlertJobs
      <4>. QED
        BY <1>5, <3>1, <4>1, AlertSlots DEF Alert!Running
    <3>2. CASE Alert!Keep(r, "idle", Alert!Free)
      BY <1>5, <3>2, AlertSlots DEF Alert!Running
    <3>. QED
      BY <1>1, <1>5, <3>1, <3>2 DEF Alert!AfterAudience, Alert!Done
  <2>2. \A q \in Slots \ {r} : /\ step'[q] = step[q] /\ task'[q] = task[q]
                               /\ Alert!Running(q)' <=> Alert!Running(q)
    BY <1>1, <1>5, OtherRuns DEF Alert!AfterAudience, Alert!Done
  <2>3. Undisturbed
    BY <1>1 DEF Undisturbed
  <2>. QED
    BY <2>1, <2>2, <2>3, RunsUndisturbed
<1>. QED
  BY <1>4, <1>5

\* A multicast that is no reminder leaves what runs know alone.
LEMMA SerialBroadcastBatch ==
    ASSUME Alert!TypeOK, Alert!TypeOK', serial, serial', SerialAlerts, NEW r \in Slots,
           NEW batch \in SUBSET Tokens, Alert!PushBatch(r, batch), task[r].op # "run"
    PROVE  SerialAlerts'
<1> DEFINE rest == task[r].left \ batch
<1>1. /\ step[r] = "batch" /\ UNCHANGED <<t1, t2, t3, t4, t6, t8>>
      /\ \/ Alert!Keep(r, "batch", [task[r] EXCEPT !.left = rest])
         \/ Alert!Keep(r, "idle", Alert!Free)
  BY DEF Alert!PushBatch, Alert!AfterAudience, Alert!Done
<1>2. task[r] \in Alert!TellJob
  BY <1>1 DEF Alert!TypeOK
<1>3. rest \in SUBSET Tokens
  BY <1>2, AlertJobs
<1>4. ~Alert!Running(r) /\ ~Alert!Running(r)'
  <2>1. CASE Alert!Keep(r, "batch", [task[r] EXCEPT !.left = rest])
    <3>1. [task[r] EXCEPT !.left = rest].op = task[r].op
      BY <1>2, <1>3, AlertJobs
    <3>. QED
      BY <2>1, <3>1, AlertSlots DEF Alert!Running
  <2>2. CASE Alert!Keep(r, "idle", Alert!Free)
    BY <2>2, AlertSlots DEF Alert!Running
  <2>. QED
    BY <1>1, <2>1, <2>2
<1>5. \A q \in Slots \ {r} : /\ step'[q] = step[q] /\ task'[q] = task[q]
                             /\ Alert!Running(q)' <=> Alert!Running(q)
  BY <1>1, OtherRuns
<1>6. Undisturbed
  BY <1>1 DEF Undisturbed
<1>. QED
  BY <1>4, <1>5, <1>6, RunsUndisturbed

\* A multicast of a run tells devices that had not been told, once.
LEMMA SerialReminderBatch ==
    ASSUME Alert!TypeOK, Alert!TypeOK', serial, serial', SerialAlerts, NEW r \in Slots,
           NEW batch \in SUBSET Tokens, Alert!PushBatch(r, batch), task[r].op = "run"
    PROVE  SerialAlerts'
<1> DEFINE rest == task[r].left \ batch
           s == task[r].stream
<1>1. /\ step[r] = "batch" /\ batch \subseteq task[r].left
      /\ UNCHANGED <<t1, t2, t3, t4, t8>>
      /\ t6' = [t6 EXCEPT ![s] = [t \in Tokens |->
                   IF t \in batch /\ @[t] < 2 THEN @[t] + 1 ELSE @[t]]]
      /\ \/ Alert!Keep(r, "batch", [task[r] EXCEPT !.left = rest])
         \/ rest = {} /\ Alert!Keep(r, "mark", [task[r] EXCEPT !.left = {}])
  BY DEF Alert!PushBatch, Alert!AfterAudience
<1>2. task[r] \in Alert!TellJob
  BY <1>1 DEF Alert!TypeOK
<1>3. /\ Alert!Running(r) /\ Alert!RunKnows(r) /\ s \in Announced /\ task[r].left \subseteq Tokens
      /\ \A x \in Announced : Alert!About(r, x) <=> x = s
  BY <1>1, RunFacts
<1>4. rest \in SUBSET Tokens
  BY <1>3
<1>5. PICK at \in {"batch", "mark"} : Alert!Keep(r, at, [task[r] EXCEPT !.left = rest])
  BY <1>1
<1>6. /\ step'[r] = at /\ task'[r].left = rest /\ task'[r].due = task[r].due
      /\ task'[r].stream = s /\ task'[r].op = "run" /\ task'[r].on = task[r].on
  <2>. DEFINE k == [task[r] EXCEPT !.left = rest]
  <2>1. k.left = rest /\ k.due = task[r].due /\ k.stream = s /\ k.op = task[r].op /\ k.on = task[r].on
    BY <1>2, <1>4, AlertJobs
  <2>2. step'[r] = at /\ task'[r] = k
    BY <1>5, AlertSlots
  <2>. QED
    BY <2>1, <2>2
<1>7. Alert!Running(r)' /\ \A x \in Announced : Alert!About(r, x)' <=> x = s
  BY <1>6 DEF Alert!Running, Alert!About
<1>8. \A x \in Announced \ {s} : t6'[x] = t6[x]
  BY <1>1, <1>3 DEF Alert!TypeOK
<1>9. \A t \in Tokens : /\ t \in batch => t6[s][t] = 0 /\ t6'[s][t] = 1
                        /\ t \notin batch => t6'[s][t] = t6[s][t]
  <2>1. \A t \in batch : t6[s][t] = 0
    BY <1>1, <1>3 DEF Alert!RunKnows
  <2>2. t6'[s] = [t \in Tokens |-> IF t \in batch /\ t6[s][t] < 2 THEN t6[s][t] + 1 ELSE t6[s][t]]
    BY <1>1, <1>3 DEF Alert!TypeOK
  <2>. QED
    BY <2>1, <2>2
<1>10. s \notin task[r].due /\ t3[s].sentAt = Alert!NoTime
  BY <1>3 DEF Alert!RunKnows
<1>11. Alert!RunKnows(r)'
  <2>1. task'[r].on = t1' /\ t2' = t1'
    BY <1>1, <1>3, <1>6 DEF Alert!RunKnows
  <2>2. \A x \in task'[r].due : t3'[x].sentAt = Alert!NoTime /\ Alert!Untold(x)'
    <3>1. ASSUME NEW x \in task[r].due
          PROVE  x \in Announced \ {s} /\ t3[x].sentAt = Alert!NoTime /\ Alert!Untold(x)
      BY <1>2, <1>3, <1>10, AlertJobs DEF Alert!RunKnows
    <3>. QED
      BY <1>1, <1>6, <1>8, <3>1 DEF Alert!Untold
  <2>3. ASSUME NEW x \in Announced, Alert!About(r, x)'
        PROVE  /\ x \notin task'[r].due /\ t3'[x].sentAt = Alert!NoTime
               /\ step'[r] \in {"host", "audience"} => Alert!Untold(x)'
               /\ step'[r] = "batch" => \A t \in task'[r].left : t6'[x][t] = 0
               /\ step'[r] \in {"batch", "mark"} /\ t8' = 0 =>
                     \A t \in Alert!AudienceTokens(x)' \ task'[r].left : t6'[x][t] = 1
    <3>1. x = s
      BY <1>7, <2>3
    <3>2. \A t \in task'[r].left : t6'[s][t] = 0
      BY <1>1, <1>3, <1>6, <1>9 DEF Alert!RunKnows
    <3>3. ASSUME t8' = 0, NEW t \in Alert!AudienceTokens(x)' \ task'[r].left
          PROVE  t6'[x][t] = 1
      <4>1. t \in Tokens /\ t \in Alert!AudienceTokens(s) /\ t \notin rest
        BY <1>1, <1>6, <3>1, <3>3 DEF Alert!AudienceTokens, Alert!Hears
      <4>2. CASE t \in batch
        BY <1>9, <3>1, <4>1, <4>2
      <4>3. CASE t \notin batch
        <5>1. t \notin task[r].left /\ t8 = 0
          BY <1>1, <3>3, <4>1, <4>3
        <5>2. t6[s][t] = 1
          BY <1>1, <1>3, <4>1, <5>1 DEF Alert!RunKnows
        <5>. QED
          BY <1>9, <3>1, <4>1, <4>3, <5>2
      <4>. QED
        BY <4>2, <4>3
    <3>. QED
      BY <1>1, <1>6, <1>10, <3>1, <3>2, <3>3
  <2>4. \A x \in Announced : x \in task'[r].due \/ Alert!About(r, x)' => InTime(t3', t1', x)
    <3>1. \A x \in Announced : x \in task[r].due \/ Alert!About(r, x) => InTime(t3, t1, x)
      BY <1>3 DEF Alert!RunKnows, Alert!Timely, Alert!InWindow, InTime
    <3>2. \A x \in Announced : x \in task'[r].due \/ Alert!About(r, x)' => InTime(t3, t1, x)
      BY <1>3, <1>6, <1>7, <3>1
    <3>. QED
      BY <1>1, <3>2
  <2>5. task'[r].due \subseteq Announced
    BY <1>2, <1>6, AlertJobs
  <2>. QED
    BY <2>1, <2>2, <2>3, <2>4, <2>5 DEF Alert!RunKnows, Alert!Timely, Alert!InWindow, InTime
<1>12. Alert!SerialKept'
  <2>1. \A x \in Announced : t3'[x].sentAt = Alert!NoTime =>
            /\ t3'[x] = t3[x]
            /\ Alert!Untold(x) => Alert!Untold(x)' \/ Alert!About(r, x)'
            /\ Alert!About(r, x) => Alert!About(r, x)'
            /\ x \in task[r].due => Alert!Running(r)' /\ (Alert!About(r, x)' \/ x \in task'[r].due)
    BY <1>1, <1>3, <1>6, <1>7, <1>8 DEF Alert!Untold
  <2>. QED
    BY <1>1, <1>3, <1>5, <1>11, <2>1, RunGoesOn
<1>13. Alert!RemindedOnce'
  <2>1. ASSUME NEW x \in Announced, NEW t \in Tokens PROVE t6'[x][t] < 2
    <3>1. t6[x][t] < 2
      BY DEF Alert!RemindedOnce, SerialAlerts
    <3>2. CASE x = s
      BY <1>9, <3>1, <3>2
    <3>3. CASE x # s
      BY <1>8, <3>1, <3>3
    <3>. QED
      BY <3>2, <3>3
  <2>. QED
    BY <2>1 DEF Alert!RemindedOnce
<1>14. Alert!AllReminded'
  BY <1>1, <1>8, <1>10 DEF Alert!AllReminded, SerialAlerts, Alert!Hears, Alert!NoTime
<1>. QED
  BY <1>12, <1>13, <1>14 DEF SerialAlerts

\* A stream is marked when every device of its audience has been told.
LEMMA SerialMark ==
    ASSUME Alert!TypeOK, Alert!TypeOK', serial, serial', SerialAlerts, NEW r \in Slots, Alert!Mark(r)
    PROVE  SerialAlerts'
<1> USE DEF Alert!history
<1> DEFINE s == task[r].stream
           j == [op |-> "run", due |-> task[r].due, on |-> task[r].on]
<1>1. /\ step[r] = "mark" /\ task[r] \in Alert!TellJob /\ task[r].op = "run" /\ task[r].left = {}
      /\ Alert!Keep(r, "next", j)
      /\ t3' = [t3 EXCEPT ![s].sentAt = task[r].on] /\ UNCHANGED <<t1, t2, t4, t6, t8>>
  BY DEF Alert!Mark, Alert!TypeOK
<1>2. /\ Alert!Running(r) /\ Alert!RunKnows(r) /\ s \in Announced
      /\ task[r].on = t1 /\ t1 # Alert!NoTime /\ task[r].due \subseteq Announced
      /\ \A x \in Announced : Alert!About(r, x) <=> x = s
  BY <1>1, RunFacts
<1>3. step'[r] = "next" /\ task'[r] = j
  BY <1>1, AlertSlots
<1>4. Alert!Running(r)' /\ \A x \in Announced : ~Alert!About(r, x)'
  BY <1>3 DEF Alert!Running, Alert!About
<1>5. t3'[s].sentAt # Alert!NoTime /\ \A x \in Announced \ {s} : t3'[x] = t3[x]
  BY <1>1, <1>2 DEF Alert!TypeOK
<1>6. s \notin task[r].due
  BY <1>2 DEF Alert!RunKnows
<1>7. Alert!RunKnows(r)'
  <2>1. \A x \in task[r].due : x \in Announced \ {s} /\ t3[x].sentAt = Alert!NoTime /\ Alert!Untold(x)
    BY <1>2, <1>6 DEF Alert!RunKnows
  <2>2. \A x \in task'[r].due : t3'[x].sentAt = Alert!NoTime /\ Alert!Untold(x)'
    BY <1>1, <1>3, <1>5, <2>1 DEF Alert!Untold
  <2>3. task'[r].on = t1' /\ t2' = t1'
    BY <1>1, <1>2, <1>3 DEF Alert!RunKnows
  <2>4. \A x \in task'[r].due : InTime(t3', t1', x)
    <3>1. \A x \in task[r].due : InTime(t3, t1, x)
      BY <1>2 DEF Alert!RunKnows, Alert!Timely, Alert!InWindow, InTime
    <3>. QED
      BY <1>1, <1>3, <1>5, <2>1, <3>1 DEF InTime
  <2>. QED
    BY <1>4, <2>2, <2>3, <2>4 DEF Alert!RunKnows, Alert!Timely, Alert!InWindow, InTime
<1>11. ASSUME NEW x \in Announced
      PROVE  t3'[x] = t3[x] \/ Alert!Marked(x)'
  <2>1. CASE x = s
    <3>1. InTime(t3, t1, s)
      BY <1>2 DEF Alert!RunKnows, Alert!Timely, Alert!InWindow, InTime
    <3>2. t3'[s].sentAt = t1 /\ t3'[s].at = t3[s].at /\ t3'[s].setAt = t3[s].setAt
      BY <1>1, <1>2 DEF Alert!TypeOK
    <3>3. t1' = t1 /\ t1 \in Int
      BY <1>1 DEF Alert!TypeOK
    <3>. QED
      BY <2>1, <3>1, <3>2, <3>3 DEF Alert!Marked, Alert!Timely, Alert!InWindow, InTime
  <2>. QED
    BY <1>5, <2>1
<1>8. Alert!SerialKept'
  <2>1. \A x \in Announced : t3'[x].sentAt = Alert!NoTime =>
            /\ t3'[x] = t3[x]
            /\ Alert!Untold(x) => Alert!Untold(x)' \/ Alert!About(r, x)'
            /\ Alert!About(r, x) => Alert!About(r, x)'
            /\ x \in task[r].due => Alert!Running(r)' /\ (Alert!About(r, x)' \/ x \in task'[r].due)
    BY <1>1, <1>2, <1>3, <1>4, <1>5 DEF Alert!Untold
  <2>. QED
    BY <1>1, <1>2, <1>7, <1>11, <2>1, RunGoesOn
<1>9. Alert!RemindedOnce'
  BY <1>1 DEF Alert!RemindedOnce, SerialAlerts
<1>10. Alert!AllReminded'
  <2>1. ASSUME t8' = 0, NEW t \in Tokens, t4'[t] # NoUser, Alert!Hears(t4'[t], s)
        PROVE  t6'[s][t] = 1
    <3>1. t \in Alert!AudienceTokens(s) \ task[r].left
      BY <1>1, <2>1 DEF Alert!AudienceTokens
    <3>. QED
      BY <1>1, <1>2, <2>1, <3>1 DEF Alert!RunKnows
  <2>2. ASSUME NEW x \in Announced, x # s, NEW t \in Tokens, t3'[x].sentAt # Alert!NoTime, t8' = 0,
               t4'[t] # NoUser, Alert!Hears(t4'[t], x)
        PROVE  t6'[x][t] = 1
    BY <1>1, <1>5, <2>2 DEF Alert!AllReminded, SerialAlerts
  <2>. QED
    BY <2>1, <2>2 DEF Alert!AllReminded, Alert!Hears, Alert!NoTime
<1>. QED
  BY <1>8, <1>9, <1>10 DEF SerialAlerts

LEMMA SerialStep ==
    ASSUME Alert!TypeOK, Alert!TypeOK', serial, serial', SerialAlerts, [Alert!Next]_Alert!vars
    PROVE  SerialAlerts'
<1>1. \A r \in Slots : ~Alert!Fail(r)
  BY DEF Alert!Fail
<1>2. ASSUME NEW r \in Slots, NEW batch \in SUBSET Tokens, Alert!PushBatch(r, batch)
      PROVE  SerialAlerts'
  BY <1>2, SerialBroadcastBatch, SerialReminderBatch
<1>. QED
  BY <1>1, <1>2, SerialOutside, SerialTick, SerialSend, SerialRun, SerialAudience, SerialMark
     DEF Alert!Next

-----------------------------------------------------------------------------
\* What holds of the reminders: always, and when nothing fails.
AlertsInv ==
    part = "alerts" =>
        /\ Alert!TypeOK /\ Alert!BuyersListed /\ Alert!OnlyBuyersReached
        /\ serial => SerialAlerts

LEMMA AlertsBegin ==
    ASSUME Alert!Init
    PROVE  /\ Alert!TypeOK /\ Alert!BuyersListed /\ Alert!OnlyBuyersReached
           /\ SerialAlerts
<1> USE AlertConstants DEF Alert!AlertsAssumption, Alert!Init
<1>1. Alert!TypeOK
  BY DEF Alert!TypeOK, Alert!States, Alert!NoTime
<1>2. Alert!BuyersListed /\ Alert!OnlyBuyersReached
  BY DEF Alert!BuyersListed, Alert!OnlyBuyersReached
<1>3. \A s \in Announced : Alert!Awaited(s) /\ Alert!Marked(s)
  <2>1. ASSUME NEW s \in Announced PROVE Alert!Awaited(s)
    <3>1. t1 = 0 /\ t2 # t1 /\ t3[s].at \in 0..LastMinute /\ Window \in Nat /\ Alert!Untold(s)
      BY DEF Alert!Untold, Alert!NoTime
    <3>. QED
      BY <3>1 DEF Alert!Awaited
  <2>2. ASSUME NEW s \in Announced PROVE Alert!Marked(s)
    BY DEF Alert!Marked
  <2>. QED
    BY <2>1, <2>2
<1>4. \A r \in Slots : ~Alert!Running(r)
  BY DEF Alert!Running
<1>5. Alert!RemindedOnce /\ Alert!AllReminded
  BY DEF Alert!RemindedOnce, Alert!AllReminded
<1>. QED
  BY <1>1, <1>2, <1>3, <1>4, <1>5 DEF SerialAlerts, Alert!SerialKept

LEMMA AlertsKept ==
    ASSUME AlertsInv, [PartNext]_<<vars, store>>
    PROVE  AlertsInv'
<1>. SUFFICES ASSUME part' = "alerts"
     PROVE  /\ Alert!TypeOK' /\ Alert!BuyersListed' /\ Alert!OnlyBuyersReached'
            /\ serial' => SerialAlerts'
  BY DEF AlertsInv
<1>1. part = "alerts" /\ [Alert!Next]_Alert!vars
  BY PartStays, AlertsStep
<1>2. Alert!TypeOK'
  BY <1>1, AlertTyped DEF AlertsInv
<1>3. Alert!BuyersListed' /\ Alert!OnlyBuyersReached'
  BY <1>1, <1>2, BuyersOnly DEF AlertsInv
<1>4. serial' = serial
  BY <1>1 DEF Alert!Next, Alert!Tick, Alert!RegisterPushDevice, Alert!Reschedule, Alert!Broadcast,
     Alert!SendDueReminders, Alert!NextStream, Alert!EndRun, Alert!PushHost, Alert!ReadAudience,
     Alert!PushBatch, Alert!Mark, Alert!Fail, Alert!vars
<1>5. serial => SerialAlerts'
  BY <1>1, <1>2, <1>4, SerialStep DEF AlertsInv
<1>. QED
  BY <1>2, <1>3, <1>4, <1>5

\* When runs keep to their minute and nothing fails, no device is reminded of a stream twice,
\* every device of a buyer is, in every batch, and no planned time that was set before its
\* window closed passes unmarked: the mark is of a reminder sent in that window, or from
\* before the stream was moved there.  A buyers' message never reaches a device that was no
\* buyer's, whatever fails and whoever changes hands.
THEOREM RemindersReach == PartSpec => []BuyersReminded
<1>1. PartInit => AlertsInv
  BY AlertsStart, AlertsBegin DEF AlertsInv
<1>2. AlertsInv /\ [PartNext]_<<vars, store>> => AlertsInv'
  BY AlertsKept
<1>3. AlertsInv => BuyersReminded
  <2>. SUFFICES ASSUME AlertsInv, part = "alerts"
       PROVE  /\ Alert!TypeOK /\ Alert!RemindedOnce /\ Alert!AllReminded
              /\ Alert!NoneMissed /\ Alert!OnlyBuyersReached
    BY DEF BuyersReminded
  <2>1. Alert!RemindedOnce /\ Alert!AllReminded
    BY DEF AlertsInv, SerialAlerts, Alert!RemindedOnce, Alert!AllReminded
  <2>2. Alert!NoneMissed
    <3>. SUFFICES ASSUME serial, NEW s \in Announced, t3[s].state = "scheduled",
                         t3[s].setAt < t3[s].at + Window, t3[s].at + Window < t1
         PROVE  t3[s].sentAt # Alert!NoTime /\ Alert!Timely(t3[s].sentAt, s)
      BY DEF Alert!NoneMissed
    <3>1. t3[s].sentAt = Alert!NoTime => t1 <= t3[s].at + Window
      BY DEF AlertsInv, SerialAlerts, Alert!SerialKept, Alert!Awaited
    <3>2. t1 \in Int /\ t3[s].at \in Int /\ Window \in Int
      BY AlertConstants DEF Alert!AlertsAssumption, AlertsInv, Alert!TypeOK
    <3>3. t3[s].sentAt # Alert!NoTime
      BY <3>1, <3>2
    <3>4. Alert!Marked(s)
      BY DEF AlertsInv, SerialAlerts, Alert!SerialKept
    <3>. QED
      BY <3>3, <3>4 DEF Alert!Marked
  <2>. QED
    BY <2>1, <2>2 DEF AlertsInv
<1>. QED
  BY <1>1, <1>2, <1>3, PTL DEF PartSpec

-----------------------------------------------------------------------------
(***************************************************************************)
(* Mail.                                                                   *)
(***************************************************************************)
LEMMA MailStart ==
    ASSUME PartInit, part = "mail"
    PROVE  Mail!Init
BY DEF PartInit

LEMMA MailStep ==
    ASSUME [PartNext]_<<vars, store>>, part = "mail"
    PROVE  [Mail!Next]_Mail!vars
BY DEF PartNext, vars, store, Mail!vars, Mail!slot

\* Cardinalities of a part are cardinalities.
LEMMA MailCardinality ==
    ASSUME NEW S
    PROVE  /\ Mail!Cardinality(S) = Cardinality(S)
           /\ Mail!IsFiniteSet(S) <=> IsFiniteSet(S)
BY DEF Mail!Cardinality, Cardinality, Mail!IsFiniteSet, IsFiniteSet

\* The lists of mails: one or two addresses.
MailList(op, left) == \E list \in Mail!Lists(op) : left \in {list, Tail(list)} \ {<<>>}

LEMMA MailOps ==
    /\ Mail!Operations = {"interest", "order", "application", "feedback", "concern", "users",
                          "backup", "batch", "welcome", "code"}
    /\ DOMAIN Mail!Mails = Mail!Operations \ {"batch"}
BY DEF Mail!Operations, Mail!Mails

ListFacts(op, left) ==
    /\ Head(left) \in Mail!Addresses /\ left # <<>>
    /\ Mail!ToSet(left) = {Head(left)} \cup Mail!ToSet(Tail(left))
    /\ Len(left) > 1 <=> Tail(left) # <<>>
    /\ Tail(left) # <<>> => /\ MailList(op, Tail(left)) /\ op # "application"
                            /\ Len(left) = 2 /\ Len(Tail(left)) = 1
                            /\ Mail!Last(Tail(left)) = Mail!Last(left)
    /\ Tail(left) = <<>> => Len(left) = 1 /\ Mail!Last(left) = Head(left)
    /\ Mail!ToSet(<<>>) = {}

LEMMA MailEach ==
    ASSUME NEW op \in Mail!Operations, NEW list \in Mail!Lists(op)
    PROVE  \/ \E x \in Mail!Addresses : list = <<x>>
           \/ op # "application" /\ \E x, y \in Mail!Addresses : list = <<x, y>> /\ (op # "batch" => x # y)
<1>1. CASE op = "batch"
  BY <1>1 DEF Mail!Lists, Mail!Batches, Mail!Addresses
<1>2. CASE op # "batch"
  <2>1. list = Mail!Mails[op]
    BY <1>2 DEF Mail!Lists
  <2>. QED
    BY <1>2, <2>1, MailOps DEF Mail!Mails, Mail!Addresses
<1>. QED
  BY <1>1, <1>2

LEMMA MailPair ==
    ASSUME NEW x, NEW y
    PROVE  /\ Head(<<x, y>>) = x /\ Tail(<<x, y>>) = <<y>> /\ Mail!ToSet(<<x, y>>) = {x, y}
           /\ Len(<<x, y>>) = 2 /\ Mail!Last(<<x, y>>) = y
           /\ Head(<<y>>) = y /\ Tail(<<y>>) = <<>> /\ Mail!ToSet(<<y>>) = {y}
           /\ Len(<<y>>) = 1 /\ Mail!Last(<<y>>) = y
           /\ Mail!ToSet(<<>>) = {} /\ <<y>> # <<>> /\ <<x, y>> # <<>> /\ <<x, y>> # <<y>>
<1>1. Len(<<>>) = 0 /\ Len(<<y>>) = 1 /\ Len(<<x, y>>) = 2
  OBVIOUS
<1>2. Mail!ToSet(<<>>) = {} /\ Mail!ToSet(<<y>>) = {y} /\ Mail!ToSet(<<x, y>>) = {x, y}
  BY DEF Mail!ToSet
<1>3. Mail!Last(<<x, y>>) = y /\ Mail!Last(<<y>>) = y
  BY DEF Mail!Last
<1>. QED
  BY <1>1, <1>2, <1>3

LEMMA MailLists ==
    ASSUME NEW op \in Mail!Operations, NEW left, MailList(op, left)
    PROVE  ListFacts(op, left)
<1>1. PICK list \in Mail!Lists(op) : left \in {list, Tail(list)} \ {<<>>}
  BY DEF MailList
<1>2. ASSUME NEW y \in Mail!Addresses, left = <<y>>
      PROVE  ListFacts(op, left)
  <2>1. /\ Head(left) = y /\ Tail(left) = <<>> /\ Mail!ToSet(left) = {y} /\ Len(left) = 1
        /\ Mail!Last(left) = y /\ Mail!ToSet(<<>>) = {} /\ left # <<>>
    BY <1>2, MailPair
  <2>2. Mail!ToSet(left) = {Head(left)} \cup Mail!ToSet(Tail(left))
    BY <2>1, Zenon
  <2>3. ~(Len(left) > 1)
    BY <2>1
  <2>. QED
    BY <1>2, <2>1, <2>2, <2>3, Zenon DEF ListFacts
<1>3. CASE \E x \in Mail!Addresses : list = <<x>>
  <2>1. PICK x \in Mail!Addresses : list = <<x>>
    BY <1>3
  <2>2. Tail(list) = <<>>
    BY <2>1, MailPair
  <2>. QED
    BY <1>1, <1>2, <2>1, <2>2
<1>4. CASE op # "application" /\ \E x, y \in Mail!Addresses : list = <<x, y>>
  <2>1. PICK x \in Mail!Addresses, y \in Mail!Addresses : list = <<x, y>>
    BY <1>4
  <2>2. Tail(list) = <<y>> /\ <<y>> # <<>>
    BY <2>1, MailPair
  <2>3. CASE left = <<x, y>>
    <3>1. MailList(op, <<y>>)
      BY <2>2 DEF MailList
    <3>2. /\ Head(left) = x /\ Tail(left) = <<y>> /\ Mail!ToSet(left) = {x, y} /\ Len(left) = 2
          /\ Mail!Last(left) = y
      BY <2>3, MailPair
    <3>3. /\ Mail!ToSet(<<y>>) = {y} /\ Len(<<y>>) = 1 /\ Mail!Last(<<y>>) = y
          /\ Mail!ToSet(<<>>) = {} /\ left # <<>>
      BY <2>3, MailPair
    <3>4. Mail!ToSet(left) = {Head(left)} \cup Mail!ToSet(Tail(left))
      BY <3>2, <3>3
    <3>5. Len(left) > 1
      BY <3>2
    <3>. QED
      BY <1>4, <2>2, <3>1, <3>2, <3>3, <3>4, <3>5 DEF ListFacts
  <2>. QED
    BY <1>1, <1>2, <2>1, <2>2, <2>3
<1>. QED
  BY <1>3, <1>4, MailEach

LEMMA MailSlots ==
    ASSUME Mail!TypeOK, NEW r \in Slots, NEW at, NEW j, Mail!Keep(r, at, j)
    PROVE  /\ step'[r] = at /\ task'[r] = j
           /\ \A q \in Slots \ {r} : step'[q] = step[q] /\ task'[q] = task[q]
           /\ at \in {"idle", "ticket", "lookup", "dump", "mail"} =>
                 step' \in [Slots -> {"idle", "ticket", "lookup", "dump", "mail"}]
           /\ j \in Mail!Job \cup {Mail!Free} => task' \in [Slots -> Mail!Job \cup {Mail!Free}]
BY DEF Mail!TypeOK, Mail!Keep

\* A job, field by field.
JobOf(k, op, left, got, failed, sent, out, dry, file) ==
    /\ k \in Mail!Job /\ k.op = op /\ k.left = left /\ k.got = got /\ k.failed = failed
    /\ k.sent = sent /\ k.out = out /\ k.dry = dry /\ k.file = file

LEMMA MailFields ==
    ASSUME NEW j \in Mail!Job
    PROVE  /\ j.op \in Mail!Operations /\ j.got \subseteq Mail!Addresses
           /\ j.failed \subseteq Mail!Equipment \cup {"none"} /\ j.sent \in Nat /\ j.out \in Nat
           /\ j.dry \in BOOLEAN /\ j.file \in {"none", "whole", "partial"}
BY DEF Mail!Job

MailLefts == Mail!Lefts \cup {Tail(list) : list \in Mail!Lefts}

LEMMA MailLeft ==
    /\ Mail!Job = [op : Mail!Operations, left : MailLefts, got : SUBSET Mail!Addresses,
                   failed : SUBSET (Mail!Equipment \cup {"none"}), sent : Nat, out : Nat,
                   dry : BOOLEAN, file : {"none", "whole", "partial"}]
    /\ <<>> \in MailLefts
    /\ \A op \in Mail!Operations : \A left : MailList(op, left) => left \in MailLefts
<1>1. <<>> \in MailLefts
  <2>1. "application" \in Mail!Operations
    BY MailOps
  <2>2. <<"team">> \in Mail!Lists("application")
    BY DEF Mail!Lists, Mail!Mails
  <2>3. Tail(<<"team">>) = <<>>
    OBVIOUS
  <2>. QED
    BY <2>1, <2>2, <2>3 DEF MailLefts, Mail!Lefts
<1>2. \A op \in Mail!Operations : \A left : MailList(op, left) => left \in MailLefts
  BY DEF MailLefts, MailList, Mail!Lefts
<1>. QED
  BY <1>1, <1>2 DEF Mail!Job, MailLefts

LEMMA MailGot ==
    ASSUME NEW j \in Mail!Job, NEW a \in Mail!Addresses, NEW k,
           k = [j EXCEPT !.got = @ \cup {a}, !.out = @ + 1]
    PROVE  JobOf(k, j.op, j.left, j.got \cup {a}, j.failed, j.sent, j.out + 1, j.dry, j.file)
<1>1. j.got \cup {a} \in SUBSET Mail!Addresses /\ j.out + 1 \in Nat
  BY MailFields
<1>. QED
  BY <1>1, MailLeft DEF JobOf

LEMMA MailTried ==
    ASSUME NEW j \in Mail!Job, NEW t \in Mail!Equipment \cup {"none"}, NEW k,
           k = [j EXCEPT !.failed = @ \cup {t}]
    PROVE  JobOf(k, j.op, j.left, j.got, j.failed \cup {t}, j.sent, j.out, j.dry, j.file)
<1>1. j.failed \cup {t} \in SUBSET (Mail!Equipment \cup {"none"})
  BY MailFields
<1>. QED
  BY <1>1, MailLeft DEF JobOf

LEMMA MailNext ==
    ASSUME NEW j \in Mail!Job, ListFacts(j.op, j.left), NEW k, k = [j EXCEPT !.left = Tail(@)]
    PROVE  JobOf(k, j.op, Tail(j.left), j.got, j.failed, j.sent, j.out, j.dry, j.file)
<1>1. Tail(j.left) \in MailLefts
  BY MailLeft, MailFields DEF ListFacts
<1>. QED
  BY <1>1, MailLeft DEF JobOf

LEMMA MailFile ==
    ASSUME NEW j \in Mail!Job, NEW f \in {"none", "whole", "partial"}, NEW k,
           k = [j EXCEPT !.file = f]
    PROVE  JobOf(k, j.op, j.left, j.got, j.failed, j.sent, j.out, j.dry, f)
BY MailLeft DEF JobOf

\* What an answer may say of the call it ends.
EndTrue(k, says) ==
    /\ Mail!MailTransports # {} /\ k.op \in {"interest", "feedback"} /\ says = "sent" =>
          k.got = Mail!ToSet(Mail!Mails[k.op])
    /\ k.op = "batch" /\ ~k.dry => k.sent <= k.out
    /\ k.op = "application" /\ k.got = {} => Mail!MailTransports \subseteq k.failed

\* Slot r goes on with k, or answers with it.
MailMove(r, k) ==
    \/ \E at \in {"lookup", "mail"} : Mail!Keep(r, at, k) /\ Mail!JobTrue(at, k) /\ t5' = t5
    \/ \E says \in Mail!Says : Mail!End(r, k, says) /\ EndTrue(k, says)

\* The file that goes with a mail.
Whole(j) == (serial => j.file # "partial") /\ (j.op = "backup" => j.file # "none")

\* What k still has to do, j had to do already.
Follows(j, k) ==
    /\ k.op = j.op /\ k.dry = j.dry /\ j.failed \subseteq k.failed
    /\ k.left \in {j.left, Tail(j.left)}
Narrows(j, k) ==
    k.op = j.op /\ \A a \in Mail!Addresses : Mail!Ways(k, a) \subseteq Mail!Ways(j, a)

\* The ways, case by case.
LEMMA MailWaysOf ==
    ASSUME NEW j, NEW a, j.dry \in BOOLEAN
    PROVE  /\ j.dry => Mail!Ways(j, a) = {}
           /\ ~j.dry /\ j.op = "application" =>
                 Mail!Ways(j, a) = {t \in Mail!MailTransports \ j.failed : a \in Mail!ToSet(j.left)}
           /\ ~j.dry /\ j.op # "application" =>
                 /\ Mail!Ways(j, a) \subseteq {"first", "last"}
                 /\ "last" \in Mail!Ways(j, a) <=> a = Mail!Last(j.left)
                 /\ "first" \in Mail!Ways(j, a) <=> Len(j.left) = 2 /\ a = Head(j.left)
<1>1. CASE j.dry
  BY <1>1 DEF Mail!Ways
<1>2. CASE ~j.dry /\ j.op = "application"
  BY <1>2 DEF Mail!Ways
<1>3. CASE ~j.dry /\ j.op # "application"
  <2>1. Mail!Ways(j, a) =
          {w \in {"first", "last"} :
              IF w = "last" THEN a = Mail!Last(j.left) ELSE Len(j.left) = 2 /\ a = Head(j.left)}
    BY <1>3 DEF Mail!Ways
  <2>. QED
    BY <1>3, <2>1
<1>. QED
  BY <1>1, <1>2, <1>3

LEMMA MailWaysListed ==
    ASSUME NEW j, NEW a, j.dry = FALSE, j.op # "application"
    PROVE  /\ Mail!Ways(j, a) \subseteq {"first", "last"}
           /\ "last" \in Mail!Ways(j, a) <=> a = Mail!Last(j.left)
           /\ "first" \in Mail!Ways(j, a) <=> Len(j.left) = 2 /\ a = Head(j.left)
<1>1. j.dry \in BOOLEAN /\ ~j.dry
  OBVIOUS
<1>2. Mail!Ways(j, a) =
        {w \in {"first", "last"} :
            IF w = "last" THEN a = Mail!Last(j.left) ELSE Len(j.left) = 2 /\ a = Head(j.left)}
  BY <1>1 DEF Mail!Ways
<1>. QED
  BY <1>2

LEMMA MailWaysDry ==
    ASSUME NEW j, NEW a, j.dry = TRUE
    PROVE  Mail!Ways(j, a) = {}
<1>1. j.dry \in BOOLEAN /\ j.dry
  OBVIOUS
<1>. QED
  BY <1>1 DEF Mail!Ways

LEMMA MailNarrows ==
    ASSUME NEW j \in Mail!Job, NEW k \in Mail!Job, ListFacts(j.op, j.left), Follows(j, k),
           k.left # <<>>
    PROVE  Narrows(j, k)
<1>. SUFFICES ASSUME NEW a \in Mail!Addresses, NEW w \in Mail!Ways(k, a)
     PROVE  w \in Mail!Ways(j, a)
  BY DEF Narrows, Follows
<1>1. k.op = j.op /\ k.dry = j.dry /\ j.dry \in BOOLEAN /\ k.dry \in BOOLEAN
  BY MailFields DEF Follows
<1>2. ~j.dry
  BY <1>1, MailWaysOf
<1>3. CASE j.op = "application"
  <2>1. k.left = j.left
    BY <1>3 DEF Follows, ListFacts
  <2>. QED
    BY <1>1, <1>2, <1>3, <2>1, MailWaysOf DEF Follows
<1>4. CASE j.op # "application" /\ k.left = j.left
  BY <1>1, <1>2, <1>4, MailWaysOf
<1>5. CASE j.op # "application" /\ k.left = Tail(j.left)
  <2>1. Len(k.left) = 1 /\ Mail!Last(k.left) = Mail!Last(j.left)
    BY <1>5 DEF ListFacts
  <2>3. ~k.dry /\ k.op # "application"
    BY <1>1, <1>2, <1>5
  <2>5. Len(k.left) # 2
    BY <2>1
  <2>4. /\ Mail!Ways(k, a) \subseteq {"first", "last"}
        /\ "last" \in Mail!Ways(k, a) <=> a = Mail!Last(k.left)
        /\ "first" \in Mail!Ways(k, a) <=> Len(k.left) = 2 /\ a = Head(k.left)
    BY <1>1, <2>3, MailWaysOf
  <2>2. w = "last" /\ a = Mail!Last(k.left)
    BY <2>4, <2>5
  <2>. QED
    BY <1>1, <1>2, <1>5, <2>1, <2>2, MailWaysOf
<1>. QED
  BY <1>3, <1>4, <1>5 DEF Follows

\* The mail at the head of a list goes a way of its own.
LEMMA MailFirst ==
    ASSUME NEW j \in Mail!Job, ListFacts(j.op, j.left), ~j.dry, NEW t,
           j.op = "application" => t \in (Mail!MailTransports \ j.failed) \cap {"resend", "smtp"}
    PROVE  \E w \in Mail!Ways(j, Head(j.left)) \cap {"first", "last", "resend", "smtp"} :
               \A k \in Mail!Job :
                   /\ k.op = j.op /\ ~k.dry
                   /\ \/ k.left = Tail(j.left) /\ k.left # <<>>
                      \/ k.op = "application" /\ t \in k.failed
                   => w \notin Mail!Ways(k, Head(j.left))
<1>. DEFINE a == Head(j.left)
<1>0. j.dry \in BOOLEAN /\ \A k \in Mail!Job : k.dry \in BOOLEAN
  BY MailFields
<1>1. CASE j.op = "application"
  <2>1. a \in Mail!ToSet(j.left) /\ Tail(j.left) = <<>>
    BY <1>1 DEF ListFacts
  <2>2. t \in Mail!Ways(j, a)
    BY <1>0, <1>1, <2>1, MailWaysOf
  <2>3. \A k \in Mail!Job : k.op = j.op /\ ~k.dry /\ t \in k.failed => t \notin Mail!Ways(k, a)
    BY <1>0, <1>1, MailWaysOf
  <2>. QED
    BY <1>1, <2>1, <2>2, <2>3
<1>2. CASE j.op # "application" /\ Tail(j.left) = <<>>
  <2>1. "last" \in Mail!Ways(j, a)
    BY <1>0, <1>2, MailWaysOf DEF ListFacts
  <2>. QED
    BY <1>2, <2>1
<1>3. CASE j.op # "application" /\ Tail(j.left) # <<>>
  <2>1. "first" \in Mail!Ways(j, a)
    BY <1>0, <1>3, MailWaysOf DEF ListFacts
  <2>2. ASSUME NEW k \in Mail!Job, k.op = j.op, ~k.dry, k.left = Tail(j.left)
        PROVE  "first" \notin Mail!Ways(k, a)
    <3>1. Len(k.left) = 1
      BY <1>3, <2>2 DEF ListFacts
    <3>. QED
      <4>1. k.op # "application" /\ k.dry \in BOOLEAN
        BY <1>0, <1>3, <2>2
      <4>3. Len(k.left) # 2
        BY <3>1
      <4>4. k.dry = FALSE
        BY <2>2, <4>1
      <4>2. "first" \in Mail!Ways(k, a) <=> Len(k.left) = 2 /\ a = Head(k.left)
        BY <4>1, <4>4, MailWaysListed
      <4>. QED
        BY <4>3, <4>2
  <2>. QED
    BY <1>3, <2>1, <2>2
<1>. QED
  BY <1>1, <1>2, <1>3

LEMMA MailTransport ==
    ASSUME Mail!TypeOK, NEW j \in Mail!Job
    PROVE  /\ Mail!Transport(j) \in Mail!Equipment \cup {"none"}
           /\ j.op = "application" =>
                 /\ Mail!Transport(j) = "none" => Mail!MailTransports \subseteq j.failed
                 /\ Mail!Transport(j) # "none" =>
                       Mail!Transport(j) \in (Mail!MailTransports \ j.failed) \cap {"resend", "smtp"}
           /\ j.op \in {"interest", "feedback"} /\ Mail!Transport(j) = "none" =>
                 Mail!MailTransports = {}
BY DEF Mail!Transport, Mail!First, Mail!MailTransports, Mail!Equipment, Mail!TypeOK

\* Slot r with k in it, and what was answered.
LEMMA MailPlaces ==
    ASSUME Mail!TypeOK, NEW r \in Slots, NEW k \in Mail!Job, MailMove(r, k)
    PROVE  /\ step' \in [Slots -> {"idle", "ticket", "lookup", "dump", "mail"}]
           /\ task' \in [Slots -> Mail!Job \cup {Mail!Free}]
           /\ \A q \in Slots \ {r} : step'[q] = step[q] /\ task'[q] = task[q]
           /\ step'[r] # "idle" =>
                 /\ task'[r] = k /\ Mail!JobTrue(step'[r], task'[r]) /\ UNCHANGED t5
                 /\ k.left # <<>>
           /\ \/ UNCHANGED t5
              \/ \E says \in Mail!Says :
                    /\ t5' = [t5 EXCEPT ![k.op] = [says |-> says, got |-> k.got, failed |-> k.failed,
                                                   sent |-> k.sent, out |-> k.out, dry |-> k.dry]]
                    /\ EndTrue(k, says)
<1>1. CASE \E at \in {"lookup", "mail"} : Mail!Keep(r, at, k) /\ Mail!JobTrue(at, k) /\ t5' = t5
  <2>1. k.left # <<>>
    BY <1>1 DEF Mail!JobTrue
  <2>. QED
    BY <1>1, <2>1, MailSlots
<1>2. CASE \E says \in Mail!Says : Mail!End(r, k, says) /\ EndTrue(k, says)
  <2>1. Mail!Keep(r, "idle", Mail!Free)
    BY <1>2 DEF Mail!End
  <2>. QED
    BY <1>2, <2>1, MailSlots DEF Mail!End
<1>. QED
  BY <1>1, <1>2 DEF MailMove

\* The place after a mail that went out, or was left out, or pretended.
LEMMA MailSucceeded ==
    ASSUME Mail!TypeOK, NEW r \in Slots, NEW j \in Mail!Job, Mail!Succeeded(r, j),
           MailList(j.op, j.left),
           Mail!MailTransports # {} /\ j.op \in {"interest", "feedback"} =>
               j.got \cup Mail!ToSet(Tail(j.left)) = Mail!ToSet(Mail!Mails[j.op]),
           j.op = "batch" /\ ~j.dry => j.sent + 1 <= j.out,
           j.dry => j.op = "batch",
           j.op = "application" => j.got # {},
           Whole(j)
    PROVE  \E k \in Mail!Job :
               /\ MailMove(r, k) /\ k.op = j.op /\ k.left = Tail(j.left) /\ k.failed = j.failed
               /\ k.dry = j.dry
<1>. DEFINE k == [j EXCEPT !.left = Tail(@), !.sent = @ + 1]
<1>1. j.op \in Mail!Operations /\ j.sent \in Nat
  BY MailFields
<1>2. ListFacts(j.op, j.left)
  BY <1>1, MailLists
<1>4. JobOf(k, j.op, Tail(j.left), j.got, j.failed, j.sent + 1, j.out, j.dry, j.file)
  <2>2. Tail(j.left) \in MailLefts
    BY <1>1, <1>2, MailLeft DEF ListFacts
  <2>3. j.sent + 1 \in Nat
    BY <1>1
  <2>. QED
    BY <2>2, <2>3, MailLeft DEF JobOf
<1> USE DEF JobOf
<1>5. CASE k.left # <<>>
  <2>1. Mail!Keep(r, "mail", k) /\ t5' = t5
    BY <1>5 DEF Mail!Succeeded, Mail!More
  <2>2. Mail!JobTrue("mail", k)
    <3>2. \E list \in Mail!Lists(k.op) : k.left \in {list, Tail(list)} \ {<<>>}
      <4>1. MailList(k.op, k.left)
        BY <1>2, <1>4, <1>5 DEF ListFacts
      <4>. QED
        BY <4>1 DEF MailList
    <3>3. Mail!MailTransports # {} /\ k.op \in {"interest", "feedback"} =>
             k.got \cup Mail!ToSet(k.left) = Mail!ToSet(Mail!Mails[k.op])
      BY <1>4
    <3>4. (k.op = "batch" /\ ~k.dry => k.sent <= k.out) /\ (k.dry => k.op = "batch")
      BY <1>4
    <3>5. Whole(k)
      BY <1>4 DEF Whole
    <3>. HIDE DEF k
    <3>. QED
      BY <3>2, <3>3, <3>4, <3>5 DEF Mail!JobTrue, Whole
  <2>. QED
    BY <1>4, <2>1, <2>2 DEF MailMove
<1>6. CASE k.left = <<>>
  <2>1. Mail!End(r, k, "sent") /\ "sent" \in Mail!Says
    BY <1>6 DEF Mail!Succeeded, Mail!Says
  <2>2. EndTrue(k, "sent")
    BY <1>2, <1>4, <1>6 DEF EndTrue, ListFacts
  <2>. QED
    BY <1>4, <2>1, <2>2 DEF MailMove
<1>. QED
  BY <1>5, <1>6

\* The place after one whose answer was an error.
LEMMA MailThrown ==
    ASSUME Mail!TypeOK, NEW r \in Slots, NEW j \in Mail!Job,
           NEW t \in Mail!Equipment \cup {"none"}, Mail!Thrown(r, j, t),
           MailList(j.op, j.left), j.op = "batch" /\ ~j.dry => j.sent <= j.out,
           j.dry => j.op = "batch", Whole(j)
    PROVE  \E k \in Mail!Job :
               /\ MailMove(r, k) /\ k.op = j.op /\ k.failed = j.failed \cup {t} /\ k.dry = j.dry
               /\ \/ step'[r] = "idle" /\ k.left = j.left
                  \/ k.left = Tail(j.left)
                  \/ k.op = "application" /\ k.left = j.left
<1>. DEFINE tried == [j EXCEPT !.failed = @ \cup {t}]
            next == [tried EXCEPT !.left = Tail(@)]
<1>1. j.op \in Mail!Operations
  BY MailFields
<1>2. ListFacts(j.op, j.left)
  BY <1>1, MailLists
<1>3. JobOf(tried, j.op, j.left, j.got, j.failed \cup {t}, j.sent, j.out, j.dry, j.file)
  BY MailTried
<1>4. JobOf(next, j.op, Tail(j.left), j.got, j.failed \cup {t}, j.sent, j.out, j.dry, j.file)
  <2>. HIDE DEF tried
  <2>1. /\ tried \in Mail!Job /\ tried.op = j.op /\ tried.left = j.left /\ tried.got = j.got
        /\ tried.failed = j.failed \cup {t} /\ tried.sent = j.sent /\ tried.out = j.out
        /\ tried.dry = j.dry /\ tried.file = j.file
    BY <1>3 DEF JobOf
  <2>2. JobOf(next, tried.op, Tail(tried.left), tried.got, tried.failed, tried.sent, tried.out,
              tried.dry, tried.file)
    BY <1>2, <2>1, MailNext
  <2>. QED
    BY <2>1, <2>2
<1>. HIDE DEF tried, next
<1> USE DEF JobOf
<1>5. \/ j.op = "application" /\ Mail!Transport(tried) # "none" /\ Mail!More(r, tried)
      \/ j.op = "batch" /\ Len(j.left) > 1 /\ Mail!More(r, next)
      \/ /\ ~(j.op = "application" /\ Mail!Transport(tried) # "none")
         /\ Mail!End(r, tried, IF j.op = "batch" THEN "sent" ELSE "unsent")
  BY DEF Mail!Thrown, tried, next
<1>6. CASE j.op = "application" /\ Mail!Transport(tried) # "none" /\ Mail!More(r, tried)
  <2>1. Mail!JobTrue("mail", tried)
    BY <1>3, <1>6 DEF Mail!JobTrue, MailList, Whole
  <2>. QED
    BY <1>3, <1>6, <2>1 DEF MailMove, Mail!More
<1>7. CASE j.op = "batch" /\ Len(j.left) > 1 /\ Mail!More(r, next)
  <2>2. \E list \in Mail!Lists(next.op) : next.left \in {list, Tail(list)} \ {<<>>}
    <3>1. MailList(next.op, next.left)
      BY <1>2, <1>4, <1>7 DEF ListFacts
    <3>. QED
      BY <3>1 DEF MailList
  <2>3. (~next.dry => next.sent <= next.out) /\ Whole(next)
    BY <1>4, <1>7 DEF Whole
  <2>4. next.op = "batch"
    BY <1>4, <1>7
  <2>5. Mail!JobTrue("mail", next)
    BY <2>2, <2>3, <2>4 DEF Mail!JobTrue, Whole
  <2>. QED
    BY <1>4, <1>7, <2>5 DEF MailMove, Mail!More
<1>8. CASE /\ ~(j.op = "application" /\ Mail!Transport(tried) # "none")
           /\ Mail!End(r, tried, IF j.op = "batch" THEN "sent" ELSE "unsent")
  <2>1. PICK says \in Mail!Says :
            Mail!End(r, tried, says) /\ (says = "sent" => j.op = "batch")
    BY <1>8 DEF Mail!Says
  <2>2. step'[r] = "idle"
    BY <2>1, MailSlots DEF Mail!End
  <2>3. EndTrue(tried, says)
    BY <1>3, <1>8, <2>1, MailTransport DEF EndTrue
  <2>. QED
    BY <1>3, <2>1, <2>2, <2>3 DEF MailMove
<1>. QED
  BY <1>5, <1>6, <1>7, <1>8

\* One more mail of slot r is out: whom it went to cannot get it the same way again.
Delivered(r, k) ==
    LET op == task[r].op  a == Head(task[r].left) IN
    /\ t2' = [t2 EXCEPT ![op][a] = @ + 1]
    /\ t6' = IF op = "backup" THEN t6 \cup {task[r].file} ELSE t6
    /\ Whole(task[r])
    /\ \E w \in Mail!Ways(task[r], a) \cap {"first", "last", "resend", "smtp"} :
          step'[r] # "idle" => w \notin Mail!Ways(k, a)

MailSteps(r) ==
    \/ Mail!SaveTicket(r) \/ Mail!LookUpUser(r) \/ Mail!DumpToGzipFile(r)
    \/ Mail!Deliver(r) \/ Mail!Reject(r) \/ Mail!Skip(r) \/ Mail!Pretend(r)

\* What a handler of mails does between two awaits.
LEMMA MailMoves ==
    ASSUME Mail!TypeOK, Mail!JobsTrue, NEW r \in Slots, MailSteps(r)
    PROVE  /\ step[r] # "idle" /\ task[r] \in Mail!Job
           /\ UNCHANGED <<serial, t1, t3, t7, t8, t9>> /\ t4' \in Nat
           /\ ListFacts(task[r].op, task[r].left)
           /\ \E k \in Mail!Job :
                 /\ MailMove(r, k) /\ Follows(task[r], k)
                 /\ UNCHANGED <<t2, t6>> \/ Delivered(r, k)
<1> DEFINE j == task[r]
           Goal == \E k \in Mail!Job : /\ MailMove(r, k) /\ Follows(j, k)
                                       /\ UNCHANGED <<t2, t6>> \/ Delivered(r, k)
<1>1. step[r] # "idle" /\ j \in Mail!Job /\ Mail!JobTrue(step[r], j)
  BY DEF MailSteps, Mail!TypeOK, Mail!JobsTrue, Mail!SaveTicket, Mail!LookUpUser,
         Mail!DumpToGzipFile, Mail!Deliver, Mail!Reject, Mail!Skip, Mail!Pretend
<1>2. UNCHANGED <<serial, t1, t3, t7, t8, t9>> /\ t4' \in Nat
  BY DEF MailSteps, Mail!TypeOK, Mail!SaveTicket, Mail!LookUpUser,
         Mail!DumpToGzipFile, Mail!Deliver, Mail!Reject, Mail!Skip, Mail!Pretend
<1>3. /\ j.op \in Mail!Operations /\ j.failed \subseteq Mail!Equipment \cup {"none"}
      /\ j.sent \in Nat /\ j.out \in Nat /\ j.dry \in BOOLEAN
      /\ MailList(j.op, j.left) /\ ListFacts(j.op, j.left)
      /\ (j.dry => j.op = "batch")
  <2>1. j.op \in Mail!Operations /\ MailList(j.op, j.left)
    BY <1>1, MailFields DEF MailList, Mail!JobTrue
  <2>. QED
    BY <1>1, <2>1, MailFields, MailLists DEF Mail!JobTrue
<1>. SUFFICES Goal
  BY <1>1, <1>2, <1>3
<1>4. ASSUME NEW says \in Mail!Says, Mail!End(r, j, says), UNCHANGED <<t2, t6>>,
             j.op \in {"feedback", "concern", "backup"}, says # "sent"
      PROVE  Goal
  BY <1>1, <1>4 DEF MailMove, EndTrue, Follows
<1>5. CASE Mail!SaveTicket(r)
  <2>1. step[r] = "ticket" /\ j.op \in {"feedback", "concern"} /\ UNCHANGED <<t2, t6>>
    BY <1>1, <1>5 DEF Mail!SaveTicket, Mail!JobTrue
  <2>2. CASE Mail!Keep(r, "lookup", j) /\ t5' = t5
    BY <1>1, <2>1, <2>2 DEF MailMove, Follows, Mail!JobTrue
  <2>. QED
    BY <1>4, <1>5, <2>1, <2>2 DEF Mail!SaveTicket, Mail!Says
<1>6. CASE Mail!LookUpUser(r)
  <2>1. step[r] = "lookup" /\ j.op \in {"feedback", "concern"} /\ UNCHANGED <<t2, t6>>
    BY <1>1, <1>6 DEF Mail!LookUpUser, Mail!JobTrue
  <2>2. CASE Mail!Keep(r, "mail", j) /\ t5' = t5
    BY <1>1, <2>1, <2>2 DEF MailMove, Follows, Mail!JobTrue
  <2>. QED
    BY <1>4, <1>6, <2>1, <2>2 DEF Mail!LookUpUser, Mail!Says
<1>7. CASE Mail!DumpToGzipFile(r)
  <2>1. step[r] = "dump" /\ j.op = "backup" /\ UNCHANGED <<t2, t6>>
    BY <1>1, <1>7 DEF Mail!DumpToGzipFile, Mail!JobTrue
  <2>2. ASSUME NEW f \in {"whole", "partial"}, serial => f # "partial",
               Mail!Keep(r, "mail", [j EXCEPT !.file = f]), t5' = t5
        PROVE  Goal
    <3>. DEFINE k == [j EXCEPT !.file = f]
    <3>1. JobOf(k, j.op, j.left, j.got, j.failed, j.sent, j.out, j.dry, f)
      BY <1>1, MailFile
    <3>2. Mail!Keep(r, "mail", k)
      BY <2>2
    <3>. HIDE DEF k
    <3>3. Mail!JobTrue("mail", k)
      BY <1>1, <2>1, <2>2, <3>1 DEF JobOf, Mail!JobTrue
    <3>4. Follows(j, k)
      BY <3>1 DEF JobOf, Follows
    <3>. QED
      BY <2>1, <2>2, <3>1, <3>2, <3>3, <3>4 DEF JobOf, MailMove
  <2>3. CASE Mail!End(r, j, "error")
    BY <1>4, <2>1, <2>3 DEF Mail!Says
  <2>. QED
    BY <1>7, <2>2, <2>3 DEF Mail!DumpToGzipFile
<1>8. ASSUME NEW h \in Mail!Job,
             JobOf(h, j.op, j.left, h.got, j.failed, j.sent, h.out, j.dry, j.file),
             NEW t \in Mail!Equipment \cup {"none"}, Mail!Thrown(r, h, t), step[r] = "mail",
             h.out = j.out \/ h.out = j.out + 1
      PROVE  \E k \in Mail!Job :
                 /\ MailMove(r, k) /\ Follows(j, k) /\ k.failed = j.failed \cup {t}
                 /\ \/ step'[r] = "idle"
                    \/ k.left = Tail(j.left)
                    \/ k.op = "application"
  <2>1. h.op = "batch" /\ ~h.dry => h.sent <= h.out
    <3>1. j.op = "batch" /\ ~j.dry => j.sent <= j.out
      BY <1>1 DEF Mail!JobTrue
    <3>. QED
      BY <1>3, <1>8, <3>1 DEF JobOf
  <2>2. Whole(h)
    BY <1>1, <1>8 DEF Mail!JobTrue, JobOf, Whole
  <2>3. /\ MailList(h.op, h.left) /\ h.op = j.op /\ h.left = j.left /\ h.failed = j.failed
        /\ h.dry = j.dry /\ (h.dry => h.op = "batch")
    BY <1>3, <1>8 DEF JobOf
  <2>4. PICK k \in Mail!Job :
            /\ MailMove(r, k) /\ k.op = h.op /\ k.failed = h.failed \cup {t} /\ k.dry = h.dry
            /\ \/ step'[r] = "idle" /\ k.left = h.left
               \/ k.left = Tail(h.left)
               \/ k.op = "application" /\ k.left = h.left
    BY <1>8, <2>1, <2>2, <2>3, MailThrown
  <2>5. Follows(j, k)
    BY <2>3, <2>4 DEF Follows
  <2>. QED
    BY <2>3, <2>4, <2>5
<1>9. CASE Mail!Reject(r)
  <2>1. /\ step[r] = "mail" /\ UNCHANGED <<t2, t6>> /\ Mail!Transport(j) \in Mail!Equipment \cup {"none"}
        /\ Mail!Thrown(r, j, Mail!Transport(j))
        /\ JobOf(j, j.op, j.left, j.got, j.failed, j.sent, j.out, j.dry, j.file)
    BY <1>1, <1>9, MailTransport DEF Mail!Reject, JobOf
  <2>. QED
    BY <1>1, <1>8, <2>1
<1>10. CASE Mail!Skip(r)
  <2>1. step[r] = "mail" /\ UNCHANGED <<t2, t6>> /\ Mail!Transport(j) = "none"
    BY <1>10 DEF Mail!Skip
  <2>2. CASE j.op \in {"interest", "order", "welcome"} /\ Mail!Succeeded(r, j)
    <3>1. Mail!MailTransports = {} \/ j.op \notin {"interest", "feedback"}
      BY <1>1, <2>1, MailTransport
    <3>2. Whole(j)
      BY <1>1, <2>1 DEF Mail!JobTrue, Whole
    <3>3. PICK k \in Mail!Job :
              /\ MailMove(r, k) /\ k.op = j.op /\ k.left = Tail(j.left) /\ k.failed = j.failed
              /\ k.dry = j.dry
      BY <1>1, <1>3, <2>2, <3>1, <3>2, MailSucceeded
    <3>4. Follows(j, k)
      BY <3>3 DEF Follows
    <3>. QED
      BY <2>1, <3>3, <3>4
  <2>3. CASE Mail!Thrown(r, j, "none")
    <3>1. JobOf(j, j.op, j.left, j.got, j.failed, j.sent, j.out, j.dry, j.file)
      BY <1>1 DEF JobOf
    <3>. QED
      BY <1>1, <1>8, <2>1, <2>3, <3>1
  <2>. QED
    BY <1>10, <2>2, <2>3 DEF Mail!Skip
<1>11. CASE Mail!Deliver(r)
  <2>. DEFINE t == Mail!Transport(j)
              a == Head(j.left)
              h == [j EXCEPT !.got = @ \cup {Head(j.left)}, !.out = @ + 1]
  <2>0. Whole(j)
    BY <1>1, <1>11 DEF Mail!Deliver, Mail!JobTrue, Whole
  <2>1. /\ step[r] = "mail" /\ t # "none" /\ ~j.dry
        /\ t2' = [t2 EXCEPT ![j.op][a] = @ + 1]
        /\ t6' = IF j.op = "backup" THEN t6 \cup {j.file} ELSE t6
        /\ Mail!Succeeded(r, h) \/ Mail!Thrown(r, h, t)
    BY <1>11 DEF Mail!Deliver
  <2>2. a \in Mail!Addresses /\ Mail!ToSet(j.left) = {a} \cup Mail!ToSet(Tail(j.left))
    BY <1>3 DEF ListFacts
  <2>3. JobOf(h, j.op, j.left, j.got \cup {a}, j.failed, j.sent, j.out + 1, j.dry, j.file)
    BY <1>1, <2>2, MailGot
  <2>4. t \in Mail!Equipment \cup {"none"}
        /\ (j.op = "application" => t \in (Mail!MailTransports \ j.failed) \cap {"resend", "smtp"})
    BY <1>1, <2>1, MailTransport
  <2>. HIDE DEF h, t
  <2>5. PICK w \in Mail!Ways(j, a) \cap {"first", "last", "resend", "smtp"} :
            \A k \in Mail!Job :
                /\ k.op = j.op /\ ~k.dry
                /\ \/ k.left = Tail(j.left) /\ k.left # <<>>
                   \/ k.op = "application" /\ t \in k.failed
                => w \notin Mail!Ways(k, a)
    BY <1>1, <1>3, <2>1, <2>4, MailFirst
  <2>6. CASE Mail!Succeeded(r, h)
    <3>1. Mail!MailTransports # {} /\ h.op \in {"interest", "feedback"} =>
             h.got \cup Mail!ToSet(Tail(h.left)) = Mail!ToSet(Mail!Mails[h.op])
      BY <1>1, <2>2, <2>3 DEF JobOf, Mail!JobTrue
    <3>2. h.op = "batch" /\ ~h.dry => h.sent + 1 <= h.out
      <4>1. j.op = "batch" => j.sent <= j.out
        BY <1>1, <2>1 DEF Mail!JobTrue
      <4>. QED
        BY <1>3, <2>3, <4>1 DEF JobOf
    <3>3. h.got # {} /\ Whole(h)
      BY <1>1, <2>0, <2>3 DEF JobOf, Mail!JobTrue, Whole
    <3>4. /\ h \in Mail!Job /\ h.op = j.op /\ h.left = j.left /\ h.failed = j.failed
          /\ h.dry = j.dry /\ MailList(h.op, h.left) /\ (h.dry => h.op = "batch")
      BY <1>3, <2>3 DEF JobOf
    <3>5. PICK k \in Mail!Job :
              /\ MailMove(r, k) /\ k.op = h.op /\ k.left = Tail(h.left) /\ k.failed = h.failed
              /\ k.dry = h.dry
      BY <2>6, <3>1, <3>2, <3>3, <3>4, MailSucceeded
    <3>6. Follows(j, k)
      BY <3>4, <3>5 DEF Follows
    <3>7. Delivered(r, k)
      <4>1. step'[r] # "idle" => k.left # <<>>
        BY <3>5, MailPlaces
      <4>2. step'[r] # "idle" => w \notin Mail!Ways(k, a)
        BY <2>1, <2>5, <3>4, <3>5, <4>1
      <4>. QED
        BY <2>0, <2>1, <2>5, <4>2 DEF Delivered
    <3>. QED
      BY <3>5, <3>6, <3>7
  <2>7. CASE Mail!Thrown(r, h, t)
    <3>1. PICK k \in Mail!Job :
              /\ MailMove(r, k) /\ Follows(j, k) /\ k.failed = j.failed \cup {t}
              /\ \/ step'[r] = "idle"
                 \/ k.left = Tail(j.left)
                 \/ k.op = "application"
      <4>1. h \in Mail!Job /\ h.out = j.out + 1
            /\ JobOf(h, j.op, j.left, h.got, j.failed, j.sent, h.out, j.dry, j.file)
        BY <2>3 DEF JobOf
      <4>. QED
        BY <1>8, <2>1, <2>4, <2>7, <4>1
    <3>2. step'[r] # "idle" => k.left # <<>>
      BY <3>1, MailPlaces
    <3>3. step'[r] # "idle" => w \notin Mail!Ways(k, a)
      BY <2>1, <2>5, <3>1, <3>2 DEF Follows
    <3>4. Delivered(r, k)
      BY <2>0, <2>1, <2>5, <3>3 DEF Delivered
    <3>. QED
      BY <3>1, <3>4
  <2>. QED
    BY <2>1, <2>6, <2>7
<1>12. CASE Mail!Pretend(r)
  <2>1. /\ step[r] = "mail" /\ UNCHANGED <<t2, t6>> /\ j.dry /\ Mail!Succeeded(r, j)
    BY <1>12 DEF Mail!Pretend
  <2>2. Whole(j) /\ j.op = "batch"
    BY <1>1, <1>3, <2>1 DEF Mail!JobTrue, Whole
  <2>3. PICK k \in Mail!Job :
            /\ MailMove(r, k) /\ k.op = j.op /\ k.left = Tail(j.left) /\ k.failed = j.failed
            /\ k.dry = j.dry
    BY <1>1, <1>3, <2>1, <2>2, MailSucceeded
  <2>4. Follows(j, k)
    BY <2>3 DEF Follows
  <2>. QED
    BY <2>1, <2>3, <2>4
<1>. QED
  BY <1>1, <1>2, <1>5, <1>6, <1>7, <1>9, <1>10, <1>11, <1>12 DEF MailSteps

-----------------------------------------------------------------------------
\* A call of op begins in slot r, with a list of mails.
Begun(r, op, at, list, dry) ==
    /\ step[r] = "idle" /\ at \in {"ticket", "dump", "mail"}
    /\ list \in Mail!Lists(op) /\ dry \in BOOLEAN /\ (dry => op = "batch")
    /\ Mail!JobTrue(at, Mail!NewJob(op, list, dry)) /\ Mail!NewJob(op, list, dry) \in Mail!Job
    /\ Mail!Keep(r, at, Mail!NewJob(op, list, dry))
    /\ t7' = [t7 EXCEPT ![op] = @ + 1]
    /\ op = "interest" => t3 = FALSE /\ t3' = TRUE
    /\ op # "interest" => t3' = t3
    /\ op = "batch" /\ ~dry => t9' = [a \in Mail!Addresses |-> t9[a] + Mail!Times(a, list)]
    /\ op # "batch" \/ dry => t9' = t9
    /\ UNCHANGED <<serial, t1, t2, t4, t5, t6, t8>>

LEMMA MailNew ==
    ASSUME NEW op \in Mail!Operations, NEW at \in {"ticket", "dump", "mail"},
           NEW list \in Mail!Lists(op), NEW dry \in BOOLEAN, dry => op = "batch",
           at = "ticket" => op \in {"feedback", "concern"}, at = "dump" <=> op = "backup"
    PROVE  /\ Mail!JobTrue(at, Mail!NewJob(op, list, dry))
           /\ Mail!NewJob(op, list, dry) \in Mail!Job
<1>2. list # <<>> /\ MailList(op, list) /\ list \in MailLefts
  <2>1. list # <<>>
    BY MailEach
  <2>2. MailList(op, list)
    BY <2>1 DEF MailList
  <2>. QED
    BY <2>1, <2>2, MailLeft
<1>1. JobOf(Mail!NewJob(op, list, dry), op, list, {}, {}, 0, 0, dry, "none")
  BY <1>2, MailLeft DEF JobOf, Mail!NewJob
<1>. DEFINE k == Mail!NewJob(op, list, dry)
<1>. HIDE DEF k
<1>4. JobOf(k, op, list, {}, {}, 0, 0, dry, "none")
  BY <1>1 DEF k
<1>5. op \in {"interest", "feedback"} => list = Mail!Mails[op]
  BY DEF Mail!Lists
<1>8. Mail!JobTrue(at, k) /\ k \in Mail!Job
  BY <1>2, <1>4, <1>5 DEF JobOf, MailList, Mail!JobTrue
<1>. QED
  BY <1>8 DEF k

MailBegins(r) ==
    \/ Mail!HandleInterestClick(r) /\ t3 = FALSE
    \/ Mail!SendOrderPlacedEmails(r) \/ Mail!NotifyNewSellerApplication(r)
    \/ Mail!SendWelcomeEmail(r) \/ Mail!SendOtpSms(r) \/ Mail!SubmitAppFeedback(r)
    \/ Mail!SubmitConcern(r) \/ Mail!SendDailyUsersReport(r) \/ Mail!RunDailyBackup(r)
    \/ Mail!SendBatch(r)

LEMMA MailBegun ==
    ASSUME Mail!TypeOK, NEW r \in Slots, MailBegins(r)
    PROVE  \E op \in Mail!Operations, at \in {"ticket", "dump", "mail"}, dry \in BOOLEAN :
               \E list \in Mail!Lists(op) : Begun(r, op, at, list, dry)
<1>1. ASSUME NEW op \in Mail!Operations, NEW at \in {"ticket", "dump", "mail"},
             NEW list \in Mail!Lists(op), NEW dry \in BOOLEAN, dry => op = "batch",
             at = "ticket" => op \in {"feedback", "concern"}, at = "dump" <=> op = "backup",
             Mail!Begin(r, op, at, list, dry), UNCHANGED <<serial, t1, t2, t4, t5, t6, t8>>,
             IF op = "interest" THEN t3 = FALSE /\ t3' = TRUE ELSE t3' = t3,
             IF op = "batch" /\ ~dry
             THEN t9' = [a \in Mail!Addresses |-> t9[a] + Mail!Times(a, list)] ELSE t9' = t9
      PROVE  Begun(r, op, at, list, dry)
  <2>1. Mail!JobTrue(at, Mail!NewJob(op, list, dry)) /\ Mail!NewJob(op, list, dry) \in Mail!Job
    BY <1>1, MailNew
  <2>2. /\ Mail!Keep(r, at, Mail!NewJob(op, list, dry)) /\ t7' = [t7 EXCEPT ![op] = @ + 1]
        /\ step[r] = "idle"
    BY <1>1 DEF Mail!Begin, Mail!Called, Mail!Keep
  <2>. QED
    BY <1>1, <2>1, <2>2 DEF Begun
<1>2. ASSUME NEW op \in Mail!Operations \ {"interest", "batch"},
             NEW at \in {"ticket", "dump", "mail"},
             at = "ticket" => op \in {"feedback", "concern"}, at = "dump" <=> op = "backup",
             Mail!OnlyBegins(r, op, at)
      PROVE  Mail!Mails[op] \in Mail!Lists(op) /\ Begun(r, op, at, Mail!Mails[op], FALSE)
  <2>1. Mail!Mails[op] \in Mail!Lists(op)
    BY DEF Mail!Lists
  <2>. QED
    BY <1>1, <1>2, <2>1 DEF Mail!OnlyBegins
<1>3. ASSUME Mail!HandleInterestClick(r), t3 = FALSE
      PROVE  /\ Mail!Mails["interest"] \in Mail!Lists("interest")
             /\ Begun(r, "interest", "mail", Mail!Mails["interest"], FALSE)
  <2>1. Mail!Mails["interest"] \in Mail!Lists("interest")
    BY DEF Mail!Lists
  <2>. QED
    BY <1>1, <1>3, <2>1, MailOps DEF Mail!HandleInterestClick, Mail!Click
<1>4. ASSUME Mail!SendBatch(r)
      PROVE  \E list \in Mail!Lists("batch"), dry \in BOOLEAN : Begun(r, "batch", "mail", list, dry)
  <2>1. PICK list \in Mail!Batches, dry \in BOOLEAN :
            /\ Mail!Begin(r, "batch", "mail", list, dry)
            /\ t9' = IF dry THEN t9 ELSE [a \in Mail!Addresses |-> t9[a] + Mail!Times(a, list)]
            /\ UNCHANGED <<serial, t1, t2, t3, t4, t5, t6, t8>>
    BY <1>4 DEF Mail!SendBatch
  <2>2. list \in Mail!Lists("batch") /\ "batch" \in Mail!Operations
    BY MailOps DEF Mail!Lists
  <2>. QED
    BY <1>1, <2>1, <2>2
<1>5. /\ "interest" \in Mail!Operations /\ "batch" \in Mail!Operations
      /\ {"order", "application", "welcome", "code", "feedback", "concern", "users", "backup"}
            \subseteq Mail!Operations \ {"interest", "batch"}
  BY MailOps
<1>6. CASE Mail!SendBatch(r)
  BY <1>4, <1>5, <1>6
<1>7. CASE Mail!HandleInterestClick(r) /\ t3 = FALSE
  BY <1>3, <1>5, <1>7
<1>8. CASE \E op \in Mail!Operations \ {"interest", "batch"}, at \in {"ticket", "dump", "mail"} :
               /\ at = "ticket" => op \in {"feedback", "concern"}
               /\ at = "dump" <=> op = "backup"
               /\ Mail!OnlyBegins(r, op, at)
  BY <1>2, <1>8
<1>. QED
  BY <1>5, <1>6, <1>7, <1>8 DEF MailBegins, Mail!SendOrderPlacedEmails,
     Mail!NotifyNewSellerApplication, Mail!SendWelcomeEmail, Mail!SendOtpSms,
     Mail!SubmitAppFeedback, Mail!SubmitConcern, Mail!SendDailyUsersReport, Mail!RunDailyBackup

\* No mail is sent and no call begins: a click on file, an issue, the end of the dedupe
\* window, a restart, or nothing.
Quiet ==
    /\ UNCHANGED <<serial, t1, t2, t6, t9>> /\ t4' \in Nat /\ t3' \in BOOLEAN
    /\ \/ UNCHANGED <<step, task>>
       \/ step' = [r \in Slots |-> "idle"] /\ task' = [r \in Slots |-> Mail!Free]
    /\ \/ t7' = t7
       \/ \E op \in {"interest", "concern"} : t7' = [t7 EXCEPT ![op] = @ + 1]
    /\ \/ t5' = t5
       \/ t5' = [t5 EXCEPT !.interest = [Mail!NoAnswer EXCEPT !.says = "onfile"]]
    /\ t8' \in 0..MailRestarts /\ t8 <= t8'
    /\ (t3 /\ ~t3') => t8' = t8 + 1

LEMMA MailQuiet ==
    ASSUME Mail!TypeOK, [Mail!Next]_Mail!vars
    PROVE  Quiet \/ \E r \in Slots : MailBegins(r) \/ MailSteps(r)
<1>1. MailRestarts \in Nat /\ t8 \in 0..MailRestarts /\ t3 \in BOOLEAN /\ t4 \in Nat
  BY MailConstants DEF Mail!TypeOK, Mail!MailAssumption
<1>0. ASSUME t8 < MailRestarts, t8' = t8 + 1
      PROVE  t8' \in 0..MailRestarts /\ t8 <= t8'
  BY <1>0, <1>1
<1>2. CASE Mail!WindowEnds
  <2>1. t8' \in 0..MailRestarts /\ t8 <= t8' /\ t8' = t8 + 1
    BY <1>0, <1>2 DEF Mail!WindowEnds
  <2>2. t3' = FALSE /\ UNCHANGED <<serial, t1, t2, t4, t5, t6, t7, t9, step, task>>
    BY <1>2 DEF Mail!WindowEnds, Mail!slot
  <2>. QED
    BY <1>1, <2>1, <2>2 DEF Quiet
<1>3. CASE Mail!Restart
  <2>1. t8' \in 0..MailRestarts /\ t8 <= t8' /\ t8' = t8 + 1
    BY <1>0, <1>3 DEF Mail!Restart
  <2>2. t3' = FALSE /\ UNCHANGED <<serial, t1, t2, t4, t5, t6, t7, t9>>
        /\ step' = [r \in Slots |-> "idle"] /\ task' = [r \in Slots |-> Mail!Free]
    BY <1>3 DEF Mail!Restart
  <2>. QED
    BY <1>1, <2>1, <2>2 DEF Quiet
<1>4. CASE Mail!ReportIssue
  BY <1>1, <1>4 DEF Mail!ReportIssue, Mail!Called, Mail!slot, Quiet
<1>5. ASSUME NEW r \in Slots, Mail!HandleInterestClick(r), t3
      PROVE  Quiet
  BY <1>1, <1>5 DEF Mail!HandleInterestClick, Mail!Click, Mail!Called, Mail!slot, Quiet
<1>6. CASE UNCHANGED Mail!vars
  BY <1>1, <1>6 DEF Mail!vars, Mail!slot, Quiet
<1>. QED
  BY <1>1, <1>2, <1>3, <1>4, <1>5, <1>6 DEF Mail!Next, MailBegins, MailSteps

\* How often a list names an address, and from how many places.
Places(list, a) ==
    {w \in {"first", "last"} :
        IF w = "last" THEN a = Mail!Last(list) ELSE Len(list) = 2 /\ a = Head(list)}

LEMMA MailTwo ==
    ASSUME NEW u, NEW v, u # v
    PROVE  IsFiniteSet({u, v}) /\ Cardinality({u, v}) = 2
<1>1. IsFiniteSet({u}) /\ Cardinality({u}) = 1
  BY FS_Singleton
<1>2. IsFiniteSet({u} \cup {v}) /\ Cardinality({u} \cup {v}) = Cardinality({u}) + 1
  BY <1>1, FS_AddElement
<1>3. {u} \cup {v} = {u, v}
  OBVIOUS
<1>. QED
  BY <1>1, <1>2, <1>3

LEMMA MailTimes ==
    ASSUME NEW op \in Mail!Operations, NEW list \in Mail!Lists(op), NEW a
    PROVE  /\ IsFiniteSet(Places(list, a)) /\ Mail!Times(a, list) \in Nat
           /\ Cardinality(Places(list, a)) = Mail!Times(a, list)
           /\ op # "batch" => Mail!Times(a, list) <= 1
<1>. DEFINE I == {i \in DOMAIN list : list[i] = a}
            P == Places(list, a)
<1>1. Mail!Times(a, list) = Cardinality(I)
  BY MailCardinality DEF Mail!Times
<1>2. ASSUME I = {}, P = {}
      PROVE  IsFiniteSet(P) /\ Cardinality(P) = 0 /\ Cardinality(I) = 0
  BY <1>2, FS_EmptySet
<1>3. ASSUME NEW u, NEW v, I = {u}, P = {v}
      PROVE  IsFiniteSet(P) /\ Cardinality(P) = 1 /\ Cardinality(I) = 1
  BY <1>3, FS_Singleton
<1>7. ASSUME NEW u, NEW v, I = {u}, P = {v}
      PROVE  /\ IsFiniteSet(P) /\ Mail!Times(a, list) = 1 /\ Cardinality(P) = 1
             /\ Mail!Times(a, list) \in Nat /\ Mail!Times(a, list) <= 1
  <2>. HIDE DEF I, P
  <2>. QED
    BY <1>1, <1>3, <1>7
<1>4. ASSUME I = {1, 2}, P = {"first", "last"}
      PROVE  IsFiniteSet(P) /\ Cardinality(P) = 2 /\ Cardinality(I) = 2
  <2>1. "first" # "last" /\ 1 # 2
    OBVIOUS
  <2>2. IsFiniteSet({"first", "last"}) /\ Cardinality({"first", "last"}) = 2
    BY <2>1, MailTwo
  <2>3. Cardinality({1, 2}) = 2
    BY <2>1, MailTwo
  <2>. HIDE DEF I, P
  <2>. QED
    BY <1>4, <2>2, <2>3
<1>5. CASE \E x \in Mail!Addresses : list = <<x>>
  <2>1. PICK x \in Mail!Addresses : list = <<x>>
    BY <1>5
  <2>2. Mail!Last(list) = x /\ Len(list) = 1
    BY <2>1, MailPair
  <2>3. P = IF a = x THEN {"last"} ELSE {}
    BY <2>2 DEF Places
  <2>4. I = IF a = x THEN {1} ELSE {}
    BY <2>1
  <2>. HIDE DEF I, P
  <2>. QED
    BY <1>1, <1>2, <1>3, <2>3, <2>4 DEF P
<1>6. CASE \E x, y \in Mail!Addresses : list = <<x, y>> /\ (op # "batch" => x # y)
  <2>1. PICK x \in Mail!Addresses, y \in Mail!Addresses :
            list = <<x, y>> /\ (op # "batch" => x # y)
    BY <1>6
  <2>2. Mail!Last(list) = y /\ Len(list) = 2 /\ Head(list) = x
    BY <2>1, MailPair
  <2>3. P = (IF a = x THEN {"first"} ELSE {}) \cup (IF a = y THEN {"last"} ELSE {})
    BY <2>2 DEF Places
  <2>4. I = (IF a = x THEN {1} ELSE {}) \cup (IF a = y THEN {2} ELSE {})
    <3>1. DOMAIN list = {1, 2} /\ list[1] = x /\ list[2] = y
      BY <2>1
    <3>. QED
      BY <3>1
  <2>. HIDE DEF I, P
  <2>5. CASE a = x /\ a = y
    <3>1. I = {1, 2} /\ P = {"first", "last"}
      BY <2>3, <2>4, <2>5
    <3>. QED
      BY <1>1, <1>4, <2>1, <2>5, <3>1 DEF P
  <2>6. CASE a = x /\ a # y
    <3>1. I = {1} /\ P = {"first"}
      BY <2>3, <2>4, <2>6
    <3>. QED
      BY <1>1, <1>7, <3>1 DEF P
  <2>7. CASE a # x /\ a = y
    <3>1. I = {2} /\ P = {"last"}
      BY <2>3, <2>4, <2>7
    <3>. QED
      BY <1>1, <1>7, <3>1 DEF P
  <2>8. CASE a # x /\ a # y
    <3>1. I = {} /\ P = {}
      BY <2>3, <2>4, <2>8
    <3>. QED
      BY <1>1, <1>2, <3>1 DEF P
  <2>. QED
    BY <2>5, <2>6, <2>7, <2>8
<1>. QED
  BY <1>5, <1>6, MailEach

Answer == [says : Mail!Says, got : SUBSET Mail!Addresses,
           failed : SUBSET (Mail!Equipment \cup {"none"}), sent : Nat, out : Nat, dry : BOOLEAN]

LEMMA MailTyped ==
    ASSUME Mail!TypeOK, Mail!JobsTrue, [Mail!Next]_Mail!vars
    PROVE  Mail!TypeOK' /\ Mail!JobsTrue'
<1>1. /\ t7 \in [Mail!Operations -> Nat] /\ t2 \in [Mail!Operations -> [Mail!Addresses -> Nat]]
      /\ t5 \in [Mail!Operations -> Answer] /\ t9 \in [Mail!Addresses -> Nat]
  BY DEF Mail!TypeOK, Answer
<1>2. ASSUME NEW op \in Mail!Operations, t7' = [t7 EXCEPT ![op] = @ + 1]
      PROVE  t7' \in [Mail!Operations -> Nat]
  BY <1>1, <1>2
<1>3. ASSUME NEW op \in Mail!Operations, NEW x \in Answer, t5' = [t5 EXCEPT ![op] = x]
      PROVE  t5' \in [Mail!Operations -> Answer]
  BY <1>1, <1>3
<1>4. ASSUME NEW op \in Mail!Operations, NEW a \in Mail!Addresses, t2' = [t2 EXCEPT ![op][a] = @ + 1]
      PROVE  t2' \in [Mail!Operations -> [Mail!Addresses -> Nat]]
  <2>1. t2[op] \in [Mail!Addresses -> Nat]
    BY <1>1
  <2>2. [t2[op] EXCEPT ![a] = @ + 1] \in [Mail!Addresses -> Nat]
    BY <2>1
  <2>3. t2' = [t2 EXCEPT ![op] = [t2[op] EXCEPT ![a] = @ + 1]]
    BY <1>1, <1>4
  <2>. QED
    BY <1>1, <2>2, <2>3
<1>5. /\ serial \in BOOLEAN /\ t1 \subseteq Mail!Equipment /\ t3 \in BOOLEAN /\ t4 \in Nat
      /\ t8 \in 0..MailRestarts /\ t6 \subseteq {"whole", "partial"}
      /\ step \in [Slots -> {"idle", "ticket", "lookup", "dump", "mail"}]
      /\ task \in [Slots -> Mail!Job \cup {Mail!Free}]
      /\ \A q \in Slots : step[q] # "idle" => task[q] \in Mail!Job
  BY DEF Mail!TypeOK
<1>6. ASSUME /\ serial' \in BOOLEAN /\ t1' \subseteq Mail!Equipment /\ t3' \in BOOLEAN /\ t4' \in Nat
             /\ t8' \in 0..MailRestarts /\ t6' \subseteq {"whole", "partial"},
             t7' \in [Mail!Operations -> Nat], t9' \in [Mail!Addresses -> Nat],
             t2' \in [Mail!Operations -> [Mail!Addresses -> Nat]],
             t5' \in [Mail!Operations -> Answer],
             step' \in [Slots -> {"idle", "ticket", "lookup", "dump", "mail"}],
             task' \in [Slots -> Mail!Job \cup {Mail!Free}],
             \A q \in Slots : step'[q] # "idle" => task'[q] \in Mail!Job
      PROVE  Mail!TypeOK'
  BY <1>6 DEF Mail!TypeOK, Answer
<1>7. ASSUME t1' = t1, serial' = serial,
             \A q \in Slots : step'[q] # "idle" => Mail!JobTrue(step'[q], task'[q])
      PROVE  Mail!JobsTrue'
  BY <1>7 DEF Mail!JobsTrue, Mail!JobTrue, Mail!MailTransports
<1>8. CASE Quiet
  <2>1. t7' \in [Mail!Operations -> Nat]
    BY <1>1, <1>2, <1>8, MailOps DEF Quiet
  <2>2. t5' \in [Mail!Operations -> Answer]
    <3>1. "interest" \in Mail!Operations
      BY MailOps
    <3>2. [Mail!NoAnswer EXCEPT !.says = "onfile"] \in Answer
      BY DEF Mail!NoAnswer, Answer, Mail!Says
    <3>. QED
      BY <1>1, <1>3, <1>8, <3>1, <3>2 DEF Quiet
  <2>3. /\ step' \in [Slots -> {"idle", "ticket", "lookup", "dump", "mail"}]
        /\ task' \in [Slots -> Mail!Job \cup {Mail!Free}]
        /\ \A q \in Slots : step'[q] # "idle" => step'[q] = step[q] /\ task'[q] = task[q]
    BY <1>5, <1>8 DEF Quiet
  <2>4. \A q \in Slots : step'[q] # "idle" => Mail!JobTrue(step'[q], task'[q])
    BY <2>3 DEF Mail!JobsTrue
  <2>. QED
    BY <1>1, <1>5, <1>6, <1>7, <1>8, <2>1, <2>2, <2>3, <2>4 DEF Quiet
<1>9. ASSUME NEW r \in Slots, MailBegins(r)
      PROVE  Mail!TypeOK' /\ Mail!JobsTrue'
  <2>1. PICK op \in Mail!Operations, at \in {"ticket", "dump", "mail"}, dry \in BOOLEAN :
            \E list \in Mail!Lists(op) : Begun(r, op, at, list, dry)
    BY <1>9, MailBegun
  <2>0. PICK list \in Mail!Lists(op) : Begun(r, op, at, list, dry)
    BY <2>1
  <2>2. t7' \in [Mail!Operations -> Nat] /\ t9' \in [Mail!Addresses -> Nat]
    <3>1. t9' = t9 \/ t9' = [a \in Mail!Addresses |-> t9[a] + Mail!Times(a, list)]
      BY <2>0 DEF Begun
    <3>2. \A a \in Mail!Addresses : t9[a] \in Nat /\ Mail!Times(a, list) \in Nat
      BY <1>1, MailTimes
    <3>3. t9' \in [Mail!Addresses -> Nat]
      BY <1>1, <3>1, <3>2
    <3>. QED
      BY <1>2, <2>0, <3>3 DEF Begun
  <2>3. /\ step' \in [Slots -> {"idle", "ticket", "lookup", "dump", "mail"}]
        /\ task' \in [Slots -> Mail!Job \cup {Mail!Free}]
        /\ step'[r] = at /\ task'[r] = Mail!NewJob(op, list, dry)
        /\ \A q \in Slots \ {r} : step'[q] = step[q] /\ task'[q] = task[q]
    BY <2>0, MailSlots DEF Begun
  <2>4. /\ \A q \in Slots : step'[q] # "idle" => task'[q] \in Mail!Job
        /\ \A q \in Slots : step'[q] # "idle" => Mail!JobTrue(step'[q], task'[q])
    BY <1>5, <2>0, <2>3 DEF Begun, Mail!JobsTrue
  <2>5. t3' \in BOOLEAN
    BY <1>5, <2>0 DEF Begun
  <2>. QED
    BY <1>1, <1>5, <1>6, <1>7, <2>0, <2>2, <2>3, <2>4, <2>5 DEF Begun
<1>10. ASSUME NEW r \in Slots, MailSteps(r)
       PROVE  Mail!TypeOK' /\ Mail!JobsTrue'
  <2>1. /\ step[r] # "idle" /\ task[r] \in Mail!Job
        /\ UNCHANGED <<serial, t1, t3, t7, t8, t9>> /\ t4' \in Nat
        /\ ListFacts(task[r].op, task[r].left)
    BY <1>10, MailMoves
  <2>2. PICK k \in Mail!Job : /\ MailMove(r, k)
                              /\ UNCHANGED <<t2, t6>> \/ Delivered(r, k)
    BY <1>10, MailMoves
  <2>3. t5' \in [Mail!Operations -> Answer]
    <3>1. \A says \in Mail!Says :
             [says |-> says, got |-> k.got, failed |-> k.failed, sent |-> k.sent,
              out |-> k.out, dry |-> k.dry] \in Answer
      BY MailFields DEF Answer
    <3>2. k.op \in Mail!Operations
      BY MailFields
    <3>3. \/ t5' = t5
          \/ \E says \in Mail!Says :
                t5' = [t5 EXCEPT ![k.op] = [says |-> says, got |-> k.got, failed |-> k.failed,
                                            sent |-> k.sent, out |-> k.out, dry |-> k.dry]]
      BY <2>2, MailPlaces
    <3>. QED
      BY <1>1, <1>3, <3>1, <3>2, <3>3
  <2>4. t2' \in [Mail!Operations -> [Mail!Addresses -> Nat]]
    <3>1. CASE Delivered(r, k)
      <4>1. task[r].op \in Mail!Operations
        BY <2>1, MailFields
      <4>3. Head(task[r].left) \in Mail!Addresses
        BY <2>1 DEF ListFacts
      <4>4. t2' = [t2 EXCEPT ![task[r].op][Head(task[r].left)] = @ + 1]
        BY <3>1 DEF Delivered
      <4>. QED
        BY <1>4, <4>1, <4>3, <4>4
    <3>. QED
      BY <1>1, <2>2, <3>1
  <2>5. t6' \subseteq {"whole", "partial"}
    BY <1>5, <2>1, <2>2, MailFields DEF Delivered, Whole
  <2>6. /\ step' \in [Slots -> {"idle", "ticket", "lookup", "dump", "mail"}]
        /\ task' \in [Slots -> Mail!Job \cup {Mail!Free}]
        /\ \A q \in Slots \ {r} : step'[q] = step[q] /\ task'[q] = task[q]
        /\ step'[r] # "idle" => task'[r] = k /\ Mail!JobTrue(step'[r], task'[r])
    BY <2>2, MailPlaces
  <2>7. /\ \A q \in Slots : step'[q] # "idle" => task'[q] \in Mail!Job
        /\ \A q \in Slots : step'[q] # "idle" => Mail!JobTrue(step'[q], task'[q])
    BY <1>5, <2>6 DEF Mail!JobsTrue
  <2>. QED
    BY <1>1, <1>5, <1>6, <1>7, <2>1, <2>3, <2>4, <2>5, <2>6, <2>7
<1>. QED
  BY <1>8, <1>9, <1>10, MailQuiet

\* What the answers and the dumps that went out say.
LEMMA MailTold ==
    ASSUME Mail!TypeOK, Mail!JobsTrue, Mail!NeverOverclaims, Mail!ApplicationArrives,
           Mail!BackupIsWhole, [Mail!Next]_Mail!vars
    PROVE  Mail!NeverOverclaims' /\ Mail!ApplicationArrives' /\ Mail!BackupIsWhole'
<1>1. /\ t5 \in [Mail!Operations -> Answer]
      /\ "interest" \in Mail!Operations /\ "feedback" \in Mail!Operations
      /\ "batch" \in Mail!Operations /\ "application" \in Mail!Operations
  BY MailOps DEF Mail!TypeOK, Answer
<1>2. ASSUME t1' = t1, t5' = t5
      PROVE  Mail!NeverOverclaims' /\ Mail!ApplicationArrives'
  BY <1>2 DEF Mail!NeverOverclaims, Mail!ApplicationArrives, Mail!MailTransports
<1>3. CASE Quiet
  <2>1. t1' = t1 /\ Mail!BackupIsWhole'
    BY <1>3 DEF Quiet, Mail!BackupIsWhole
  <2>2. CASE t5' = [t5 EXCEPT !.interest = [Mail!NoAnswer EXCEPT !.says = "onfile"]]
    <3>1. /\ t5'["interest"].says = "onfile"
          /\ \A op \in Mail!Operations \ {"interest"} : t5'[op] = t5[op]
      BY <1>1, <2>2 DEF Mail!NoAnswer
    <3>. QED
      BY <1>1, <2>1, <3>1 DEF Mail!NeverOverclaims, Mail!ApplicationArrives, Mail!MailTransports
  <2>. QED
    BY <1>2, <1>3, <2>1, <2>2 DEF Quiet
<1>4. ASSUME NEW r \in Slots, MailBegins(r)
      PROVE  Mail!NeverOverclaims' /\ Mail!ApplicationArrives' /\ Mail!BackupIsWhole'
  <2>1. UNCHANGED <<serial, t1, t5, t6>>
    <3>1. PICK op \in Mail!Operations, at \in {"ticket", "dump", "mail"}, dry \in BOOLEAN :
              \E list \in Mail!Lists(op) : Begun(r, op, at, list, dry)
      BY <1>4, MailBegun
    <3>2. PICK list \in Mail!Lists(op) : Begun(r, op, at, list, dry)
      BY <3>1
    <3>. QED
      BY <3>2 DEF Begun
  <2>. QED
    BY <1>2, <2>1 DEF Mail!BackupIsWhole
<1>5. ASSUME NEW r \in Slots, MailSteps(r)
      PROVE  Mail!NeverOverclaims' /\ Mail!ApplicationArrives' /\ Mail!BackupIsWhole'
  <2>1. UNCHANGED <<serial, t1>>
    BY <1>5, MailMoves
  <2>2. PICK k \in Mail!Job : MailMove(r, k) /\ (UNCHANGED <<t2, t6>> \/ Delivered(r, k))
    BY <1>5, MailMoves
  <2>3. Mail!BackupIsWhole'
    BY <2>1, <2>2 DEF Delivered, Whole, Mail!BackupIsWhole
  <2>4. ASSUME NEW says \in Mail!Says, EndTrue(k, says),
               t5' = [t5 EXCEPT ![k.op] = [says |-> says, got |-> k.got, failed |-> k.failed,
                                           sent |-> k.sent, out |-> k.out, dry |-> k.dry]]
        PROVE  Mail!NeverOverclaims' /\ Mail!ApplicationArrives'
    <3>1. /\ k.op \in Mail!Operations
          /\ t5'[k.op].says = says /\ t5'[k.op].got = k.got
          /\ t5'[k.op].failed = k.failed /\ t5'[k.op].sent = k.sent
          /\ t5'[k.op].out = k.out /\ t5'[k.op].dry = k.dry
          /\ \A op \in Mail!Operations \ {k.op} : t5'[op] = t5[op]
      BY <1>1, <2>4, MailFields
    <3>2. Mail!MailTransports' = Mail!MailTransports
      BY <2>1 DEF Mail!MailTransports
    <3>3. ASSUME Mail!MailTransports # {}, NEW op \in {"interest", "feedback"},
                 t5'[op].says = "sent"
          PROVE  t5'[op].got = Mail!ToSet(Mail!Mails[op])
      BY <1>1, <2>4, <3>1, <3>3 DEF EndTrue, Mail!NeverOverclaims
    <3>4. Mail!MailTransports # {} /\ ~t5'["batch"].dry => t5'["batch"].sent <= t5'["batch"].out
      BY <1>1, <2>4, <3>1 DEF EndTrue, Mail!NeverOverclaims
    <3>5. Mail!ApplicationArrives'
      BY <1>1, <2>4, <3>1, <3>2 DEF EndTrue, Mail!ApplicationArrives
    <3>. QED
      BY <3>2, <3>3, <3>4, <3>5 DEF Mail!NeverOverclaims
  <2>. QED
    BY <1>2, <2>1, <2>2, <2>3, <2>4, MailPlaces
<1>. QED
  BY <1>3, <1>4, <1>5, MailQuiet

-----------------------------------------------------------------------------
\* Mails out, mails to come, and what the calls allow.
LEMMA MailTransportsFinite ==
    /\ IsFiniteSet(Mail!MailTransports) /\ Mail!Cardinality(Mail!MailTransports) \in Nat
    /\ Mail!Cardinality(Mail!MailTransports)' \in Nat
<1>1. IsFiniteSet({"resend"} \cup {"smtp"})
  BY FS_Singleton, FS_Union
<1>2. \A H : IsFiniteSet(H \cap {"resend", "smtp"})
  <2>1. \A H : H \cap {"resend", "smtp"} \subseteq {"resend"} \cup {"smtp"}
    OBVIOUS
  <2>. QED
    BY <1>1, <2>1, FS_Subset
<1>3. \A H : Mail!Cardinality(H \cap {"resend", "smtp"}) \in Nat
  BY <1>2, FS_CardinalityType, MailCardinality
<1>4. IsFiniteSet(Mail!MailTransports) /\ Mail!Cardinality(Mail!MailTransports) \in Nat
  BY <1>2, <1>3 DEF Mail!MailTransports
<1>5. Mail!Cardinality(Mail!MailTransports)' \in Nat
  BY <1>3 DEF Mail!MailTransports
<1>. QED
  BY <1>4, <1>5, FS_Singleton, MailCardinality

\* The pairs of a slot and the ways it has left are no more than the ways.
LEMMA MailWays ==
    ASSUME NEW S, IsFiniteSet(S), NEW r, NEW u, NEW v, u # v, NEW W, W \subseteq {u, v}
    PROVE  /\ IsFiniteSet(S \cup {<<r, w>> : w \in W})
           /\ Cardinality(S \cup {<<r, w>> : w \in W}) <= Cardinality(S) + Cardinality(W)
<1>. DEFINE P == {<<r, w>> : w \in W}
<1>0. Cardinality(S) \in Nat
  BY FS_CardinalityType
<1>1. CASE W = {}
  <2>1. S \cup P = S
    BY <1>1
  <2>2. Cardinality(W) = 0
    BY <1>1, FS_EmptySet
  <2>. HIDE DEF P
  <2>3. IsFiniteSet(S \cup P) /\ Cardinality(S \cup P) = Cardinality(S)
    BY <2>1
  <2>. QED
    BY <1>0, <2>2, <2>3 DEF P
<1>2. CASE \E x : W = {x}
  <2>1. PICK x : W = {x}
    BY <1>2
  <2>2. S \cup P = S \cup {<<r, x>>}
    BY <2>1
  <2>3. /\ IsFiniteSet(S \cup {<<r, x>>})
        /\ Cardinality(S \cup {<<r, x>>}) \in {Cardinality(S), Cardinality(S) + 1}
    BY FS_AddElement
  <2>4. Cardinality(W) = 1
    BY <2>1, FS_Singleton
  <2>. HIDE DEF P
  <2>5. IsFiniteSet(S \cup P) /\ Cardinality(S \cup P) <= Cardinality(S) + Cardinality(W)
    BY <1>0, <2>2, <2>3, <2>4
  <2>. QED
    BY <2>5 DEF P
<1>3. CASE W = {u, v}
  <2>. DEFINE S1 == S \cup {<<r, u>>}  S2 == S1 \cup {<<r, v>>}
  <2>1. S \cup P = S2
    BY <1>3
  <2>2. IsFiniteSet(S1) /\ Cardinality(S1) \in {Cardinality(S), Cardinality(S) + 1}
    BY FS_AddElement
  <2>3. IsFiniteSet(S2) /\ Cardinality(S2) \in {Cardinality(S1), Cardinality(S1) + 1}
    <3>. HIDE DEF S1
    <3>. QED
      BY <2>2, FS_AddElement
  <2>4. Cardinality(W) = 2
    BY <1>3, MailTwo
  <2>. HIDE DEF P, S1, S2
  <2>6. Cardinality(S1) \in Nat /\ Cardinality(S2) \in Nat
    BY <2>2, <2>3, FS_CardinalityType
  <2>7. \A c, c1, c2 \in Nat : c1 \in {c, c + 1} /\ c2 \in {c1, c1 + 1} => c2 <= c + 2
    OBVIOUS
  <2>8. Cardinality(S2) <= Cardinality(S) + 2
    BY <1>0, <2>2, <2>3, <2>6, <2>7
  <2>5. IsFiniteSet(S \cup P) /\ Cardinality(S \cup P) <= Cardinality(S) + Cardinality(W)
    BY <2>1, <2>3, <2>4, <2>8
  <2>. QED
    BY <2>5 DEF P
<1>. QED
  BY <1>1, <1>2, <1>3

\* Nobody can be reached in more ways after a step by which no call of op begins.
LEMMA MailChances ==
    ASSUME t1' = t1, NEW op, NEW a \in Mail!Addresses,
           \A q \in Slots : Mail!Open(q, op)' => Mail!Open(q, op) /\ Narrows(task[q], task'[q])
    PROVE  Mail!Chances(op, a)' \subseteq Mail!Chances(op, a)
<1>1. \A j : Mail!Ways(j, a)' = Mail!Ways(j', a)
  BY DEF Mail!Ways, Mail!MailTransports
<1>. QED
  BY <1>1 DEF Mail!Chances, Narrows

\* The mails out and to come for one address, in terms of the sets of pairs.
Fits(op, a) ==
    /\ IsFiniteSet(Mail!Chances(op, a))
    /\ t2[op][a] + Cardinality(Mail!Chances(op, a)) <= Mail!Budget(op, a)

LEMMA MailFits ==
    /\ Mail!WithinBudget <=>
          \A op \in Mail!Operations, a \in Mail!Addresses : Fits(op, a)
    /\ Mail!WithinBudget' <=>
          \A op \in Mail!Operations, a \in Mail!Addresses : Fits(op, a)'
BY MailCardinality DEF Mail!WithinBudget, Fits

LEMMA MailBudget ==
    ASSUME NEW op \in Mail!Operations, NEW a \in Mail!Addresses
    PROVE  /\ Mail!TypeOK => Mail!Budget(op, a) \in Nat
           /\ Mail!TypeOK' => Mail!Budget(op, a)' \in Nat
<1>1. Mail!Cardinality(Mail!MailTransports) \in Nat
  BY MailTransportsFinite
<1>2. Mail!Cardinality(Mail!MailTransports)' \in Nat
  BY MailTransportsFinite
<1>3. \A c, m \in Nat : c * m \in Nat
  OBVIOUS
<1>4. Mail!TypeOK => t7[op] \in Nat /\ t8 \in Nat /\ t9[a] \in Nat
  BY MailConstants DEF Mail!TypeOK, Mail!MailAssumption
<1>5. Mail!TypeOK' => t7'[op] \in Nat /\ t8' \in Nat /\ t9'[a] \in Nat
  BY MailConstants DEF Mail!TypeOK, Mail!MailAssumption
<1>6. Mail!TypeOK => Mail!Budget(op, a) \in Nat
  BY <1>1, <1>3, <1>4 DEF Mail!Budget
<1>7. Mail!TypeOK' => Mail!Budget(op, a)' \in Nat
  BY <1>2, <1>3, <1>5 DEF Mail!Budget
<1>. QED
  BY <1>6, <1>7

\* Where nothing new can be reached and the calls allow no less.
LEMMA FitsStill ==
    ASSUME Mail!TypeOK, Mail!TypeOK', NEW op \in Mail!Operations, NEW a \in Mail!Addresses,
           Fits(op, a), t2'[op][a] = t2[op][a],
           Mail!Chances(op, a)' \subseteq Mail!Chances(op, a), Mail!Budget(op, a) <= Mail!Budget(op, a)'
    PROVE  Fits(op, a)'
<1>1. /\ t2[op][a] \in Nat /\ Mail!Budget(op, a) \in Nat /\ Mail!Budget(op, a)' \in Nat
  <2>1. t2 \in [Mail!Operations -> [Mail!Addresses -> Nat]]
    BY DEF Mail!TypeOK
  <2>. QED
    BY <2>1, MailBudget
<1>. DEFINE C == Mail!Chances(op, a)
<1>2. IsFiniteSet(C) /\ Cardinality(C) \in Nat /\ t2[op][a] + Cardinality(C) <= Mail!Budget(op, a)
  BY FS_CardinalityType DEF Fits
<1>. HIDE DEF C
<1>3. IsFiniteSet(C') /\ Cardinality(C') \in Nat /\ Cardinality(C') <= Cardinality(C)
  BY <1>2, FS_Subset, FS_CardinalityType DEF C
<1>4. t2'[op][a] + Cardinality(C') <= Mail!Budget(op, a)'
  BY <1>1, <1>2, <1>3
<1>. QED
  BY <1>3, <1>4 DEF Fits, C

\* A call of op adds to what may come no more than to what is allowed.
LEMMA FitsBegun ==
    ASSUME Mail!TypeOK, Mail!TypeOK', NEW r \in Slots, NEW at, NEW op \in Mail!Operations,
           NEW list \in Mail!Lists(op), NEW dry \in BOOLEAN, Begun(r, op, at, list, dry),
           NEW a \in Mail!Addresses, Fits(op, a)
    PROVE  Fits(op, a)'
<1>. DEFINE new == Mail!NewJob(op, list, dry)
            W == Mail!Ways(new, a)
            C == Mail!Chances(op, a)
            P == {<<r, w>> : w \in W}
<1>1. t1' = t1 /\ t2' = t2 /\ t8' = t8 /\ t7' = [t7 EXCEPT ![op] = @ + 1]
      /\ (op = "interest" => t3 = FALSE /\ t3' = TRUE)
      /\ (op = "batch" /\ ~dry => t9' = [b \in Mail!Addresses |-> t9[b] + Mail!Times(b, list)])
      /\ (dry => op = "batch" /\ t9' = t9)
  BY DEF Begun
<1>2. /\ dry => W = {}
      /\ ~dry /\ op = "application" => W \subseteq Mail!MailTransports
      /\ ~dry /\ op # "application" => W = Places(list, a)
  <2>1. new.op = op /\ new.left = list /\ new.dry = dry
    BY DEF Mail!NewJob
  <2>. HIDE DEF new
  <2>2. CASE dry
    <3>2. new.dry = TRUE
      BY <2>1, <2>2
    <3>1. Mail!Ways(new, a) = {}
      BY <3>2, MailWaysDry
    <3>. QED
      BY <1>1, <2>2, <3>1
  <2>3. CASE ~dry /\ op = "application"
    BY <2>1, <2>3, MailWaysOf
  <2>4. CASE ~dry /\ op # "application"
    BY <2>1, <2>4, MailWaysOf DEF Places
  <2>. QED
    BY <2>2, <2>3, <2>4
<1>3. IsFiniteSet(W) /\ (W \subseteq {"first", "last"} \/ W \subseteq {"resend", "smtp"})
  <2>. HIDE DEF W
  <2>1. dry => IsFiniteSet(W) /\ W \subseteq {"first", "last"}
    BY <1>2, FS_EmptySet
  <2>2. ~dry /\ op = "application" => IsFiniteSet(W) /\ W \subseteq {"resend", "smtp"}
    BY <1>2, MailTransportsFinite, FS_Subset DEF Mail!MailTransports
  <2>3. ~dry /\ op # "application" => IsFiniteSet(W) /\ W \subseteq {"first", "last"}
    BY <1>2, MailTimes DEF Places
  <2>. QED
    BY <2>1, <2>2, <2>3
<1>9. Cardinality(W) \in Nat
  BY <1>3, FS_CardinalityType
<1>. HIDE DEF W
<1>4. Mail!Budget(op, a)' >= Mail!Budget(op, a) + Cardinality(W)
  <2>1. t7'[op] = t7[op] + 1 /\ t7[op] \in Nat
    BY <1>1 DEF Mail!TypeOK
  <2>2. \A S : Cardinality(S) = Mail!Cardinality(S)
    BY MailCardinality
  <2>3. t8 \in Nat /\ Mail!MailTransports' = Mail!MailTransports /\ t9[a] \in Nat
    BY <1>1, MailConstants DEF Mail!TypeOK, Mail!MailAssumption, Mail!MailTransports
  <2>4. CASE op = "application"
    <3>1. \A c, m, n \in Nat : n <= m => (c + 1) * m >= c * m + n
      OBVIOUS
    <3>2. /\ Mail!Budget(op, a) = t7[op] * Mail!Cardinality(Mail!MailTransports)
          /\ Mail!Budget(op, a)' = (t7[op] + 1) * Mail!Cardinality(Mail!MailTransports)
      BY <2>1, <2>3, <2>4 DEF Mail!Budget
    <3>3. Cardinality(W) <= Mail!Cardinality(Mail!MailTransports)
      BY <1>1, <1>2, <2>2, <2>4, MailTransportsFinite, FS_Subset
    <3>. QED
      BY <1>9, <2>1, <3>1, <3>2, <3>3, MailTransportsFinite
  <2>7. op \notin {"application", "batch"} => Cardinality(W) <= 1
    BY <1>1, <1>2, MailTimes
  <2>5. CASE op = "interest"
    <3>1. Mail!Budget(op, a) = t8 + 0 /\ Mail!Budget(op, a)' = t8 + 1
      BY <1>1, <2>5 DEF Mail!Budget
    <3>. QED
      BY <1>9, <2>3, <2>5, <2>7, <3>1
  <2>8. CASE op = "batch"
    <3>1. Mail!Budget(op, a) = t9[a] /\ Mail!Budget(op, a)' = t9'[a]
      BY <2>8 DEF Mail!Budget
    <3>2. CASE dry
      <4>1. Cardinality(W) = 0
        BY <1>2, <3>2, FS_EmptySet
      <4>. QED
        BY <1>1, <2>3, <3>1, <3>2, <4>1
    <3>3. CASE ~dry
      <4>1. Cardinality(W) = Mail!Times(a, list) /\ Mail!Times(a, list) \in Nat
        BY <1>2, <2>8, <3>3, MailTimes
      <4>2. t9'[a] = t9[a] + Mail!Times(a, list)
        BY <1>1, <2>8, <3>3
      <4>. QED
        BY <2>3, <3>1, <4>1, <4>2
    <3>. QED
      BY <3>2, <3>3
  <2>6. CASE op \notin {"application", "interest", "batch"}
    <3>1. Mail!Budget(op, a) = t7[op] /\ Mail!Budget(op, a)' = t7[op] + 1
      BY <2>1, <2>6 DEF Mail!Budget
    <3>. QED
      BY <1>9, <2>1, <2>6, <2>7, <3>1
  <2>. QED
    BY <2>4, <2>5, <2>6, <2>8
<1>5. C' \subseteq C \cup P
  <2>1. step'[r] = at /\ task'[r] = new
        /\ \A q \in Slots \ {r} : step'[q] = step[q] /\ task'[q] = task[q]
    BY MailSlots DEF Begun
  <2>2. \A j : Mail!Ways(j, a)' = Mail!Ways(j', a)
    BY <1>1 DEF Mail!Ways, Mail!MailTransports
  <2>. HIDE DEF new
  <2>. QED
    BY <2>1, <2>2 DEF Mail!Chances, Mail!Open, W
<1>6. IsFiniteSet(C) /\ t2[op][a] + Cardinality(C) <= Mail!Budget(op, a)
  BY DEF Fits
<1>. HIDE DEF C
<1>7. IsFiniteSet(C \cup P) /\ Cardinality(C \cup P) <= Cardinality(C) + Cardinality(W)
  BY <1>3, <1>6, MailWays
<1>. HIDE DEF P
<1>8. /\ IsFiniteSet(C') /\ Cardinality(C') <= Cardinality(C \cup P)
      /\ Cardinality(C) \in Nat /\ Cardinality(C') \in Nat /\ Cardinality(C \cup P) \in Nat
  BY <1>5, <1>6, <1>7, FS_Subset, FS_CardinalityType
<1>10. t2[op][a] \in Nat /\ Mail!Budget(op, a) \in Nat
  <2>1. t2 \in [Mail!Operations -> [Mail!Addresses -> Nat]]
    BY DEF Mail!TypeOK
  <2>. QED
    BY <2>1, MailBudget
<1>12. Mail!Budget(op, a)' \in Nat
  BY MailBudget
<1>11. t2'[op][a] + Cardinality(C') <= Mail!Budget(op, a)'
  <2>1. \A i, c, p, n, w, b, d \in Nat :
           i + c <= b /\ p <= c + w /\ n <= p /\ d >= b + w => i + n <= d
    OBVIOUS
  <2>. QED
    BY <1>1, <1>4, <1>6, <1>7, <1>8, <1>9, <1>10, <1>12, <2>1
<1>. QED
  BY <1>8, <1>11 DEF Fits, C

\* A mail that goes out has one way less to come.
LEMMA FitsDelivered ==
    ASSUME Mail!TypeOK, Mail!TypeOK', NEW r \in Slots, NEW k \in Mail!Job, Delivered(r, k),
           step[r] # "idle", task[r] \in Mail!Job, t1' = t1,
           step'[r] # "idle" => Narrows(task[r], k),
           step'[r] # "idle" => task'[r] = k,
           \A q \in Slots \ {r} : step'[q] = step[q] /\ task'[q] = task[q],
           NEW op \in Mail!Operations, op = task[r].op,
           NEW a \in Mail!Addresses, a = Head(task[r].left), Fits(op, a),
           Mail!Budget(op, a)' = Mail!Budget(op, a)
    PROVE  Fits(op, a)'
<1>. DEFINE C == Mail!Chances(op, a)
<1>1. PICK w \in Mail!Ways(task[r], a) \cap {"first", "last", "resend", "smtp"} :
          step'[r] # "idle" => w \notin Mail!Ways(k, a)
  BY DEF Delivered
<1>2. <<r, w>> \in C
  BY <1>1 DEF Delivered, Mail!Chances, Mail!Open
<1>3. C' \subseteq C
  <2>1. \A q \in Slots : Mail!Open(q, op)' => Mail!Open(q, op) /\ Narrows(task[q], task'[q])
    BY DEF Mail!Open, Narrows
  <2>. QED
    BY <2>1, MailChances
<1>4. <<r, w>> \notin C'
  <2>1. \A j : Mail!Ways(j, a)' = Mail!Ways(j', a)
    BY DEF Mail!Ways, Mail!MailTransports
  <2>. QED
    BY <1>1, <2>1 DEF Mail!Chances, Mail!Open
<1>5. IsFiniteSet(C) /\ t2[op][a] + Cardinality(C) <= Mail!Budget(op, a)
  BY DEF Fits
<1>. HIDE DEF C
<1>6. C' \subseteq C \ {<<r, w>>}
  BY <1>3, <1>4
<1>7. IsFiniteSet(C \ {<<r, w>>}) /\ Cardinality(C \ {<<r, w>>}) = Cardinality(C) - 1
  BY <1>2, <1>5, FS_RemoveElement
<1>8. IsFiniteSet(C') /\ Cardinality(C') <= Cardinality(C \ {<<r, w>>})
      /\ Cardinality(C') \in Nat /\ Cardinality(C) \in Nat
  BY <1>5, <1>6, <1>7, FS_Subset, FS_CardinalityType
<1>9. t2[op][a] \in Nat /\ t2'[op][a] = t2[op][a] + 1 /\ Mail!Budget(op, a) \in Nat
  <2>1. t2 \in [Mail!Operations -> [Mail!Addresses -> Nat]]
    BY DEF Mail!TypeOK
  <2>2. t2' = [t2 EXCEPT ![op][a] = @ + 1]
    BY DEF Delivered
  <2>. QED
    BY <2>1, <2>2, MailBudget
<1>10. t2'[op][a] + Cardinality(C') <= Mail!Budget(op, a)'
  BY <1>5, <1>7, <1>8, <1>9
<1>. QED
  BY <1>8, <1>10 DEF Fits, C

LEMMA MailWithin ==
    ASSUME Mail!TypeOK, Mail!TypeOK', Mail!JobsTrue, Mail!WithinBudget, [Mail!Next]_Mail!vars
    PROVE  Mail!WithinBudget'
<1>. SUFFICES ASSUME NEW op \in Mail!Operations, NEW a \in Mail!Addresses
     PROVE  Fits(op, a)'
  BY MailFits
<1>1. a \in Mail!Addresses /\ Fits(op, a)
  BY MailFits
<1>2. Mail!Budget(op, a) \in Nat /\ t7[op] \in Nat /\ t8 \in Nat
  <2>1. t7 \in [Mail!Operations -> Nat] /\ t8 \in 0..MailRestarts /\ MailRestarts \in Nat
    BY MailConstants DEF Mail!TypeOK, Mail!MailAssumption
  <2>. QED
    BY <2>1, MailBudget
<1>3. \A j : Narrows(j, j)
  BY DEF Narrows
<1>4. CASE Quiet
  <2>1. Mail!Chances(op, a)' \subseteq Mail!Chances(op, a)
    <3>1. \A q \in Slots : Mail!Open(q, op)' => Mail!Open(q, op) /\ task'[q] = task[q]
      BY <1>4 DEF Quiet, Mail!Open
    <3>. QED
      BY <1>3, <1>4, <3>1, MailChances DEF Quiet
  <2>2. Mail!Budget(op, a) <= Mail!Budget(op, a)'
    <3>1. Mail!MailTransports' = Mail!MailTransports /\ t8' \in Nat
      BY <1>4, MailConstants DEF Quiet, Mail!MailTransports, Mail!MailAssumption
    <3>2. /\ t7'[op] = t7[op] \/ t7'[op] = t7[op] + 1
          /\ op = "application" => t7'[op] = t7[op]
      <4>1. t7 \in [Mail!Operations -> Nat]
        BY DEF Mail!TypeOK
      <4>2. ASSUME NEW o \in {"interest", "concern"}, t7' = [t7 EXCEPT ![o] = @ + 1]
            PROVE  IF op = o THEN t7'[op] = t7[op] + 1 ELSE t7'[op] = t7[op]
        BY <4>1, <4>2
      <4>. QED
        BY <1>4, <4>2 DEF Quiet
    <3>3. CASE op = "application"
      BY <1>2, <3>1, <3>2, <3>3 DEF Mail!Budget
    <3>4. CASE op = "interest"
      <4>1. t8 <= t8' /\ (t3 /\ ~t3' => t8' = t8 + 1)
        BY <1>4 DEF Quiet
      <4>. QED
        BY <1>2, <3>1, <3>4, <4>1 DEF Mail!Budget
    <3>6. CASE op = "batch"
      <4>1. t9' = t9 /\ t9[a] \in Nat
        BY <1>4 DEF Quiet, Mail!TypeOK
      <4>2. Mail!Budget(op, a) = t9[a] /\ Mail!Budget(op, a)' = t9'[a]
        BY <3>6 DEF Mail!Budget
      <4>. QED
        BY <4>1, <4>2
    <3>5. CASE op \notin {"application", "interest", "batch"}
      <4>1. Mail!Budget(op, a) = t7[op] /\ Mail!Budget(op, a)' = t7'[op]
        BY <3>5 DEF Mail!Budget
      <4>. QED
        BY <1>2, <3>2, <4>1
    <3>. QED
      BY <3>3, <3>4, <3>5, <3>6
  <2>. QED
    BY <1>1, <1>4, <2>1, <2>2, FitsStill DEF Quiet
<1>5. ASSUME NEW r \in Slots, MailBegins(r)
      PROVE  Fits(op, a)'
  <2>0. PICK o \in Mail!Operations, at \in {"ticket", "dump", "mail"}, dry \in BOOLEAN :
            \E list \in Mail!Lists(o) : Begun(r, o, at, list, dry)
    BY <1>5, MailBegun
  <2>1. PICK list \in Mail!Lists(o) : Begun(r, o, at, list, dry)
    BY <2>0
  <2>2. CASE o = op
    BY <1>1, <2>1, <2>2, FitsBegun
  <2>3. CASE o # op
    <3>1. /\ t7'[op] = t7[op] /\ t8' = t8 /\ t2' = t2 /\ t1' = t1
          /\ op = "interest" => t3' = t3
          /\ op = "batch" => t9' = t9
      BY <2>1, <2>3 DEF Begun, Mail!TypeOK
    <3>2. Mail!Budget(op, a)' = Mail!Budget(op, a)
      BY <3>1 DEF Mail!Budget, Mail!MailTransports
    <3>3. \A q \in Slots : Mail!Open(q, op)' => Mail!Open(q, op) /\ task'[q] = task[q]
      <4>1. /\ task'[r].op = o
            /\ \A q \in Slots \ {r} : step'[q] = step[q] /\ task'[q] = task[q]
        BY <2>1, MailSlots DEF Begun, Mail!NewJob
      <4>. QED
        BY <2>3, <4>1 DEF Mail!Open
    <3>4. Mail!Chances(op, a)' \subseteq Mail!Chances(op, a)
      BY <1>3, <3>1, <3>3, MailChances
    <3>. QED
      BY <1>1, <1>2, <3>1, <3>2, <3>4, FitsStill
  <2>. QED
    BY <2>2, <2>3
<1>6. ASSUME NEW r \in Slots, MailSteps(r)
      PROVE  Fits(op, a)'
  <2>1. step[r] # "idle" /\ task[r] \in Mail!Job /\ UNCHANGED <<t1, t3, t7, t8, t9>>
        /\ ListFacts(task[r].op, task[r].left)
    BY <1>6, MailMoves
  <2>2. PICK k \in Mail!Job : /\ MailMove(r, k) /\ Follows(task[r], k)
                              /\ UNCHANGED <<t2, t6>> \/ Delivered(r, k)
    BY <1>6, MailMoves
  <2>3. /\ step'[r] # "idle" => task'[r] = k /\ Narrows(task[r], k)
        /\ \A q \in Slots \ {r} : step'[q] = step[q] /\ task'[q] = task[q]
    <3>1. /\ step'[r] # "idle" => task'[r] = k /\ k.left # <<>>
          /\ \A q \in Slots \ {r} : step'[q] = step[q] /\ task'[q] = task[q]
      BY <2>2, MailPlaces
    <3>. QED
      BY <2>1, <2>2, <3>1, MailNarrows
  <2>4. Mail!Budget(op, a)' = Mail!Budget(op, a)
    BY <2>1 DEF Mail!Budget, Mail!MailTransports
  <2>5. Mail!Chances(op, a)' \subseteq Mail!Chances(op, a)
    <3>1. \A q \in Slots : Mail!Open(q, op)' => Mail!Open(q, op) /\ Narrows(task[q], task'[q])
      BY <1>3, <2>1, <2>2, <2>3 DEF Mail!Open, Narrows
    <3>. QED
      BY <2>1, <3>1, MailChances
  <2>6. CASE Delivered(r, k) /\ op = task[r].op /\ a = Head(task[r].left)
    BY <1>1, <2>1, <2>2, <2>3, <2>4, <2>6, FitsDelivered
  <2>7. CASE t2'[op][a] = t2[op][a]
    BY <1>1, <1>2, <2>4, <2>5, <2>7, FitsStill
  <2>8. ASSUME Delivered(r, k), op # task[r].op \/ a # Head(task[r].left)
        PROVE  t2'[op][a] = t2[op][a]
    <3>1. t2 \in [Mail!Operations -> [Mail!Addresses -> Nat]]
      BY DEF Mail!TypeOK
    <3>2. t2' = [t2 EXCEPT ![task[r].op][Head(task[r].left)] = @ + 1]
      BY <2>8 DEF Delivered
    <3>. QED
      BY <1>1, <2>8, <3>1, <3>2
  <2>. QED
    BY <2>2, <2>6, <2>7, <2>8
<1>. QED
  BY <1>4, <1>5, <1>6, MailQuiet

-----------------------------------------------------------------------------
MailInv ==
    part = "mail" =>
        /\ Mail!TypeOK /\ Mail!JobsTrue /\ Mail!WithinBudget
        /\ Mail!NeverOverclaims /\ Mail!ApplicationArrives /\ Mail!BackupIsWhole

LEMMA MailOpens ==
    ASSUME Mail!Init
    PROVE  /\ Mail!TypeOK /\ Mail!JobsTrue /\ Mail!WithinBudget
           /\ Mail!NeverOverclaims /\ Mail!ApplicationArrives /\ Mail!BackupIsWhole
<1> USE DEF Mail!Init
<1>1. Mail!TypeOK
  <2>1. Mail!NoAnswer \in Answer
    BY DEF Mail!NoAnswer, Answer, Mail!Says
  <2>2. t8 \in 0..MailRestarts
    BY MailConstants DEF Mail!MailAssumption
  <2>. QED
    BY <2>1, <2>2 DEF Mail!TypeOK, Answer
<1>2. Mail!JobsTrue
  BY DEF Mail!JobsTrue
<1>3. Mail!WithinBudget
  <2>. SUFFICES ASSUME NEW op \in Mail!Operations, NEW a \in Mail!Addresses
       PROVE  Fits(op, a)
    BY MailFits
  <2>1. Mail!Chances(op, a) = {}
    BY DEF Mail!Chances, Mail!Open
  <2>2. t2[op][a] = 0
    OBVIOUS
  <2>3. Mail!Budget(op, a) \in Nat
    BY <1>1, MailBudget
  <2>. QED
    BY <2>1, <2>2, <2>3, FS_EmptySet DEF Fits
<1>4. \A op \in Mail!Operations :
         /\ t5[op].says = "nothing" /\ t5[op].sent = 0 /\ t5[op].out = 0
  BY DEF Mail!NoAnswer
<1>5. Mail!NeverOverclaims /\ Mail!ApplicationArrives
  <2>. HIDE DEF Mail!Init
  <2>2. /\ t5["interest"].says = "nothing" /\ t5["feedback"].says = "nothing"
        /\ t5["application"].says = "nothing"
        /\ t5["batch"].sent = 0 /\ t5["batch"].out = 0
    BY <1>4, MailOps
  <2>4. Mail!NeverOverclaims
    BY <2>2 DEF Mail!NeverOverclaims
  <2>5. Mail!ApplicationArrives
    BY <2>2 DEF Mail!ApplicationArrives
  <2>. QED
    BY <2>4, <2>5
<1>6. Mail!BackupIsWhole
  BY DEF Mail!BackupIsWhole
<1>. QED
  BY <1>1, <1>2, <1>3, <1>5, <1>6

LEMMA MailKept ==
    ASSUME MailInv, [PartNext]_<<vars, store>>
    PROVE  MailInv'
<1>. SUFFICES ASSUME part' = "mail"
     PROVE  /\ Mail!TypeOK' /\ Mail!JobsTrue' /\ Mail!WithinBudget'
            /\ Mail!NeverOverclaims' /\ Mail!ApplicationArrives' /\ Mail!BackupIsWhole'
  BY DEF MailInv
<1>1. part = "mail" /\ [Mail!Next]_Mail!vars
  BY PartStays, MailStep
<1>2. Mail!TypeOK' /\ Mail!JobsTrue'
  BY <1>1, MailTyped DEF MailInv
<1>3. Mail!WithinBudget'
  BY <1>1, <1>2, MailWithin DEF MailInv
<1>4. Mail!NeverOverclaims' /\ Mail!ApplicationArrives' /\ Mail!BackupIsWhole'
  BY <1>1, MailTold DEF MailInv
<1>. QED
  BY <1>2, <1>3, <1>4

\* Nobody gets more copies of a mail than there were calls for it, of a batch than it lists
\* them, a dry run none, a registration over each transport at most once, and the team hears of a click once in six hours or life of the
\* process; no answer claims a mail that did not go out, the team gets a registration unless
\* every transport has failed, and a dump that broke off is never mailed where its exit is
\* seen in time.
THEOREM MailIsTruthful == PartSpec => []MailTruthful
<1>1. PartInit => MailInv
  BY MailStart, MailOpens DEF MailInv
<1>2. MailInv /\ [PartNext]_<<vars, store>> => MailInv'
  BY MailKept
<1>3. MailInv => MailTruthful
  <2>. SUFFICES ASSUME MailInv, part = "mail"
       PROVE  /\ Mail!TypeOK /\ Mail!CopiesBounded /\ Mail!NeverOverclaims
              /\ Mail!ApplicationArrives /\ Mail!BackupIsWhole
    BY DEF MailTruthful
  <2>1. ASSUME NEW op \in Mail!Operations, NEW a \in Mail!Addresses
        PROVE  t2[op][a] <= CASE op = "interest" -> 1 + t8
                              [] op = "application" -> t7[op] * Mail!Cardinality(Mail!MailTransports)
                              [] op = "batch" -> t9[a]
                              [] OTHER -> t7[op]
    <3>1. Fits(op, a) /\ Mail!TypeOK
      BY MailFits DEF MailInv
    <3>2. Cardinality(Mail!Chances(op, a)) \in Nat
      BY <3>1, FS_CardinalityType DEF Fits
    <3>3. t2[op][a] \in Nat /\ Mail!Budget(op, a) \in Nat
      <4>1. t2 \in [Mail!Operations -> [Mail!Addresses -> Nat]]
        BY <3>1 DEF Mail!TypeOK
      <4>. QED
        BY <3>1, <4>1, MailBudget
    <3>4. t2[op][a] <= Mail!Budget(op, a)
      BY <3>1, <3>2, <3>3 DEF Fits
    <3>5. t8 \in Nat
      BY <3>1, MailConstants DEF Mail!TypeOK, Mail!MailAssumption
    <3>6. op = "interest" => Mail!Budget(op, a) <= 1 + t8
      BY <3>5 DEF Mail!Budget
    <3>7. CASE op = "interest"
      BY <3>3, <3>4, <3>5, <3>6, <3>7
    <3>8. CASE op # "interest"
      BY <3>4, <3>8 DEF Mail!Budget
    <3>. QED
      BY <3>7, <3>8
  <2>2. Mail!CopiesBounded
    BY <2>1 DEF Mail!CopiesBounded
  <2>. QED
    BY <2>2 DEF MailInv
<1>. QED
  BY <1>1, <1>2, <1>3, PTL DEF PartSpec

-----------------------------------------------------------------------------
(***************************************************************************)
(* The audience of a stream.                                               *)
(***************************************************************************)
LEMMA CrowdStart ==
    ASSUME PartInit, part \in {"sockets", "likes"}
    PROVE  Crowd!Init
BY DEF PartInit

LEMMA CrowdStep ==
    ASSUME [PartNext]_<<vars, store>>, part \in {"sockets", "likes"}
    PROVE  [Crowd!Next]_Crowd!vars
BY DEF PartNext, vars, store, Crowd!Next, Crowd!vars, Crowd!redis, Crowd!slot

\* The handlers: what a slot holds is what its place needs.
CrowdSlots ==
    /\ t11 \in 0..CrowdCalls
    /\ step \in [Slots -> Crowd!Steps]
    /\ task \in [Slots -> {Crowd!Free} \cup Crowd!Liking \cup Crowd!Entering
                            \cup Crowd!Viewing \cup Crowd!Stopping]
    /\ \A r \in Slots : task[r] \in Crowd!JobAt(step[r])

CrowdTables ==
    /\ serial \in BOOLEAN /\ t1 \in [Streams -> BOOLEAN]
    /\ t3 \in [Streams -> SUBSET Pair]
    /\ t4 \in [Streams -> SUBSET Pair] /\ t9 \in [Streams -> SUBSET Pair]
    /\ t6 \in [Streams -> Nat] /\ t7 \in [Streams -> SUBSET Pair]
    /\ t10 \in [Streams -> 0..CrowdWindows] /\ DOMAIN t8 = Streams

CrowdLists ==
    /\ t5 \in [Streams -> [Crowd!Kinds -> Seq(Crowd!Entry)]]
    /\ \A s \in Streams, k \in Crowd!Kinds : Len(t5[s][k]) <= Kept

CrowdClients ==
    /\ t2 \in [Pair -> [state : {"new", "open", "gone"},
                        stream : Streams \cup {NoStream}, rooms : SUBSET Streams]]
    /\ \A k \in Pair : t2[k].state # "open" => t2[k].rooms = {}

LEMMA CrowdTypes ==
    /\ Crowd!TypeOK <=> CrowdSlots /\ CrowdTables /\ CrowdLists /\ CrowdClients
    /\ Crowd!TypeOK' <=> CrowdSlots' /\ CrowdTables' /\ CrowdLists' /\ CrowdClients'
BY DEF Crowd!TypeOK, CrowdSlots, CrowdTables, CrowdLists, CrowdClients, Crowd!Kinds

LEMMA CrowdStarts ==
    ASSUME CrowdSlots, NEW r \in Slots, NEW at \in Crowd!Steps, NEW j, j \in Crowd!JobAt(at),
           Crowd!Start(r, at, j)
    PROVE  /\ CrowdSlots' /\ step[r] = "idle" /\ step'[r] = at /\ task'[r] = j
           /\ \A q \in Slots \ {r} : step'[q] = step[q] /\ task'[q] = task[q]
           /\ serial => \A q \in Slots : step[q] = "idle"
<1>1. j \in {Crowd!Free} \cup Crowd!Liking \cup Crowd!Entering \cup Crowd!Viewing \cup Crowd!Stopping
  BY DEF Crowd!JobAt
<1>2. CrowdCalls \in Nat
  BY CrowdConstants DEF Crowd!AudienceAssumption
<1>3. t11' \in 0..CrowdCalls
  BY <1>2 DEF CrowdSlots, Crowd!Start
<1>4. /\ step' = [step EXCEPT ![r] = at] /\ task' = [task EXCEPT ![r] = j] /\ step[r] = "idle"
      /\ serial => \A q \in Slots : step[q] = "idle"
  BY DEF Crowd!Start
<1>5. /\ step' \in [Slots -> Crowd!Steps] /\ step'[r] = at /\ task'[r] = j
      /\ task' \in [Slots -> {Crowd!Free} \cup Crowd!Liking \cup Crowd!Entering
                               \cup Crowd!Viewing \cup Crowd!Stopping]
      /\ \A q \in Slots \ {r} : step'[q] = step[q] /\ task'[q] = task[q]
  BY <1>1, <1>4 DEF CrowdSlots
<1>6. \A q \in Slots : task'[q] \in Crowd!JobAt(step'[q])
  BY <1>5 DEF CrowdSlots
<1>. QED
  BY <1>3, <1>4, <1>5, <1>6 DEF CrowdSlots

\* A handler goes on with its job, or is done.
LEMMA CrowdGoes ==
    ASSUME CrowdSlots, t11' = t11, NEW r \in Slots, NEW at \in Crowd!Steps,
           Crowd!Goto(r, at), task[r] \in Crowd!JobAt(at)
    PROVE  /\ CrowdSlots' /\ step'[r] = at /\ task' = task
           /\ \A q \in Slots \ {r} : step'[q] = step[q]
<1>1. /\ step' \in [Slots -> Crowd!Steps] /\ step'[r] = at /\ task' = task
      /\ \A q \in Slots \ {r} : step'[q] = step[q]
  BY DEF Crowd!Goto, CrowdSlots
<1>2. \A q \in Slots : task'[q] \in Crowd!JobAt(step'[q])
  BY <1>1 DEF CrowdSlots
<1>. QED
  BY <1>1, <1>2 DEF CrowdSlots

LEMMA CrowdDone ==
    ASSUME CrowdSlots, t11' = t11, NEW r \in Slots, Crowd!Done(r)
    PROVE  /\ CrowdSlots' /\ step'[r] = "idle"
           /\ \A q \in Slots \ {r} : step'[q] = step[q] /\ task'[q] = task[q]
<1>1. /\ step' \in [Slots -> Crowd!Steps] /\ step'[r] = "idle" /\ task'[r] = Crowd!Free
      /\ task' \in [Slots -> {Crowd!Free} \cup Crowd!Liking \cup Crowd!Entering
                               \cup Crowd!Viewing \cup Crowd!Stopping]
      /\ \A q \in Slots \ {r} : step'[q] = step[q] /\ task'[q] = task[q]
  BY DEF Crowd!Done, CrowdSlots, Crowd!Steps
<1>2. \A q \in Slots : task'[q] \in Crowd!JobAt(step'[q])
  BY <1>1 DEF CrowdSlots, Crowd!JobAt
<1>. QED
  BY <1>1, <1>2 DEF CrowdSlots

\* What the place of a slot says of its job.
LEMMA CrowdJobs ==
    ASSUME CrowdSlots, NEW r \in Slots
    PROVE  /\ step[r] # "idle" => task[r].stream \in Streams
           /\ step[r] = "like" => task[r].user \in Pair /\ task[r].likedBy \subseteq Pair
           /\ step[r] = "entry" => /\ task[r].op \in Crowd!Kinds /\ task[r].amount \in Crowd!Entry
                                   /\ task[r].list \in Seq(Crowd!Entry)
           /\ step[r] \in {"window", "count"} =>
                 task[r].user \in Pair /\ task[r] \in Crowd!JobAt("count")
           /\ step[r] \in {"end", "summary", "clear"} =>
                 task[r] \in Crowd!JobAt("summary") /\ task[r] \in Crowd!JobAt("clear")
<1>1. step[r] \in Crowd!Steps /\ task[r] \in Crowd!JobAt(step[r])
  BY DEF CrowdSlots
<1>2. step[r] = "like" => task[r] \in Crowd!Liking
  BY <1>1 DEF Crowd!JobAt
<1>3. step[r] = "entry" => task[r] \in Crowd!Entering
  BY <1>1 DEF Crowd!JobAt
<1>4. step[r] \in {"window", "count"} => task[r] \in Crowd!Viewing
  BY <1>1 DEF Crowd!JobAt
<1>5. step[r] \in {"end", "summary", "clear"} => task[r] \in Crowd!Stopping
  BY <1>1 DEF Crowd!JobAt
<1>6. Crowd!JobAt("count") = Crowd!Viewing /\ Crowd!JobAt("summary") = Crowd!Stopping
      /\ Crowd!JobAt("clear") = Crowd!Stopping
  BY DEF Crowd!JobAt
<1>7. step[r] = "like" =>
         task[r].stream \in Streams /\ task[r].user \in Pair /\ task[r].likedBy \subseteq Pair
  BY <1>2 DEF Crowd!Liking
<1>8. step[r] = "entry" =>
         /\ task[r].op \in Crowd!Kinds /\ task[r].amount \in Crowd!Entry
         /\ task[r].list \in Seq(Crowd!Entry) /\ task[r].stream \in Streams
  BY <1>3 DEF Crowd!Entering
<1>9. step[r] \in {"window", "count"} => task[r].user \in Pair /\ task[r].stream \in Streams
  BY <1>4 DEF Crowd!Viewing
<1>10. step[r] \in {"end", "summary", "clear"} => task[r].stream \in Streams
  BY <1>5 DEF Crowd!Stopping
<1>. QED
  BY <1>1, <1>4, <1>5, <1>6, <1>7, <1>8, <1>9, <1>10 DEF Crowd!Steps

\* The steps that start a handler, and those of one that runs.
CrowdBegins(r) ==
    \/ \E s \in Streams, u \in Pair : Crowd!ReadLikes(r, s, u) \/ Crowd!GetJoinToken(r, s, u)
    \/ \E s \in Streams, kind \in Crowd!Kinds, amount \in Bids \cup {0} :
          Crowd!ReadEntries(r, s, kind, amount)
    \/ \E s \in Streams : Crowd!StopStream(r, s)
CrowdRuns(r) ==
    \/ Crowd!WriteLikes(r) \/ Crowd!WriteEntries(r) \/ Crowd!OpenWindow(r) \/ Crowd!CountView(r)
    \/ Crowd!EndRow(r) \/ Crowd!BuildStreamEndSummary(r) \/ Crowd!ClearStreamEphemeralKeys(r)
    \/ Crowd!Fail(r)
\* Those of no handler.
CrowdAlone ==
    \/ \E k \in Pair : Crowd!Connect(k) \/ Crowd!HandleDisconnect(k)
    \/ \E k \in Pair, s \in Streams : Crowd!JoinRoom(k, s)
    \/ \E s \in Streams : Crowd!ViewersExpire(s) \/ Crowd!EngagementExpires(s)
    \/ \E s \in Streams, u \in Pair : Crowd!WindowEnds(s, u)
    \/ UNCHANGED Crowd!vars

LEMMA CrowdSteps ==
    ASSUME [Crowd!Next]_Crowd!vars
    PROVE  CrowdAlone \/ Crowd!Restart \/ \E r \in Slots : CrowdBegins(r) \/ CrowdRuns(r)
BY DEF Crowd!Next, Crowd!SocketSteps, Crowd!EngagementSteps, Crowd!ViewSteps, Crowd!StopSteps,
   CrowdAlone, CrowdBegins, CrowdRuns

LEMMA CrowdBegun ==
    ASSUME Crowd!TypeOK, NEW r \in Slots, CrowdBegins(r)
    PROVE  /\ UNCHANGED <<serial, t1, t2, t3, t4, t5, t6, t7, t8, t9, t10>>
           /\ CrowdSlots' /\ step[r] = "idle"
           /\ \A q \in Slots \ {r} : step'[q] = step[q] /\ task'[q] = task[q]
           /\ serial => \A q \in Slots : step[q] = "idle"
           /\ step'[r] \in {"like", "entry", "window", "end"}
           /\ step'[r] = "like" => task'[r].likedBy = t4[task'[r].stream]
           /\ step'[r] = "entry" => task'[r].list = t5[task'[r].stream][task'[r].op]
<1>1. CrowdSlots /\ CrowdTables /\ CrowdLists
  BY CrowdTypes
<1>2. {"like", "entry", "window", "end"} \subseteq Crowd!Steps
  BY DEF Crowd!Steps
<1>3. ASSUME NEW s \in Streams, NEW u \in Pair, Crowd!ReadLikes(r, s, u)
      PROVE  \E j \in Crowd!JobAt("like") :
                Crowd!Start(r, "like", j) /\ j.likedBy = t4[j.stream]
  <2>. DEFINE j == [op |-> "like", stream |-> s, user |-> u, likedBy |-> t4[s]]
  <2>1. j \in Crowd!Liking
    BY <1>1 DEF CrowdTables, Crowd!Liking
  <2>2. j \in Crowd!JobAt("like") /\ Crowd!Start(r, "like", j) /\ j.likedBy = t4[j.stream]
    BY <1>3, <2>1 DEF Crowd!JobAt, Crowd!ReadLikes
  <2>. QED
    BY <2>2
<1>4. ASSUME NEW s \in Streams, NEW u \in Pair, Crowd!GetJoinToken(r, s, u)
      PROVE  \E j \in Crowd!JobAt("window") : Crowd!Start(r, "window", j)
  <2>. DEFINE j == [op |-> "view", stream |-> s, user |-> u]
  <2>1. j \in Crowd!JobAt("window")
    BY DEF Crowd!JobAt, Crowd!Viewing
  <2>. QED
    BY <1>4, <2>1 DEF Crowd!GetJoinToken
<1>5. ASSUME NEW s \in Streams, NEW kind \in Crowd!Kinds, NEW amount \in Bids \cup {0},
             Crowd!ReadEntries(r, s, kind, amount)
      PROVE  \E j \in Crowd!JobAt("entry") :
                Crowd!Start(r, "entry", j) /\ j.list = t5[j.stream][j.op]
  <2>. DEFINE j == [op |-> kind, stream |-> s, amount |-> amount, list |-> t5[s][kind]]
  <2>1. t5[s][kind] \in Seq(Crowd!Entry) /\ amount \in Crowd!Entry
    BY <1>1 DEF CrowdLists, Crowd!Entry
  <2>2. j \in Crowd!Entering
    BY <2>1 DEF Crowd!Entering
  <2>3. j \in Crowd!JobAt("entry") /\ Crowd!Start(r, "entry", j) /\ j.list = t5[j.stream][j.op]
    BY <1>5, <2>2 DEF Crowd!JobAt, Crowd!ReadEntries
  <2>. QED
    BY <2>3
<1>6. ASSUME NEW s \in Streams, Crowd!StopStream(r, s)
      PROVE  \E j \in Crowd!JobAt("end") : Crowd!Start(r, "end", j)
  <2>. DEFINE j == [op |-> "stop", stream |-> s, viewCount |-> t6[s]]
  <2>1. j \in Crowd!Stopping
    BY <1>1 DEF Crowd!Stopping, CrowdTables
  <2>2. j \in Crowd!JobAt("end")
    BY <2>1 DEF Crowd!JobAt
  <2>. QED
    BY <1>6, <2>2 DEF Crowd!StopStream
<1>7. UNCHANGED <<serial, t1, t2, t3, t4, t5, t6, t7, t8, t9, t10>>
  BY DEF CrowdBegins, Crowd!ReadLikes, Crowd!GetJoinToken, Crowd!ReadEntries, Crowd!StopStream,
         Crowd!redis
<1>8. \E at \in {"like", "entry", "window", "end"} : \E j \in Crowd!JobAt(at) :
         /\ Crowd!Start(r, at, j)
         /\ at = "like" => j.likedBy = t4[j.stream]
         /\ at = "entry" => j.list = t5[j.stream][j.op]
  BY <1>3, <1>4, <1>5, <1>6 DEF CrowdBegins
<1>. QED
  BY <1>1, <1>2, <1>7, <1>8, CrowdStarts

LEMMA CrowdRan ==
    ASSUME Crowd!TypeOK, NEW r \in Slots, CrowdRuns(r)
    PROVE  /\ CrowdSlots' /\ step[r] # "idle" /\ task[r].stream \in Streams
           /\ UNCHANGED <<serial, t2, t10>>
           /\ \A q \in Slots \ {r} : step'[q] = step[q] /\ task'[q] = task[q]
           /\ \/ step'[r] = "idle"
              \/ /\ task' = task
                 /\ \/ Crowd!OpenWindow(r) /\ step'[r] = "count"
                    \/ Crowd!EndRow(r) /\ step'[r] = "summary"
                    \/ Crowd!BuildStreamEndSummary(r) /\ step'[r] = "clear"
<1>1. CrowdSlots
  BY CrowdTypes
<1>2. step[r] # "idle" /\ task[r].stream \in Streams /\ t11' = t11 /\ UNCHANGED <<serial, t2, t10>>
  <2>1. step[r] # "idle"
    BY DEF CrowdRuns, Crowd!WriteLikes, Crowd!WriteEntries, Crowd!PutEntries, Crowd!OpenWindow,
       Crowd!CountView, Crowd!EndRow, Crowd!BuildStreamEndSummary,
       Crowd!ClearStreamEphemeralKeys, Crowd!Fail, Crowd!At
  <2>2. t11' = t11 /\ UNCHANGED <<serial, t2, t10>>
    BY DEF CrowdRuns, Crowd!WriteLikes, Crowd!WriteEntries, Crowd!PutEntries, Crowd!OpenWindow,
       Crowd!CountView, Crowd!EndRow, Crowd!BuildStreamEndSummary,
       Crowd!ClearStreamEphemeralKeys, Crowd!Fail, Crowd!At, Crowd!redis
  <2>. QED
    BY <1>1, <2>1, <2>2, CrowdJobs
<1>3. CASE Crowd!Done(r)
  BY <1>1, <1>2, <1>3, CrowdDone
<1>4. CASE Crowd!OpenWindow(r) /\ Crowd!Goto(r, "count")
  <2>1. task[r] \in Crowd!JobAt("count") /\ "count" \in Crowd!Steps
    BY <1>1, <1>4, CrowdJobs DEF Crowd!OpenWindow, Crowd!At, Crowd!Steps
  <2>. QED
    BY <1>1, <1>2, <1>4, <2>1, CrowdGoes
<1>5. CASE Crowd!EndRow(r)
  <2>1. task[r] \in Crowd!JobAt("summary") /\ "summary" \in Crowd!Steps
    BY <1>1, <1>5, CrowdJobs DEF Crowd!EndRow, Crowd!At, Crowd!Steps
  <2>2. Crowd!Goto(r, "summary")
    BY <1>5 DEF Crowd!EndRow
  <2>. QED
    BY <1>1, <1>2, <1>5, <2>1, <2>2, CrowdGoes
<1>6. CASE Crowd!BuildStreamEndSummary(r)
  <2>1. task[r] \in Crowd!JobAt("clear") /\ "clear" \in Crowd!Steps
    BY <1>1, <1>6, CrowdJobs DEF Crowd!BuildStreamEndSummary, Crowd!At, Crowd!Steps
  <2>2. Crowd!Goto(r, "clear")
    BY <1>6 DEF Crowd!BuildStreamEndSummary
  <2>. QED
    BY <1>1, <1>2, <1>6, <2>1, <2>2, CrowdGoes
<1>7. \/ Crowd!Done(r) \/ Crowd!EndRow(r) \/ Crowd!BuildStreamEndSummary(r)
      \/ Crowd!OpenWindow(r) /\ Crowd!Goto(r, "count")
  BY DEF CrowdRuns, Crowd!WriteLikes, Crowd!WriteEntries, Crowd!PutEntries, Crowd!OpenWindow,
     Crowd!CountView, Crowd!ClearStreamEphemeralKeys, Crowd!Fail
<1>. QED
  BY <1>3, <1>4, <1>5, <1>6, <1>7

\* The last n of a list.
LEMMA CrowdLast ==
    ASSUME NEW E, NEW l \in Seq(E), NEW n \in Nat \ {0}
    PROVE  /\ Crowd!Last(l, n) \in Seq(E) /\ Len(Crowd!Last(l, n)) <= n
           /\ Len(l) <= n => Crowd!Last(l, n) = l
<1>1. CASE Len(l) <= n
  BY <1>1 DEF Crowd!Last
<1>2. CASE ~(Len(l) <= n)
  <2>. DEFINE m == Len(l) - n + 1
  <2>1. Len(l) \in Nat /\ m \in 1..Len(l)
    BY <1>2
  <2>2. \A i \in m..Len(l) : l[i] \in E
    BY <2>1
  <2>3. SubSeq(l, m, Len(l)) \in Seq(E)
        /\ Len(SubSeq(l, m, Len(l))) = IF m <= Len(l) THEN Len(l) - m + 1 ELSE 0
    BY <2>1, <2>2, SubSeqProperties
  <2>4. Crowd!Last(l, n) = SubSeq(l, m, Len(l))
    BY <1>2 DEF Crowd!Last
  <2>. QED
    BY <1>2, <2>1, <2>3, <2>4
<1>. QED
  BY <1>1, <1>2

LEMMA CrowdListed ==
    ASSUME Crowd!TypeOK, [Crowd!Next]_Crowd!vars
    PROVE  CrowdLists'
<1>1. CrowdSlots /\ CrowdLists
  BY CrowdTypes
<1>2. t5 \in [Streams -> [Crowd!Kinds -> Seq(Crowd!Entry)]]
  BY <1>1 DEF CrowdLists
<1>3. Kept \in Nat \ {0}
  BY CrowdConstants DEF Crowd!AudienceAssumption
<1>4. ASSUME NEW s \in Streams, NEW f \in [Crowd!Kinds -> Seq(Crowd!Entry)],
             \A k \in Crowd!Kinds : Len(f[k]) <= Kept, t5' = [t5 EXCEPT ![s] = f]
      PROVE  CrowdLists'
  <2>1. /\ t5' \in [Streams -> [Crowd!Kinds -> Seq(Crowd!Entry)]] /\ t5'[s] = f
        /\ \A q \in Streams \ {s} : t5'[q] = t5[q]
    BY <1>2, <1>4
  <2>. QED
    BY <1>1, <1>4, <2>1 DEF CrowdLists
<1>5. ASSUME NEW s \in Streams, NEW k \in Crowd!Kinds, NEW l \in Seq(Crowd!Entry), Len(l) <= Kept,
             t5' = [t5 EXCEPT ![s][k] = l]
      PROVE  CrowdLists'
  <2>. DEFINE f == [t5[s] EXCEPT ![k] = l]
  <2>1. t5[s] \in [Crowd!Kinds -> Seq(Crowd!Entry)]
    BY <1>2
  <2>2. f \in [Crowd!Kinds -> Seq(Crowd!Entry)] /\ f[k] = l
        /\ \A q \in Crowd!Kinds \ {k} : f[q] = t5[s][q]
    BY <2>1
  <2>3. \A q \in Crowd!Kinds : Len(f[q]) <= Kept
    BY <1>1, <1>5, <2>2 DEF CrowdLists
  <2>4. t5' = [t5 EXCEPT ![s] = f]
    BY <1>2, <1>5
  <2>. HIDE DEF f
  <2>. QED
    BY <1>4, <2>2, <2>3, <2>4
<1>6. <<>> \in Seq(Crowd!Entry) /\ Len(<<>>) <= Kept
  BY <1>3
<1>7. CASE t5' = t5
  BY <1>1, <1>7 DEF CrowdLists
<1>8. ASSUME NEW r \in Slots, Crowd!WriteEntries(r)
      PROVE  CrowdLists'
  <2>. DEFINE j == task[r]
              l == Crowd!Last(Append(j.list, j.amount), Kept)
  <2>1. /\ j.stream \in Streams /\ j.op \in Crowd!Kinds /\ j.amount \in Crowd!Entry
        /\ j.list \in Seq(Crowd!Entry)
    BY <1>1, <1>8, CrowdJobs DEF Crowd!WriteEntries, Crowd!PutEntries, Crowd!At
  <2>2. Append(j.list, j.amount) \in Seq(Crowd!Entry)
    BY <2>1
  <2>3. l \in Seq(Crowd!Entry) /\ Len(l) <= Kept
    BY <1>3, <2>2, CrowdLast
  <2>4. t5' = [t5 EXCEPT ![j.stream][j.op] = l]
    BY <1>8, <2>1 DEF Crowd!WriteEntries, Crowd!PutEntries, Crowd!Kinds
  <2>. HIDE DEF l
  <2>. QED
    BY <1>5, <2>1, <2>3, <2>4
<1>9. ASSUME NEW r \in Slots, Crowd!ClearStreamEphemeralKeys(r)
      PROVE  CrowdLists'
  <2>1. task[r].stream \in Streams
    BY <1>1, <1>9, CrowdJobs DEF Crowd!ClearStreamEphemeralKeys, Crowd!At
  <2>. DEFINE none == [k \in Crowd!Kinds |-> <<>>]
  <2>2. t5' = [t5 EXCEPT ![task[r].stream] = none]
    BY <1>9 DEF Crowd!ClearStreamEphemeralKeys
  <2>3. none \in [Crowd!Kinds -> Seq(Crowd!Entry)] /\ \A k \in Crowd!Kinds : Len(none[k]) <= Kept
    BY <1>6
  <2>. HIDE DEF none
  <2>. QED
    BY <1>4, <2>1, <2>2, <2>3
<1>10. ASSUME NEW s \in Streams, Crowd!EngagementExpires(s)
       PROVE  CrowdLists'
  BY <1>5, <1>6, <1>7, <1>10 DEF Crowd!EngagementExpires
<1>11. \/ t5' = t5 \/ \E s \in Streams : Crowd!EngagementExpires(s)
       \/ \E r \in Slots : Crowd!WriteEntries(r) \/ Crowd!ClearStreamEphemeralKeys(r)
  <2>1. CASE CrowdAlone
    BY <2>1 DEF CrowdAlone, Crowd!Connect, Crowd!HandleDisconnect, Crowd!JoinRoom,
       Crowd!ViewersExpire, Crowd!WindowEnds, Crowd!vars, Crowd!redis
  <2>2. CASE Crowd!Restart
    BY <2>2 DEF Crowd!Restart, Crowd!redis
  <2>3. ASSUME NEW r \in Slots, CrowdBegins(r) PROVE t5' = t5
    BY <2>3, CrowdBegun
  <2>4. ASSUME NEW r \in Slots, CrowdRuns(r)
        PROVE  t5' = t5 \/ Crowd!WriteEntries(r) \/ Crowd!ClearStreamEphemeralKeys(r)
    BY <2>4 DEF CrowdRuns, Crowd!WriteLikes, Crowd!OpenWindow, Crowd!CountView, Crowd!EndRow,
       Crowd!BuildStreamEndSummary, Crowd!Fail, Crowd!redis
  <2>. QED
    BY <2>1, <2>2, <2>3, <2>4, CrowdSteps
<1>. QED
  BY <1>7, <1>8, <1>9, <1>10, <1>11

LEMMA CrowdPlaced ==
    ASSUME Crowd!TypeOK, [Crowd!Next]_Crowd!vars
    PROVE  CrowdSlots'
<1>1. CrowdSlots
  BY CrowdTypes
<1>2. CASE CrowdAlone
  <2>1. UNCHANGED <<step, task, t11>>
    BY <1>2 DEF CrowdAlone, Crowd!Connect, Crowd!HandleDisconnect, Crowd!JoinRoom,
       Crowd!ViewersExpire, Crowd!EngagementExpires, Crowd!WindowEnds, Crowd!vars, Crowd!slot
  <2>. QED
    BY <1>1, <2>1 DEF CrowdSlots
<1>3. CASE Crowd!Restart
  BY <1>1, <1>3 DEF Crowd!Restart, CrowdSlots, Crowd!Steps, Crowd!JobAt
<1>. QED
  BY <1>2, <1>3, CrowdBegun, CrowdRan, CrowdSteps

LEMMA CrowdFiled ==
    ASSUME Crowd!TypeOK, [Crowd!Next]_Crowd!vars
    PROVE  CrowdTables'
<1>1. CrowdTables /\ CrowdSlots
  BY CrowdTypes
<1>2. CASE CrowdAlone
  <2>1. CASE \E k \in Pair : Crowd!Connect(k) \/ Crowd!HandleDisconnect(k)
    BY <1>1, <2>1 DEF CrowdTables, Crowd!Connect, Crowd!HandleDisconnect, Crowd!redis
  <2>2. CASE \E k \in Pair, s \in Streams : Crowd!JoinRoom(k, s)
    BY <1>1, <2>2 DEF CrowdTables, Crowd!JoinRoom
  <2>3. CASE \E s \in Streams : Crowd!ViewersExpire(s) \/ Crowd!EngagementExpires(s)
    BY <1>1, <2>3 DEF CrowdTables, Crowd!ViewersExpire, Crowd!EngagementExpires
  <2>4. ASSUME NEW s \in Streams, NEW u \in Pair, Crowd!WindowEnds(s, u)
        PROVE  CrowdTables'
    <3>1. CrowdWindows \in Nat
      BY CrowdConstants DEF Crowd!AudienceAssumption
    <3>2. t10 \in [Streams -> 0..CrowdWindows] /\ t7 \in [Streams -> SUBSET Pair]
      BY <1>1 DEF CrowdTables
    <3>3. t10' \in [Streams -> 0..CrowdWindows]
      BY <2>4, <3>1, <3>2 DEF Crowd!WindowEnds
    <3>4. t7' \in [Streams -> SUBSET Pair]
      BY <2>4, <3>2 DEF Crowd!WindowEnds
    <3>. QED
      BY <1>1, <2>4, <3>3, <3>4 DEF CrowdTables, Crowd!WindowEnds
  <2>5. CASE UNCHANGED Crowd!vars
    BY <1>1, <2>5 DEF CrowdTables, Crowd!vars, Crowd!redis
  <2>. QED
    BY <1>2, <2>1, <2>2, <2>3, <2>4, <2>5 DEF CrowdAlone
<1>3. CASE Crowd!Restart
  BY <1>1, <1>3 DEF CrowdTables, Crowd!Restart, Crowd!redis
<1>4. ASSUME NEW r \in Slots, CrowdBegins(r)
      PROVE  CrowdTables'
  BY <1>1, <1>4, CrowdBegun DEF CrowdTables
<1>5. ASSUME NEW r \in Slots, CrowdRuns(r)
      PROVE  CrowdTables'
  <2>1. task[r].stream \in Streams /\ UNCHANGED <<serial, t10>>
    BY <1>5, CrowdRan
  <2>2. CASE Crowd!WriteLikes(r)
    <3>1. task[r].user \in Pair /\ task[r].likedBy \subseteq Pair
      BY <1>1, <2>2, CrowdJobs DEF Crowd!WriteLikes, Crowd!At
    <3>2. Crowd!Toggle(task[r].likedBy, task[r].user) \subseteq Pair
      BY <3>1 DEF Crowd!Toggle
    <3>3. t4' \in [Streams -> SUBSET Pair]
      BY <1>1, <2>1, <2>2, <3>2 DEF CrowdTables, Crowd!WriteLikes
    <3>4. t9' \in [Streams -> SUBSET Pair]
      BY <1>1, <2>1, <2>2, <3>1 DEF CrowdTables, Crowd!WriteLikes
    <3>. QED
      BY <1>1, <2>1, <2>2, <3>3, <3>4 DEF CrowdTables, Crowd!WriteLikes
  <2>3. CASE Crowd!WriteEntries(r)
    BY <1>1, <2>1, <2>3 DEF CrowdTables, Crowd!WriteEntries, Crowd!PutEntries
  <2>4. CASE Crowd!OpenWindow(r)
    <3>1. task[r].user \in Pair
      BY <1>1, <2>4, CrowdJobs DEF Crowd!OpenWindow, Crowd!At
    <3>. QED
      BY <1>1, <2>1, <2>4, <3>1 DEF CrowdTables, Crowd!OpenWindow
  <2>5. CASE Crowd!CountView(r)
    BY <1>1, <2>1, <2>5 DEF CrowdTables, Crowd!CountView, Crowd!redis
  <2>6. CASE Crowd!EndRow(r)
    BY <1>1, <2>1, <2>6 DEF CrowdTables, Crowd!EndRow, Crowd!redis
  <2>7. CASE Crowd!BuildStreamEndSummary(r)
    BY <1>1, <2>1, <2>7 DEF CrowdTables, Crowd!BuildStreamEndSummary, Crowd!redis
  <2>8. CASE Crowd!ClearStreamEphemeralKeys(r)
    BY <1>1, <2>1, <2>8 DEF CrowdTables, Crowd!ClearStreamEphemeralKeys
  <2>9. CASE Crowd!Fail(r)
    BY <1>1, <2>1, <2>9 DEF CrowdTables, Crowd!Fail, Crowd!redis
  <2>. QED
    BY <1>5, <2>2, <2>3, <2>4, <2>5, <2>6, <2>7, <2>8, <2>9 DEF CrowdRuns
<1>. QED
  BY <1>2, <1>3, <1>4, <1>5, CrowdSteps

LEMMA CrowdConnected ==
    ASSUME Crowd!TypeOK, Crowd!SocketsCame, [Crowd!Next]_Crowd!vars
    PROVE  CrowdClients' /\ Crowd!SocketsCame'
<1>1. /\ CrowdClients /\ CrowdSlots
      /\ t3 \in [Streams -> SUBSET Pair]
  BY CrowdTypes DEF CrowdTables
<1>2. t2 \in [Pair -> [state : {"new", "open", "gone"},
                       stream : Streams \cup {NoStream}, rooms : SUBSET Streams]]
  BY <1>1 DEF CrowdClients
<1>3. ASSUME t2' = t2, \A s \in Streams : t3'[s] \subseteq t3[s]
      PROVE  CrowdClients' /\ Crowd!SocketsCame'
  BY <1>1, <1>3 DEF CrowdClients, Crowd!SocketsCame
<1>4. ASSUME NEW k \in Pair, Crowd!Connect(k)
      PROVE  CrowdClients' /\ Crowd!SocketsCame'
  <2>1. /\ t2[k].state = "new" /\ t2' = [t2 EXCEPT ![k].state = "open"] /\ t3' = t3
    BY <1>4 DEF Crowd!Connect, Crowd!redis
  <2>2. /\ t2'[k] = [t2[k] EXCEPT !.state = "open"]
        /\ \A q \in Pair \ {k} : t2'[q] = t2[q] /\ DOMAIN t2' = Pair
    BY <1>2, <2>1
  <2>3. CrowdClients'
    BY <1>1, <1>2, <2>1 DEF CrowdClients
  <2>4. \A s \in Streams : k \notin t3[s]
    BY <2>1 DEF Crowd!SocketsCame
  <2>5. t2'[k].state = "open"
    BY <1>2, <2>2
  <2>. QED
    BY <1>1, <2>1, <2>2, <2>3, <2>4, <2>5 DEF Crowd!SocketsCame
<1>5. ASSUME NEW k \in Pair, Crowd!HandleDisconnect(k)
      PROVE  CrowdClients' /\ Crowd!SocketsCame'
  <2>1. t2' = [t2 EXCEPT ![k] = Crowd!Gone] /\ \A s \in Streams : t3'[s] \subseteq t3[s]
    BY <1>1, <1>5 DEF Crowd!HandleDisconnect
  <2>2. CrowdClients'
    BY <1>1, <1>2, <2>1 DEF CrowdClients, Crowd!Gone
  <2>3. t2'[k].state = "gone" /\ \A q \in Pair \ {k} : t2'[q] = t2[q]
    BY <1>2, <2>1 DEF Crowd!Gone
  <2>. QED
    BY <1>1, <2>1, <2>2, <2>3 DEF Crowd!SocketsCame
<1>6. ASSUME NEW k \in Pair, NEW s \in Streams, Crowd!JoinRoom(k, s)
      PROVE  CrowdClients' /\ Crowd!SocketsCame'
  <2>1. /\ t2[k].state = "open" /\ t2' = [t2 EXCEPT ![k].stream = s, ![k].rooms = @ \cup {s}]
        /\ t3' = [t3 EXCEPT ![s] = @ \cup {k}] \/ t3' = t3
    BY <1>6 DEF Crowd!JoinRoom
  <2>2. /\ t2'[k].state = "open" /\ t2'[k].rooms = t2[k].rooms \cup {s}
        /\ \A q \in Pair \ {k} : t2'[q] = t2[q]
    BY <1>2, <2>1
  <2>3. CrowdClients'
    <3>1. t2[k].rooms \cup {s} \in SUBSET Streams
      BY <1>2
    <3>2. [t2[k] EXCEPT !.stream = s, !.rooms = @ \cup {s}]
             \in [state : {"new", "open", "gone"}, stream : Streams \cup {NoStream},
                  rooms : SUBSET Streams]
      BY <1>2, <3>1
    <3>3. t2' = [t2 EXCEPT ![k] = [t2[k] EXCEPT !.stream = s, !.rooms = @ \cup {s}]]
      BY <1>2, <2>1
    <3>. QED
      BY <1>1, <1>2, <2>2, <3>2, <3>3 DEF CrowdClients
  <2>4. \A x \in Streams : \A q \in t3'[x] : q \in t3[x] \/ (x = s /\ q = k)
    BY <1>1, <2>1
  <2>5. t3' \in [Streams -> SUBSET Pair]
    BY <1>1, <2>1
  <2>. QED
    BY <1>1, <2>1, <2>2, <2>3, <2>4, <2>5 DEF Crowd!SocketsCame
<1>7. CASE Crowd!Restart
  <2>1. /\ t2' = [k \in Pair |-> IF t2[k].state = "open" THEN Crowd!Gone ELSE t2[k]] /\ t3' = t3
    BY <1>7 DEF Crowd!Restart, Crowd!redis
  <2>2. \A k \in Pair : /\ t2'[k] = t2[k] \/ t2'[k] = Crowd!Gone
                        /\ t2'[k].state # "open"
                        /\ t2'[k].state = "new" => t2'[k] = t2[k]
    BY <2>1 DEF Crowd!Gone
  <2>3. CrowdClients'
    BY <1>1, <1>2, <2>1 DEF CrowdClients, Crowd!Gone
  <2>. QED
    BY <1>1, <2>1, <2>2, <2>3 DEF Crowd!SocketsCame
<1>8. CASE \E s \in Streams : Crowd!ViewersExpire(s) \/ Crowd!EngagementExpires(s)
  BY <1>1, <1>3, <1>8 DEF Crowd!ViewersExpire, Crowd!EngagementExpires
<1>9. CASE UNCHANGED Crowd!vars \/ \E s \in Streams, u \in Pair : Crowd!WindowEnds(s, u)
  BY <1>3, <1>9 DEF Crowd!vars, Crowd!redis, Crowd!WindowEnds
<1>10. ASSUME NEW r \in Slots, CrowdBegins(r)
       PROVE  CrowdClients' /\ Crowd!SocketsCame'
  BY <1>3, <1>10, CrowdBegun
<1>11. ASSUME NEW r \in Slots, CrowdRuns(r)
       PROVE  CrowdClients' /\ Crowd!SocketsCame'
  <2>1. t2' = t2 /\ task[r].stream \in Streams
    BY <1>11, CrowdRan
  <2>2. \A s \in Streams : t3'[s] \subseteq t3[s]
    BY <1>1, <1>11, <2>1 DEF CrowdRuns, Crowd!WriteLikes, Crowd!WriteEntries, Crowd!PutEntries,
       Crowd!OpenWindow, Crowd!CountView, Crowd!EndRow, Crowd!BuildStreamEndSummary,
       Crowd!ClearStreamEphemeralKeys, Crowd!Fail, Crowd!redis
  <2>. QED
    BY <1>3, <2>1, <2>2
<1>. QED
  BY <1>4, <1>5, <1>6, <1>7, <1>8, <1>9, <1>10, <1>11, CrowdSteps DEF CrowdAlone

LEMMA CrowdEnded ==
    ASSUME Crowd!TypeOK, Crowd!RowEndsFirst, [Crowd!Next]_Crowd!vars
    PROVE  Crowd!RowEndsFirst' /\ \A s \in Streams : t1'[s] => t1[s]
<1>1. CrowdSlots /\ t1 \in [Streams -> BOOLEAN]
  BY CrowdTypes DEF CrowdTables
<1>2. CASE CrowdAlone
  <2>1. UNCHANGED <<step, task, t1>>
    BY <1>2 DEF CrowdAlone, Crowd!Connect, Crowd!HandleDisconnect, Crowd!JoinRoom,
       Crowd!ViewersExpire, Crowd!EngagementExpires, Crowd!WindowEnds, Crowd!vars, Crowd!slot
  <2>. QED
    BY <2>1 DEF Crowd!RowEndsFirst
<1>3. CASE Crowd!Restart
  BY <1>3 DEF Crowd!Restart, Crowd!RowEndsFirst
<1>4. ASSUME NEW r \in Slots, CrowdBegins(r)
      PROVE  Crowd!RowEndsFirst' /\ \A s \in Streams : t1'[s] => t1[s]
  BY <1>4, CrowdBegun DEF Crowd!RowEndsFirst
<1>5. ASSUME NEW r \in Slots, CrowdRuns(r)
      PROVE  Crowd!RowEndsFirst' /\ \A s \in Streams : t1'[s] => t1[s]
  <2>1. /\ task[r].stream \in Streams
        /\ \A q \in Slots \ {r} : step'[q] = step[q] /\ task'[q] = task[q]
        /\ \/ step'[r] \in {"idle", "count"}
           \/ task'[r] = task[r] /\ Crowd!EndRow(r)
           \/ task'[r] = task[r] /\ step[r] = "summary"
    BY <1>5, CrowdRan DEF Crowd!BuildStreamEndSummary, Crowd!At
  <2>2. CASE Crowd!EndRow(r)
    <3>1. t1' = [t1 EXCEPT ![task[r].stream] = FALSE]
      BY <2>2 DEF Crowd!EndRow
    <3>2. t1'[task[r].stream] = FALSE /\ \A s \in Streams : t1'[s] => t1[s]
      BY <1>1, <2>1, <3>1
    <3>3. \A q \in Slots : step[q] # "idle" => task[q].stream \in Streams
      BY <1>1, CrowdJobs
    <3>. QED
      BY <2>1, <3>2, <3>3 DEF Crowd!RowEndsFirst
  <2>3. CASE ~Crowd!EndRow(r)
    <3>1. t1' = t1
      BY <1>5, <2>3 DEF CrowdRuns, Crowd!WriteLikes, Crowd!WriteEntries, Crowd!PutEntries,
         Crowd!OpenWindow, Crowd!CountView, Crowd!BuildStreamEndSummary,
         Crowd!ClearStreamEphemeralKeys, Crowd!Fail, Crowd!redis
    <3>. QED
      BY <2>1, <2>3, <3>1 DEF Crowd!RowEndsFirst
  <2>. QED
    BY <2>2, <2>3
<1>. QED
  BY <1>2, <1>3, <1>4, <1>5, CrowdSteps

-----------------------------------------------------------------------------
\* Views counted and to come, against windows open and over.
LEMMA CrowdCardinality ==
    ASSUME NEW S
    PROVE  /\ Crowd!Cardinality(S) = Cardinality(S)
           /\ Crowd!IsFiniteSet(S) <=> IsFiniteSet(S)
BY DEF Crowd!Cardinality, Cardinality, Crowd!IsFiniteSet, IsFiniteSet

Counted(s) ==
    /\ IsFiniteSet(Crowd!Counting(s)) /\ IsFiniteSet(t7[s])
    /\ t6[s] + Cardinality(Crowd!Counting(s)) <= t10[s] + Cardinality(t7[s])

LEMMA CrowdViewed ==
    /\ Crowd!FiniteCounts /\ Crowd!ViewsCountedOnce <=> \A s \in Streams : Counted(s)
    /\ Crowd!FiniteCounts' /\ Crowd!ViewsCountedOnce' <=> \A s \in Streams : Counted(s)'
BY CrowdCardinality DEF Crowd!FiniteCounts, Crowd!ViewsCountedOnce, Counted

\* With as much to come as before or less, and the windows as they are.
LEMMA CountedStill ==
    ASSUME CrowdTables, NEW s \in Streams, Counted(s),
           Crowd!Counting(s)' \subseteq Crowd!Counting(s),
           t6'[s] = t6[s], t7'[s] = t7[s], t10'[s] = t10[s]
    PROVE  Counted(s)'
<1>. DEFINE C == Crowd!Counting(s)
<1>1. t6[s] \in Nat /\ t10[s] \in Int
  BY DEF CrowdTables
<1>2. IsFiniteSet(C) /\ Cardinality(C) \in Nat /\ IsFiniteSet(t7[s]) /\ Cardinality(t7[s]) \in Nat
      /\ t6[s] + Cardinality(C) <= t10[s] + Cardinality(t7[s])
  BY FS_CardinalityType DEF Counted
<1>. HIDE DEF C
<1>3. IsFiniteSet(C') /\ Cardinality(C') <= Cardinality(C) /\ Cardinality(C') \in Nat
  BY <1>2, FS_Subset, FS_CardinalityType DEF C
<1>4. t6'[s] + Cardinality(C') <= t10'[s] + Cardinality(t7'[s])
  BY <1>1, <1>2, <1>3
<1>5. IsFiniteSet(t7'[s])
  BY <1>2
<1>. QED
  BY <1>3, <1>4, <1>5 DEF Counted, C

LEMMA CrowdViews ==
    ASSUME Crowd!TypeOK, NEW s \in Streams, Counted(s), [Crowd!Next]_Crowd!vars
    PROVE  Counted(s)'
<1>. DEFINE C == Crowd!Counting(s)
<1>1. CrowdSlots /\ CrowdTables
  BY CrowdTypes
<1>2. /\ t6 \in [Streams -> Nat] /\ t7 \in [Streams -> SUBSET Pair]
      /\ t10 \in [Streams -> 0..CrowdWindows]
      /\ CrowdWindows \in Nat
  BY <1>1, CrowdConstants DEF CrowdTables, Crowd!AudienceAssumption
<1>3. /\ IsFiniteSet(C) /\ IsFiniteSet(t7[s])
      /\ t6[s] \in Nat /\ t10[s] \in Nat /\ Cardinality(C) \in Nat /\ Cardinality(t7[s]) \in Nat
      /\ t6[s] + Cardinality(C) <= t10[s] + Cardinality(t7[s])
  BY <1>2, FS_CardinalityType DEF Counted
<1>4. ASSUME UNCHANGED <<step, task, t6, t7, t10>>
      PROVE  Counted(s)'
  BY <1>1, <1>4, CountedStill DEF Crowd!Counting
<1>5. CASE Crowd!Restart
  <2>1. C' = {} /\ UNCHANGED <<t6, t7, t10>>
    BY <1>5 DEF Crowd!Restart, Crowd!redis, Crowd!Counting
  <2>. QED
    BY <1>1, <2>1, CountedStill
<1>6. ASSUME NEW q \in Streams, NEW u \in Pair, Crowd!WindowEnds(q, u)
      PROVE  Counted(s)'
  <2>1. /\ UNCHANGED <<step, task, t6>> /\ u \in t7[q]
        /\ t7' = [t7 EXCEPT ![q] = @ \ {u}] /\ t10' = [t10 EXCEPT ![q] = @ + 1]
    BY <1>6 DEF Crowd!WindowEnds, Crowd!slot
  <2>2. C' = C
    BY <2>1 DEF Crowd!Counting
  <2>3. CASE q = s
    <3>1. t7'[s] = t7[s] \ {u} /\ t10'[s] = t10[s] + 1 /\ t6'[s] = t6[s]
      BY <1>2, <2>1, <2>3
    <3>2. IsFiniteSet(t7[s] \ {u}) /\ Cardinality(t7[s] \ {u}) = Cardinality(t7[s]) - 1
      BY <1>3, <2>1, <2>3, FS_RemoveElement
    <3>. HIDE DEF C
    <3>3. t6'[s] + Cardinality(C') <= t10'[s] + Cardinality(t7'[s])
      BY <1>3, <2>2, <3>1, <3>2
    <3>. QED
      BY <1>3, <2>2, <3>1, <3>2, <3>3 DEF Counted, C
  <2>4. CASE q # s
    BY <1>1, <1>2, <2>1, <2>2, <2>4, CountedStill
  <2>. QED
    BY <2>3, <2>4
<1>7. CASE CrowdAlone
  BY <1>4, <1>6, <1>7 DEF CrowdAlone, Crowd!Connect, Crowd!HandleDisconnect, Crowd!JoinRoom,
     Crowd!ViewersExpire, Crowd!EngagementExpires, Crowd!vars, Crowd!slot, Crowd!redis
<1>8. ASSUME NEW r \in Slots, CrowdBegins(r)
      PROVE  Counted(s)'
  <2>1. /\ UNCHANGED <<t6, t7, t10>> /\ step'[r] # "count"
        /\ \A q \in Slots \ {r} : step'[q] = step[q] /\ task'[q] = task[q]
    BY <1>8, CrowdBegun
  <2>2. C' \subseteq C
    BY <2>1 DEF Crowd!Counting
  <2>. QED
    BY <1>1, <2>1, <2>2, CountedStill
<1>9. ASSUME NEW r \in Slots, CrowdRuns(r)
      PROVE  Counted(s)'
  <2>1. /\ task[r].stream \in Streams /\ t10' = t10
        /\ \A q \in Slots \ {r} : step'[q] = step[q] /\ task'[q] = task[q]
        /\ step'[r] = "count" => Crowd!OpenWindow(r) /\ task' = task
    BY <1>9, CrowdRan
  <2>2. CASE Crowd!CountView(r)
    <3>1. /\ step[r] = "count" /\ t6' = [t6 EXCEPT ![task[r].stream] = @ + 1] /\ t7' = t7
          /\ step'[r] # "count"
      BY <1>1, <2>1, <2>2 DEF Crowd!CountView, Crowd!At, Crowd!redis, Crowd!OpenWindow
    <3>2. C' = C \ {r} /\ (r \in C <=> task[r].stream = s)
      BY <2>1, <3>1 DEF Crowd!Counting
    <3>3. CASE task[r].stream = s
      <4>1. t6'[s] = t6[s] + 1
        BY <1>2, <3>1, <3>3
      <4>. HIDE DEF C
      <4>2. IsFiniteSet(C') /\ Cardinality(C') = Cardinality(C) - 1
        BY <1>3, <3>2, <3>3, FS_RemoveElement
      <4>3. t6'[s] + Cardinality(C') <= t10'[s] + Cardinality(t7'[s])
        BY <1>3, <2>1, <3>1, <4>1, <4>2
      <4>. QED
        BY <1>3, <3>1, <4>2, <4>3 DEF Counted, C
    <3>4. CASE task[r].stream # s
      BY <1>1, <1>2, <2>1, <3>1, <3>2, <3>4, CountedStill
    <3>. QED
      BY <3>3, <3>4
  <2>3. CASE Crowd!OpenWindow(r)
    <3>1. /\ step[r] = "window" /\ t6' = t6
          /\ t7' = [t7 EXCEPT ![task[r].stream] = @ \cup {task[r].user}]
          /\ task[r].user \in t7[task[r].stream] => step'[r] # "count"
      <4>1. step[r] = "window" /\ Crowd!Done(r) => step'[r] # "count"
        BY <1>1, <2>1 DEF Crowd!Done, CrowdSlots
      <4>. QED
        BY <2>3, <4>1 DEF Crowd!OpenWindow, Crowd!At
    <3>2. r \notin C
      BY <3>1 DEF Crowd!Counting
    <3>3. CASE task[r].stream = s /\ task[r].user \notin t7[s]
      <4>1. C' \subseteq C \cup {r}
        BY <2>1 DEF Crowd!Counting
      <4>2. t7'[s] = t7[s] \cup {task[r].user}
        BY <1>2, <3>1, <3>3
      <4>3. IsFiniteSet(t7'[s]) /\ Cardinality(t7'[s]) = Cardinality(t7[s]) + 1
        BY <1>3, <3>3, <4>2, FS_AddElement
      <4>. HIDE DEF C
      <4>4. IsFiniteSet(C \cup {r}) /\ Cardinality(C \cup {r}) = Cardinality(C) + 1
        BY <1>3, <3>2, FS_AddElement
      <4>5. IsFiniteSet(C') /\ Cardinality(C') <= Cardinality(C) + 1 /\ Cardinality(C') \in Nat
        BY <4>1, <4>4, FS_Subset, FS_CardinalityType
      <4>6. t6'[s] + Cardinality(C') <= t10'[s] + Cardinality(t7'[s])
        BY <1>3, <2>1, <3>1, <4>3, <4>5
      <4>. QED
        BY <4>3, <4>5, <4>6 DEF Counted, C
    <3>4. CASE task[r].stream = s /\ task[r].user \in t7[s]
      <4>1. t7'[s] = t7[s] /\ step'[r] # "count"
        BY <1>2, <3>1, <3>4
      <4>2. C' \subseteq C
        BY <2>1, <4>1 DEF Crowd!Counting
      <4>. QED
        BY <1>1, <2>1, <3>1, <4>1, <4>2, CountedStill
    <3>5. CASE task[r].stream # s
      <4>1. t7'[s] = t7[s]
        BY <1>2, <3>1, <3>5
      <4>2. C' \subseteq C
        BY <2>1, <3>5 DEF Crowd!Counting
      <4>. QED
        BY <1>1, <2>1, <3>1, <4>1, <4>2, CountedStill
    <3>. QED
      BY <3>3, <3>4, <3>5
  <2>4. CASE ~Crowd!CountView(r) /\ ~Crowd!OpenWindow(r)
    <3>1. UNCHANGED <<t6, t7>>
      BY <1>9, <2>4 DEF CrowdRuns, Crowd!WriteLikes, Crowd!WriteEntries, Crowd!PutEntries,
         Crowd!EndRow, Crowd!BuildStreamEndSummary, Crowd!ClearStreamEphemeralKeys,
         Crowd!Fail, Crowd!redis
    <3>2. C' \subseteq C
      BY <2>1, <2>4 DEF Crowd!Counting
    <3>. QED
      BY <1>1, <2>1, <3>1, <3>2, CountedStill
  <2>. QED
    BY <2>2, <2>3, <2>4
<1>. QED
  BY <1>5, <1>7, <1>8, <1>9, CrowdSteps

-----------------------------------------------------------------------------
\* Where handlers do not overlap: what was read still stands.
Watched == \A s \in Streams : t1[s] => t3[s] = Crowd!Watching(s)
Holds(r) ==
    /\ step[r] = "like" => task[r].likedBy = t4[task[r].stream]
    /\ step[r] = "entry" => task[r].list = t5[task[r].stream][task[r].op]
Alone == \A r, q \in Slots : step[r] # "idle" /\ step[q] # "idle" => r = q

LEMMA CrowdKept ==
    /\ Crowd!SerialKept <=>
          Alone /\ Watched /\ (\A s \in Streams : t4[s] = t9[s]) /\ \A r \in Slots : Holds(r)
    /\ Crowd!SerialKept' <=>
          Alone' /\ Watched' /\ (\A s \in Streams : t4'[s] = t9'[s]) /\ \A r \in Slots : Holds(r)'
BY DEF Crowd!SerialKept, Alone, Watched, Holds

\* A socket is counted on the stream it watches, and on no other.
LEMMA CrowdWatched ==
    ASSUME Crowd!TypeOK, Crowd!SocketsCame, Crowd!RowEndsFirst, serial, Watched,
           [Crowd!Next]_Crowd!vars
    PROVE  Watched'
<1>1. /\ CrowdClients /\ CrowdSlots
      /\ t3 \in [Streams -> SUBSET Pair] /\ NoStream \notin Streams
  BY CrowdTypes, CrowdConstants DEF CrowdTables, Crowd!AudienceAssumption
<1>2. t2 \in [Pair -> [state : {"new", "open", "gone"},
                       stream : Streams \cup {NoStream}, rooms : SUBSET Streams]]
  BY <1>1 DEF CrowdClients
<1>3. \A s \in Streams : t1'[s] => t1[s]
  BY CrowdEnded
<1>4. ASSUME t2' = t2, \A s \in Streams : t1[s] => t3'[s] = t3[s]
      PROVE  Watched'
  BY <1>3, <1>4 DEF Watched, Crowd!Watching
<1>5. ASSUME NEW k \in Pair, Crowd!Connect(k)
      PROVE  Watched'
  <2>1. /\ t2[k].state = "new" /\ t2' = [t2 EXCEPT ![k].state = "open"] /\ t3' = t3
    BY <1>5 DEF Crowd!Connect, Crowd!redis
  <2>2. t2'[k].stream = NoStream /\ \A q \in Pair \ {k} : t2'[q] = t2[q]
    BY <1>2, <2>1 DEF Crowd!SocketsCame
  <2>3. \A s \in Streams : Crowd!Watching(s)' = Crowd!Watching(s)
    BY <1>1, <2>1, <2>2 DEF Crowd!Watching
  <2>. QED
    BY <1>3, <2>1, <2>3 DEF Watched
<1>6. ASSUME NEW k \in Pair, Crowd!HandleDisconnect(k)
      PROVE  Watched'
  <2>. DEFINE x == t2[k].stream
  <2>1. /\ t2' = [t2 EXCEPT ![k] = Crowd!Gone]
        /\ t3' = IF x = NoStream THEN t3 ELSE [t3 EXCEPT ![x] = @ \ {k}]
    BY <1>6 DEF Crowd!HandleDisconnect
  <2>2. t2'[k].state = "gone" /\ (\A q \in Pair \ {k} : t2'[q] = t2[q]) /\ t2[k].state = "open"
        /\ x \in Streams \cup {NoStream}
    BY <1>2, <1>6, <2>1 DEF Crowd!Gone, Crowd!HandleDisconnect
  <2>3. \A s \in Streams : Crowd!Watching(s)' =
           IF s = x THEN Crowd!Watching(s) \ {k} ELSE Crowd!Watching(s)
    BY <1>1, <2>2 DEF Crowd!Watching
  <2>4. \A s \in Streams : t3'[s] = IF s = x THEN t3[s] \ {k} ELSE t3[s]
    BY <1>1, <2>1, <2>2
  <2>. QED
    BY <1>3, <2>3, <2>4 DEF Watched
<1>7. ASSUME NEW k \in Pair, NEW x \in Streams, Crowd!JoinRoom(k, x)
      PROVE  Watched'
  <2>1. /\ t2[k].state = "open" /\ t2' = [t2 EXCEPT ![k].stream = x, ![k].rooms = @ \cup {x}]
        /\ t2[k].stream \in {NoStream, x} /\ t3' = [t3 EXCEPT ![x] = @ \cup {k}]
    BY <1>7 DEF Crowd!JoinRoom
  <2>2. t2'[k].state = "open" /\ t2'[k].stream = x /\ \A q \in Pair \ {k} : t2'[q] = t2[q]
    BY <1>2, <2>1
  <2>3. \A s \in Streams : Crowd!Watching(s)' =
           IF s = x THEN Crowd!Watching(s) \cup {k} ELSE Crowd!Watching(s)
    BY <1>1, <2>1, <2>2 DEF Crowd!Watching
  <2>4. \A s \in Streams : t3'[s] = IF s = x THEN t3[s] \cup {k} ELSE t3[s]
    BY <1>1, <2>1
  <2>. QED
    BY <1>3, <2>3, <2>4 DEF Watched
<1>8. CASE \/ \E s \in Streams : Crowd!ViewersExpire(s) \/ Crowd!EngagementExpires(s)
           \/ UNCHANGED Crowd!vars \/ \E s \in Streams, u \in Pair : Crowd!WindowEnds(s, u)
  BY <1>4, <1>8 DEF Crowd!vars, Crowd!redis, Crowd!WindowEnds, Crowd!ViewersExpire,
     Crowd!EngagementExpires
<1>9. ASSUME NEW r \in Slots, CrowdBegins(r)
      PROVE  Watched'
  BY <1>4, <1>9, CrowdBegun
<1>10. ASSUME NEW r \in Slots, CrowdRuns(r)
       PROVE  Watched'
  <2>1. t2' = t2 /\ task[r].stream \in Streams
    BY <1>10, CrowdRan
  <2>2. CASE Crowd!ClearStreamEphemeralKeys(r)
    <3>1. ~t1[task[r].stream] /\ t3' = [t3 EXCEPT ![task[r].stream] = {}]
      BY <2>2 DEF Crowd!ClearStreamEphemeralKeys, Crowd!At, Crowd!RowEndsFirst
    <3>2. \A s \in Streams : t1[s] => t3'[s] = t3[s]
      BY <1>1, <2>1, <3>1
    <3>. QED
      BY <1>4, <2>1, <3>2
  <2>3. CASE ~Crowd!ClearStreamEphemeralKeys(r)
    <3>1. t3' = t3
      BY <1>10, <2>3 DEF CrowdRuns, Crowd!WriteLikes, Crowd!WriteEntries, Crowd!PutEntries,
         Crowd!OpenWindow, Crowd!CountView, Crowd!EndRow, Crowd!BuildStreamEndSummary,
         Crowd!Fail, Crowd!redis
    <3>. QED
      BY <1>4, <2>1, <3>1
  <2>. QED
    BY <2>2, <2>3
<1>11. ~Crowd!Restart
  BY DEF Crowd!Restart
<1>. QED
  BY <1>5, <1>6, <1>7, <1>8, <1>9, <1>10, <1>11, CrowdSteps DEF CrowdAlone

\* A handler that runs does so alone, and writes back what it read.
LEMMA CrowdSerial ==
    ASSUME Crowd!TypeOK, Crowd!SocketsCame, Crowd!RowEndsFirst, serial, Crowd!SerialKept,
           [Crowd!Next]_Crowd!vars
    PROVE  Crowd!SerialKept'
<1>1. Alone /\ Watched /\ (\A s \in Streams : t4[s] = t9[s]) /\ \A r \in Slots : Holds(r)
  BY CrowdKept
<1>2. Watched'
  BY <1>1, CrowdWatched
<1>3. CrowdSlots /\ t4 \in [Streams -> SUBSET Pair] /\ t9 \in [Streams -> SUBSET Pair]
  BY CrowdTypes DEF CrowdTables
<1>4. CASE CrowdAlone
  <2>1. UNCHANGED <<step, task, t4, t5, t9>>
    BY <1>4 DEF CrowdAlone, Crowd!Connect, Crowd!HandleDisconnect, Crowd!JoinRoom,
       Crowd!ViewersExpire, Crowd!EngagementExpires, Crowd!WindowEnds, Crowd!vars, Crowd!slot,
       Crowd!redis
  <2>2. Alone' /\ (\A s \in Streams : t4'[s] = t9'[s]) /\ \A r \in Slots : Holds(r)'
    BY <1>1, <2>1 DEF Alone, Holds
  <2>. QED
    BY <1>2, <2>2, CrowdKept
<1>5. ASSUME NEW r \in Slots, CrowdBegins(r)
      PROVE  Crowd!SerialKept'
  <2>1. /\ UNCHANGED <<t4, t5, t9>>
        /\ \A q \in Slots \ {r} : step'[q] = "idle"
        /\ step'[r] = "like" => task'[r].likedBy = t4[task'[r].stream]
        /\ step'[r] = "entry" => task'[r].list = t5[task'[r].stream][task'[r].op]
    BY <1>5, CrowdBegun
  <2>2. Alone' /\ (\A s \in Streams : t4'[s] = t9'[s]) /\ \A q \in Slots : Holds(q)'
    BY <1>1, <2>1 DEF Alone, Holds
  <2>. QED
    BY <1>2, <2>2, CrowdKept
<1>6. ASSUME NEW r \in Slots, CrowdRuns(r)
      PROVE  Crowd!SerialKept'
  <2>1. /\ \A q \in Slots \ {r} : step'[q] = "idle"
        /\ step'[r] \in {"idle", "count", "summary", "clear"}
        /\ task[r].stream \in Streams
    BY <1>1, <1>6, CrowdRan DEF Alone
  <2>2. Alone' /\ \A q \in Slots : Holds(q)'
    BY <2>1 DEF Alone, Holds
  <2>3. CASE Crowd!WriteLikes(r)
    <3>. DEFINE s == task[r].stream  u == task[r].user
    <3>1. /\ step[r] = "like"
          /\ t4' = [t4 EXCEPT ![s] = Crowd!Toggle(task[r].likedBy, u)]
          /\ t9' = [t9 EXCEPT ![s] = IF u \in Crowd!Toggle(task[r].likedBy, u)
                                     THEN @ \cup {u} ELSE @ \ {u}]
      BY <2>3 DEF Crowd!WriteLikes, Crowd!At
    <3>2. task[r].likedBy = t4[s] /\ t4[s] = t9[s]
      BY <1>1, <2>1, <3>1 DEF Holds
    <3>3. t4'[s] = t9'[s]
      BY <1>3, <2>1, <3>1, <3>2 DEF Crowd!Toggle
    <3>4. \A x \in Streams \ {s} : t4'[x] = t4[x] /\ t9'[x] = t9[x]
      BY <1>3, <3>1
    <3>. QED
      BY <1>1, <1>2, <2>2, <3>3, <3>4, CrowdKept
  <2>4. CASE Crowd!ClearStreamEphemeralKeys(r)
    <3>1. t4' = [t4 EXCEPT ![task[r].stream] = {}] /\ t9' = [t9 EXCEPT ![task[r].stream] = {}]
      BY <2>4 DEF Crowd!ClearStreamEphemeralKeys
    <3>2. \A s \in Streams : t4'[s] = t9'[s]
      BY <1>1, <1>3, <3>1
    <3>. QED
      BY <1>2, <2>2, <3>2, CrowdKept
  <2>5. CASE ~Crowd!WriteLikes(r) /\ ~Crowd!ClearStreamEphemeralKeys(r)
    <3>1. UNCHANGED <<t4, t9>>
      BY <1>6, <2>5 DEF CrowdRuns, Crowd!WriteEntries, Crowd!PutEntries, Crowd!OpenWindow,
         Crowd!CountView, Crowd!EndRow, Crowd!BuildStreamEndSummary, Crowd!Fail, Crowd!redis
    <3>. QED
      BY <1>1, <1>2, <2>2, <3>1, CrowdKept
  <2>. QED
    BY <2>3, <2>4, <2>5
<1>7. ~Crowd!Restart
  BY DEF Crowd!Restart
<1>. QED
  BY <1>4, <1>5, <1>6, <1>7, CrowdSteps

-----------------------------------------------------------------------------
\* The summary counts the likes that were told.
LEMMA CrowdSummary ==
    ASSUME Crowd!TypeOK, serial => Crowd!SerialKept, [Crowd!Next]_Crowd!vars
    PROVE  Crowd!KeepsTold
<1>1. DOMAIN t8 = Streams /\ (serial => \A s \in Streams : t4[s] = t9[s])
  BY CrowdTypes, CrowdKept DEF CrowdTables
<1>2. ASSUME t8' = t8
      PROVE  Crowd!KeepsTold
  BY <1>2 DEF Crowd!KeepsTold
<1>3. CASE CrowdAlone
  BY <1>2, <1>3 DEF CrowdAlone, Crowd!Connect, Crowd!HandleDisconnect, Crowd!JoinRoom,
     Crowd!ViewersExpire, Crowd!EngagementExpires, Crowd!WindowEnds, Crowd!vars
<1>4. CASE Crowd!Restart
  BY <1>2, <1>4 DEF Crowd!Restart
<1>5. ASSUME NEW r \in Slots, CrowdBegins(r)
      PROVE  Crowd!KeepsTold
  BY <1>2, <1>5, CrowdBegun
<1>6. ASSUME NEW r \in Slots, CrowdRuns(r)
      PROVE  Crowd!KeepsTold
  <2>1. CASE Crowd!BuildStreamEndSummary(r)
    <3>. DEFINE x == task[r].stream
                v == [engagement |-> Crowd!EngagementSummary(x), viewCount |-> task[r].viewCount]
    <3>1. t8' = [t8 EXCEPT ![x] = v]
      BY <2>1 DEF Crowd!BuildStreamEndSummary
    <3>2. v.engagement.likes = Crowd!Cardinality(t4[x])
      BY DEF Crowd!EngagementSummary
    <3>. HIDE DEF v
    <3>3. \A s \in Streams : t8'[s] = IF s = x THEN v ELSE t8[s]
      BY <1>1, <3>1
    <3>4. ASSUME NEW s \in Streams, serial, t8'[s] # t8[s]
          PROVE  t8'[s].engagement.likes = Crowd!Cardinality(t9[s])
      BY <1>1, <3>2, <3>3, <3>4
    <3>. QED
      BY <3>4 DEF Crowd!KeepsTold
  <2>2. CASE ~Crowd!BuildStreamEndSummary(r)
    <3>1. t8' = t8
      BY <1>6, <2>2 DEF CrowdRuns, Crowd!WriteLikes, Crowd!WriteEntries, Crowd!PutEntries,
         Crowd!OpenWindow, Crowd!CountView, Crowd!EndRow, Crowd!ClearStreamEphemeralKeys,
         Crowd!Fail
    <3>. QED
      BY <1>2, <3>1
  <2>. QED
    BY <2>1, <2>2
<1>. QED
  BY <1>3, <1>4, <1>5, <1>6, CrowdSteps

\* A bounded set of numbers has a largest.
LEMMA CrowdMax ==
    ASSUME NEW T, T \subseteq Nat, T # {}, NEW b \in Nat, \A x \in T : x <= b
    PROVE  Crowd!Max(T) \in T /\ \A x \in T : Crowd!Max(T) >= x
<1>. DEFINE B == {n \in Nat : \A x \in T : x <= n}
<1>1. B \subseteq Nat /\ B # {}
  OBVIOUS
<1>2. \E n \in B : \A y \in B : ~(<<y, n>> \in OpToRel(<, Nat))
  BY <1>1, WFMin, NatLessThanWellFounded, Zenon
<1>3. PICK n \in B : \A y \in B : ~(y < n)
  BY <1>2 DEF OpToRel
<1>4. n \in T
  <2>. SUFFICES ASSUME n \notin T PROVE FALSE
    OBVIOUS
  <2>1. PICK x \in T : x <= n
    OBVIOUS
  <2>2. n - 1 \in Nat /\ \A y \in T : y <= n - 1
    BY <2>1
  <2>. QED
    BY <1>3, <2>2
<1>5. \E m \in T : \A x \in T : m >= x
  BY <1>4
<1>. QED
  BY <1>5 DEF Crowd!Max

\* The top bid is one of the bids kept, and none of them is higher.
BidsOf(l) == {0} \cup {l[i] : i \in DOMAIN l}

LEMMA CrowdTop ==
    ASSUME NEW l \in Seq(Crowd!Entry)
    PROVE  /\ BidsOf(l) \subseteq Nat /\ Crowd!Max(BidsOf(l)) \in BidsOf(l)
           /\ \A x \in BidsOf(l) : Crowd!Max(BidsOf(l)) >= x
<1>1. PICK top \in Bids : Bids \subseteq Nat \ {0} /\ \A a \in Bids : a <= top
  BY CrowdConstants DEF Crowd!AudienceAssumption
<1>2. \A i \in DOMAIN l : l[i] \in Crowd!Entry
  OBVIOUS
<1>3. \A x \in Crowd!Entry : x \in Nat /\ x <= top
  BY <1>1 DEF Crowd!Entry
<1>4. top \in Nat /\ BidsOf(l) \subseteq Nat /\ BidsOf(l) # {} /\ \A x \in BidsOf(l) : x <= top
  BY <1>1, <1>2, <1>3 DEF BidsOf
<1>. QED
  BY <1>4, CrowdMax

LEMMA CrowdTopBid ==
    ASSUME NEW s \in Streams
    PROVE  /\ Crowd!TopBid(s) = Crowd!Max(BidsOf(t5[s].bids))
           /\ Crowd!TopBid(s)' = Crowd!Max(BidsOf(t5'[s].bids))
BY DEF Crowd!TopBid, BidsOf

\* A list that is longer has a top that is no lower.
LEMMA CrowdHigher ==
    ASSUME NEW l \in Seq(Crowd!Entry), NEW m \in Seq(Crowd!Entry), BidsOf(l) \subseteq BidsOf(m)
    PROVE  Crowd!Max(BidsOf(m)) >= Crowd!Max(BidsOf(l))
BY CrowdTop

LEMMA CrowdBids ==
    ASSUME Crowd!TypeOK, Crowd!RowEndsFirst, serial => Crowd!SerialKept, [Crowd!Next]_Crowd!vars
    PROVE  Crowd!KeepsTopBid
<1>1. SUFFICES ASSUME NEW s \in Streams, serial, t1'[s], Len(t5[s].bids) < Kept
               PROVE  BidsOf(t5[s].bids) \subseteq BidsOf(t5'[s].bids)
  <2>1. CrowdLists /\ CrowdLists'
    BY CrowdTypes, CrowdListed
  <2>2. \A s \in Streams : t5[s].bids \in Seq(Crowd!Entry) /\ t5'[s].bids \in Seq(Crowd!Entry)
    BY <2>1 DEF CrowdLists, Crowd!Kinds
  <2>3. ASSUME NEW s \in Streams, serial, t1'[s], Len(t5[s].bids) < Kept
        PROVE  Crowd!TopBid(s)' >= Crowd!TopBid(s)
    BY <1>1, <2>2, <2>3, CrowdTopBid, CrowdHigher
  <2>. QED
    BY <2>3 DEF Crowd!KeepsTopBid
<1>2. /\ CrowdSlots /\ t1[s]
      /\ t5 \in [Streams -> [Crowd!Kinds -> Seq(Crowd!Entry)]]
      /\ \A r \in Slots : Holds(r)
  BY <1>1, CrowdTypes, CrowdEnded, CrowdKept DEF CrowdLists
<1>3. CASE t5' = t5
  BY <1>3
<1>4. ASSUME NEW r \in Slots, Crowd!WriteEntries(r)
      PROVE  BidsOf(t5[s].bids) \subseteq BidsOf(t5'[s].bids)
  <2>. DEFINE x == task[r].stream  k == task[r].op  a == task[r].amount
              l == Crowd!Last(Append(task[r].list, a), Kept)
  <2>1. step[r] = "entry" /\ t5' = [t5 EXCEPT ![x][k] = Crowd!Last(Append(task[r].list, a),
                                        [y \in {"comments", "bids"} |-> Kept][k])]
    BY <1>4 DEF Crowd!WriteEntries, Crowd!PutEntries, Crowd!At
  <2>2. x \in Streams /\ k \in Crowd!Kinds /\ a \in Crowd!Entry /\ task[r].list = t5[x][k]
    BY <1>2, <2>1, CrowdJobs DEF Holds
  <2>3. t5' = [t5 EXCEPT ![x][k] = l]
    BY <2>1, <2>2 DEF Crowd!Kinds
  <2>. HIDE DEF l
  <2>4. CASE x = s /\ k = "bids"
    <3>. DEFINE b == t5[s].bids
    <3>1. b \in Seq(Crowd!Entry) /\ Append(b, a) \in Seq(Crowd!Entry)
          /\ Len(Append(b, a)) <= Kept /\ Kept \in Nat \ {0}
      <4>1. b \in Seq(Crowd!Entry) /\ Kept \in Nat \ {0}
        BY <1>2, CrowdConstants DEF Crowd!Kinds, Crowd!AudienceAssumption
      <4>. QED
        BY <1>1, <2>2, <4>1
    <3>2. l = Append(b, a)
      BY <2>2, <2>4, <3>1, CrowdLast DEF l
    <3>3. t5'[s].bids = Append(b, a)
      BY <1>2, <2>2, <2>3, <2>4, <3>2 DEF Crowd!Kinds
    <3>4. \A i \in DOMAIN b : i \in DOMAIN Append(b, a) /\ Append(b, a)[i] = b[i]
      BY <2>2, <3>1
    <3>. QED
      BY <3>3, <3>4 DEF BidsOf
  <2>5. CASE ~(x = s /\ k = "bids")
    <3>1. t5'[s].bids = t5[s].bids
      BY <1>2, <2>2, <2>3, <2>5 DEF Crowd!Kinds
    <3>. QED
      BY <3>1
  <2>. QED
    BY <2>4, <2>5
<1>5. ASSUME NEW r \in Slots, Crowd!ClearStreamEphemeralKeys(r)
      PROVE  BidsOf(t5[s].bids) \subseteq BidsOf(t5'[s].bids)
  <2>1. /\ step[r] = "clear"
        /\ t5' = [t5 EXCEPT ![task[r].stream] = [y \in Crowd!Kinds |-> <<>>]]
    BY <1>5 DEF Crowd!ClearStreamEphemeralKeys, Crowd!At
  <2>2. task[r].stream # s
    BY <1>2, <2>1 DEF Crowd!RowEndsFirst
  <2>. QED
    BY <1>2, <2>1, <2>2
<1>6. CASE CrowdAlone
  <2>1. t5' = t5
    BY <1>1, <1>6 DEF CrowdAlone, Crowd!Connect, Crowd!HandleDisconnect, Crowd!JoinRoom,
       Crowd!ViewersExpire, Crowd!EngagementExpires, Crowd!WindowEnds, Crowd!vars, Crowd!redis
  <2>. QED
    BY <1>3, <2>1
<1>7. ASSUME NEW r \in Slots, CrowdBegins(r)
      PROVE  BidsOf(t5[s].bids) \subseteq BidsOf(t5'[s].bids)
  BY <1>3, <1>7, CrowdBegun
<1>8. ASSUME NEW r \in Slots, CrowdRuns(r)
      PROVE  BidsOf(t5[s].bids) \subseteq BidsOf(t5'[s].bids)
  <2>1. \/ Crowd!WriteEntries(r) \/ Crowd!ClearStreamEphemeralKeys(r) \/ t5' = t5
    BY <1>8 DEF CrowdRuns, Crowd!WriteLikes, Crowd!OpenWindow, Crowd!CountView, Crowd!EndRow,
       Crowd!BuildStreamEndSummary, Crowd!Fail, Crowd!redis
  <2>. QED
    BY <1>3, <1>4, <1>5, <2>1
<1>9. ~Crowd!Restart
  BY <1>1 DEF Crowd!Restart
<1>. QED
  BY <1>6, <1>7, <1>8, <1>9, CrowdSteps

\* What is shown is the larger of the views and the sockets that watch.
LEMMA CrowdShown ==
    ASSUME Crowd!SocketsCame, serial => Crowd!SerialKept
    PROVE  Crowd!CountIsAudience
<1>1. ASSUME serial, NEW s \in DOMAIN Crowd!ActiveList
      PROVE  Crowd!ActiveList[s] = Crowd!Max({t6[s], Crowd!Cardinality(Crowd!Watching(s))})
  <2>1. s \in Streams /\ t1[s]
    BY DEF Crowd!ActiveList
  <2>2. t3[s] = Crowd!Watching(s)
    BY <1>1, <2>1 DEF Crowd!SerialKept
  <2>. QED
    BY <2>1, <2>2 DEF Crowd!ActiveList
<1>2. \A s \in Streams : \A k \in t3[s] : t2[k].state = "open" => s \in t2[k].rooms
  BY DEF Crowd!SocketsCame
<1>. QED
  BY <1>1, <1>2 DEF Crowd!CountIsAudience

LEMMA CrowdInit ==
    ASSUME Crowd!Init
    PROVE  Crowd!CrowdInv
<1>1. /\ CrowdCalls \in Nat /\ CrowdWindows \in Nat /\ Kept \in Nat /\ NoStream \notin Streams
  BY CrowdConstants DEF Crowd!AudienceAssumption
<1>2. CrowdSlots
  BY <1>1 DEF Crowd!Init, CrowdSlots, Crowd!Steps, Crowd!JobAt
<1>3. CrowdTables
  BY <1>1 DEF Crowd!Init, CrowdTables
<1>4. CrowdLists
  <2>1. <<>> \in Seq(Crowd!Entry) /\ Len(<<>>) = 0
    OBVIOUS
  <2>. QED
    BY <1>1, <2>1 DEF Crowd!Init, CrowdLists
<1>5. CrowdClients
  BY DEF Crowd!Init, CrowdClients
<1>6. Crowd!SocketsCame /\ Crowd!RowEndsFirst
  BY DEF Crowd!Init, Crowd!SocketsCame, Crowd!RowEndsFirst
<1>7. \A s \in Streams : Counted(s)
  <2>1. IsFiniteSet({}) /\ Cardinality({}) = 0
    BY FS_EmptySet
  <2>2. \A s \in Streams : Crowd!Counting(s) = {} /\ t7[s] = {} /\ t6[s] = 0 /\ t10[s] = 0
    BY DEF Crowd!Init, Crowd!Counting
  <2>. QED
    BY <2>1, <2>2 DEF Counted
<1>8. Crowd!SerialKept
  BY <1>1 DEF Crowd!Init, Crowd!SerialKept, Crowd!Watching
<1>. QED
  BY <1>2, <1>3, <1>4, <1>5, <1>6, <1>7, <1>8, CrowdTypes, CrowdViewed DEF Crowd!CrowdInv

\* In each step the locals and the tables keep to their types, sockets to where they came,
\* views to their windows, and what serial handlers read stands.
LEMMA CrowdKeeps ==
    ASSUME Crowd!CrowdInv, [Crowd!Next]_Crowd!vars
    PROVE  Crowd!CrowdInv' /\ Crowd!KeepsTold /\ Crowd!KeepsTopBid
<1>1. /\ Crowd!TypeOK /\ Crowd!SocketsCame /\ Crowd!RowEndsFirst
      /\ serial => Crowd!SerialKept
      /\ \A s \in Streams : Counted(s)
  BY CrowdViewed DEF Crowd!CrowdInv
<1>2. CrowdSlots' /\ CrowdTables' /\ CrowdLists' /\ CrowdClients' /\ Crowd!SocketsCame'
  BY <1>1, CrowdPlaced, CrowdFiled, CrowdListed, CrowdConnected
<1>3. Crowd!RowEndsFirst' /\ \A s \in Streams : Counted(s)'
  BY <1>1, CrowdEnded, CrowdViews
<1>4. serial' = serial
  <2>1. CrowdAlone \/ Crowd!Restart => serial' = serial
    BY DEF CrowdAlone, Crowd!Connect, Crowd!HandleDisconnect, Crowd!JoinRoom, Crowd!ViewersExpire,
       Crowd!EngagementExpires, Crowd!WindowEnds, Crowd!vars, Crowd!Restart
  <2>. QED
    BY <1>1, <2>1, CrowdSteps, CrowdBegun, CrowdRan
<1>5. serial => Crowd!SerialKept'
  BY <1>1, CrowdSerial
<1>6. Crowd!CrowdInv'
  BY <1>2, <1>3, <1>4, <1>5, CrowdTypes, CrowdViewed DEF Crowd!CrowdInv
<1>. QED
  BY <1>1, <1>6, CrowdSummary, CrowdBids

AudienceInv == part \in {"sockets", "likes"} => Crowd!CrowdInv

\* A socket that is counted is in the room; where handlers do not overlap the home page shows
\* the larger of the views and of those who watch, the summary counts the likes that were
\* told, and no top bid is lost; and whatever overlaps, a viewer is counted once in a window
\* (streams.gateway.ts:25-47, streams.service.ts:545-556, 783-791, 1030-1042, 1190-1203).
THEOREM AudienceIsCounted == PartSpec => CrowdCounted
<1>1. PartInit => AudienceInv
  BY CrowdStart, CrowdInit DEF AudienceInv
<1>2. AudienceInv /\ [PartNext]_<<vars, store>> =>
         /\ AudienceInv'
         /\ part \in {"sockets", "likes"} => Crowd!KeepsTold /\ Crowd!KeepsTopBid
  <2>1. ASSUME AudienceInv, [PartNext]_<<vars, store>>
        PROVE  /\ AudienceInv'
               /\ part \in {"sockets", "likes"} => Crowd!KeepsTold /\ Crowd!KeepsTopBid
    <3>1. part' = part
      BY <2>1 DEF PartNext, store
    <3>2. CASE part \in {"sockets", "likes"}
      BY <2>1, <3>1, <3>2, CrowdStep, CrowdKeeps DEF AudienceInv
    <3>3. CASE part \notin {"sockets", "likes"}
      BY <3>1, <3>3 DEF AudienceInv
    <3>. QED
      BY <3>2, <3>3
  <2>. QED
    BY <2>1
<1>3. AudienceInv => (part \in {"sockets", "likes"} =>
                        Crowd!TypeOK /\ Crowd!CountIsAudience /\ Crowd!ViewsCountedOnce)
  BY CrowdShown DEF AudienceInv, Crowd!CrowdInv
<1>4. AudienceInv /\ [PartNext]_<<vars, store>> =>
         [(part \in {"sockets", "likes"} => Crowd!KeepsTold /\ Crowd!KeepsTopBid)]_store
  BY <1>2
<1>. QED
  BY <1>1, <1>2, <1>3, <1>4, PTL DEF PartSpec, CrowdCounted
=============================================================================
