------------------------- MODULE ReplacementsProofs -------------------------
(***************************************************************************)
(* Theorems about Replacements, for any number of orders, requests,        *)
(* sessions and handlers.                                                  *)
(***************************************************************************)
EXTENDS Replacements, TLAPS

\* What opening a handler does to the slots.
LEMMA BeginStep ==
    ASSUME TypeOK, NEW r \in Slots, NEW at \in Steps, NEW locals \in Job, Begin(r, at, locals)
    PROVE  /\ pc[r] = "idle" /\ pc'[r] = at /\ job'[r] = locals
           /\ pc' \in [Slots -> {"idle"} \cup Steps] /\ job' \in [Slots -> Job \cup {Free}]
           /\ \A q \in Slots \ {r} : pc'[q] = pc[q] /\ job'[q] = job[q]
           /\ \A q \in Slots : pc'[q] # "idle" => job'[q] \in Job
           /\ locals.order \in serial => \A q \in Slots : pc[q] # "idle" => job[q].order # locals.order
BY DEF TypeOK, Begin, MayOpen

\* The two ways a step leaves a slot.
LEMMA SlotSteps ==
    ASSUME TypeOK, NEW r \in Slots
    PROVE  /\ \A at \in Steps : Goto(r, at) =>
                 /\ pc' \in [Slots -> {"idle"} \cup Steps] /\ pc'[r] = at /\ job' = job
                 /\ \A q \in Slots \ {r} : pc'[q] = pc[q]
           /\ Close(r) =>
                 /\ pc' \in [Slots -> {"idle"} \cup Steps] /\ job' \in [Slots -> Job \cup {Free}]
                 /\ pc'[r] = "idle" /\ job'[r] = Free
                 /\ \A q \in Slots \ {r} : pc'[q] = pc[q] /\ job'[q] = job[q]
BY DEF TypeOK, Goto, Close

\* What a handler of a request has been let through for.
LetIn(op, i, s) ==
    /\ op \in Handlers \ {"create"}
    /\ i \in Requests /\ Exists(i)
    /\ s \in Sessions \cup {NoSession}
    /\ op = "decide" => row[i].status = "PENDING_ADMIN_REVIEW"
    /\ op = "pay" => BalanceOpen(row[i]) /\ row[i].session = NoSession
    /\ op = "verify" => /\ s \in captured /\ owner[s] = i
                        /\ row[i].session = s /\ row[i].balance # "PAID"
    /\ op = "pack" => CanPack(row[i])
    /\ op = "request" => CanRequest(row[i])
    /\ op = "poll" => row[i].tracked
    /\ op = "deliver" => row[i].status = "SHIPPED"

\* A request of the apps lets one handler in and changes nothing else.
LEMMA LetInSteps ==
    ASSUME TypeOK, NEW r \in Slots,
           \/ \E i \in Requests : Request(r, i)
           \/ \E s \in Sessions : VerifyBalance(r, s)
    PROVE  \E op \in Handlers, at \in Steps, i \in Requests, s \in Sessions \cup {NoSession} :
              /\ LetIn(op, i, s)
              /\ Begin(r, at, [op |-> op, order |-> row[i].order, req |-> i, session |-> s,
                               due |-> 0, yes |-> FALSE])
              /\ UNCHANGED <<serial, open, row>> /\ UNCHANGED payments /\ UNCHANGED carrier
              /\ op = "request" => at = "createShipment"
              /\ op = "pay" => at = "createSession"
              /\ op = "verify" => at = "write"
              /\ at \notin {"storeSession", "storeKey"}
<1>1. ASSUME NEW i \in Requests, Request(r, i)
      PROVE  \E op \in Handlers, at \in Steps, s \in Sessions \cup {NoSession} :
              /\ LetIn(op, i, s)
              /\ Begin(r, at, [op |-> op, order |-> row[i].order, req |-> i, session |-> s,
                               due |-> 0, yes |-> FALSE])
              /\ UNCHANGED <<serial, open, row>> /\ UNCHANGED payments /\ UNCHANGED carrier
              /\ op = "request" => at = "createShipment"
              /\ op = "pay" => at = "createSession"
              /\ op = "verify" => at = "write"
              /\ at \notin {"storeSession", "storeKey"}
  BY <1>1 DEF Request, DecideRequest, CreateBalanceOrder, UploadPackingVideo, RequestDelivery,
     PollDelivery, DeliverReplacement, Read, LetIn, Handlers, Steps
<1>2. ASSUME NEW s \in Sessions, VerifyBalance(r, s)
      PROVE  /\ LetIn("verify", owner[s], s)
             /\ Begin(r, "write", [op |-> "verify", order |-> row[owner[s]].order, req |-> owner[s],
                                   session |-> s, due |-> 0, yes |-> FALSE])
             /\ UNCHANGED <<serial, open, row>> /\ UNCHANGED payments /\ UNCHANGED carrier
             /\ owner[s] \in Requests
  BY <1>2 DEF VerifyBalance, Read, LetIn, Handlers
<1>3. "verify" \in Handlers /\ "write" \in Steps
  BY DEF Handlers, Steps
<1>. QED
  BY <1>1, <1>2, <1>3

\* The locals of such a handler.
LEMMA LetInJob ==
    ASSUME TypeOK, NEW op \in Handlers, NEW i \in Requests, NEW s \in Sessions \cup {NoSession},
           Exists(i)
    PROVE  [op |-> op, order |-> row[i].order, req |-> i, session |-> s, due |-> 0, yes |-> FALSE]
              \in Job
BY DEF TypeOK, Job, Exists, Row, NoRow

\* A step of a handler leaves the other slots, and its own to the same handler or to none.
LEMMA StepSlot ==
    ASSUME TypeOK, NEW r \in Slots, Step(r)
    PROVE  /\ pc[r] # "idle" /\ job[r] \in Job
           /\ UNCHANGED <<serial, open>>
           /\ pc' \in [Slots -> {"idle"} \cup Steps] /\ job' \in [Slots -> Job \cup {Free}]
           /\ \A q \in Slots \ {r} : pc'[q] = pc[q] /\ job'[q] = job[q]
           /\ pc'[r] # "idle" =>
                /\ job'[r] \in Job /\ job[r].op # "create"
                /\ job'[r].op = job[r].op /\ job'[r].order = job[r].order /\ job'[r].req = job[r].req
<1>1. pc[r] # "idle" /\ job[r] \in Job
  BY DEF Step, InsertRequest, WriteDecision, CreateSession, StoreSession, StoreKey,
     WriteBalancePaid, DropKey, WritePacked, CreateShipment, WriteShipped, TrackShipment,
     WriteDelivered, Fail, At, TypeOK
<1>2. UNCHANGED <<serial, open>>
  BY DEF Step, InsertRequest, WriteDecision, CreateSession, StoreSession, StoreKey,
     WriteBalancePaid, DropKey, WritePacked, CreateShipment, WriteShipped, TrackShipment,
     WriteDelivered, Fail, OnlyRow, OnlySlot
<1>3. CASE CreateSession(r)
  <2>1. PICK s \in Sessions : pc' = [pc EXCEPT ![r] = "storeSession"]
                              /\ job' = [job EXCEPT ![r].session = s]
    BY <1>3 DEF CreateSession
  <2>2. job[r].op = "pay"
    BY <1>3 DEF CreateSession, At
  <2>3. job'[r] = [job[r] EXCEPT !.session = s] /\ \A q \in Slots \ {r} : job'[q] = job[q]
    BY <2>1 DEF TypeOK
  <2>4. job'[r] \in Job /\ job'[r].op = job[r].op /\ job'[r].order = job[r].order
        /\ job'[r].req = job[r].req
    BY <1>1, <2>3 DEF Job
  <2>5. pc' \in [Slots -> {"idle"} \cup Steps] /\ \A q \in Slots \ {r} : pc'[q] = pc[q]
    BY <2>1 DEF TypeOK, Steps
  <2>6. job' \in [Slots -> Job \cup {Free}]
    BY <2>1, <2>4 DEF TypeOK
  <2>7. QED
    BY <1>1, <1>2, <2>2, <2>3, <2>4, <2>5, <2>6
<1>4. CASE ~CreateSession(r)
  <2>1. \/ Close(r)
        \/ job[r].op # "create" /\ \E at \in Steps : Goto(r, at)
    BY <1>4 DEF Step, InsertRequest, WriteDecision, StoreSession, StoreKey,
       WriteBalancePaid, DropKey, WritePacked, CreateShipment, WriteShipped, TrackShipment,
       WriteDelivered, Fail, At, Steps
  <2>2. CASE Close(r)
    BY <1>1, <1>2, <2>2, SlotSteps
  <2>3. ASSUME NEW at \in Steps, Goto(r, at), job[r].op # "create"
        PROVE  /\ pc' \in [Slots -> {"idle"} \cup Steps] /\ job' = job
               /\ \A q \in Slots \ {r} : pc'[q] = pc[q]
    BY <2>3, SlotSteps
  <2>4. CASE job[r].op # "create" /\ \E at \in Steps : Goto(r, at)
    BY <1>1, <1>2, <2>3, <2>4 DEF TypeOK
  <2>5. QED
    BY <2>1, <2>2, <2>4
<1>5. QED
  BY <1>3, <1>4

\* The row of a request is replaced.
Puts(i, q) ==
    /\ q \in Row /\ row'[i] = q
    /\ row' \in [Requests -> Row \cup {NoRow}]
    /\ \A j \in Requests \ {i} : row'[j] = row[j]

LEMMA Working ==
    ASSUME TypeOK, NEW r \in Slots, pc[r] # "idle", job[r].op # "create"
    PROVE  /\ Of(r) \in Requests /\ Exists(Of(r)) /\ row[Of(r)] \in Row
           /\ job[r].op \in Handlers /\ job[r].session \in Sessions \cup {NoSession}
BY DEF TypeOK, Exists, Job

\* What each step writes to a row.
LEMMA StepRow ==
    ASSUME TypeOK, NEW r \in Slots, Step(r), ~UNCHANGED row
    PROVE  \/ /\ At(r, "create", "insert")
              /\ \E i \in Requests : \E q \in Row :
                    /\ ~Exists(i) /\ Puts(i, q)
                    /\ q.order = job[r].order /\ q.session = NoSession
                    /\ ~q.video /\ ~q.tracked
                    /\ \/ q.status = "PENDING_ADMIN_REVIEW" /\ q.balance = "NONE"
                       \/ q.status = "AWAITING_PAYMENT" /\ q.balance = "PENDING" /\ q.due > 0
                       \/ q.status = "APPROVED" /\ q.balance = "NONE" /\ q.due = 0
           \/ /\ At(r, "decide", "write")
              /\ \/ Puts(Of(r), [row[Of(r)] EXCEPT !.status = "REJECTED"])
                 \/ row[Of(r)].due > 0 /\
                    Puts(Of(r), [row[Of(r)] EXCEPT !.status = "AWAITING_PAYMENT", !.balance = "PENDING"])
                 \/ row[Of(r)].due = 0 /\
                    Puts(Of(r), [row[Of(r)] EXCEPT !.status = "APPROVED", !.balance = "NONE"])
           \/ /\ At(r, "pay", "storeSession")
              /\ Puts(Of(r), [row[Of(r)] EXCEPT !.session = job[r].session])
           \/ /\ At(r, "verify", "write")
              /\ Puts(Of(r), [row[Of(r)] EXCEPT !.status = "APPROVED", !.balance = "PAID"])
           \/ /\ At(r, "pack", "write")
              /\ Puts(Of(r), [row[Of(r)] EXCEPT !.status = "PACKED", !.video = TRUE])
           \/ /\ At(r, "request", "write")
              /\ Puts(Of(r), [row[Of(r)] EXCEPT !.status = "SHIPPED", !.tracked = TRUE])
           \/ /\ At(r, "poll", "write") \/ At(r, "deliver", "write")
              /\ Puts(Of(r), [row[Of(r)] EXCEPT !.status = "DELIVERED"])
<1> USE ReplacementAssumption
<1>1. pc[r] # "idle" /\ job[r] \in Job
  BY StepSlot
<1>2. CASE InsertRequest(r)
  <2>1. PICK i \in Requests :
          /\ ~Exists(i)
          /\ LET due == job[r].due
                 verdict == IF job[r].yes THEN Approval(due)
                            ELSE [status |-> "PENDING_ADMIN_REVIEW", balance |-> "NONE"]
             IN  row' = [row EXCEPT ![i] =
                    [status |-> verdict.status, order |-> job[r].order, due |-> due,
                     balance |-> verdict.balance, session |-> NoSession,
                     video |-> FALSE, tracked |-> FALSE]]
    BY <1>2 DEF InsertRequest
  <2>2. job[r].due \in Nat /\ job[r].order \in Orders
    BY <1>1 DEF Job
  <2>3. CASE ~job[r].yes
    <3>. DEFINE q == [status |-> "PENDING_ADMIN_REVIEW", order |-> job[r].order, due |-> job[r].due,
                     balance |-> "NONE", session |-> NoSession, video |-> FALSE, tracked |-> FALSE]
    <3>1. q \in Row
      BY <2>2 DEF Row, Status, BalanceStatus
    <3>2. Puts(i, q)
      BY <2>1, <2>3, <3>1 DEF Puts, TypeOK
    <3>3. QED
      BY <1>2, <2>1, <3>1, <3>2 DEF InsertRequest
  <2>4. CASE job[r].yes /\ job[r].due > 0
    <3>. DEFINE q == [status |-> "AWAITING_PAYMENT", order |-> job[r].order, due |-> job[r].due,
                     balance |-> "PENDING", session |-> NoSession, video |-> FALSE, tracked |-> FALSE]
    <3>1. q \in Row
      BY <2>2 DEF Row, Status, BalanceStatus
    <3>2. Puts(i, q)
      BY <2>1, <2>4, <3>1 DEF Puts, TypeOK, Approval
    <3>3. QED
      BY <1>2, <2>1, <2>4, <3>1, <3>2 DEF InsertRequest
  <2>5. CASE job[r].yes /\ job[r].due = 0
    <3>. DEFINE q == [status |-> "APPROVED", order |-> job[r].order, due |-> job[r].due,
                     balance |-> "NONE", session |-> NoSession, video |-> FALSE, tracked |-> FALSE]
    <3>1. q \in Row
      BY <2>2 DEF Row, Status, BalanceStatus
    <3>2. Puts(i, q)
      BY <2>1, <2>5, <3>1 DEF Puts, TypeOK, Approval
    <3>3. QED
      BY <1>2, <2>1, <2>5, <3>1, <3>2 DEF InsertRequest
  <2>6. QED
    BY <2>2, <2>3, <2>4, <2>5
<1>3. CASE job[r].op # "create"
  <2>1. Of(r) \in Requests /\ Exists(Of(r)) /\ row[Of(r)] \in Row
        /\ job[r].session \in Sessions \cup {NoSession}
    BY <1>1, <1>3, Working
  <2>2. CASE WriteDecision(r)
    <3>1. CASE row' = [row EXCEPT ![Of(r)].status = "REJECTED"]
      BY <2>1, <2>2, <3>1 DEF WriteDecision, Puts, TypeOK, Row, Status
    <3>2. row[Of(r)].due \in Nat
      BY <2>1 DEF Row
    <3>3. CASE /\ row[Of(r)].due > 0
               /\ row' = [row EXCEPT ![Of(r)].status = "AWAITING_PAYMENT",
                                      ![Of(r)].balance = "PENDING"]
      <4>1. Puts(Of(r), [row[Of(r)] EXCEPT !.status = "AWAITING_PAYMENT", !.balance = "PENDING"])
        BY <2>1, <3>3 DEF Puts, TypeOK, Row, Status, BalanceStatus
      <4>2. QED
        BY <2>2, <3>3, <4>1 DEF WriteDecision
    <3>4. CASE /\ row[Of(r)].due = 0
               /\ row' = [row EXCEPT ![Of(r)].status = "APPROVED", ![Of(r)].balance = "NONE"]
      <4>1. Puts(Of(r), [row[Of(r)] EXCEPT !.status = "APPROVED", !.balance = "NONE"])
        BY <2>1, <3>4 DEF Puts, TypeOK, Row, Status, BalanceStatus
      <4>2. QED
        BY <2>2, <3>4, <4>1 DEF WriteDecision
    <3>5. QED
      BY <2>2, <3>1, <3>2, <3>3, <3>4 DEF WriteDecision, Approval
  <2>3. CASE StoreSession(r)
    BY <2>1, <2>3 DEF StoreSession, Puts, TypeOK, Row
  <2>4. CASE WriteBalancePaid(r)
    BY <2>1, <2>4 DEF WriteBalancePaid, Puts, TypeOK, Row, Status, BalanceStatus
  <2>5. CASE WritePacked(r)
    BY <2>1, <2>5 DEF WritePacked, Puts, TypeOK, Row, Status
  <2>6. CASE WriteShipped(r)
    BY <2>1, <2>6 DEF WriteShipped, Puts, TypeOK, Row, Status
  <2>7. CASE WriteDelivered(r)
    BY <2>1, <2>7 DEF WriteDelivered, Puts, TypeOK, Row, Status
  <2>8. QED
    BY <1>3, <2>2, <2>3, <2>4, <2>5, <2>6, <2>7 DEF Step, InsertRequest, CreateSession, StoreKey,
       DropKey, CreateShipment, TrackShipment, Fail, OnlySlot, At
<1>4. QED
  BY <1>2, <1>3 DEF Step, WriteDecision, CreateSession, StoreSession, StoreKey,
     WriteBalancePaid, DropKey, WritePacked, CreateShipment, WriteShipped, TrackShipment,
     WriteDelivered, Fail, OnlySlot, At

\* What each step does to the money and the parcels.
LEMMA StepMoney ==
    ASSUME TypeOK, NEW r \in Slots, Step(r)
    PROVE  /\ owner' \in [Sessions -> Requests \cup {NoRequest}]
           /\ key' \subseteq Sessions /\ offered' \subseteq Sessions /\ captured' = captured
           /\ shipments' \in [Requests -> 0..MaxShipments] /\ arrived' = arrived
           /\ \A s \in Sessions : owner[s] # NoRequest => owner'[s] = owner[s]
           /\ \A i \in Requests : shipments[i] <= shipments'[i]
<1> USE ReplacementAssumption
<1>1. job[r] \in Job /\ (job[r].op # "create" => Of(r) \in Requests)
  BY StepSlot, Working
<1>2. CASE CreateSession(r)
  <2>1. Of(r) \in Requests /\ UNCHANGED <<key, offered, captured>> /\ UNCHANGED carrier
    BY <1>1, <1>2 DEF CreateSession, At
  <2>2. QED
    BY <1>2, <2>1 DEF CreateSession, TypeOK, carrier
<1>3. CASE CreateShipment(r)
  <2>1. Of(r) \in Requests /\ UNCHANGED arrived /\ UNCHANGED payments
    BY <1>1, <1>3 DEF CreateShipment, At
  <2>2. shipments' = [shipments EXCEPT ![Of(r)] = @ + 1] /\ shipments[Of(r)] < MaxShipments
    BY <1>3 DEF CreateShipment
  <2>3. shipments' \in [Requests -> 0..MaxShipments]
    BY <2>1, <2>2 DEF TypeOK
  <2>4. \A i \in Requests : shipments[i] <= shipments'[i]
    BY <2>1, <2>2 DEF TypeOK
  <2>5. QED
    BY <2>1, <2>3, <2>4 DEF TypeOK, payments
<1>4. CASE StoreKey(r) \/ DropKey(r)
  <2>1. job[r].session \in Sessions
    BY <1>4 DEF StoreKey, DropKey, At, Paying, TypeOK
  <2>2. QED
    BY <1>4, <2>1 DEF StoreKey, DropKey, carrier, TypeOK
<1>5. CASE UNCHANGED payments /\ UNCHANGED carrier
  BY <1>5 DEF TypeOK, payments, carrier
<1>6. QED
  BY <1>2, <1>3, <1>4, <1>5 DEF Step, InsertRequest, WriteDecision, StoreSession,
     WriteBalancePaid, WritePacked, WriteShipped, TrackShipment, WriteDelivered, Fail,
     OnlyRow, OnlySlot

\* A handler that holds a Razorpay order after its step has one, of its own request.
LEMMA StepPaying ==
    ASSUME TypeOK, NEW r \in Slots, Step(r), pc'[r] # "idle"
    PROVE  /\ Paying(r)' => job'[r].session \in Sessions
           /\ \/ job' = job
              \/ /\ At(r, "pay", "createSession") /\ pc'[r] = "storeSession"
                 /\ job'[r].session \in Sessions /\ owner[job'[r].session] = NoRequest
                 /\ owner' = [owner EXCEPT ![job'[r].session] = Of(r)]
<1>1. pc[r] # "idle" /\ job[r] \in Job
  BY StepSlot
<1>2. CASE CreateSession(r)
  <2>1. PICK s \in Sessions : /\ owner[s] = NoRequest
                              /\ owner' = [owner EXCEPT ![s] = Of(r)]
                              /\ pc' = [pc EXCEPT ![r] = "storeSession"]
                              /\ job' = [job EXCEPT ![r].session = s]
    BY <1>2 DEF CreateSession
  <2>2. job'[r] = [job[r] EXCEPT !.session = s]
    BY <2>1 DEF TypeOK
  <2>3. job'[r].session = s
    BY <1>1, <2>2 DEF Job
  <2>4. pc'[r] = "storeSession"
    BY <2>1 DEF TypeOK
  <2>5. QED
    BY <1>2, <2>1, <2>3, <2>4 DEF CreateSession
<1>3. ASSUME NEW at \in Steps, Goto(r, at), Paying(r)' => Paying(r)
      PROVE  job' = job /\ (Paying(r)' => job'[r].session \in Sessions)
  BY <1>3 DEF Goto, TypeOK
<1>4. CASE StoreSession(r)
  BY <1>3, <1>4 DEF StoreSession, Paying, At, Goto, Steps, TypeOK
<1>5. CASE WriteBalancePaid(r)
  BY <1>3, <1>5 DEF WriteBalancePaid, Paying, At, Goto, Steps, TypeOK
<1>6. CASE CreateShipment(r) \/ TrackShipment(r)
  <2>1. Goto(r, "write") /\ job[r].op \in {"request", "poll"}
    BY <1>6, SlotSteps DEF CreateShipment, TrackShipment, At
  <2>2. job' = job /\ pc'[r] = "write"
    BY <2>1, SlotSteps DEF Goto, Steps
  <2>3. ~Paying(r)'
    BY <2>1, <2>2 DEF Paying
  <2>4. QED
    BY <2>2, <2>3
<1>7. CASE Close(r)
  BY <1>7, SlotSteps
<1>8. QED
  BY <1>2, <1>4, <1>5, <1>6, <1>7 DEF Step, InsertRequest, WriteDecision, StoreKey, DropKey,
     WritePacked, WriteShipped, WriteDelivered, Fail

\* What no step takes back, of rows, payments and parcels.
Lasts ==
    /\ \A i \in Requests : Exists(i) =>
          /\ Exists(i)' /\ row'[i].order = row[i].order /\ row'[i].due = row[i].due
          /\ row[i].video => row'[i].video
          /\ row[i].tracked => row'[i].tracked
    /\ \A s \in Sessions : owner[s] # NoRequest => owner'[s] = owner[s]
    /\ captured \subseteq captured'
    /\ \A i \in Requests : shipments[i] > 0 => shipments'[i] > 0

LEMMA PutsLasts ==
    ASSUME TypeOK, NEW i \in Requests, NEW q \in Row, Puts(i, q),
           Exists(i) => /\ q.order = row[i].order /\ q.due = row[i].due
                        /\ row[i].video => q.video
                        /\ row[i].tracked => q.tracked
    PROVE  \A j \in Requests : Exists(j) =>
             /\ Exists(j)' /\ row'[j].order = row[j].order /\ row'[j].due = row[j].due
             /\ row[j].video => row'[j].video
             /\ row[j].tracked => row'[j].tracked
<1>1. NoRow \notin Row
  BY DEF NoRow, Row, Status
<1>2. QED
  BY <1>1 DEF Puts, Exists

LEMMA StepLasts ==
    ASSUME TypeOK, NEW r \in Slots, Step(r)
    PROVE  Lasts /\ row' \in [Requests -> Row \cup {NoRow}]
<1>1. CASE UNCHANGED row
  BY <1>1, StepMoney DEF Lasts, Exists, TypeOK
<1>2. CASE ~UNCHANGED row
  <2>1. PICK i \in Requests, q \in Row :
          /\ Puts(i, q)
          /\ Exists(i) => /\ q.order = row[i].order /\ q.due = row[i].due
                          /\ row[i].video => q.video
                          /\ row[i].tracked => q.tracked
    <3>1. CASE At(r, "create", "insert")
      BY <1>2, <3>1, StepRow DEF At
    <3>2. CASE job[r].op # "create"
      <4>1. Of(r) \in Requests /\ row[Of(r)] \in Row
        BY <3>2, Working, StepSlot
      <4>2. \E q \in Row : /\ Puts(Of(r), q)
                           /\ q.order = row[Of(r)].order /\ q.due = row[Of(r)].due
                           /\ row[Of(r)].video => q.video
                           /\ row[Of(r)].tracked => q.tracked
        BY <1>2, <3>2, <4>1, StepRow DEF At, Puts, Row
      <4>3. QED
        BY <4>1, <4>2
    <3>3. QED
      BY <1>2, <3>1, <3>2, StepRow DEF At
  <2>2. QED
    BY <2>1, PutsLasts, StepMoney DEF Lasts, Puts, TypeOK
<1>3. QED
  BY <1>1, <1>2

\* What buyers, parcels and time do leaves the rows and the handlers alone.
Outside ==
    /\ UNCHANGED <<serial, row, owner, pc, job>>
    /\ open' \subseteq Orders /\ key' \subseteq Sessions /\ offered' \subseteq Sessions
    /\ captured \subseteq captured' /\ captured' \subseteq Sessions
    /\ UNCHANGED shipments /\ arrived' \subseteq Requests
    /\ \A s \in offered' \ offered : \E i \in Requests : Exists(i) /\ row[i].session = s

\* A handler opens with nothing else changed.
Opens(r, at, locals) ==
    /\ Begin(r, at, locals)
    /\ UNCHANGED <<serial, open, row>> /\ UNCHANGED payments /\ UNCHANGED carrier

LEMMA NextCases ==
    ASSUME TypeOK, [Next]_vars
    PROVE  \/ \E r \in Slots, o \in Orders, p \in Prices, auto \in BOOLEAN :
                 CreateForOrder(r, o, p, auto)
           \/ \E r \in Slots, op \in Handlers, at \in Steps, i \in Requests,
                 s \in Sessions \cup {NoSession} :
                 /\ LetIn(op, i, s)
                 /\ Opens(r, at, [op |-> op, order |-> row[i].order, req |-> i, session |-> s,
                                  due |-> 0, yes |-> FALSE])
                 /\ op = "request" => at = "createShipment"
                 /\ op = "pay" => at = "createSession"
                 /\ op = "verify" => at = "write"
                 /\ at \notin {"storeSession", "storeKey"}
           \/ \E r \in Slots : Step(r)
           \/ Outside
<1>1. CASE \E i \in Requests : OfferAgain(i) \/ Arrive(i)
  <2>1. PICK i \in Requests : OfferAgain(i) \/ Arrive(i)
    BY <1>1
  <2>2. CASE OfferAgain(i)
    BY <2>2 DEF OfferAgain, Outside, TypeOK, carrier, slot, Exists, Row, NoRow
  <2>3. CASE Arrive(i)
    BY <2>3 DEF Arrive, Outside, TypeOK, payments, slot
  <2>4. QED
    BY <2>1, <2>2, <2>3
<1>2. CASE \E s \in Sessions : PayBalance(s) \/ KeyExpires(s)
  BY <1>2 DEF PayBalance, KeyExpires, Outside, TypeOK, carrier, slot
<1>3. CASE \E o \in Orders : WindowCloses(o)
  BY <1>3 DEF WindowCloses, Outside, TypeOK, payments, carrier, slot
<1>4. CASE UNCHANGED vars
  BY <1>4 DEF vars, Outside, TypeOK
<1>5. ASSUME NEW r \in Slots,
             \/ \E i \in Requests : Request(r, i)
             \/ \E s \in Sessions : VerifyBalance(r, s)
      PROVE  \E op \in Handlers, at \in Steps, i \in Requests, s \in Sessions \cup {NoSession} :
                 /\ LetIn(op, i, s)
                 /\ Opens(r, at, [op |-> op, order |-> row[i].order, req |-> i, session |-> s,
                                  due |-> 0, yes |-> FALSE])
                 /\ op = "request" => at = "createShipment"
                 /\ op = "pay" => at = "createSession"
                 /\ op = "verify" => at = "write"
                 /\ at \notin {"storeSession", "storeKey"}
  BY <1>5, LetInSteps DEF Opens
<1>6. QED
  BY <1>1, <1>2, <1>3, <1>4, <1>5 DEF Next

LEMMA OutsideLasts ==
    ASSUME TypeOK, Outside
    PROVE  Lasts
BY DEF Outside, Lasts, Exists

LEMMA OpensLasts ==
    ASSUME TypeOK, NEW r, NEW at, NEW locals, Opens(r, at, locals)
    PROVE  Lasts
BY DEF Opens, Lasts, Exists, payments, carrier

\* The locals a creation starts with.
LEMMA CreateJob ==
    ASSUME NEW o \in Orders, NEW p \in Prices, NEW auto \in BOOLEAN
    PROVE  [op |-> "create", order |-> o, req |-> NoRequest, session |-> NoSession,
            due |-> BalanceDue(p), yes |-> auto] \in Job
<1>1. BalanceDue(p) \in Nat
  BY ReplacementAssumption DEF BalanceDue
<1>2. QED
  BY <1>1 DEF Job, Handlers

LEMMA CreateOpens ==
    ASSUME NEW r \in Slots, NEW o \in Orders, NEW p \in Prices, NEW auto \in BOOLEAN,
           CreateForOrder(r, o, p, auto)
    PROVE  Opens(r, "insert", [op |-> "create", order |-> o, req |-> NoRequest,
                               session |-> NoSession, due |-> BalanceDue(p), yes |-> auto])
BY DEF CreateForOrder, Opens, OnlySlot, OnlyRow

\* A step keeps the types when every handler open after it has its locals, a row and, if
\* it takes a payment, a session.
LEMMA OpensTyped ==
    ASSUME TypeOK, NEW r \in Slots, NEW at \in Steps, NEW locals \in Job, Opens(r, at, locals),
           locals.op # "create" => locals.req \in Requests /\ Exists(locals.req),
           locals.op = "verify" => locals.session \in Sessions,
           at \notin {"storeSession", "storeKey"}
    PROVE  TypeOK'
<1>1. /\ pc[r] = "idle" /\ pc'[r] = at /\ job'[r] = locals
      /\ pc' \in [Slots -> {"idle"} \cup Steps] /\ job' \in [Slots -> Job \cup {Free}]
      /\ \A q \in Slots \ {r} : pc'[q] = pc[q] /\ job'[q] = job[q]
      /\ \A q \in Slots : pc'[q] # "idle" => job'[q] \in Job
  BY BeginStep DEF Opens
<1>2. UNCHANGED <<serial, open, row, owner, key, offered, captured, shipments, arrived>>
  BY DEF Opens, payments, carrier
<1>3. \A q \in Slots : pc'[q] # "idle" /\ job'[q].op # "create"
        => job'[q].req \in Requests /\ Exists(job'[q].req)
  BY <1>1 DEF TypeOK, Of
<1>4. \A q \in Slots : Paying(q)' => job'[q].session \in Sessions
  BY <1>1 DEF TypeOK, Paying
<1>5. QED
  BY <1>1, <1>2, <1>3, <1>4 DEF TypeOK, Exists, Of

LEMMA TypeStep ==
    ASSUME TypeOK, [Next]_vars
    PROVE  TypeOK'
<1>1. ASSUME NEW r \in Slots, NEW o \in Orders, NEW p \in Prices, NEW auto \in BOOLEAN,
             CreateForOrder(r, o, p, auto)
      PROVE  TypeOK'
  <2>. DEFINE locals == [op |-> "create", order |-> o, req |-> NoRequest,
                         session |-> NoSession, due |-> BalanceDue(p), yes |-> auto]
  <2>1. locals \in Job /\ locals.op = "create" /\ "insert" \in Steps
    BY CreateJob DEF Steps
  <2>2. Opens(r, "insert", locals)
    BY <1>1, CreateOpens
  <2>. HIDE DEF locals
  <2>3. QED
    BY <2>1, <2>2, OpensTyped
<1>2. ASSUME NEW r \in Slots, NEW op \in Handlers, NEW at \in Steps, NEW i \in Requests,
             NEW s \in Sessions \cup {NoSession}, LetIn(op, i, s),
             Opens(r, at, [op |-> op, order |-> row[i].order, req |-> i, session |-> s,
                           due |-> 0, yes |-> FALSE]),
             at \notin {"storeSession", "storeKey"}
      PROVE  TypeOK'
  <2>1. Exists(i) /\ (op = "verify" => s \in Sessions)
    BY <1>2 DEF LetIn, TypeOK
  <2>2. QED
    BY <1>2, <2>1, LetInJob, OpensTyped
<1>3. ASSUME NEW r \in Slots, Step(r)
      PROVE  TypeOK'
  <2>1. /\ pc' \in [Slots -> {"idle"} \cup Steps] /\ job' \in [Slots -> Job \cup {Free}]
        /\ UNCHANGED <<serial, open>>
        /\ \A q \in Slots \ {r} : pc'[q] = pc[q] /\ job'[q] = job[q]
        /\ pc'[r] # "idle" => /\ job'[r] \in Job /\ job[r].op # "create"
                              /\ job'[r].op = job[r].op /\ job'[r].req = job[r].req
        /\ pc[r] # "idle"
    BY <1>3, StepSlot
  <2>2. Lasts /\ row' \in [Requests -> Row \cup {NoRow}]
    BY <1>3, StepLasts
  <2>3. \A q \in Slots : pc'[q] # "idle" /\ job'[q].op # "create"
          => job'[q].req \in Requests /\ row'[job'[q].req] # NoRow
    <3>1. ASSUME NEW q \in Slots, pc'[q] # "idle", job'[q].op # "create"
          PROVE  pc[q] # "idle" /\ job[q].op # "create" /\ job'[q].req = job[q].req
      BY <2>1, <3>1
    <3>2. ASSUME NEW q \in Slots, pc[q] # "idle", job[q].op # "create"
          PROVE  job[q].req \in Requests /\ row'[job[q].req] # NoRow
      BY <2>2, <3>2 DEF TypeOK, Of, Lasts, Exists
    <3>3. QED
      BY <3>1, <3>2
  <2>4. \A q \in Slots : Paying(q)' => job'[q].session \in Sessions
    <3>1. Paying(r)' => job'[r].session \in Sessions
      BY <1>3, StepPaying DEF Paying
    <3>2. \A q \in Slots \ {r} : Paying(q)' => job'[q].session \in Sessions
      BY <2>1 DEF TypeOK, Paying
    <3>3. QED
      BY <3>1, <3>2
  <2>5. QED
    <3>1. \A q \in Slots : pc'[q] # "idle" => job'[q] \in Job
      BY <2>1 DEF TypeOK
    <3>2. QED
      BY <1>3, <2>1, <2>2, <2>3, <2>4, <3>1, StepMoney DEF TypeOK, Exists, Of
<1>4. CASE Outside
  BY <1>4 DEF Outside, TypeOK, Exists, Paying, Of
<1>5. QED
  BY <1>1, <1>2, <1>3, <1>4, NextCases

\* Every reachable state is well typed, and every handler past its first step works on a
\* row that exists, for any number of orders, requests, sessions and handlers.
THEOREM ReplacementsTyped == Spec => []TypeOK
<1>1. Init => TypeOK
  BY ReplacementAssumption DEF Init, TypeOK, Paying
<1>2. TypeOK /\ [Next]_vars => TypeOK'
  BY TypeStep
<1>3. QED
  BY <1>1, <1>2, PTL DEF Spec

-----------------------------------------------------------------------------
\* What PaidBeforePacked, ShippedWithProof and SeenOK say of one row.
RowSafe(i) ==
    Exists(i) =>
        /\ row[i].tracked => row[i].video /\ shipments[i] > 0
        /\ row[i].due > 0 /\ row[i].video => Settled(i)
        /\ row[i].balance = "PAID" => Settled(i)
        /\ row[i].due > 0 /\ row[i].status \in Shown => Settled(i)
        /\ row[i].status \in {"PACKED", "SHIPPED", "DELIVERED"} => row[i].video
        /\ row[i].status \in {"SHIPPED", "DELIVERED"} => row[i].tracked

Safe ==
    /\ \A i \in Requests : RowSafe(i)
    /\ \A r \in Slots : pc[r] # "idle" /\ job[r].op # "create" => Seen(r)

LEMMA SafeMeans == Safe <=> SeenOK /\ PaidBeforePacked /\ ShippedWithProof
BY DEF Safe, RowSafe, SeenOK, PaidBeforePacked, ShippedWithProof

LEMMA SettledLasts ==
    ASSUME TypeOK, Lasts, NEW i \in Requests, Settled(i)
    PROVE  Settled(i)'
BY ReplacementAssumption DEF TypeOK, Lasts, Settled

LEMMA SeenLasts ==
    ASSUME TypeOK, Lasts, NEW r \in Slots, pc[r] # "idle", job[r].op # "create", Seen(r),
           pc'[r] = pc[r], job'[r] = job[r]
    PROVE  Seen(r)'
<1>1. Of(r) \in Requests /\ Exists(Of(r)) /\ Of(r)' = Of(r)
      /\ job[r].session \in Sessions \cup {NoSession}
  BY Working DEF Of
<1>2. Settled(Of(r)) => Settled(Of(r))'
  <2>1. ASSUME NEW i \in Requests, Settled(i)
        PROVE  Settled(i)'
    BY <2>1, SettledLasts
  <2>2. QED
    BY <1>1, <2>1 DEF Settled
<1>3. job[r].op = "verify" => job[r].session \in Sessions
  BY DEF TypeOK, Paying
<1>4. QED
  BY <1>1, <1>2, <1>3, ReplacementAssumption DEF Seen, Lasts, At, TypeOK

LEMMA RowSafeLasts ==
    ASSUME TypeOK, Lasts, NEW i \in Requests, RowSafe(i), row'[i] = row[i]
    PROVE  RowSafe(i)'
<1>1. Settled(i) => Settled(i)'
  BY SettledLasts
<1>2. QED
  BY <1>1 DEF RowSafe, Exists, Lasts

\* A handler is let in for what is true of its row.
LEMMA LetInSeen ==
    ASSUME TypeOK, Safe, NEW op \in Handlers, NEW i \in Requests, NEW s \in Sessions \cup {NoSession},
           LetIn(op, i, s)
    PROVE  /\ op \in {"pack", "request", "poll", "deliver"} /\ row[i].due > 0 => Settled(i)
           /\ op = "verify" => s \in captured /\ owner[s] = i
           /\ op \in {"request", "poll", "deliver"} => row[i].video
           /\ op \in {"poll", "deliver"} => row[i].tracked
BY DEF LetIn, Safe, RowSafe, CanPack, CanRequest, CanFulfill, Shown

\* The row a step writes is safe.
LEMMA StepRowSafe ==
    ASSUME TypeOK, Safe, NEW r \in Slots, Step(r), NEW i \in Requests
    PROVE  RowSafe(i)'
<1>1. Lasts
  BY StepLasts
<1>2. CASE row'[i] = row[i]
  BY <1>1, <1>2, RowSafeLasts DEF Safe
<1>3. CASE row'[i] # row[i]
  <2>1. (Settled(i) => Settled(i)') /\ (shipments[i] > 0 => shipments'[i] > 0)
    BY <1>1, SettledLasts DEF Lasts
  <2>2. CASE At(r, "create", "insert")
    <3>1. PICK q \in Row : /\ row'[i] = q
                           /\ ~q.video /\ ~q.tracked /\ q.balance # "PAID"
                           /\ \/ q.status \in {"PENDING_ADMIN_REVIEW", "AWAITING_PAYMENT"}
                              \/ q.status = "APPROVED" /\ q.due = 0
      <4>1. PICK j \in Requests, q \in Row :
              /\ Puts(j, q) /\ ~q.video /\ ~q.tracked
              /\ \/ q.status = "PENDING_ADMIN_REVIEW" /\ q.balance = "NONE"
                 \/ q.status = "AWAITING_PAYMENT" /\ q.balance = "PENDING"
                 \/ q.status = "APPROVED" /\ q.balance = "NONE" /\ q.due = 0
        BY <1>3, <2>2, StepRow DEF At
      <4>2. i = j
        BY <1>3, <4>1 DEF Puts
      <4>3. QED
        BY <4>1, <4>2 DEF Puts
    <3>2. QED
      BY <3>1 DEF RowSafe, Shown
  <2>3. CASE job[r].op # "create"
    <3>1. i = Of(r)
      BY <1>3, <2>3, StepRow DEF At, Puts
    <3>2. Exists(i) /\ row[i] \in Row
      BY <2>3, <3>1, Working, StepSlot
    <3>3. RowSafe(i) /\ Seen(r)
      BY <2>3, StepSlot DEF Safe
    <3>. DEFINE q == row[i]
    <3>4. CASE At(r, "decide", "write")
      <4>1. \/ row'[i] = [q EXCEPT !.status = "REJECTED"]
            \/ row'[i] = [q EXCEPT !.status = "AWAITING_PAYMENT", !.balance = "PENDING"]
            \/ q.due = 0 /\ row'[i] = [q EXCEPT !.status = "APPROVED", !.balance = "NONE"]
        BY <1>3, <3>1, <3>4, StepRow DEF At, Puts
      <4>2. row'[i].video = q.video /\ row'[i].tracked = q.tracked /\ row'[i].due = q.due
            /\ row'[i].status \notin {"PACKED", "SHIPPED", "DELIVERED"}
            /\ (row'[i].balance = "PAID" => q.balance = "PAID")
            /\ (row'[i].status \in Shown => q.due = 0)
        BY <3>2, <4>1 DEF Row, Shown
      <4>3. QED
        BY <2>1, <3>2, <3>3, <4>2 DEF RowSafe
    <3>5. CASE At(r, "pay", "storeSession")
      <4>1. row'[i] = [q EXCEPT !.session = job[r].session]
        BY <1>3, <3>1, <3>5, StepRow DEF At, Puts
      <4>2. QED
        BY <2>1, <3>2, <3>3, <4>1 DEF RowSafe, Row
    <3>6. CASE At(r, "verify", "write")
      <4>1. row'[i] = [q EXCEPT !.status = "APPROVED", !.balance = "PAID"]
        BY <1>3, <3>1, <3>6, StepRow DEF At, Puts
      <4>2. Settled(i)
        BY <3>1, <3>3, <3>6 DEF Seen, Settled, At
      <4>3. QED
        BY <2>1, <3>2, <3>3, <4>1, <4>2 DEF RowSafe, Row
    <3>7. CASE At(r, "pack", "write")
      <4>1. row'[i] = [q EXCEPT !.status = "PACKED", !.video = TRUE]
        BY <1>3, <3>1, <3>7, StepRow DEF At, Puts
      <4>2. q.due > 0 => Settled(i)
        BY <3>1, <3>3, <3>7 DEF Seen, At
      <4>3. QED
        BY <2>1, <3>2, <3>3, <4>1, <4>2 DEF RowSafe, Row
    <3>8. CASE At(r, "request", "write")
      <4>1. row'[i] = [q EXCEPT !.status = "SHIPPED", !.tracked = TRUE]
        BY <1>3, <3>1, <3>8, StepRow DEF At, Puts
      <4>2. (q.due > 0 => Settled(i)) /\ q.video /\ shipments[i] > 0
        BY <3>1, <3>3, <3>8 DEF Seen, At
      <4>3. QED
        BY <2>1, <3>2, <3>3, <4>1, <4>2 DEF RowSafe, Row
    <3>9. CASE At(r, "poll", "write") \/ At(r, "deliver", "write")
      <4>1. row'[i] = [q EXCEPT !.status = "DELIVERED"]
        BY <1>3, <3>1, <3>9, StepRow DEF At, Puts
      <4>2. (q.due > 0 => Settled(i)) /\ q.video /\ q.tracked
        BY <3>1, <3>3, <3>9 DEF Seen, At
      <4>3. QED
        BY <2>1, <3>2, <3>3, <4>1, <4>2 DEF RowSafe, Row
    <3>10. QED
      BY <1>3, <2>3, <3>4, <3>5, <3>6, <3>7, <3>8, <3>9, StepRow DEF At
  <2>4. QED
    BY <2>2, <2>3, <1>3, StepRow DEF At
<1>4. QED
  BY <1>2, <1>3

\* A handler that goes on does so with what it was let in for.
LEMMA StepSeen ==
    ASSUME TypeOK, Safe, NEW r \in Slots, Step(r), pc'[r] # "idle"
    PROVE  Seen(r)'
<1>1. /\ pc[r] # "idle" /\ job[r].op # "create"
      /\ job'[r].op = job[r].op /\ job'[r].req = job[r].req
  BY StepSlot
<1>2. Of(r) \in Requests /\ Exists(Of(r)) /\ Of(r)' = Of(r) /\ Seen(r) /\ Lasts
  BY <1>1, Working, StepLasts DEF Safe, Of
<1>3. Settled(Of(r)) => Settled(Of(r))'
  <2>1. ASSUME NEW i \in Requests, Settled(i)
        PROVE  Settled(i)'
    BY <1>2, <2>1, SettledLasts
  <2>2. QED
    BY <1>2, <2>1 DEF Settled
<1>4. job[r].op = "verify" => job'[r].session = job[r].session /\ job[r].session \in Sessions
  BY <1>1, StepPaying DEF TypeOK, Paying, At
<1>5. At(r, "request", "write")' => shipments'[Of(r)] > 0
  <2>1. CASE CreateShipment(r)
    BY <1>2, <2>1 DEF CreateShipment, TypeOK
  <2>2. CASE ~CreateShipment(r)
    <3>1. ~At(r, "request", "write")'
      BY <1>1, <2>2, SlotSteps DEF Step, InsertRequest, WriteDecision, CreateSession, StoreSession,
         StoreKey, WriteBalancePaid, DropKey, WritePacked, WriteShipped, TrackShipment,
         WriteDelivered, Fail, At, Steps
    <3>2. QED
      BY <3>1
  <2>3. QED
    BY <2>1, <2>2
<1>6. QED
  BY <1>1, <1>2, <1>3, <1>4, <1>5, ReplacementAssumption DEF Seen, Lasts, At, TypeOK

LEMMA SafeStep ==
    ASSUME TypeOK, Safe, [Next]_vars
    PROVE  Safe'
<1>1. ASSUME NEW r \in Slots, NEW o \in Orders, NEW p \in Prices, NEW auto \in BOOLEAN,
             CreateForOrder(r, o, p, auto)
      PROVE  Safe'
  <2>. DEFINE locals == [op |-> "create", order |-> o, req |-> NoRequest,
                         session |-> NoSession, due |-> BalanceDue(p), yes |-> auto]
  <2>1. locals \in Job /\ locals.op = "create" /\ Opens(r, "insert", locals) /\ "insert" \in Steps
    BY <1>1, CreateJob, CreateOpens DEF Steps
  <2>. HIDE DEF locals
  <2>2. Lasts /\ UNCHANGED row
    BY <2>1, OpensLasts DEF Opens
  <2>3. job'[r] = locals /\ \A q \in Slots \ {r} : pc'[q] = pc[q] /\ job'[q] = job[q]
    BY <2>1, BeginStep DEF Opens
  <2>4. QED
    BY <2>1, <2>2, <2>3, SeenLasts, RowSafeLasts DEF Safe
<1>2. ASSUME NEW r \in Slots, NEW op \in Handlers, NEW at \in Steps, NEW i \in Requests,
             NEW s \in Sessions \cup {NoSession}, LetIn(op, i, s),
             Opens(r, at, [op |-> op, order |-> row[i].order, req |-> i, session |-> s,
                           due |-> 0, yes |-> FALSE]),
             op = "request" => at = "createShipment"
      PROVE  Safe'
  <2>. DEFINE locals == [op |-> op, order |-> row[i].order, req |-> i, session |-> s,
                         due |-> 0, yes |-> FALSE]
  <2>1. locals \in Job /\ locals.op = op /\ locals.req = i /\ locals.session = s
    BY <1>2, LetInJob DEF LetIn
  <2>2. Opens(r, at, locals)
    BY <1>2
  <2>. HIDE DEF locals
  <2>3. Lasts /\ UNCHANGED <<row, owner, captured, shipments>>
    BY <2>2, OpensLasts DEF Opens, payments, carrier
  <2>4. /\ job'[r] = locals /\ pc'[r] = at
        /\ \A q \in Slots \ {r} : pc'[q] = pc[q] /\ job'[q] = job[q]
    BY <2>1, <2>2, BeginStep DEF Opens
  <2>5. Settled(i) => Settled(i)'
    BY <2>3, SettledLasts
  <2>6. Seen(r)'
    BY <1>2, <2>1, <2>3, <2>4, <2>5, LetInSeen DEF Seen, Of, At
  <2>7. QED
    BY <2>3, <2>4, <2>6, SeenLasts, RowSafeLasts DEF Safe
<1>3. ASSUME NEW r \in Slots, Step(r)
      PROVE  Safe'
  <2>1. \A i \in Requests : RowSafe(i)'
    BY <1>3, StepRowSafe
  <2>2. Lasts /\ \A q \in Slots \ {r} : pc'[q] = pc[q] /\ job'[q] = job[q]
    BY <1>3, StepLasts, StepSlot
  <2>3. pc'[r] # "idle" => Seen(r)'
    BY <1>3, StepSeen
  <2>4. QED
    BY <2>1, <2>2, <2>3, SeenLasts DEF Safe
<1>4. CASE Outside
  <2>1. Lasts /\ UNCHANGED <<row, pc, job>>
    BY <1>4, OutsideLasts DEF Outside
  <2>2. QED
    BY <2>1, SeenLasts, RowSafeLasts DEF Safe
<1>5. QED
  BY <1>1, <1>2, <1>3, <1>4, NextCases

LEMMA SafeHolds == Spec => []Safe
<1>1. Init => Safe
  BY DEF Init, Safe, RowSafe, Exists
<1>2. TypeOK /\ Safe /\ [Next]_vars => Safe'
  BY SafeStep
<1>3. QED
  BY <1>1, <1>2, ReplacementsTyped, PTL DEF Spec

\* However decisions, payments and the seller's handlers overlap and fail, a replacement
\* with a balance reaches the seller only when a payment for it was captured.
THEOREM ReplacementsPaidFirst == Spec => []PaidBeforePacked
BY SafeHolds, SafeMeans, PTL

\* However they overlap, none is packed without a video or shipped without a shipment.
THEOREM ReplacementsShipWithProof == Spec => []ShippedWithProof
BY SafeHolds, SafeMeans, PTL

-----------------------------------------------------------------------------
(***************************************************************************)
(* Orders whose handlers do not overlap.                                   *)
(***************************************************************************)
\* The handlers of an order that is serial are open one at a time.
Alone ==
    \A r, q \in Slots :
        pc[r] # "idle" /\ pc[q] # "idle" /\ job[r].order = job[q].order /\ job[r].order \in serial
            => r = q

\* Razorpay orders are those of requests, and a row keeps one of its own.
SessionsOwned ==
    /\ \A s \in Sessions : owner[s] # NoRequest => Exists(owner[s])
    /\ \A s \in offered : owner[s] # NoRequest
    /\ \A i \in Requests : Exists(i) /\ row[i].session # NoSession => owner[row[i].session] = i
    /\ \A r \in Slots : Paying(r) => Of(r) \in Requests /\ owner[job[r].session] = Of(r)
    /\ \A r \in Slots : pc[r] # "idle" /\ job[r].op # "create" => job[r].order = row[Of(r)].order

\* What a handler of a serial order was let in for still holds when it writes.
Current(r) ==
    LET q == row[Of(r)]
    IN  /\ job[r].op = "create" =>
             \A i \in Requests : Exists(i) /\ row[i].order = job[r].order => row[i].status = "REJECTED"
        /\ job[r].op = "decide" => q.status = "PENDING_ADMIN_REVIEW"
        /\ job[r].op = "pay" => q.status = "AWAITING_PAYMENT"
        /\ At(r, "pay", "createSession") \/ At(r, "pay", "storeSession") => q.session = NoSession
        /\ At(r, "pay", "storeKey") => q.session = job[r].session
        /\ At(r, "verify", "write") => q.status = "AWAITING_PAYMENT"
        /\ job[r].op = "pack" => q.status = "APPROVED"
        /\ job[r].op = "request" => q.status = "PACKED"
        /\ job[r].op = "poll" => q.status \in {"SHIPPED", "DELIVERED"}
        /\ job[r].op = "deliver" => q.status = "SHIPPED"

\* The status of a serial row says what its columns hold.
RowSerial(i) ==
    Tracked(i) =>
        /\ row[i].balance = "PENDING" <=> row[i].status = "AWAITING_PAYMENT"
        /\ row[i].status = "PENDING_ADMIN_REVIEW" => row[i].balance = "NONE" /\ row[i].session = NoSession
        /\ row[i].tracked => row[i].status \in {"SHIPPED", "DELIVERED"}
        /\ row[i].video => row[i].status \in {"PACKED", "SHIPPED", "DELIVERED"}
        /\ row[i].due > 0 /\ row[i].status \in Shown => row[i].balance = "PAID"
        /\ row[i].session # NoSession /\ row[i].balance # "PAID" => row[i].status = "AWAITING_PAYMENT"

SerialInv ==
    /\ Alone /\ SessionsOwned /\ OneAttempt
    /\ \A i \in Requests : RowSerial(i)
    /\ \A r \in Slots : pc[r] # "idle" /\ job[r].order \in serial => Current(r)

\* How the row of a serial order moves.
Moves(q, n) ==
    \/ /\ q.status = "PENDING_ADMIN_REVIEW"
       /\ \/ n = [q EXCEPT !.status = "REJECTED"]
          \/ n = [q EXCEPT !.status = "AWAITING_PAYMENT", !.balance = "PENDING"]
          \/ q.due = 0 /\ n = [q EXCEPT !.status = "APPROVED", !.balance = "NONE"]
    \/ /\ q.status = "AWAITING_PAYMENT" /\ q.session = NoSession
       /\ \E s \in Sessions : n = [q EXCEPT !.session = s]
    \/ q.status = "AWAITING_PAYMENT" /\ n = [q EXCEPT !.status = "APPROVED", !.balance = "PAID"]
    \/ q.status = "APPROVED" /\ n = [q EXCEPT !.status = "PACKED", !.video = TRUE]
    \/ q.status = "PACKED" /\ n = [q EXCEPT !.status = "SHIPPED", !.tracked = TRUE]
    \/ q.status \in {"SHIPPED", "DELIVERED"} /\ n = [q EXCEPT !.status = "DELIVERED"]

\* A new row.
Filed(q) ==
    /\ q.session = NoSession /\ ~q.video /\ ~q.tracked
    /\ \/ q.status = "PENDING_ADMIN_REVIEW" /\ q.balance = "NONE"
       \/ q.status = "APPROVED" /\ q.balance = "NONE" /\ q.due = 0
       \/ q.status = "AWAITING_PAYMENT" /\ q.balance = "PENDING"

\* A step writes one row, of the order its handler is about.
LEMMA StepWrites ==
    ASSUME TypeOK, SessionsOwned, NEW r \in Slots, Step(r), NEW i \in Requests, row'[i] # row[i]
    PROVE  /\ row'[i] \in Row /\ row'[i].order = job[r].order
           /\ Exists(i) => row[i].order = job[r].order /\ job[r].op # "create" /\ i = Of(r)
           /\ ~Exists(i) => job[r].op = "create" /\ Filed(row'[i])
           /\ \A j \in Requests \ {i} : row'[j] = row[j]
<1>1. CASE At(r, "create", "insert")
  <2>1. PICK j \in Requests, q \in Row :
          ~Exists(j) /\ Puts(j, q) /\ q.order = job[r].order /\ Filed(q)
    BY <1>1, StepRow DEF At, Filed
  <2>2. i = j
    BY <2>1 DEF Puts
  <2>3. QED
    BY <1>1, <2>1, <2>2 DEF At, Puts
<1>2. CASE job[r].op # "create"
  <2>1. Exists(Of(r)) /\ Of(r) \in Requests /\ row[Of(r)] \in Row /\ job[r].order = row[Of(r)].order
    BY <1>2, Working, StepSlot DEF SessionsOwned
  <2>2. Puts(Of(r), row'[Of(r)])
    BY <1>2, <2>1, StepRow DEF At, Puts
  <2>3. row'[Of(r)].order = row[Of(r)].order
    BY <2>1, StepLasts DEF Lasts
  <2>4. i = Of(r)
    BY <2>2 DEF Puts
  <2>5. QED
    BY <1>2, <2>1, <2>2, <2>3, <2>4 DEF Puts
<1>3. QED
  BY <1>1, <1>2, StepRow DEF At

\* And it writes what the status it was let in for allows.
LEMMA SerialMoves ==
    ASSUME TypeOK, SessionsOwned, NEW r \in Slots, Step(r), Current(r),
           NEW i \in Requests, row'[i] # row[i], Exists(i)
    PROVE  Moves(row[i], row'[i])
<1>1. job[r].op # "create" /\ i = Of(r)
  BY StepWrites
<1>. DEFINE q == row[i]
<1>2. CASE At(r, "decide", "write")
  BY <1>1, <1>2, StepRow DEF At, Puts, Current, Moves
<1>3. CASE At(r, "pay", "storeSession")
  <2>1. job[r].session \in Sessions
    BY <1>3 DEF At, Paying, TypeOK
  <2>2. row'[i] = [q EXCEPT !.session = job[r].session]
    BY <1>1, <1>3, StepRow DEF At, Puts
  <2>3. q.status = "AWAITING_PAYMENT" /\ q.session = NoSession
    BY <1>1, <1>3 DEF Current, At
  <2>4. QED
    BY <2>1, <2>2, <2>3 DEF Moves
<1>4. CASE At(r, "verify", "write")
  BY <1>1, <1>4, StepRow DEF At, Puts, Current, Moves
<1>5. CASE At(r, "pack", "write")
  BY <1>1, <1>5, StepRow DEF At, Puts, Current, Moves
<1>6. CASE At(r, "request", "write")
  BY <1>1, <1>6, StepRow DEF At, Puts, Current, Moves
<1>7. CASE At(r, "poll", "write") \/ At(r, "deliver", "write")
  BY <1>1, <1>7, StepRow DEF At, Puts, Current, Moves
<1>8. QED
  BY <1>1, <1>2, <1>3, <1>4, <1>5, <1>6, <1>7, StepRow DEF At

LEMMA MovesRow ==
    ASSUME NEW q \in Row, NEW n, Moves(q, n)
    PROVE  /\ n \in Row
           /\ q.status \notin {"REJECTED", "DELIVERED"} \/ n.status = q.status
           /\ n.order = q.order
           /\ n.session = q.session \/ q.session = NoSession
BY DEF Moves, Row, Status, BalanceStatus

LEMMA NothingElseWrites ==
    ASSUME TypeOK, [Next]_vars
    PROVE  serial' = serial /\ (UNCHANGED row \/ \E r \in Slots : Step(r))
<1>1. ASSUME NEW r \in Slots, NEW o \in Orders, NEW p \in Prices, NEW auto \in BOOLEAN,
             CreateForOrder(r, o, p, auto)
      PROVE  UNCHANGED <<serial, row>>
  BY <1>1 DEF CreateForOrder, OnlySlot, OnlyRow
<1>2. QED
  BY <1>1, NextCases, StepSlot DEF Opens, Outside

\* What a step may write to the row of a serial order.
LEMMA SerialWrites ==
    ASSUME TypeOK, SerialInv, [Next]_vars, NEW i \in Requests, row'[i] # row[i]
    PROVE  /\ row'[i] \in Row /\ Exists(i)'
           /\ \A j \in Requests \ {i} : row'[j] = row[j]
           /\ Exists(i) => /\ row[i] \in Row /\ row'[i].order = row[i].order
                           /\ row[i].order \in serial => Moves(row[i], row'[i])
           /\ ~Exists(i) =>
                /\ Filed(row'[i])
                /\ row'[i].order \in serial =>
                     \A j \in Requests : Exists(j) /\ row[j].order = row'[i].order
                                           => row[j].status = "REJECTED"
<1>1. PICK r \in Slots : Step(r)
  BY NothingElseWrites
<1>2. pc[r] # "idle" /\ (job[r].order \in serial => Current(r))
  BY <1>1, StepSlot DEF SerialInv
<1>3. NoRow \notin Row
  BY DEF NoRow, Row, Status
<1>4. /\ row'[i] \in Row /\ row'[i].order = job[r].order
      /\ Exists(i) => row[i].order = job[r].order
      /\ ~Exists(i) => job[r].op = "create" /\ Filed(row'[i])
      /\ \A j \in Requests \ {i} : row'[j] = row[j]
  BY <1>1, StepWrites DEF SerialInv
<1>5. Exists(i) /\ row[i].order \in serial => Moves(row[i], row'[i])
  BY <1>1, <1>2, <1>4, SerialMoves DEF SerialInv
<1>6. QED
  BY <1>2, <1>3, <1>4, <1>5 DEF Current, Exists, TypeOK

LEMMA AloneStep ==
    ASSUME TypeOK, Alone, [Next]_vars
    PROVE  Alone'
<1>1. ASSUME NEW r \in Slots, NEW at \in Steps, NEW locals \in Job, Opens(r, at, locals)
      PROVE  Alone'
  BY <1>1, BeginStep DEF Opens, Alone
<1>2. ASSUME NEW r \in Slots, NEW o \in Orders, NEW p \in Prices, NEW auto \in BOOLEAN,
             CreateForOrder(r, o, p, auto)
      PROVE  Alone'
  <2>. DEFINE locals == [op |-> "create", order |-> o, req |-> NoRequest,
                         session |-> NoSession, due |-> BalanceDue(p), yes |-> auto]
  <2>1. locals \in Job /\ Opens(r, "insert", locals) /\ "insert" \in Steps
    BY <1>2, CreateJob, CreateOpens DEF Steps
  <2>. HIDE DEF locals
  <2>2. QED
    BY <1>1, <2>1
<1>3. ASSUME NEW r \in Slots, NEW op \in Handlers, NEW at \in Steps, NEW i \in Requests,
             NEW s \in Sessions \cup {NoSession}, LetIn(op, i, s),
             Opens(r, at, [op |-> op, order |-> row[i].order, req |-> i, session |-> s,
                           due |-> 0, yes |-> FALSE])
      PROVE  Alone'
  BY <1>1, <1>3, LetInJob DEF LetIn
<1>4. ASSUME NEW r \in Slots, Step(r)
      PROVE  Alone'
  BY <1>4, StepSlot DEF Alone
<1>5. CASE Outside
  BY <1>5 DEF Outside, Alone
<1>6. QED
  BY <1>2, <1>3, <1>4, <1>5, NextCases

LEMMA OwnedLasts ==
    ASSUME TypeOK, SessionsOwned, Lasts, NEW r \in Slots, pc[r] # "idle",
           pc'[r] = pc[r], job'[r] = job[r]
    PROVE  /\ Paying(r)' => Of(r)' \in Requests /\ owner'[job'[r].session] = Of(r)'
           /\ job'[r].op # "create" => job'[r].order = row'[Of(r)'].order
<1>1. Paying(r)' = Paying(r) /\ Of(r)' = Of(r)
  BY DEF Paying, Of
<1>2. Paying(r) => job[r].session \in Sessions
  BY DEF TypeOK
<1>3. job[r].op # "create" => Of(r) \in Requests /\ Exists(Of(r))
  BY DEF TypeOK
<1>4. QED
  BY <1>1, <1>2, <1>3, ReplacementAssumption DEF SessionsOwned, Lasts

LEMMA OwnedStep ==
    ASSUME TypeOK, SessionsOwned, [Next]_vars
    PROVE  SessionsOwned'
<1> USE ReplacementAssumption
<1>1. ASSUME NEW r \in Slots, NEW o \in Orders, NEW p \in Prices, NEW auto \in BOOLEAN,
             CreateForOrder(r, o, p, auto)
      PROVE  SessionsOwned'
  <2>. DEFINE locals == [op |-> "create", order |-> o, req |-> NoRequest,
                         session |-> NoSession, due |-> BalanceDue(p), yes |-> auto]
  <2>1. locals \in Job /\ locals.op = "create" /\ Opens(r, "insert", locals) /\ "insert" \in Steps
    BY <1>1, CreateJob, CreateOpens DEF Steps
  <2>. HIDE DEF locals
  <2>2. Lasts /\ UNCHANGED <<row, owner, offered>>
    BY <2>1, OpensLasts DEF Opens, payments
  <2>3. /\ job'[r] = locals /\ pc'[r] = "insert"
        /\ \A q \in Slots \ {r} : pc'[q] = pc[q] /\ job'[q] = job[q]
    BY <2>1, BeginStep DEF Opens
  <2>4. ~Paying(r)' /\ job'[r].op = "create"
    BY <2>1, <2>3 DEF Paying
  <2>5. QED
    BY <2>2, <2>3, <2>4, OwnedLasts DEF SessionsOwned, Exists, Paying
<1>2. ASSUME NEW r \in Slots, NEW op \in Handlers, NEW at \in Steps, NEW i \in Requests,
             NEW s \in Sessions \cup {NoSession}, LetIn(op, i, s),
             Opens(r, at, [op |-> op, order |-> row[i].order, req |-> i, session |-> s,
                           due |-> 0, yes |-> FALSE]),
             at \notin {"storeSession", "storeKey"}
      PROVE  SessionsOwned'
  <2>. DEFINE locals == [op |-> op, order |-> row[i].order, req |-> i, session |-> s,
                         due |-> 0, yes |-> FALSE]
  <2>1. locals \in Job /\ locals.op = op /\ locals.req = i /\ locals.session = s
        /\ locals.order = row[i].order
    BY <1>2, LetInJob DEF LetIn
  <2>2. Opens(r, at, locals)
    BY <1>2
  <2>. HIDE DEF locals
  <2>3. Lasts /\ UNCHANGED <<row, owner, offered>>
    BY <2>2, OpensLasts DEF Opens, payments
  <2>4. /\ job'[r] = locals /\ pc'[r] = at
        /\ \A q \in Slots \ {r} : pc'[q] = pc[q] /\ job'[q] = job[q]
    BY <2>1, <2>2, BeginStep DEF Opens
  <2>5. /\ Paying(r)' => Of(r)' \in Requests /\ owner'[job'[r].session] = Of(r)'
        /\ job'[r].order = row'[Of(r)'].order
    BY <1>2, <2>1, <2>3, <2>4 DEF Paying, Of, LetIn
  <2>6. QED
    BY <2>3, <2>4, <2>5, OwnedLasts DEF SessionsOwned, Exists, Paying
<1>3. ASSUME NEW r \in Slots, Step(r)
      PROVE  SessionsOwned'
  <2>1. Lasts /\ \A q \in Slots \ {r} : pc'[q] = pc[q] /\ job'[q] = job[q]
    BY <1>3, StepLasts, StepSlot
  <2>2. \A s \in Sessions : owner'[s] # NoRequest => row'[owner'[s]] # NoRow
    <3>1. ASSUME NEW s \in Sessions
          PROVE  owner'[s] = owner[s] \/ (owner'[s] \in Requests /\ row[owner'[s]] # NoRow)
      <4>1. CASE CreateSession(r)
        <5>1. Of(r) \in Requests /\ Exists(Of(r))
          BY <4>1, <1>3, StepSlot, Working DEF CreateSession, At
        <5>2. QED
          BY <4>1, <5>1 DEF CreateSession, TypeOK, Exists
      <4>2. CASE ~CreateSession(r)
        <5>1. UNCHANGED owner
          BY <4>2, <1>3 DEF Step, InsertRequest, WriteDecision, StoreSession, StoreKey,
             WriteBalancePaid, DropKey, WritePacked, CreateShipment, WriteShipped, TrackShipment,
             WriteDelivered, Fail, OnlyRow, OnlySlot, payments
        <5>2. QED
          BY <5>1
      <4>3. QED
        BY <4>1, <4>2
    <3>2. QED
      BY <2>1, <3>1 DEF SessionsOwned, Lasts, Exists, TypeOK
  <2>3. \A s \in offered' : owner'[s] # NoRequest
    <3>1. \A s \in offered' \ offered : owner[s] # NoRequest
      <4>1. CASE StoreKey(r)
        <5>1. Paying(r) /\ offered' = offered \cup {job[r].session}
          BY <4>1 DEF StoreKey, At, Paying
        <5>2. QED
          BY <5>1 DEF SessionsOwned
      <4>2. CASE ~StoreKey(r)
        BY <4>2, <1>3 DEF Step, InsertRequest, WriteDecision, StoreSession, CreateSession,
           WriteBalancePaid, DropKey, WritePacked, CreateShipment, WriteShipped, TrackShipment,
           WriteDelivered, Fail, OnlyRow, OnlySlot, payments
      <4>3. QED
        BY <4>1, <4>2
    <3>2. offered' \subseteq Sessions
      BY <1>3, StepMoney
    <3>3. QED
      BY <2>1, <3>1, <3>2 DEF SessionsOwned, Lasts
  <2>4. \A i \in Requests : Exists(i)' /\ row'[i].session # NoSession => owner'[row'[i].session] = i
    <3>1. ASSUME NEW i \in Requests, Exists(i)', row'[i].session # NoSession
          PROVE  row'[i].session \in Sessions /\ owner[row'[i].session] = i
      <4>1. CASE row'[i] = row[i]
        BY <3>1, <4>1 DEF SessionsOwned, Exists, TypeOK, Row
      <4>2. CASE row'[i] # row[i]
        <5>1. CASE ~Exists(i)
          BY <1>3, <3>1, <4>2, <5>1, StepWrites DEF Filed
        <5>2. CASE Exists(i)
          <6>1. i = Of(r) /\ job[r].op # "create" /\ row[i] \in Row
            BY <1>3, <4>2, <5>2, StepWrites DEF TypeOK, Exists
          <6>2. \/ row'[i].session = row[i].session
                \/ At(r, "pay", "storeSession") /\ row'[i].session = job[r].session
            <7>. DEFINE q == row[i]
            <7>1. ~UNCHANGED row
              BY <4>2
            <7>2. \/ row'[i] = [q EXCEPT !.status = "REJECTED"]
                  \/ row'[i] = [q EXCEPT !.status = "AWAITING_PAYMENT", !.balance = "PENDING"]
                  \/ row'[i] = [q EXCEPT !.status = "APPROVED", !.balance = "NONE"]
                  \/ At(r, "pay", "storeSession") /\ row'[i] = [q EXCEPT !.session = job[r].session]
                  \/ row'[i] = [q EXCEPT !.status = "APPROVED", !.balance = "PAID"]
                  \/ row'[i] = [q EXCEPT !.status = "PACKED", !.video = TRUE]
                  \/ row'[i] = [q EXCEPT !.status = "SHIPPED", !.tracked = TRUE]
                  \/ row'[i] = [q EXCEPT !.status = "DELIVERED"]
              BY <1>3, <6>1, <7>1, StepRow DEF At, Puts
            <7>3. QED
              BY <6>1, <7>2 DEF Row
          <6>3. At(r, "pay", "storeSession") => Paying(r)
            BY DEF At, Paying
          <6>4. QED
            BY <3>1, <5>2, <6>1, <6>2, <6>3 DEF SessionsOwned, TypeOK, Row
        <5>3. QED
          BY <5>1, <5>2
      <4>3. QED
        BY <4>1, <4>2
    <3>2. QED
      BY <2>1, <3>1 DEF Lasts
  <2>5. pc'[r] # "idle" =>
          /\ Paying(r)' => Of(r)' \in Requests /\ owner'[job'[r].session] = Of(r)'
          /\ job'[r].op # "create" => job'[r].order = row'[Of(r)'].order
    <3>1. SUFFICES ASSUME pc'[r] # "idle"
                   PROVE  /\ Paying(r)' => Of(r)' \in Requests /\ owner'[job'[r].session] = Of(r)'
                          /\ job'[r].order = row'[Of(r)'].order
      OBVIOUS
    <3>2. /\ pc[r] # "idle" /\ job[r].op # "create" /\ Of(r)' = Of(r)
          /\ Of(r) \in Requests /\ Exists(Of(r)) /\ job'[r].order = job[r].order
          /\ job'[r].op = job[r].op
      BY <1>3, <3>1, StepSlot, Working DEF Of
    <3>3. job'[r].order = row'[Of(r)'].order
      BY <2>1, <3>2 DEF SessionsOwned, Lasts
    <3>4. Paying(r)' => owner'[job'[r].session] = Of(r)
      <4>1. CASE CreateSession(r)
        <5>1. PICK s \in Sessions : /\ owner' = [owner EXCEPT ![s] = Of(r)]
                                    /\ job' = [job EXCEPT ![r].session = s]
          BY <4>1 DEF CreateSession
        <5>2. job'[r].session = s
          BY <1>3, <5>1, StepSlot DEF TypeOK, Job
        <5>3. QED
          BY <5>1, <5>2 DEF TypeOK
      <4>2. CASE StoreSession(r) \/ WriteBalancePaid(r)
        <5>1. Paying(r) /\ job' = job /\ job[r].session \in Sessions
          BY <4>2 DEF StoreSession, WriteBalancePaid, Goto, At, Paying, TypeOK
        <5>2. QED
          BY <2>1, <3>2, <5>1 DEF SessionsOwned, Lasts
      <4>3. CASE CreateShipment(r) \/ TrackShipment(r)
        <5>1. Goto(r, "write") /\ job[r].op \in {"request", "poll"}
          BY <3>1, <4>3, SlotSteps DEF CreateShipment, TrackShipment, At
        <5>2. pc'[r] = "write"
          BY <5>1, SlotSteps DEF Steps
        <5>3. QED
          BY <3>2, <5>1, <5>2 DEF Paying
      <4>4. QED
        BY <1>3, <3>1, <4>1, <4>2, <4>3, SlotSteps DEF Step, InsertRequest, WriteDecision, StoreKey,
           DropKey, WritePacked, WriteShipped, WriteDelivered, Fail
    <3>5. QED
      BY <3>2, <3>3, <3>4
  <2>6. \A q \in Slots : pc'[q] # "idle" =>
          /\ Paying(q)' => Of(q)' \in Requests /\ owner'[job'[q].session] = Of(q)'
          /\ job'[q].op # "create" => job'[q].order = row'[Of(q)'].order
    BY <2>1, <2>5, OwnedLasts
  <2>7. \A q \in Slots : Paying(q)' => pc'[q] # "idle"
    BY DEF Paying
  <2>8. QED
    BY <2>2, <2>3, <2>4, <2>6, <2>7 DEF SessionsOwned, Exists
<1>4. CASE Outside
  <2>1. UNCHANGED <<row, owner, pc, job>>
    BY <1>4 DEF Outside
  <2>2. \A s \in offered' : owner'[s] # NoRequest
    BY <1>4 DEF Outside, SessionsOwned, TypeOK, Row, Exists
  <2>3. QED
    BY <2>1, <2>2 DEF SessionsOwned, Exists, Paying, Of
<1>5. QED
  BY <1>1, <1>2, <1>3, <1>4, NextCases

LEMMA RowSerialStep ==
    ASSUME TypeOK, SerialInv, [Next]_vars, NEW i \in Requests
    PROVE  RowSerial(i)'
<1>1. serial' = serial
  BY NothingElseWrites
<1>2. CASE row'[i] = row[i]
  BY <1>1, <1>2 DEF SerialInv, RowSerial, Tracked, Exists
<1>3. CASE row'[i] # row[i] /\ ~Exists(i)
  <2>1. Filed(row'[i])
    BY <1>3, SerialWrites
  <2>2. QED
    BY <2>1 DEF Filed, RowSerial, Shown
<1>4. CASE row'[i] # row[i] /\ Exists(i) /\ row[i].order \in serial
  <2>1. row[i] \in Row /\ Moves(row[i], row'[i])
    BY <1>4, SerialWrites
  <2>2. RowSerial(i) /\ Tracked(i)
    BY <1>4 DEF SerialInv, Tracked
  <2>. DEFINE q == row[i]
              n == row'[i]
  <2>3. /\ q \in Row /\ Moves(q, n)
        /\ q.balance = "PENDING" <=> q.status = "AWAITING_PAYMENT"
        /\ q.status = "PENDING_ADMIN_REVIEW" => q.balance = "NONE" /\ q.session = NoSession
        /\ q.tracked => q.status \in {"SHIPPED", "DELIVERED"}
        /\ q.video => q.status \in {"PACKED", "SHIPPED", "DELIVERED"}
        /\ q.due > 0 /\ q.status \in Shown => q.balance = "PAID"
        /\ q.session # NoSession /\ q.balance # "PAID" => q.status = "AWAITING_PAYMENT"
    BY <2>1, <2>2 DEF RowSerial
  <2>. HIDE DEF q, n
  <2>4. /\ n.balance = "PENDING" <=> n.status = "AWAITING_PAYMENT"
        /\ n.status = "PENDING_ADMIN_REVIEW" => n.balance = "NONE" /\ n.session = NoSession
        /\ n.session # NoSession /\ n.balance # "PAID" => n.status = "AWAITING_PAYMENT"
    BY <2>3 DEF Moves, Row
  <2>5. /\ n.tracked => n.status \in {"SHIPPED", "DELIVERED"}
        /\ n.video => n.status \in {"PACKED", "SHIPPED", "DELIVERED"}
    BY <2>3 DEF Moves, Row
  <2>6. n.due > 0 /\ n.status \in Shown => n.balance = "PAID"
    <3>1. n.due = q.due /\ q.due \in Nat
      BY <2>3 DEF Moves, Row
    <3>2. n.status \in Shown =>
             \/ q.status = "PENDING_ADMIN_REVIEW" /\ q.due = 0
             \/ n.balance = "PAID"
             \/ n.balance = q.balance /\ q.status \in Shown
      BY <2>3 DEF Moves, Row, Shown
    <3>3. QED
      BY <2>3, <3>1, <3>2
  <2>7. QED
    BY <2>4, <2>5, <2>6 DEF RowSerial, n
<1>5. CASE row'[i] # row[i] /\ Exists(i) /\ row[i].order \notin serial
  BY <1>1, <1>5, SerialWrites DEF RowSerial, Tracked
<1>6. QED
  BY <1>2, <1>3, <1>4, <1>5

LEMMA OneActiveStep ==
    ASSUME TypeOK, SerialInv, [Next]_vars
    PROVE  OneActive'
<1>1. ASSUME NEW o \in serial, NEW i \in Requests, NEW j \in Requests,
             Active(i, o)', Active(j, o)', i # j, row'[i] # row[i]
      PROVE  FALSE
  <2>1. row'[j] = row[j] /\ Active(j, o)
    BY <1>1, SerialWrites DEF Active, Exists
  <2>2. CASE ~Exists(i)
    BY <1>1, <2>1, <2>2, SerialWrites DEF Active
  <2>3. CASE Exists(i)
    <3>1. row[i] \in Row /\ row[i].order = o /\ Moves(row[i], row'[i])
      BY <1>1, <2>3, SerialWrites DEF Active
    <3>2. Active(i, o)
      BY <2>3, <3>1 DEF Active, Moves
    <3>3. QED
      BY <1>1, <2>1, <3>2 DEF SerialInv, OneAttempt, OneActive
  <2>4. QED
    BY <2>2, <2>3
<1>2. ASSUME NEW o \in serial, NEW i \in Requests, NEW j \in Requests,
             Active(i, o)', Active(j, o)', row'[i] = row[i], row'[j] = row[j]
      PROVE  i = j
  BY <1>2 DEF Active, Exists, SerialInv, OneAttempt, OneActive
<1>3. QED
  BY <1>1, <1>2, NothingElseWrites DEF OneActive

LEMMA OneSessionStep ==
    ASSUME TypeOK, SerialInv, [Next]_vars
    PROVE  OneSession'
<1> USE ReplacementAssumption
<1>. SUFFICES ASSUME NEW s \in Sessions, owner'[s] # NoRequest, row'[owner'[s]] # NoRow,
                     row'[owner'[s]].order \in serial', s \in offered'
              PROVE  row'[owner'[s]].session = s
  BY DEF OneSession, Tracked, Exists
<1>. DEFINE i == owner'[s]
<1>1. i \in Requests /\ serial' = serial /\ TypeOK'
  BY TypeStep, NothingElseWrites DEF TypeOK
<1>2. ASSUME s \in offered
      PROVE  owner[s] = i /\ Exists(i) /\ (row[i].order \in serial => row[i].session = s)
  <2>1. owner[s] # NoRequest
    BY <1>2 DEF SerialInv, SessionsOwned
  <2>2. owner'[s] = owner[s]
    BY <2>1, NextCases, StepLasts, OutsideLasts, OpensLasts, CreateOpens DEF Lasts
  <2>3. Exists(i)
    BY <2>1, <2>2 DEF SerialInv, SessionsOwned
  <2>4. QED
    BY <1>2, <2>1, <2>2, <2>3 DEF SerialInv, OneAttempt, OneSession, Tracked
<1>3. CASE s \in offered /\ row'[i] = row[i]
  BY <1>1, <1>2, <1>3
<1>4. CASE s \in offered /\ row'[i] # row[i]
  <2>1. Exists(i) /\ row[i] \in Row /\ row[i].order \in serial /\ Moves(row[i], row'[i])
    BY <1>1, <1>2, <1>4, SerialWrites
  <2>2. row[i].session = s
    BY <1>2, <1>4, <2>1
  <2>3. QED
    BY <2>1, <2>2, MovesRow
<1>5. CASE s \notin offered
  <2>1. CASE Outside
    BY <1>5, <2>1 DEF Outside, SerialInv, SessionsOwned, TypeOK
  <2>2. ASSUME NEW r \in Slots, Step(r)
        PROVE  row'[i].session = s
    <3>1. StoreKey(r) /\ s = job[r].session
      BY <1>5, <2>2 DEF Step, InsertRequest, WriteDecision, StoreSession, CreateSession, StoreKey,
         WriteBalancePaid, DropKey, WritePacked, CreateShipment, WriteShipped, TrackShipment,
         WriteDelivered, Fail, OnlyRow, OnlySlot, payments
    <3>2. UNCHANGED <<row, owner>> /\ At(r, "pay", "storeKey") /\ Paying(r) /\ pc[r] # "idle"
      BY <3>1 DEF StoreKey, Paying, At
    <3>3. i = Of(r) /\ row[i].order = job[r].order
      BY <3>1, <3>2 DEF SerialInv, SessionsOwned, At
    <3>4. Current(r)
      BY <1>1, <3>2, <3>3 DEF SerialInv
    <3>5. QED
      BY <3>1, <3>2, <3>3, <3>4 DEF Current
  <2>3. ASSUME NEW r, NEW at, NEW locals, Opens(r, at, locals)
        PROVE  FALSE
    BY <1>5, <2>3 DEF Opens, payments
  <2>4. QED
    BY <2>1, <2>2, <2>3, NextCases, CreateOpens
<1>6. QED
  BY <1>3, <1>4, <1>5

\* Another order's handlers do not disturb what a handler was let in for.
LEMMA CurrentLasts ==
    ASSUME TypeOK, NEW r \in Slots, pc[r] # "idle", Current(r), pc'[r] = pc[r], job'[r] = job[r],
           job[r].op # "create" => row'[Of(r)] = row[Of(r)],
           \A i \in Requests : Exists(i)' /\ row'[i].order = job[r].order => row'[i] = row[i]
    PROVE  Current(r)'
BY DEF Current, At, Of, Exists

LEMMA LetInCurrent ==
    ASSUME TypeOK, SerialInv, NEW r \in Slots, NEW op \in Handlers, NEW i \in Requests,
           NEW s \in Sessions \cup {NoSession}, LetIn(op, i, s), row[i].order \in serial,
           UNCHANGED row, job'[r].op = op, job'[r].req = i, pc'[r] \notin {"storeSession", "storeKey"}
    PROVE  Current(r)'
<1>1. RowSerial(i) /\ Tracked(i) /\ row[i] \in Row
  BY DEF LetIn, SerialInv, Tracked, TypeOK, Exists
<1>2. CASE op = "verify"
  <2>1. s # NoSession /\ row[i].session = s /\ row[i].balance # "PAID"
    BY <1>2, ReplacementAssumption DEF LetIn, TypeOK
  <2>2. QED
    BY <1>1, <1>2, <2>1 DEF Current, At, Of, RowSerial
<1>3. CASE op = "poll"
  BY <1>1, <1>3 DEF Current, At, Of, RowSerial, LetIn
<1>4. CASE op \notin {"verify", "poll"}
  BY <1>1, <1>4 DEF Current, At, Of, LetIn, BalanceOpen, CanPack, CanRequest
<1>5. QED
  BY <1>2, <1>3, <1>4

\* A handler of a serial order goes on with what it was let in for, and with the Razorpay
\* order it has stored.
LEMMA StepCurrent ==
    ASSUME TypeOK, SerialInv, NEW r \in Slots, Step(r), pc'[r] # "idle", job[r].order \in serial
    PROVE  Current(r)'
<1>1. /\ pc[r] # "idle" /\ job[r].op # "create" /\ Of(r)' = Of(r) /\ Current(r)
      /\ job'[r].op = job[r].op /\ Of(r) \in Requests /\ row[Of(r)] \in Row
  BY StepSlot, Working DEF SerialInv, Of
<1>2. CASE CreateSession(r)
  BY <1>1, <1>2 DEF CreateSession, Current, At, TypeOK, Of
<1>3. CASE StoreSession(r)
  <2>1. row'[Of(r)] = [row[Of(r)] EXCEPT !.session = job[r].session] /\ job' = job
        /\ At(r, "pay", "storeSession") /\ pc'[r] = "storeKey"
    BY <1>1, <1>3, SlotSteps DEF StoreSession, Goto, TypeOK, Steps
  <2>2. row[Of(r)].status = "AWAITING_PAYMENT" /\ row'[Of(r)].session = job[r].session
        /\ row'[Of(r)].status = row[Of(r)].status
    BY <1>1, <2>1 DEF Current, At, Row
  <2>3. QED
    BY <1>1, <2>1, <2>2 DEF Current, At, Of
<1>4. CASE WriteBalancePaid(r)
  <2>1. job'[r].op = "verify" /\ pc'[r] = "dropKey"
    BY <1>1, <1>4, SlotSteps DEF WriteBalancePaid, At, Steps
  <2>2. QED
    BY <2>1 DEF Current, At
<1>5. CASE CreateShipment(r) \/ TrackShipment(r)
  <2>1. Goto(r, "write") /\ job[r].op \in {"request", "poll"}
    BY <1>5, SlotSteps DEF CreateShipment, TrackShipment, At
  <2>2. UNCHANGED row /\ pc'[r] = "write"
    BY <1>5, <2>1, SlotSteps DEF CreateShipment, TrackShipment, OnlySlot, Steps
  <2>3. QED
    BY <1>1, <2>1, <2>2 DEF Current, At, Of
<1>6. QED
  BY <1>2, <1>3, <1>4, <1>5, SlotSteps DEF Step, InsertRequest, WriteDecision, StoreKey, DropKey,
     WritePacked, WriteShipped, WriteDelivered, Fail

LEMMA CurrentStep ==
    ASSUME TypeOK, SerialInv, [Next]_vars, NEW r \in Slots, pc'[r] # "idle", job'[r].order \in serial
    PROVE  Current(r)'
<1>1. ASSUME pc[r] # "idle", pc'[r] = pc[r], job'[r] = job[r], UNCHANGED row
      PROVE  Current(r)'
  BY <1>1, CurrentLasts DEF SerialInv
<1>2. ASSUME NEW q \in Slots, NEW o \in Orders, NEW p \in Prices, NEW auto \in BOOLEAN,
             CreateForOrder(q, o, p, auto)
      PROVE  Current(r)'
  <2>. DEFINE locals == [op |-> "create", order |-> o, req |-> NoRequest,
                         session |-> NoSession, due |-> BalanceDue(p), yes |-> auto]
  <2>1. locals \in Job /\ locals.op = "create" /\ locals.order = o /\ Opens(q, "insert", locals)
        /\ "insert" \in Steps
    BY <1>2, CreateJob, CreateOpens DEF Steps
  <2>. HIDE DEF locals
  <2>2. /\ job'[q] = locals /\ pc'[q] = "insert" /\ UNCHANGED row
        /\ \A k \in Slots \ {q} : pc'[k] = pc[k] /\ job'[k] = job[k]
    BY <2>1, BeginStep DEF Opens
  <2>3. CASE r # q
    BY <1>1, <2>2, <2>3
  <2>4. CASE r = q
    BY <1>2, <2>1, <2>2, <2>4 DEF CreateForOrder, MayCreate, Current, At, Exists
  <2>5. QED
    BY <2>3, <2>4
<1>3. ASSUME NEW q \in Slots, NEW op \in Handlers, NEW at \in Steps, NEW i \in Requests,
             NEW s \in Sessions \cup {NoSession}, LetIn(op, i, s),
             Opens(q, at, [op |-> op, order |-> row[i].order, req |-> i, session |-> s,
                           due |-> 0, yes |-> FALSE]),
             at \notin {"storeSession", "storeKey"}
      PROVE  Current(r)'
  <2>. DEFINE locals == [op |-> op, order |-> row[i].order, req |-> i, session |-> s,
                         due |-> 0, yes |-> FALSE]
  <2>1. locals \in Job /\ locals.op = op /\ locals.req = i /\ locals.order = row[i].order
    BY <1>3, LetInJob DEF LetIn
  <2>2. Opens(q, at, locals)
    BY <1>3
  <2>. HIDE DEF locals
  <2>3. /\ job'[q] = locals /\ pc'[q] = at /\ UNCHANGED row
        /\ \A k \in Slots \ {q} : pc'[k] = pc[k] /\ job'[k] = job[k]
    BY <2>1, <2>2, BeginStep DEF Opens
  <2>4. CASE r # q
    BY <1>1, <2>3, <2>4
  <2>5. CASE r = q
    BY <1>3, <2>1, <2>3, <2>5, LetInCurrent
  <2>6. QED
    BY <2>4, <2>5
<1>4. ASSUME NEW q \in Slots, Step(q)
      PROVE  Current(r)'
  <2>1. CASE r = q
    <3>1. job'[q].order = job[q].order
      BY <1>4, <2>1, StepSlot
    <3>2. QED
      BY <1>4, <2>1, <3>1, StepCurrent
  <2>2. CASE r # q
    <3>1. pc'[r] = pc[r] /\ job'[r] = job[r] /\ pc[q] # "idle"
      BY <1>4, <2>2, StepSlot
    <3>2. job[q].order # job[r].order
      BY <2>2, <3>1 DEF SerialInv, Alone
    <3>3. \A i \in Requests : Exists(i)' /\ row'[i].order = job[r].order => row'[i] = row[i]
      BY <1>4, <3>2, StepWrites DEF SerialInv
    <3>4. job[r].op # "create" => row'[Of(r)] = row[Of(r)]
      BY <1>4, <3>1, <3>2, StepWrites DEF SerialInv, SessionsOwned, TypeOK
    <3>5. QED
      BY <3>1, <3>3, <3>4, CurrentLasts DEF SerialInv
  <2>3. QED
    BY <2>1, <2>2
<1>5. CASE Outside
  BY <1>1, <1>5 DEF Outside
<1>6. QED
  BY <1>2, <1>3, <1>4, <1>5, NextCases

LEMMA SerialStep ==
    ASSUME TypeOK, SerialInv, [Next]_vars
    PROVE  SerialInv'
<1>1. serial' = serial
  BY NothingElseWrites
<1>2. Alone' /\ SessionsOwned'
  BY AloneStep, OwnedStep DEF SerialInv
<1>3. OneAttempt'
  BY OneActiveStep, OneSessionStep DEF OneAttempt
<1>4. \A i \in Requests : RowSerial(i)'
  BY RowSerialStep
<1>5. \A r \in Slots : pc'[r] # "idle" /\ job'[r].order \in serial' => Current(r)'
  BY <1>1, CurrentStep
<1>6. QED
  BY <1>2, <1>3, <1>4, <1>5 DEF SerialInv

LEMMA SerialHolds == Spec => []SerialInv
<1>1. Init => SerialInv
  BY DEF Init, SerialInv, Alone, SessionsOwned, OneAttempt, OneActive, OneSession, Active, Tracked,
     RowSerial, Exists, Paying
<1>2. TypeOK /\ SerialInv /\ [Next]_vars => SerialInv'
  BY SerialStep
<1>3. QED
  BY <1>1, <1>2, ReplacementsTyped, PTL DEF Spec

\* When the handlers of an order do not overlap, it has one request that is not rejected,
\* and its buyer is offered one Razorpay order for the balance: the one on the row.
THEOREM ReplacementsOneAttempt == Spec => []OneAttempt
<1>1. SerialInv => OneAttempt
  BY DEF SerialInv
<1>2. QED
  BY <1>1, SerialHolds, PTL

\* The row of a serial order moves along the pipeline.
LEMMA PipelineWrite ==
    ASSUME TypeOK, SerialInv, [Next]_vars, NEW i \in Requests, row'[i] # row[i]
    PROVE  [Pipeline!Next]_<<stageBar, owesBar>>
<1>1. serial' = serial
  BY NothingElseWrites
<1>2. /\ row'[i] \in Row /\ Exists(i)' /\ \A j \in Requests \ {i} : row'[j] = row[j]
      /\ Exists(i) => row[i] \in Row /\ row'[i].order = row[i].order
  BY SerialWrites
<1>3. \A j \in Requests \ {i} : stageBar'[j] = stageBar[j] /\ (j \in owesBar' <=> j \in owesBar)
  BY <1>1, <1>2 DEF stageBar, owesBar, Tracked, Exists
<1>4. stageBar' = [stageBar EXCEPT ![i] = stageBar'[i]]
  BY <1>3 DEF stageBar
<1>5. /\ i \in owesBar' => owesBar' = owesBar \cup {i}
      /\ i \notin owesBar' => owesBar' = owesBar \ {i}
  BY <1>3 DEF owesBar
<1>. DEFINE Stays == stageBar'[i] = stageBar[i] /\ (i \in owesBar' <=> i \in owesBar)
<1>6. Stays => UNCHANGED <<stageBar, owesBar>>
  <2>1. stageBar = [j \in Requests |-> stageBar[j]]
    BY DEF stageBar
  <2>2. stageBar'[i] = stageBar[i] => stageBar' = stageBar
    BY <1>4, <2>1
  <2>3. (i \in owesBar' <=> i \in owesBar) => owesBar' = owesBar
    BY <1>5
  <2>4. QED
    BY <2>2, <2>3
<1>7. CASE row'[i].order \notin serial
  <2>1. ~Tracked(i) /\ ~Tracked(i)'
    BY <1>1, <1>2, <1>7 DEF Tracked
  <2>2. stageBar'[i] = stageBar[i] /\ i \notin owesBar /\ i \notin owesBar'
    BY <2>1 DEF stageBar, owesBar
  <2>3. UNCHANGED <<stageBar, owesBar>>
    BY <1>6, <2>2
  <2>4. QED
    BY <2>3
<1>8. CASE row'[i].order \in serial /\ ~Exists(i)
  <2>1. ~Tracked(i) /\ Tracked(i)' /\ Filed(row'[i])
    BY <1>1, <1>2, <1>8, SerialWrites DEF Tracked
  <2>2. stageBar[i] = "NONE" /\ i \notin owesBar
    BY <2>1 DEF stageBar, owesBar
  <2>3. /\ stageBar'[i] \in {"REVIEW", "PAYING", "APPROVED"}
        /\ stageBar'[i] = "PAYING" <=> i \in owesBar'
    BY <2>1 DEF stageBar, owesBar, Filed
  <2>4. owesBar' = IF stageBar'[i] = "PAYING" THEN owesBar \cup {i} ELSE owesBar
    BY <1>5, <2>2, <2>3
  <2>5. Pipeline!File(i)
    BY <1>4, <2>2, <2>3, <2>4 DEF Pipeline!File, Pipeline!Open
  <2>6. QED
    BY <2>5 DEF Pipeline!Next
<1>9. CASE row'[i].order \in serial /\ Exists(i)
  <2>. DEFINE q == row[i]
              n == row'[i]
  <2>1. q \in Row /\ Moves(q, n) /\ Tracked(i) /\ Tracked(i)' /\ RowSerial(i)
    BY <1>1, <1>2, <1>9, SerialWrites DEF Tracked, SerialInv
  <2>2. i \in owesBar <=> q.status = "AWAITING_PAYMENT"
    BY <2>1 DEF owesBar, RowSerial
  <2>3. i \in owesBar' <=> n.balance = "PENDING"
    BY <2>1 DEF owesBar
  <2>4. stageBar[i] = IF q.status = "PENDING_ADMIN_REVIEW" THEN "REVIEW"
                      ELSE IF q.status = "AWAITING_PAYMENT" THEN "PAYING" ELSE q.status
    BY <2>1 DEF stageBar
  <2>5. stageBar'[i] = IF n.status = "PENDING_ADMIN_REVIEW" THEN "REVIEW"
                       ELSE IF n.status = "AWAITING_PAYMENT" THEN "PAYING" ELSE n.status
    BY <2>1 DEF stageBar
  <2>. HIDE DEF q, n
  <2>6. q.balance = "PENDING" <=> q.status = "AWAITING_PAYMENT"
    BY <2>1 DEF RowSerial, q
  <2>7. CASE q.status = "PENDING_ADMIN_REVIEW"
    <3>1. /\ n.status \in {"REJECTED", "AWAITING_PAYMENT", "APPROVED"}
          /\ n.balance = "PENDING" <=> n.status = "AWAITING_PAYMENT"
      BY <2>1, <2>6, <2>7 DEF Moves, Row
    <3>2. stageBar[i] = "REVIEW" /\ stageBar'[i] \in {"PAYING", "APPROVED", "REJECTED"}
          /\ (stageBar'[i] = "PAYING" <=> i \in owesBar') /\ i \notin owesBar
      BY <2>2, <2>3, <2>4, <2>5, <2>7, <3>1
    <3>3. owesBar' = IF stageBar'[i] = "PAYING" THEN owesBar \cup {i} ELSE owesBar
      BY <1>5, <3>2
    <3>4. Pipeline!Decide(i)
      BY <1>4, <3>2, <3>3 DEF Pipeline!Decide
    <3>5. QED
      BY <3>4 DEF Pipeline!Next
  <2>8. CASE q.status = "AWAITING_PAYMENT" /\ n.status = "AWAITING_PAYMENT"
    <3>1. n.balance = "PENDING"
      BY <2>1, <2>6, <2>8 DEF Moves, Row
    <3>2. UNCHANGED <<stageBar, owesBar>>
      BY <1>6, <2>2, <2>3, <2>4, <2>5, <2>8, <3>1
    <3>3. QED
      BY <3>2
  <2>9. CASE q.status = "AWAITING_PAYMENT" /\ n.status # "AWAITING_PAYMENT"
    <3>1. n.status = "APPROVED" /\ n.balance = "PAID"
      BY <2>1, <2>9 DEF Moves, Row
    <3>2. stageBar[i] = "PAYING" /\ stageBar'[i] = "APPROVED" /\ i \in owesBar /\ i \notin owesBar'
      BY <2>2, <2>3, <2>4, <2>5, <2>9, <3>1
    <3>3. Pipeline!Pay(i)
      BY <1>4, <1>5, <3>2 DEF Pipeline!Pay
    <3>4. QED
      BY <3>3 DEF Pipeline!Next
  <2>10. CASE q.status \in {"APPROVED", "PACKED", "SHIPPED"}
    <3>1. /\ n.balance = q.balance
          /\ n.status = IF q.status = "APPROVED" THEN "PACKED"
                        ELSE IF q.status = "PACKED" THEN "SHIPPED" ELSE "DELIVERED"
      BY <2>1, <2>10 DEF Moves, Row
    <3>2. stageBar[i] = q.status /\ stageBar'[i] = n.status /\ i \notin owesBar /\ i \notin owesBar'
      BY <2>2, <2>3, <2>4, <2>5, <2>6, <2>10, <3>1
    <3>3. owesBar' = owesBar
      BY <1>5, <3>2
    <3>4. Pipeline!Ship(i)
      BY <1>4, <2>10, <3>1, <3>2, <3>3 DEF Pipeline!Ship, Pipeline!Shipping
    <3>5. QED
      BY <3>4 DEF Pipeline!Next
  <2>11. CASE q.status = "DELIVERED"
    <3>1. n = q
      BY <2>1, <2>11 DEF Moves, Row
    <3>2. QED
      BY <3>1 DEF q, n
  <2>12. QED
    BY <2>1, <2>7, <2>8, <2>9, <2>10, <2>11 DEF Moves
<1>10. QED
  BY <1>7, <1>8, <1>9

\* Serial orders' requests follow the documented pipeline: the service implements
\* ReplacementLifecycle, with no step that skips a stage, goes back or is taken unpaid.
THEOREM ReplacementsFollowPipeline == Spec => FollowsPipeline
<1>1. Init => Pipeline!Init
  BY DEF Init, Pipeline!Init, stageBar, owesBar, Tracked, Exists
<1>2. TypeOK /\ SerialInv /\ [Next]_vars => [Pipeline!Next]_<<stageBar, owesBar>>
  <2>. SUFFICES ASSUME TypeOK, SerialInv, [Next]_vars
                PROVE  [Pipeline!Next]_<<stageBar, owesBar>>
    OBVIOUS
  <2>1. CASE UNCHANGED row
    BY <2>1, NothingElseWrites DEF stageBar, owesBar, Tracked, Exists
  <2>2. CASE ~UNCHANGED row
    <3>1. TypeOK'
      BY TypeStep
    <3>2. PICK i \in Requests : row'[i] # row[i]
      BY <2>2, <3>1 DEF TypeOK
    <3>3. QED
      BY <3>2, PipelineWrite
  <2>3. QED
    BY <2>1, <2>2
<1>3. QED
  BY <1>1, <1>2, ReplacementsTyped, SerialHolds, PTL DEF Spec, FollowsPipeline, Pipeline!Spec

-----------------------------------------------------------------------------
(***************************************************************************)
(* What the apps show.                                                     *)
(***************************************************************************)
LEMMA SerialRows ==
    ASSUME TypeOK, SerialInv, ShippedWithProof, NEW i \in Requests, Tracked(i)
    PROVE  LET q == row[i] IN
           /\ q \in Row
           /\ q.balance = "PENDING" <=> q.status = "AWAITING_PAYMENT"
           /\ q.video <=> q.status \in {"PACKED", "SHIPPED", "DELIVERED"}
           /\ q.tracked <=> q.status \in {"SHIPPED", "DELIVERED"}
           /\ q.due > 0 /\ q.status \in Shown => q.balance = "PAID"
<1>1. RowSerial(i) /\ Exists(i)
  BY DEF SerialInv, Tracked
<1>2. QED
  BY <1>1 DEF RowSerial, ShippedWithProof, TypeOK, Exists

\* The steps of a timeline are done from the first on, once the request is decided.
LEMMA StepsRun ==
    ASSUME NEW q \in Row, q.status \notin {"PENDING_ADMIN_REVIEW", "REJECTED"},
           q.balance = "PENDING" => q.status = "AWAITING_PAYMENT",
           q.video <=> q.status \in {"PACKED", "SHIPPED", "DELIVERED"},
           q.tracked <=> q.status \in {"SHIPPED", "DELIVERED"},
           q.status = "AWAITING_PAYMENT" => q.balance = "PENDING",
           NEW j \in DOMAIN Timeline(q), NEW k \in DOMAIN Timeline(q), j < k, Timeline(q)[k] = "done"
    PROVE  Timeline(q)[j] = "done"
<1>. DEFINE steps == TimelineSteps(q)
            done == TimelineDone(q)
<1>1. /\ DOMAIN Timeline(q) = DOMAIN steps
      /\ \A n \in DOMAIN steps : Timeline(q)[n] = "done" <=> done[steps[n]]
  BY DEF Timeline
<1>2. /\ done["submitted"] /\ done["review"]
      /\ done["approved"] => done["payment"]
      /\ done["packed"] => done["approved"]
      /\ done["shipped"] => done["packed"]
      /\ done["delivered"] => done["shipped"]
  BY DEF TimelineDone, Shown
<1>. HIDE DEF done
<1>3. j \in DOMAIN steps /\ k \in DOMAIN steps /\ done[steps[k]]
  BY <1>1
<1>4. CASE q.due > 0
  <2>1. steps = <<"submitted", "review", "payment", "approved", "packed", "shipped", "delivered">>
    BY <1>4 DEF TimelineSteps
  <2>2. done[steps[j]]
    BY <1>2, <1>3, <2>1
  <2>3. QED
    BY <1>1, <1>3, <2>2
<1>5. CASE ~(q.due > 0)
  <2>1. steps = <<"submitted", "review", "approved", "packed", "shipped", "delivered">>
    BY <1>5 DEF TimelineSteps
  <2>2. done[steps[j]]
    BY <1>2, <1>3, <2>1
  <2>3. QED
    BY <1>1, <1>3, <2>2
<1>6. QED
  BY <1>4, <1>5

\* The apps offer what the endpoints accept: the pages of a request whose handlers do not
\* overlap show its steps in order and the seller's next action, and the list of orders
\* that can be replaced names those a request is accepted for.
THEOREM ReplacementViewsAgree == Spec => []ViewsAgree
<1>1. EligibleAgrees
  BY DEF EligibleAgrees, Eligible, MayCreate, CanRequestReplacement, HasOpen, HasFulfilled
<1>2. TypeOK /\ SerialInv /\ ShippedWithProof => TimelineAgrees
  <2>. SUFFICES ASSUME TypeOK, SerialInv, ShippedWithProof, NEW i \in Requests, Tracked(i),
                       NEW q, q = row[i]
                PROVE  /\ q.status # "PENDING_ADMIN_REVIEW" =>
                            \A j, k \in DOMAIN Timeline(q) :
                               j < k /\ Timeline(q)[k] = "done" => Timeline(q)[j] = "done"
                       /\ q.status \in {"APPROVED", "PACKED", "SHIPPED"} =>
                            SellerNextAction(q) # "NONE"
                       /\ SellerNextAction(q) = "PACK_VIDEO" => CanPack(q)
                       /\ SellerNextAction(q) = "REQUEST_DELIVERY" => CanRequest(q)
    BY DEF TimelineAgrees
  <2>1. /\ q \in Row
        /\ q.balance = "PENDING" <=> q.status = "AWAITING_PAYMENT"
        /\ q.video <=> q.status \in {"PACKED", "SHIPPED", "DELIVERED"}
        /\ q.tracked <=> q.status \in {"SHIPPED", "DELIVERED"}
        /\ q.due > 0 /\ q.status \in Shown => q.balance = "PAID"
    BY SerialRows
  <2>2. ASSUME q.status # "PENDING_ADMIN_REVIEW", NEW j \in DOMAIN Timeline(q),
               NEW k \in DOMAIN Timeline(q), j < k, Timeline(q)[k] = "done"
        PROVE  Timeline(q)[j] = "done"
    <3>1. CASE q.status = "REJECTED"
      BY <2>2, <3>1 DEF Timeline
    <3>2. CASE q.status # "REJECTED"
      BY <2>1, <2>2, <3>2, StepsRun
    <3>3. QED
      BY <3>1, <3>2
  <2>3. q.status \in {"APPROVED", "PACKED", "SHIPPED"} => SellerNextAction(q) # "NONE"
    BY <2>1 DEF SellerNextAction
  <2>4. /\ SellerNextAction(q) = "PACK_VIDEO" => CanPack(q)
        /\ SellerNextAction(q) = "REQUEST_DELIVERY" => CanRequest(q)
    BY <2>1 DEF SellerNextAction, CanPack, CanRequest, CanFulfill, Shown
  <2>5. QED
    BY <2>2, <2>3, <2>4
<1>3. QED
  BY <1>1, <1>2, ReplacementsTyped, SerialHolds, ReplacementsShipWithProof, PTL DEF ViewsAgree
=============================================================================
