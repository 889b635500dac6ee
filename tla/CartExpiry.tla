----------------------------- MODULE CartExpiry -----------------------------
(***************************************************************************)
(* The carts of OrdersService: one Redis key per buyer, rewritten whole by *)
(* every request that touches it, with an expiry that follows the end of   *)
(* the stream the cart belongs to, or the time it is planned for while it  *)
(* has no end.  A cart is dropped by the first of three mechanisms that    *)
(* notices its window is over: enforceCartExpiry in the next request, the  *)
(* hourly sweep, or the TTL of the key.                                    *)
(*                                                                         *)
(* A request is the sequence of its awaits; between two of them any other  *)
(* request, the sweep, a change of the stream or the clock may step.  Time *)
(* is a clock of coarse ticks.  Quantities, sizes and titles are left out: *)
(* they travel with the items.                                             *)
(***************************************************************************)
EXTENDS Naturals, FiniteSets

CONSTANTS
    Buyers, Streams, Products,
    Requests,       \* API calls that can be open at one time
    Sweeper,        \* the cron job of CartExpirySweepService
    NoStream,       \* a cart without streamId
    Window,         \* POST_LIVE_CART_HOURS
    MaxTime,        \* bound on the clock
    Dates           \* bound on the times a stream is planned for or moved to

Workers == Requests \cup {Sweeper}

ASSUME CartAssumption ==
    /\ Sweeper \notin Requests
    /\ NoStream \notin Streams
    /\ Window \in Nat \ {0}
    /\ MaxTime \in Nat \ {0}
    /\ Dates \subseteq Nat

VARIABLES
    now,
    stream,         \* the Stream rows
    grounds,        \* what stood for the end of each stream while it was off (history)
    since,          \* when the row of a stream that is off was written (history)
    cart,           \* the value of orders:cart:{buyer}
    ttl,            \* when Redis drops that key, 0: never
    holders,        \* orders:stream-carts:{stream}
    pc, job         \* where each open request is, and its locals

db == <<stream, grounds, since>>
redis == <<cart, ttl, holders>>
vars == <<now, stream, grounds, since, cart, ttl, holders, pc, job>>

\* isLive, or deleted; whether endedAt is set; and what enforceCartExpiry takes for
\* the end of a stream that is off: endedAt, without one startedAt, which is never
\* null (a session gets its own end after the row does).
Row == [phase : {"live", "off", "gone"}, ended : BOOLEAN, end : Nat]
Deleted == [phase |-> "gone", ended |-> FALSE, end |-> 0]
Cart == [items : SUBSET Products, stream : Streams \cup {NoStream}, expires : Nat]
NoCart == [items |-> {}, stream |-> NoStream, expires |-> 0]

\* The array format of old clients: cartUpdatedAt is the epoch.
Legacy == [items |-> Products, stream |-> NoStream, expires |-> 0]

Ops == {"get", "add", "update", "remove", "checkout", "stop", "sweep"}
Steps == {"load", "readStream", "save", "index", "clear", "unindex", "enforced",
          "reply", "place", "members", "next"}

\* enforce is what loadCartForUser does; recheck and final are the two getCart
\* calls of a checkout; persist and again are persistCartState.
Stages == {"enforce", "recheck", "final", "persist", "again", "done"}
Free == [op |-> "none"]

\* A stream that goes live at once, and one that scheduleStream plans for time t.
Created(t) == [phase |-> "live", ended |-> FALSE, end |-> t]
Scheduled(t) == [phase |-> "off", ended |-> FALSE, end |-> t]

Init ==
    /\ now = 1
    /\ stream \in [Streams -> {Created(1)} \cup {Scheduled(t) : t \in Dates \ {0}}]
    /\ grounds = [s \in Streams |-> IF stream[s].phase = "off" THEN {stream[s].end} ELSE {}]
    /\ since = [s \in Streams |-> IF stream[s].phase = "off" THEN 1 ELSE 0]
    /\ cart \in [Buyers -> {NoCart, Legacy}]
    /\ ttl = [b \in Buyers |-> 0]
    /\ holders = [s \in Streams |-> {}]
    /\ pc = [w \in Workers |-> "idle"]
    /\ job = [w \in Workers |-> Free]

\* The sweep has no use of the time it began.
Begin(w, op, b, s, p, at) ==
    /\ pc[w] = "idle"
    /\ pc' = [pc EXCEPT ![w] = at]
    /\ job' = [job EXCEPT ![w] =
          [op |-> op, buyer |-> b, stream |-> s, item |-> p,
           began |-> IF w = Sweeper THEN 0 ELSE now,
           judged |-> 0, stage |-> "enforce", cart |-> NoCart, ttl |-> 0, todo |-> {}]]

Goto(w, at) == pc' = [pc EXCEPT ![w] = at] /\ UNCHANGED job

Close(w) ==
    /\ pc' = [pc EXCEPT ![w] = "idle"]
    /\ job' = [job EXCEPT ![w] = Free]

\* Goes on at step at with new locals.
With(w, at, locals) ==
    /\ pc' = [pc EXCEPT ![w] = at]
    /\ job' = [job EXCEPT ![w] = locals]

Local == UNCHANGED now /\ UNCHANGED db /\ UNCHANGED redis

(***************************************************************************)
(* The requests.                                                           *)
(***************************************************************************)
GetCart(w, b) ==
    \E p \in Products : Begin(w, "get", b, NoStream, p, "load") /\ Local

AddCartItem(w, b, s, p) == Begin(w, "add", b, s, p, "load") /\ Local

UpdateCartItem(w, b, p) == Begin(w, "update", b, NoStream, p, "load") /\ Local

RemoveCartItem(w, b, p) == Begin(w, "remove", b, NoStream, p, "load") /\ Local

CheckoutFromCart(w, b) ==
    \E p \in Products : Begin(w, "checkout", b, NoStream, p, "load") /\ Local

\* Mutation: the sweep only looks at carts that have an expiry on them.
SweepCart_Stamped(b) ==
    /\ cart[b].items # {} /\ cart[b].expires # 0
    /\ \E p \in Products : Begin(Sweeper, "sweep", b, NoStream, p, "load")
    /\ Local

\* The hourly scan visits a key it finds.
SweepCart(b) ==
    /\ cart[b].items # {}
    /\ \E p \in Products : Begin(Sweeper, "sweep", b, NoStream, p, "load")
    /\ Local

\* The row of stream s is written; the histories follow it.
Put(s, new) ==
    /\ stream' = [stream EXCEPT ![s] = new]
    /\ grounds' = [grounds EXCEPT ![s] =
          IF new.phase = "off" THEN @ \cup {new.end} ELSE @]
    /\ since' = [since EXCEPT ![s] = IF new.phase = "off" THEN now ELSE 0]

\* stopStream, a PATCH with isLive false and sweepZombieLiveStreams write the
\* row and call onStreamEnded.  stopStream does so for a stream that is off too.
StopStream(w, s) ==
    /\ stream[s].phase # "gone"
    /\ Put(s, [stream[s] EXCEPT !.phase = "off", !.ended = TRUE, !.end = now])
    /\ \E b \in Buyers, p \in Products : Begin(w, "stop", b, s, p, "members")
    /\ UNCHANGED now /\ UNCHANGED redis

\* A change of the row alone: no cart is told.
RowOnly(s, new) ==
    /\ Put(s, new)
    /\ UNCHANGED <<now, pc, job>> /\ UNCHANGED redis

\* startScheduledStream: from 15 minutes before to 4 hours after its time, in
\* ticks of many hours.
StartScheduled(s) ==
    /\ stream[s].phase = "off" /\ ~stream[s].ended
    /\ stream[s].end <= now + 1 /\ now <= stream[s].end + 1
    /\ RowOnly(s, Created(now))

\* A PATCH with isLive true; endedAt and startedAt are left as they are.
PatchLive(s) ==
    /\ stream[s].phase = "off"
    /\ RowOnly(s, [stream[s] EXCEPT !.phase = "live"])

\* A PATCH with isLive false that read the stream before it went live: it writes
\* no end.
PatchOff(s) ==
    /\ stream[s].phase = "live"
    /\ RowOnly(s, [stream[s] EXCEPT !.phase = "off"])

\* A PATCH with scheduledAt, any time, the past too.  It is of no account once there is an end.
Reschedule(s, t) ==
    /\ stream[s].phase # "gone" /\ ~stream[s].ended /\ stream[s].end # t
    /\ RowOnly(s, [stream[s] EXCEPT !.end = t])

DeleteStream(s) ==
    /\ stream[s].phase # "gone"
    /\ RowOnly(s, Deleted)

StreamMoves(s) ==
    \/ StartScheduled(s) \/ PatchLive(s) \/ PatchOff(s) \/ DeleteStream(s)
    \/ \E t \in Dates : Reschedule(s, t)

(***************************************************************************)
(* enforceCartExpiry.                                                      *)
(***************************************************************************)
Passed(c) == c.expires # 0 /\ c.expires <= now

\* What is decided about a cart before the stream is looked up.
Judge(c) ==
    IF c.items = {} THEN "enforced"
    ELSE IF Passed(c) \/ c.stream = NoStream THEN "clear" ELSE "readStream"

LoadCart(w) ==
    /\ pc[w] = "load"
    /\ LET c == cart[job[w].buyer]
       IN  With(w, Judge(c), [job[w] EXCEPT !.cart = c, !.judged = now])
    /\ Local

\* Mutation: the hours are added to a time that already has them.
WindowEnd_Twice(row) == row.end + 2 * Window

\* Mutation: every access starts the window afresh.
WindowEnd_Sliding(row) == now + Window

\* computeExpiryFromEnd of the effective end.
WindowEnd(row) == row.end + Window

\* Mutation: a TTL that is over is not looked for.
ReadStream_NoCheck(w) ==
    /\ pc[w] = "readStream"
    /\ LET row == stream[job[w].cart.stream]
           end == WindowEnd(row)
       IN  \/ row.phase = "gone" /\ Goto(w, "clear")
           \/ row.phase = "live" /\ With(w, "save", [job[w] EXCEPT !.ttl = 0, !.judged = 0])
           \/ /\ row.phase = "off"
              /\ With(w, "save", [job[w] EXCEPT !.cart.expires = end, !.judged = 0,
                                                !.ttl = end - job[w].judged])
    /\ Local

\* The clock was read before the stream was.
ReadStream(w) ==
    /\ pc[w] = "readStream"
    /\ LET row == stream[job[w].cart.stream]
           end == WindowEnd(row)
           at == job[w].judged
       IN  \/ row.phase = "gone" /\ Goto(w, "clear")
           \/ row.phase = "live" /\ With(w, "save", [job[w] EXCEPT !.ttl = 0, !.judged = 0])
           \/ row.phase = "off" /\ end <= at /\ Goto(w, "clear")
           \/ /\ row.phase = "off" /\ end > at
              /\ With(w, "save", [job[w] EXCEPT !.cart.expires = end, !.ttl = end - at, !.judged = 0])
    /\ Local

\* SET or SETEX, whose TTL was computed when the stream was read; onStreamEnded
\* uses the one it computed for every holder.
SaveCartState(w) ==
    /\ pc[w] = "save"
    /\ cart' = [cart EXCEPT ![job[w].buyer] = job[w].cart]
    /\ ttl' = [ttl EXCEPT ![job[w].buyer] = IF job[w].ttl = 0 THEN 0 ELSE now + job[w].ttl]
    /\ With(w, "index", [job[w] EXCEPT !.ttl = IF job[w].op = "stop" THEN @ ELSE 0])
    /\ UNCHANGED <<now, holders>> /\ UNCHANGED db

\* Every path that changed the cart of a buyer answers with getCart.
AnswerWithGet(w) ==
    With(w, "load", [job[w] EXCEPT !.stage = "enforce", !.cart = NoCart, !.ttl = 0])

IndexCart(w) ==
    /\ pc[w] = "index"
    /\ holders' = [holders EXCEPT ![job[w].cart.stream] = @ \cup {job[w].buyer}]
    /\ \/ job[w].op = "stop" /\ Goto(w, "next")
       \/ job[w].op # "stop" /\ job[w].stage = "again" /\ AnswerWithGet(w)
       \/ job[w].op # "stop" /\ job[w].stage # "again" /\ Goto(w, "enforced")
    /\ UNCHANGED <<now, cart, ttl>> /\ UNCHANGED db

ClearCart(w) ==
    /\ pc[w] = "clear"
    /\ cart' = [cart EXCEPT ![job[w].buyer] = NoCart]
    /\ ttl' = [ttl EXCEPT ![job[w].buyer] = 0]
    /\ Goto(w, "unindex")
    /\ UNCHANGED <<now, holders>> /\ UNCHANGED db

UnindexCart(w) ==
    /\ pc[w] = "unindex"
    /\ holders' = [s \in Streams |->
          IF s = job[w].cart.stream THEN holders[s] \ {job[w].buyer} ELSE holders[s]]
    /\ \/ job[w].op = "stop" /\ Goto(w, "next")
       \/ job[w].stage = "done" /\ Close(w)
       \/ /\ job[w].op # "stop" /\ job[w].stage # "done"
          /\ With(w, "enforced", [job[w] EXCEPT !.cart = NoCart])
    /\ UNCHANGED <<now, cart, ttl>> /\ UNCHANGED db

(***************************************************************************)
(* What each request does with the cart enforceCartExpiry gave it.         *)
(***************************************************************************)
\* persistCartState of a changed cart: enforced once more before it is saved.
Persist(w, c) ==
    With(w, Judge(c), [job[w] EXCEPT !.op = "get", !.stage = "persist", !.cart = c,
                                     !.stream = NoStream, !.judged = now])

Enforced(w, op) == pc[w] = "enforced" /\ job[w].op = op /\ job[w].stage = "enforce"

ResumeGet(w) == Enforced(w, "get") /\ Goto(w, "reply") /\ Local

ResumeSweep(w) == Enforced(w, "sweep") /\ Close(w) /\ Local

\* validateCartForCheckout loads the cart and calls getCart, and so does the
\* checkout after it.
NextLook(w, stage) ==
    With(w, "load", [job[w] EXCEPT !.stage = stage, !.cart = NoCart, !.ttl = 0])

ResumeCheckout(w) ==
    /\ pc[w] = "enforced" /\ job[w].op = "checkout"
    /\ \/ job[w].cart.items = {} /\ Close(w)
       \/ job[w].cart.items # {} /\ job[w].stage = "enforce" /\ NextLook(w, "recheck")
       \/ job[w].cart.items # {} /\ job[w].stage # "enforce" /\ Goto(w, "reply")
    /\ Local

\* The new state has no cartExpiresAt: persisting it works the expiry out anew.
ResumeAdd(w) ==
    /\ Enforced(w, "add")
    /\ LET c == job[w].cart
           s == job[w].stream
           refused == \/ c.items = {} /\ s = NoStream
                      \/ c.stream # NoStream /\ s # NoStream /\ s # c.stream
       IN  IF refused THEN Close(w)
           ELSE Persist(w, [items |-> c.items \cup {job[w].item},
                            stream |-> IF c.stream # NoStream THEN c.stream ELSE s,
                            expires |-> 0])
    /\ Local

ResumeUpdate(w) ==
    /\ Enforced(w, "update")
    /\ IF job[w].item \in job[w].cart.items THEN Persist(w, job[w].cart) ELSE Close(w)
    /\ Local

\* An empty cart is deleted without its streamId: the index keeps the buyer.
ResumeRemove(w) ==
    /\ Enforced(w, "remove")
    /\ LET rest == job[w].cart.items \ {job[w].item}
       IN  IF rest = {}
           THEN With(w, "clear", [job[w] EXCEPT !.op = "get", !.stage = "persist",
                                                !.cart = NoCart])
           ELSE Persist(w, [job[w].cart EXCEPT !.items = rest])
    /\ Local

\* The enforced cart is saved again, with the TTL of the expiry it carries.
Persisted(w) ==
    /\ pc[w] = "enforced" /\ job[w].stage = "persist"
    /\ LET c == job[w].cart
           left == IF c.expires > now THEN c.expires - now ELSE 1
       IN  IF c.items = {} THEN AnswerWithGet(w)
           ELSE With(w, "save", [job[w] EXCEPT !.stage = "again",
                                               !.ttl = IF c.expires = 0 THEN 0 ELSE left])
    /\ Local

\* getCart looks at the clock once more before it answers.
Reply(w) ==
    /\ pc[w] = "reply"
    /\ LET passed == job[w].cart.items # {} /\ Passed(job[w].cart)
       IN  \/ passed /\ Goto(w, "clear")
           \/ ~passed /\ job[w].op = "get" /\ Close(w)
           \/ ~passed /\ job[w].stage = "recheck" /\ NextLook(w, "final")
           \/ ~passed /\ job[w].stage = "final" /\ Goto(w, "place")
    /\ Local

\* The order is placed (module Checkout), and the cart is cleared after it.
PlaceOrder(w) ==
    /\ pc[w] = "place"
    /\ With(w, "clear", [job[w] EXCEPT !.stage = "done"])
    /\ Local

(***************************************************************************)
(* onStreamEnded.                                                          *)
(***************************************************************************)
ReadHolders(w) ==
    /\ pc[w] = "members"
    /\ LET end == job[w].began + Window
       IN  With(w, "next", [job[w] EXCEPT !.todo = holders[job[w].stream],
                                          !.ttl = IF end > now THEN end - now ELSE 1])
    /\ Local

RefreshHolder(w) ==
    /\ pc[w] = "next"
    /\ \/ job[w].todo = {} /\ Close(w)
       \/ \E b \in job[w].todo :
            LET c == cart[b]
                visit == [job[w] EXCEPT !.buyer = b, !.todo = @ \ {b}]
            IN  IF c.items = {} \/ c.stream # job[w].stream
                THEN With(w, "unindex", [visit EXCEPT !.cart = [NoCart EXCEPT !.stream = job[w].stream]])
                ELSE With(w, "save", [visit EXCEPT !.cart = [c EXCEPT !.expires = job[w].began + Window]])
    /\ Local

(***************************************************************************)
(* The environment.                                                        *)
(***************************************************************************)
\* An await of a request rejects (or the process dies, when it happens to every
\* request).  A sweep that gives up is one that has not come round yet.
Fail(w) == pc[w] # "idle" /\ Close(w) /\ Local

\* Time passes, and Redis drops the keys whose TTL is over.
Tick ==
    /\ now < MaxTime
    /\ now' = now + 1
    /\ LET dropped == {b \in Buyers : ttl[b] # 0 /\ ttl[b] <= now'}
       IN  /\ cart' = [b \in Buyers |-> IF b \in dropped THEN NoCart ELSE cart[b]]
           /\ ttl' = [b \in Buyers |-> IF b \in dropped THEN 0 ELSE ttl[b]]
    /\ UNCHANGED <<holders, pc, job>> /\ UNCHANGED db

Step(w) ==
    \/ LoadCart(w) \/ ReadStream(w) \/ SaveCartState(w) \/ IndexCart(w)
    \/ ClearCart(w) \/ UnindexCart(w)
    \/ ResumeGet(w) \/ ResumeSweep(w) \/ ResumeCheckout(w) \/ ResumeAdd(w)
    \/ ResumeUpdate(w) \/ ResumeRemove(w) \/ Persisted(w)
    \/ Reply(w) \/ PlaceOrder(w) \/ ReadHolders(w) \/ RefreshHolder(w)

Request(w) ==
    \/ \E b \in Buyers :
        \/ GetCart(w, b) \/ CheckoutFromCart(w, b)
        \/ \E p \in Products :
            \/ \E s \in Streams \cup {NoStream} : AddCartItem(w, b, s, p)
            \/ UpdateCartItem(w, b, p)
            \/ RemoveCartItem(w, b, p)
    \/ \E s \in Streams : StopStream(w, s)

Next ==
    \/ Tick
    \/ \E s \in Streams : StreamMoves(s)
    \/ \E b \in Buyers : SweepCart(b)
    \/ \E w \in Requests : Request(w) \/ Fail(w)
    \/ \E w \in Workers : Step(w)

Spec == Init /\ [][Next]_vars

\* The cron job runs every hour and visits every key: the sweep of a cart that
\* keeps showing up is not put off for ever, and its own steps are taken.
FairSpec ==
    /\ Spec
    /\ WF_vars(Step(Sweeper))
    /\ \A b \in Buyers : SF_vars(SweepCart(b))

(***************************************************************************)
(* Properties.                                                             *)
(***************************************************************************)
Job == [op : Ops, buyer : Buyers, stream : Streams \cup {NoStream}, item : Products,
        began : Nat, judged : Nat, stage : Stages, cart : Cart, ttl : Nat, todo : SUBSET Buyers]

\* Type invariant of every variable.
TypeOK ==
    /\ now \in 1..MaxTime
    /\ stream \in [Streams -> Row]
    /\ grounds \in [Streams -> SUBSET Nat]
    /\ since \in [Streams -> Nat]
    /\ cart \in [Buyers -> Cart]
    /\ ttl \in [Buyers -> Nat]
    /\ holders \in [Streams -> SUBSET Buyers]
    /\ pc \in [Workers -> {"idle"} \cup Steps]
    /\ job \in [Workers -> Job \cup {Free}]
    /\ \A w \in Workers : pc[w] # "idle" => job[w] \in Job

\* Time t is a window after such an instant, or no earlier than that.
OnGround(t, s) == s \in Streams /\ \E e \in grounds[s] : t = e + Window
Covered(t, s) == s \in Streams /\ \E e \in grounds[s] : e + Window <= t

\* The expiry on a cart is exactly a window after an instant that stood for the
\* end of its own stream while that was off, and Redis never drops the key before
\* such an expiry: however late a TTL is applied, whatever read of the stream it
\* was computed from (enforceCartExpiry, saveCartState, onStreamEnded).  For a
\* stream that was never off without an end (no plans) it is a window after a real
\* end.  For one that was, it may be a window after the time it was planned for,
\* and pass while the stream is live (orders.service.ts:336-340, 284-293).
WindowCovered ==
    \A b \in Buyers : cart[b].items # {} =>
        /\ cart[b].expires # 0 => OnGround(cart[b].expires, cart[b].stream)
        /\ ttl[b] # 0 => Covered(ttl[b], cart[b].stream)

\* What WindowCovered rests on: the rows, and what a request carries from one of
\* its awaits to the next.
RowsOK ==
    \A s \in Streams : stream[s].phase = "off" => stream[s].end \in grounds[s]

KeysOK ==
    \A b \in Buyers :
        /\ cart[b].expires # 0 => OnGround(cart[b].expires, cart[b].stream)
        /\ ttl[b] # 0 => Covered(ttl[b], cart[b].stream)

JobOK(w) ==
    /\ job[w].began <= now
    /\ pc[w] \in {"members", "next"} => job[w].op = "stop"
    /\ pc[w] \in {"readStream", "save", "index"} => job[w].cart.stream \in Streams
    /\ (pc[w] \in {"enforced", "reply", "place"} /\ job[w].cart.items # {})
          => job[w].cart.stream \in Streams
    /\ pc[w] = "readStream" => job[w].began <= job[w].judged /\ job[w].judged <= now
    /\ job[w].cart.expires # 0 => OnGround(job[w].cart.expires, job[w].cart.stream)
    /\ (pc[w] = "save" /\ job[w].ttl # 0) => Covered(now + job[w].ttl, job[w].cart.stream)
    /\ job[w].op = "stop" =>
          /\ pc[w] \in {"members", "next", "save", "index", "unindex"}
          /\ job[w].stream \in Streams
          /\ job[w].began \in grounds[job[w].stream]
          /\ pc[w] # "members" => job[w].ttl # 0 /\ job[w].began + Window <= now + job[w].ttl

JobsOK == \A w \in Workers : pc[w] # "idle" => JobOK(w)

\* A stream is closed for carts when its row is deleted or its window is over.
ClosedAt(s, t) ==
    \/ stream[s].phase = "gone"
    \/ stream[s].phase = "off" /\ stream[s].end + Window <= t

\* The stream of the cart of request w was off, and its window over, when the
\* request started.
Late(w) ==
    LET s == job[w].cart.stream
        row == stream[s]
    IN  /\ row.phase = "off" /\ since[s] < job[w].began
        /\ row.end + Window <= job[w].began

\* A request that started when the window was over is not served a cart, and
\* places no order from one: enforceCartExpiry is on every path.
ServedInWindow ==
    \A w \in Workers :
        (pc[w] \in {"reply", "place"} /\ job[w].cart.items # {}) => ~Late(w)

\* What ServedInWindow rests on: a cart that got past enforceCartExpiry was in its
\* window when the request started.
Passes(w) ==
    /\ pc[w] \in {"save", "index", "enforced", "reply", "place"}
    /\ job[w].op # "stop" /\ job[w].cart.items # {}

NoneLate == \A w \in Workers : Passes(w) => ~Late(w)

\* Phase2.md:346 "Cart cleared after 24h": when the window of a stream is over,
\* every cart of it goes, whichever request wrote it last and even when its
\* buyer never comes back (TTL, enforceCartExpiry and the hourly sweep).
CartsExpire ==
    \A b \in Buyers, s \in Streams :
        (cart[b].stream = s /\ ClosedAt(s, now)) ~> ~(cart[b].stream = s /\ ClosedAt(s, now))
=============================================================================
