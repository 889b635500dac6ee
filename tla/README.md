# VybeKart backend: specification and verification

VybeKart is a live-commerce backend: sellers stream, buyers fill a cart during
the stream, pay through Razorpay, and sellers pack and ship.  This directory
holds TLA+ modules for the parts of the backend where several requests, timers
and external services meet in one piece of state, the TLC configurations that
model-check them, and TLAPS proofs of what matters most.

Paths in this file without `src/` in front are relative to the backend's own
`src/` directory; `API.md`, `FLOW.md`, `PRD.md`, `Rules.md` and `Phase2.md` are
the documents at the root of the repository.

## 1. Inventory

The program is one NestJS process (`src/src/main.ts`) in front of three stores:
Postgres (through Prisma), Redis, and the services of others (Razorpay, LiveKit,
Delhivery, Supabase storage, FCM, SMTP and Resend, Fast2SMS).  All handlers, timers
and webhooks run in one event loop and interleave at every `await`.  Prisma
transactions run at Postgres' default READ COMMITTED.  Nothing takes row locks
explicitly, and hardly any update is conditional on the state it was decided
from, so *read, await, then write* is the hazard that runs through the whole
program.

| Component | State | Operations | Talks to | What makes it correct | Modelled in |
|---|---|---|---|---|---|
| Checkout and payment (`orders.service.ts`, `payments.service.ts`) | order rows, product stock, pending sessions (Redis, 30 min), `PaymentCheckoutFailure` | validate cart, direct checkout, `POST /orders`, create Razorpay order, verify and checkout, refund | Razorpay, cart, stock, stream window | no unit sold twice; a captured payment ends in one order or one refund, and it can be told which | `Checkout`, partly: delivery quotes and address checks only read |
| Cart (`orders.service.ts`) | `orders:cart:<user>`, `orders:stream-carts:<stream>` (Redis) | add, update, remove, get, clear, TTL refresh at stream end, sweep | streams, checkout | a cart goes 24 h after the end of its stream, not before; none is revived | `CartExpiry` |
| Order fulfilment (`orders.service.ts`) | order status, packing video, tracking | accept, pack, ship, request delivery, poll delivery, deliver, cancel, return | Delhivery, ratings, stock | status moves along the documented machine; goods go out with proof; stock is restored | `OrderFulfillment`, `OrderViews` |
| Order and replacement lists | none: rows read while they move | lists, tab badges, detail pages, revenue, dashboard | fulfilment, replacements | no row is skipped, what is listed opens, figures agree | `OrderBoards` |
| Replacements (`replacements.service.ts`, balance payments) | `ReplacementRequest`, its sessions | create, approve, reject, admin review, pay balance, pack, ship, deliver | orders, payments, ratings | one active request per order; a balance is paid before it ships | `Replacements` |
| Streams (`streams.service.ts`, gateway, LiveKit webhook) | `Stream`, recordings, Redis viewers, likes, comments, bids | schedule, start, stop, patch, delete, heartbeat, two cron jobs, webhook; join, leave, like, comment, bid | LiveKit, notifications, ratings, carts | a live ends once, replays are real, the audience is counted | `StreamLifecycle`, `Audience`, partly: following a seller, host tokens and thumbnails are left out |
| Ratings (`ratings.service.ts`) | scores, log, qualification days, waiver flag | delivery, replacement, override, rating, stream duration | streams, orders | every event counted, every score explained | `Ratings`, `LiveReward` |
| Auth (`auth.service.ts`) | codes and refresh tokens (Redis), users | send and verify a code, sign in, register, reset password, look-ups | SMS, mail | a code is used once; roles and profiles agree | `Accounts` |
| Seller onboarding (`sellers.service.ts`, `admin.service.ts`) | seller status, reason, sections | submit, approve, reject, request changes, resubmit, reset | mail, auth | only a verified seller sells; the reason shown belongs to the decision | `Accounts`, partly: uploads and the console's directories are left out |
| Buyers (`buyers.service.ts`) | addresses | create, edit, delete, default | auth | one default address | `Accounts`, partly: profile fields, follows and marks of read notifications are single-row writes |
| Products (`products.service.ts`) | product, variants JSON, stock | create, edit, delete, sale, cancellation | checkout | each choice has one variant, stock is that of the variants, one tab shows the product | `Catalogue`, `Checkout` |
| Pricing and invoices | invoice numbers, commission, tax | preview, number, page | orders | lines add up; one number per order | `Pricing`, `Invoices` |
| Notifications | devices, `goLiveReminderSentAt`, `buyersNotifiedAt` | cron, push, broadcast | FCM, streams | a buyer is told once | `LiveAlerts`, `StreamLifecycle` |
| Mail, support, reports, seller outreach | tickets, in-memory dedupe | send, retry, fall back, dump | SMTP, Resend, `pg_dump` | what is claimed to be sent was sent | `Mailing` |
| Media and storage | object storage, replay URLs | upload, hourly clean-up | streams | a replay that is shown can be played | `ReplayCleanup`, partly: uploads are input and output |
| Categories, material types, countries | catalogue rows | CRUD | products | uniqueness, left to Postgres | not modelled |
| Infrastructure | clients, configuration, health | bootstrap | all | | not modelled: it is the environment of every module |

How the parts meet: checkout reads carts and writes orders and stock; payments
calls checkout between a look-up and a refund; fulfilment picks up the rows that
checkout has committed, including those whose payment failed afterwards; the end
of a stream stamps every cart of it, credits the seller's day and closes its
audience; a delivered order may be replaced, and a replacement is packed and
shipped by handlers of its own; the sweep, the TTL of a key and every request
drop the carts whose window is over.  There is no queue between these parts: they
share rows and keys, and each handler holds what it has read across its awaits.
`PROJECT.json` lists every component with its sources, and under "hazards" the
places where this sharing can go wrong.

## 2. Modules

| Module | Models | Uses |
|---|---|---|
| `Checkout` | `POST /orders`, direct checkout, `createRazorpayOrder`, `verifyAndCheckout` with its refund path | `Settlement` |
| `Settlement` | abstract: a captured payment is settled once, by an order or by its return | |
| `OrderFulfillment` | every handler that changes `Order.status` after placement, with Delhivery as environment | `OrderLifecycle` |
| `OrderLifecycle` | abstract: goods move one way, stock goes back exactly when an order is cancelled | |
| `OrderViews` | timelines and next actions the two apps derive from an order | extends `OrderFulfillment` |
| `OrderBoards` | paged lists, badges, detail pages, revenue | |
| `CartExpiry` | every operation on the Redis cart, `enforceCartExpiry`, `onStreamEnded`, the sweep, the key's TTL, a clock | |
| `Replacements` | requests, decisions, balances, packing, delivery, what the apps show of them | `ReplacementLifecycle` |
| `ReplacementLifecycle` | abstract: decided once, paid before it goes to the seller, then one way | |
| `StreamLifecycle` | the stream row, its room and recordings, the two cron jobs, the webhook | `StreamSchedule` |
| `StreamSchedule` | abstract: planned or live at once, live once, ended once, lapsed only when planned | |
| `Audience` | sockets, viewers, likes, comments, bids, views of a live stream | |
| `LiveAlerts` | reminders and broadcasts in batches, devices that change hands | |
| `Ratings`, `LiveReward` | scores with their log; qualification days and the commission waiver | |
| `Accounts` | codes, sign-in, registration, review of sellers, address book | `SellerVerification` |
| `SellerVerification` | abstract: nobody sells without a decision, the reason shown belongs to it | |
| `Catalogue` | one product that is edited and sold, with the normalisation of variants | |
| `Pricing` | payout, tax split, amount in words, as arithmetic in paise | |
| `Invoices` | pages and numbers of invoices | `Pricing` |
| `ReplayCleanup` | the hourly clean-up of recordings | |
| `Mailing` | who is mailed over what and what the caller is told | |
| `BackOffice` | the parts of section 2.7 side by side, one of them in a behaviour | those ten modules, `OrderViews` |
| `MC...` | instances for TLC | |
| `TallyProofs` | sums; theorems about scores and the live reward | `BackOffice` |
| `LedgerProofs` | theorems about amounts, the catalogue, invoices, lists and replays | `TallyProofs`, `Pricing` |
| `...Proofs` | theorems about the module of that name, those of `OrderFulfillment` with `BackOffice` (section 4) | |

The modules share one style.  A handler is a program counter and the locals it
holds between awaits.  An action is the code between two awaits whose effects
another handler can see; reads that nothing separates are one action.  A
transaction that only increments or decrements a column, and one that Prisma
commits as a whole without reading what it writes, is one action; one that
reads a row and writes it back is two, since Postgres runs at READ COMMITTED.
A handler that is done leaves its slot, so a behaviour has any number of requests,
of which as many as there are slots are open together.  (`Checkout` alone keeps the
requests, because an order row is named by the request that made it.)  `Fail` is an
await that rejects in any handler; where the process keeps nothing in memory a crash
is all of them failing.

Many properties hold only where handlers do not overlap, which nothing in the code
enforces.  `serial` is a variable that is fixed at the start and names the rows (or
says) for which the clients happen to call one at a time, so that one run and one
theorem cover both worlds: what holds whatever overlaps, and what holds of the
serial ones beside others that are not.

Definitions named `X_Something` below a "Mutation:" comment are defective variants
of `X`, kept to show which defect each property would notice.

### 2.1 Checkout

| In the module | In the code |
|---|---|
| `cart`, `windowOpen` | `orders:cart:<user>`, whether the cart's stream is live or ended less than 24 h ago |
| `stock`, `RowOf`, `VariantRows` | `Product.stock`, or the `stock` of the entries of `Product.variants`; variants of one product share a row |
| `owner`, `captured`, `refunded` | Razorpay: who opened the order (in `notes` and the pending key), what was paid, what was given back |
| `pending` | `payments:razorpay:pending:<order>`, 30 minutes |
| `orders` | `Order` rows with status, buyer, items and `razorpayPaymentId` |
| `failure` | `PaymentCheckoutFailure.refundStatus` |
| `FindExistingOrder`, `FindPriorFailure`, `LoadPending` | the look-ups at the start of `verifyAndCheckout` |
| `LoadCart`, `CheckItems` | `validateCartForCheckout`, `getCart`, `validateOrderItems` |
| `TxRead`, `TxCommit` | the two halves of `create`'s transaction; `StockAfter` is what it leaves in a stock |
| `MarkPaid`, `ClearCart`, `DropPending` | what follows the commit in `checkoutFromCart` and `verifyAndCheckout` |
| `AttemptRefund`, `RecordCheckoutFailure` | the catch block |
| `StepThrows`, `Crash` | an await that rejects; the process dies and the stores stay |

`OnThrow` is where an exception goes: `verifyAndCheckout` alone catches, so for
the other two endpoints it ends the request.  `MarkPaid` throws when another row
has the payment (`Order.razorpayPaymentId` is unique).  `AttemptRefund` may
execute and still report failure, when the answer is lost.

A POST /orders body is a list of lines that may name a sku several times
(`CreateOrderDto`); `lines` counts them, up to `MaxLines`.  `CheckItems` compares each
line with the stock by itself, as `validateOrderItems` does, so a single request can
oversell a plain product; inside the transaction a second line of a variant reads what
the first one wrote.  `raced` is history: the variant rows that two open transactions
were to write, where one deduction may overwrite the other.

Left out: prices, addresses and delivery quotes (they can make a step throw,
which `StepThrows` covers); a line has quantity one; a request creates at
most one order.

### 2.2 OrderFulfillment and OrderViews

A handler is a read that checks the status (`AcceptOrder`, `ShipOrder`,
`UploadPackingVideo`, `RequestDelivery`, `DeliverOrder`, `CancelOrder`,
`ReturnOrder`, `PollDelivery`), the awaits in between (`SaveVideo`,
`CreateShipment`, `TrackShipment`) and the update by id (`WritePaid` ...
`WriteReturned`), for `deliverOrder` followed by the rating's increment
(`RecordDelivered`).  No update carries a condition on the status, so none has
one in the model.  `PlaceInVerify` is an order whose verify is still open, so that
an order can be refunded while it is PENDING and accepted afterwards.

`OrderViews` adds what the mappers derive from the row: `SellerDone` and `BuyerDone`
are the steps of the two timelines, `NextAction` the button of the seller's app, and
`Accepts` the checks of the handler behind it.

### 2.3 CartExpiry

`LoadCart`, `ReadStream`, `SaveCartState`/`ClearCart`, `IndexCart`/`UnindexCart` are
`enforceCartExpiry` await by await; the `Resume...` actions are what each caller does
with its result; `Persist`/`Persisted` are `persistCartState`, which enforces once
more before it saves.  `judged` is the clock as `enforceCartExpiry` read it before it
awaited the stream; the TTL is computed from that value.  A checkout looks at the
cart three times (`validateCartForCheckout`, its `getCart`, and the `getCart` of
`checkoutFromCart`), the stages `enforce`, `recheck` and `final`.  `StopStream` is
`stopStream`, a PATCH to not live and `sweepZombieLiveStreams`: each writes the row and
calls `onStreamEnded` (`ReadHolders`, `RefreshHolder`).  `stopStream` does not ask
whether the stream is live, so neither does the action.  `Tick` advances the clock and
lets Redis drop what is due.

A stream is created live or planned (`Created`, `Scheduled`), and carts exist before it
starts: `addCartItem` takes any stream id.  `end` of a row is what `enforceCartExpiry`
takes for the end of a stream that is off: `endedAt`, without one `startedAt`, which is
the planned time and is never null, so `createdAt` is not reached; a session gets its
`endedAt` after the row has one.  `StartScheduled`, `PatchLive`, `PatchOff` (a PATCH to not
live that read the stream before it went live writes no end), `Reschedule` and
`DeleteStream` change the row and tell no cart.  `grounds` remembers every `end` a row had
while it was off, and `since` when that row was written: `WindowCovered` and `ServedInWindow`
speak of them.

Left out: the ticks are coarse (the floor to whole seconds is not seen); the two
`sadd` of `persistCartState` are one; the end of a stream is stamped in the instant it
is written; an error in the sweep is a sweep that has not come round yet; quantities
and titles travel with the items.

### 2.4 Replacements

| In the module | In the code |
|---|---|
| `row` | `ReplacementRequest`: status, balance and its status, Razorpay order, packing video, tracking |
| `owner`, `key`, `offered`, `captured` | `notes.replacementId` of a Razorpay order, `payments:replacement:pending:<order>`, what the buyer's app was given and paid |
| `shipments`, `arrived` | Delhivery |
| `CreateForOrder`, `InsertRequest` | `createForOrder`: eligibility, the look-up of an active request; the buyer's score decides between approval and review |
| `DecideRequest`, `WriteDecision` | the decision of the admin |
| `CreateBalanceOrder`, `CreateSession`, `StoreSession`, `StoreKey`, `OfferAgain` | `createReplacementBalanceOrder` |
| `VerifyBalance`, `WriteBalancePaid`, `DropKey` | the verification of a balance payment |
| `UploadPackingVideo`, `WritePacked`; `RequestDelivery`, `CreateShipment`, `WriteShipped`; `PollDelivery`, `TrackShipment`; `DeliverReplacement`, `WriteDelivered` | packing and delivery |
| `TimelineDone`, `BuyerNextAction`, `SellerNextAction`, `Eligible`, `MayCreate` | the replacement mapper and the list of replaceable orders |

An order has one line; buyer and seller are those the ownership checks let through.
The carrier may make a shipment and its answer be lost.  A balance below `MinBalance`
cannot be paid (payments.service.ts:386).

### 2.5 StreamLifecycle

The row carries `startedAt` and the heartbeat as what the code compares them with:
`Ages` and `Beats`.  `take` are the recordings LiveKit makes, which end by themselves or
when they are stopped, and whose `egress_ended` may come late or twice.  The start of a
recording is not awaited: the handler goes on in the slot after its answer ("room",
"keep").  The cron jobs treat the streams of a list one by one, so a slot stands for one
stream of a list.  `spoiled` remembers the streams with a recording whose id was lost or
that did not stop: of those nothing is claimed about two recordings at a time.

### 2.6 Accounts

`CodeSteps` are the codes (`sent`, `otp`, `fresh`), sign-in, registration's phone check and the
password reset; `RegistrationSteps` the registration of both kinds of profile on one phone, with
the e-mail check before it and the sign-in after it; `ReviewSteps` submission, approval,
rejection, requested changes, resubmission and reset, with the sections a seller fills;
`BookSteps` the address book both profiles share, with the pickup address of the shop.
`Mailbox` makes two spellings of one e-mail one mailbox, since some look-ups ignore case
and others do not.  `OTP_ENV` is production: the bypass code of testing is left out.

### 2.7 The parts of BackOffice

Ten modules share no table with each other, so one run explores them all: `part` is fixed
at the start, `t1` to `t11` are the tables, caches and history of that part, `step` and
`task` its handlers.  The eleven parts are "orders" (`OrderFulfillment` and `OrderViews`,
one handler per order at a time), "invoices", "ratings", "reward", "sockets" and
"likes" (both `Audience`), "alerts", "catalogue", "replays", "boards" and "mail".

The inputs and bounds of a part are constants of `BackOffice`, so that it can be proved about.
`MCBackOffice` gives the constants their values and starts with a device of the host and two
that are the buyer's or nobody's.

- `Invoices`: a page per seller of an order, its number assigned at the first download,
  stored or rendered again, while deliveries move the day it is made of.
- `Ratings`: a request is counted (an increment) and may cost points (a stale score written
  back); an admin's override writes score and log; a buyer rates a seller.
- `LiveReward`: `stopStream` keeps the length of the stream and adds it to the day it ends on, by read
  and write, and refreshes the waiver from the days of the window.
- `Audience`: viewers are a set of sockets, likes a set, comments and bids one JSON value each
  that is read, extended and written back; a view is counted once in ten minutes.
- `LiveAlerts`: the reminder's cron fires every minute and does not wait for its last run;
  devices are pushed in batches that may fail; a device may be registered for another user,
  and a PATCH may move a planned stream to any time, one that is over too.
- `Catalogue`: an edit normalises the form (`product-variants.util.ts`) and writes it whole; a
  sale and a cancellation read the variants JSON and write it back.  An order has one or two
  lines of the product, which are checked alone and put one after the other in the transaction.
- `ReplayCleanup`: lists a page, deletes the old objects of it, moves the offset on, and
  clears the rows at the end.
- `OrderBoards`: a reader is one user's list, tabs or page; its queries are answered one by one
  while rows arrive and move.
- `Mailing`: each operation sends its mails one at a time over Resend or SMTP, and answers.  A
  batch goes through the list of its request, which may name an address twice; a dry run of it
  mails nobody and counts every recipient as sent.

### 2.8 Abstract specifications

`Settlement` is refined by `Checkout` through `settledBar`: a payment is "placed" if a
PAID order carries it, "returned" if it was refunded, and "both" when it is both,
which `Settlement` has no step to.  `OrderLifecycle` is refined by
`OrderFulfillment` through `stageBar` (a return request leaves the goods delivered)
and `unitsBar` (the units not restored).  `ReplacementLifecycle` is refined by the
requests of serial orders, `StreamSchedule` by serial streams, and `SellerVerification` by
the review when handlers do not overlap; rows that are not serial map to "nothing
there", so the refinements hold in every behaviour and say something of the serial ones.
None of them holds where handlers of one row overlap; section 3 lists how they break.

## 3. Runs

All of these finish in under five minutes with two workers.  `CHECK_DEADLOCK
FALSE` is set throughout: clients may stop calling, and the bounded counters end
a behaviour.

| Run | Question | Distinct states |
|---|---|---|
| `checkout_stock` | Do stock and order rows add up under three concurrent order requests, failing steps and a crash, where can a deduction be lost, and how far can a product be oversold? | 3,250,980 |
| `checkout_payment` | With three overlapping verify calls of one payment by two accounts, failing steps and a crash: what stays true of orders, refunds, answers and failure rows? | 395,878 |
| `checkout_serial` | If verify calls of a payment never overlap, is a payment settled by one order or one refund? | 594,108 |
| `checkout_live` | Does every verify that found its session end in an order or a failure row, even when handlers overlap and steps fail? | 115,936 |
| `fulfil_overlap` | Three handlers of one live order in any order, repeated and failing: proof of packing and shipping, stock of cancelled orders, and what the seller is offered | 71,780 |
| `cart_expiry` | One cart under every request, the plan, start, end, restart and deletion of its stream, the sweep, its TTL and the clock: its expiry is a window after what stood for the end of its stream, it is not served late, and it goes in the end | 1,635,755 |
| `replacements` | Two requests for one order under overlapping handlers that fail, expiring keys and lost answers of the carrier: paid before packed, shipped with proof, one attempt, truthful views, and the documented pipeline | 858,154 |
| `streams` | One stream with two recordings under overlapping handlers, cron jobs, webhooks and failures: replays are real, and the documented schedule | 1,032,767 |
| `streams_live` | Does a live whose seller went silent, and a planned stream that was missed, leave, whatever overlaps and fails? | 42,494 |
| `accounts` | Two people, two phones and three spellings of two mailboxes: codes, registration, the review of a seller and the address book | 697,156 |
| `back_office` | The eleven parts of section 2.7: do scores, invoices, audiences, reminders, products, replays, lists and mails keep what the code says of them? | 2,474,431 |

`bug_refund_of_placed` checks what a message of the repository says and finds a
behaviour of the code that contradicts it: payments.service.ts:246 tells the buyer that a
payment was refunded "because the order could not be completed", and the second of two
overlapping verify calls refunds the payment of the first one's order.  It looked for an
order before the first was marked PAID; in the shortest behaviours it then finds the cart
emptied or expired, or its unit taken by the first, in longer ones the unique payment id
refuses it, and its catch block refunds in each.

### Further disagreements

The models contain these behaviours of the code; no run is spent on them.  Each
contradicts a document, a comment or what the code itself does elsewhere.

**Checkout and fulfilment.**  `POST /orders` checks stock outside its transaction and
decrements without a floor (FLOW.md:97 "Checks Inventory (PostgreSQL transaction)"), and
two lines of one body are each checked against the same last unit.  Two concurrent orders of
a variant, or of two variants of one product, lose one deduction (FLOW.md:100 "Inventory
deducted"): the last unit of a variant is sold twice and its stock says zero.  A verify after the 30 minutes throws before the try block: no
order, refund or failure row (payments.service.ts:257; PRD.md:68 "refund audit path").
A process that dies between the refund and its failure row leaves no trace of the
refund.  A paid checkout can fail on stock or window that were fine before payment
(orders.service.ts:706).  Two overlapping cancels restore the stock twice, and a packed
order can be cancelled (orders.service.ts:1552, 1572, 1580; API.md:433).  A cancel during
the Delhivery call leaves a cancelled, restocked order shipped (orders.service.ts:1747,
1818).  A delivery poll writes DELIVERED over RETURNED (API.md:427).  An order whose
payment was refunded stays PENDING and can be accepted and shipped
(payments.service.ts:331).

**Carts.**  A cart put together before its stream starts gets an expiry from the planned
time ("24h post-live cart TTL", orders.service.ts:274; 336-340).  Nothing takes it off when
the stream starts (326-334 keeps it), so a stream that starts late, is put off, or lasts
long has its early carts dropped while it is live (284-293).  A stream that is restarted
after its end keeps the expiries of the first end in the same way.

**Replacements.**  Two overlapping requests both find no active one
(replacements.service.ts:193); two overlapping balance orders leave a payment that is
answered "Replacement payment not found".  A stale second decision overwrites a paid or
packed request, and with a pack in between leaves PACKED with a balance PENDING.  A
verify that waited takes PACKED or SHIPPED back to APPROVED (payments.service.ts:487).  An
expired balance session answers "Payment session expired. Please try again."
(payments.service.ts:475) while the retry is given the same session (365-383).  A balance
of less than a rupee cannot be paid.  The timeline shows "payment" done while the
request is under review.  `canRequestReplacement` is offered after the three days are over.
`markBalancePaid` (replacements.service.ts:411) is never called.

**Streams.**  Overlapping reports of the first picture tell buyers twice
(streams.service.ts:889-892 "Notifies buyers once").  The clean-up of missed streams
deletes one that was just started (403), and works after two minutes although a start
is allowed for four hours.  A PATCH to live makes a stream live without a room, and a
stale PATCH to not live leaves a row that no list shows.  A second stop turns a READY
replay to FAILED (192).  A late `egress_ended` clears the id of a newer recording
(livekit-webhook.service.ts:91).  Reminders are sent again after a crash before
`goLiveReminderSentAt` (scheduled-live-reminder.service.ts:118) or by overlapping runs, and
not again when a stream is rescheduled after its mark: the buyers know the old time only.  A
PATCH takes any `scheduledAt` (streams.service.ts:716-718) where scheduling asks for a time to
come (336-339): a stream that is moved to the past, or to the end of a window that is
closing, is never reminded of.  A multicast that failed is given up and the stream marked.

**Audience.**  A socket that joins a second room stays in the first; a crash or failed
`srem` leaves viewers behind until the TTL.  Of overlapping likes, comments or bids one is
lost; a like after the end creates the key again; the summary of a second stop says no
likes.

**Accounts.**  A code is accepted twice by overlapping verifies (auth.service.ts:426), and a
fresh one lost (435).  Overlapping registrations lose a role (544).  Sign-in and
registration treat the case of an e-mail differently (748, 884).  "Ensure only one
default PICKUP address" (608) clears the mark of shipping addresses too; a buyer can
delete the pickup address of the shop.  Approval does not look at completeness.
Overlapping updates of the pickup address leave `businessAddress` behind it.

**Money.**  A second stop counts the duration again (Phase2.md:113); the waiver flag is
refreshed on a stop only (Phase2.md:43,116).  Below gateway and logistics the commission
is negative, and the waiver costs the seller.  The first digit of a PIN is mapped to a
state code that is often wrong.  An invoice number holds 8 digits of an id and is
unique: the second order of a prefix on a day can never be invoiced
(invoices.service.ts:485).  The fee of an order whose lines come to less than a rupee is divided
by a rupee (113), so several sellers bill less than all of it; nothing keeps prices above
that.  Overlapping penalties and overlapping additions to a day are
lost.  A buyer's rating of a seller erases penalties, any number of times.  A referral
code is accepted if it has four characters, and nothing is stored.

**Catalogue and lists.**  A PATCH of `stock` alone breaks that a product's stock is the sum
of its variants'; unfinished variants are dropped silently; cancelling an order whose
variant is gone throws for ever.  One order with two lines of the last piece of a plain product
leaves a stock of minus one (orders.service.ts:181-208 checks each line alone, 1049-1068 takes each), and
a product with negative stock is on no tab (products.service.ts:169-179).  A page's
count and rows are two queries, so a list may end early; a list filtered by status
skips rows when rows leave the filter.  Revenue leaves out PACKED orders, so it drops
when a seller packs, and credits each seller of a shared order with the whole total; the
dashboard uses the server's day where the lists use India's.  "undelivered" is read as
delivered (seller-order.mapper.ts:240); a direct order offers a packing video that the
handler refuses (147-161).

**Clean-up and mail.**  The replay clean-up skips as many old objects as it deletes from a
page (storage-cleanup.service.ts:80), and a list that throws or a crash leaves rows that
point at deleted objects for good (87-88).  A click on "I'm Interested" is kept on file
before its mails are sent, so the retry of a failed one is told that it is on file.  A
failed mail to the buyer drops the seller's.  A support ticket whose look-up fails
after the insert answers an error and is filed twice by the retry.  A dump counts as
whole when its file is complete, whatever pg_dump's exit says later
(daily-db-backup.service.ts:205-210).  A code's SMS is skipped or fails silently while the
request answers that it was sent.  A dry run of a batch to sellers answers `sent` with the
number of its recipients although nothing was mailed (seller-email.service.ts:135-142, 203), and a
recipient listed twice in one request is mailed twice (195-197).

### Bounds

- `Requests`/`Slots`: three in `checkout_*` and `fulfil_overlap`, because the races are between
  two handlers and the third shows that a further one (a retry, or a bystander that
  commits in between) does not break what two leave intact; two elsewhere, where slots are
  used again and again.
- `MaxInflight` is 2 for stock, so that the bound of `OversellBounded`
  (`1 - MaxInflight * MaxLines`) differs from the one for three requests, and 3 for payments.
  `MaxLines` is 2 for stock: a repeated line is the case that matters.  No body is read in
  the other runs.
- Stock is one unit of each sku: the last unit is what is fought over.  `tee` is a
  product without variants, `red` a variant of another product.
- `MaxCrashes` is 1: a crash ends all open handlers, and a second one does it again.
- `MaxRepeats` is 2 in fulfilment: enough to see a counter go wrong.  `CONSTRAINT OneOrder`
  lets `fulfil_overlap` explore one of a live and a direct order at a time: orders share
  nothing but slots.
- `Faults` names what may fail: "step" is any read, check or write up to the PAID
  update, "redis" the two deletes after it, "audit" the insert of the failure row.
  "audit" is in no run: `RecordCheckoutFailure` swallows its errors, so a failed
  insert leaves the refund without a trace by itself.
- Carts: one buyer, stream and product, with one open request beside the sweep;
  `Window` 1 and `MaxTime` 2, so the window of a stream that ends at 1 is over at 2, a late
  TTL is applied after it, and a stream that is stopped again at 2 has two ends.  `Dates`
  holds the time 1, for which a stream is planned, and 0, the past, to which a PATCH moves
  it.  A plan that is further ahead than the clock goes is left to the proofs.
- Replacements: one order, two requests and two sessions, so that overlapping creates and
  balance orders both succeed; a cheaper and a dearer variant; one shipment per request,
  whose waybill may be lost.
- Streams: one stream, two recordings, two slots.  `ACTION_CONSTRAINT WithinLastTake` stops
  exploring what overlaps after the second recording began, but for stops and reports of the
  first picture, the two that have to do with recordings.  `streams_live` has no
  recording, and no symmetry, which is unsound for liveness.
- Accounts: two users and phones, three spellings of two mailboxes, two slots, four handlers
  (three for codes).  `part` is codes, review or address book, each with registration: they
  share the account's row only.  Where the contention for phones and e-mails does not
  matter everybody registers with the same ones.
- Back office: reward three instants and stops; sockets two and likes four calls; alerts three
  devices, batches of one, and a clock to minute 4 (`LastMinute`) with a window of one, so that
  a time can be set before, in and after its window and a window can pass afterwards; ratings three calls; replays four streams on pages of one;
  lists three rows on pages of one with one move; mail two calls and a restart, a batch of
  two addresses or of one twice; catalogue two edits and two order lines, of one order or of two,
  with four forms.
- Symmetry is used where runs check invariants and step properties only: the
  refinements (`[][...]_v`) and the history they speak of are symmetric in the permuted sets.

### Fairness

`Checkout!FairSpec`: weak fairness of `Advance(r) \/ StepThrows(r)` for each request.
An await always settles, since every client the code uses answers or rejects, and
the event loop then runs the continuation.  It does not say that the await
succeeds.  Nothing is assumed of buyers, of Razorpay's capture, of expiry or of
new requests; `checkout_live` has no crash, since a dead process takes its handlers
with it and nothing resumes them.

`CartExpiry!FairSpec`: weak fairness of the sweep's own steps, strong fairness of
`SweepCart(b)`: the cron job runs each hour and its SCAN returns every key that stays
there.  It is strong because a request may delete and rewrite the key between two
visits.  The clock is not fair: `CartsExpire` is about a window that is over already.

`StreamLifecycle!FairSpec`: weak fairness of `Age(s)` (time passes) and of each slot's
`Step(r)` (awaits settle); strong fairness of `DeleteMissed` and `Sweep` for each stream, because
the cron jobs come back for a stream that stays on their list and their loops catch what
one stream throws; and strong fairness of their own writes, because these do not fail
for ever.  Nothing is assumed of sellers, of heartbeats or of LiveKit.

## 4. Proofs

The theorems hold for any number of buyers, payments, requests, products, orders,
slots, streams, recordings and users and any bounds, from the assumptions named in the
modules (`CheckoutAssumption`, `FulfillmentAssumption`, `CartAssumption`,
`ReplacementAssumption`, `StreamAssumption`, `AccountsAssumption`, `AlertsAssumption`,
`MailAssumption`, `AudienceAssumption`, `ReplaysAssumption`, `BoardsAssumption`,
`ShelfAssumption`, `InvoicesAssumption`, `RatingsAssumption`, `RewardAssumption`: the types of the constants, that the "no ..." values are
none of the others, for `Checkout` that the set of requests is finite, as are those of rated people
and of streams of the reward, for bids that they are positive and bounded, as finite numbers are
(`streams.service.ts:1176`), for products that the statuses are those of the enum and typed prices
and stocks are not negative, for ratings that nobody is rated both as buyer and as seller, which
are rows of their own, and that thresholds are positive (3 and 5 requests; 30 minutes on 10 of 30 days
for the reward), and for reminders that the window is at least as long as the period of the cron,
which is 2 minutes to 1 in the code).

| Theorem | States | Rests on |
|---|---|---|
| `CheckoutTyped` | `TypeOK` | with `HandlerOK`: a handler past its first step knows its buyer, only a verify has a payment |
| `StockAccounted` | `StockAccounting` | `RowSinceCommit`: no row before the commit, so the commit adds the units of exactly one row; `CopiesFresh`: a copy of a variant row is the row, unless transactions raced for it |
| `OversellIsBounded` | `OversellBounded` | `ClaimsBounded`: units seen and not yet taken count as gone, and at most `MaxInflight` handlers claim; `VariantsInStock` and `StockAccounting` for variants |
| `PaidOrdersArePayers` | `PaidByPayer` | `SessionOK`: past `LoadPending` the session of the payment is the caller's |
| `PaymentPaysOnce` | `OneOrderPerPayment` | inductive with `TypeOK`, thanks to the unique column |
| `SequentialRefunds` | `Sequential => RefundOnlyUnplaced` | `SequentialOK`: a payment has one handler, past its look-ups nothing has settled it, and a refund is on record or about to be |
| `CheckoutSettlesOnce` | `Sequential => SettledOnce` | the same; each step maps to a capture, a settlement or a stutter |
| `AnswersAreTruthful` | `PlacedIsPaid`, `RefundRecordTruthful` | `TracesKept`: what a handler knows of the payment at each of its last steps |
| `PlacementsAreTraceable` | `PlacementTraceable`, if failure rows can be written | the same |
| `FulfillmentTyped` | `TypeOK` | inductive |
| `LiveOrdersShipWithProof` | `ShippedWithProof` | `ProofSeen`: video, tracking id and shipment never go away, so what a handler saw of them still holds at its write |
| `CancellingRestocks` | `CancelledRestocked` | inductive with `TypeOK` |
| `SerialCounting` | `Serial => CountedWhenDelivered` | `SerialOK`: the order is as the handler read it, and the counters follow the status |
| `SerialLifecycle` | `Serial => FollowsLifecycle` | the same; each step maps to a move, a cancellation or a stutter |
| `SellersAreOfferedWhatIsAccepted` | `OfferedIsAccepted` | `ShippedWithProof` |
| `SerialTimelines` | `Serial => StepsInOrder` | `SerialOK` and `Filmed`: once there is a video the order is neither new nor pending, and tracking follows packing |
| `CartsTyped` | `TypeOK` | `CartInv`: `RowsOK`, `KeysOK` and `JobsOK`, what the rows, the keys and the locals of a request say about `grounds` |
| `CartsKeepTheirWindow` | `WindowCovered` | `CartInv`: an expiry, in a key or on its way there, is a member of `grounds` plus the window, and a TTL is not before one |
| `LateCartsAreNotServed` | `ServedInWindow` | `NoneLate`: a cart past `enforceCartExpiry` was in its window when the request began |
| `ReplacementsTyped` | `TypeOK` | inductive |
| `ReplacementsPaidFirst`, `ReplacementsShipWithProof` | `PaidBeforePacked`, `ShippedWithProof` | `Safe`: `SeenOK`, what a handler was let through for stays true, row by row |
| `ReplacementsOneAttempt` | `OneAttempt` | `SerialInv`, below |
| `ReplacementsFollowPipeline` | `FollowsPipeline` | `SerialInv`; each step maps to one of `ReplacementLifecycle` or a stutter |
| `ReplacementViewsAgree` | `ViewsAgree` | `SerialInv` and `ShippedWithProof` |
| `StreamsTyped`, `ReplaysAreRecorded` | `TypeOK`; a READY replay is of a recording that came to its end | `Own`, below |
| `SerialStreams` | the inductive invariant of serial streams | `Own`, `SerialKept` |
| `StreamsAgree` | `LiveConsistent` | `SerialKept` |
| `StreamsFollowSchedule` | `FollowsSchedule` | `SerialKept`; each step maps to one of `StreamSchedule` or a stutter |
| `AccountsTyped` | `TypeOK` | `TypeParts` and `Bound`, below |
| `SerialAccounts` | the inductive invariant of accounts | `SerialKept` |
| `AccountsAgree`, `CodesAreSpentOnce`, `RegistrationsEnd` | `ProfilesAgree`, `CodesWork`, `OnboardingEnds` | `SerialKept` |
| `SellersFollowVerification` | `FollowsVerification` | `SellerMove`: what a step may do to a row of sellers |
| `RemindersReach` | `BuyersReminded` | `SerialAlerts` and `BuyersListed`, below |
| `MailIsTruthful` | `MailTruthful` | `WithinBudget` and `JobsTrue`, below |
| `AudienceIsCounted` | `CrowdCounted` | `SocketsCame`, `Counted` and `SerialKept`, below |
| `ReplaysStayPlayable` | `ReplaysPlayable` | `InRun` and `RunHalvesBacklog`, below |
| `BoardsAreComplete` | `BoardsComplete` | `ScrollKept` and `CountsKept`, below |
| `ProductsStaySellable` | `ProductsSellable` | `ShelfInv`, below |
| `InvoicesAlwaysAddUp` | `InvoicesAddUp` | `InvoicesInv`, below, and the sums of `PagesCover` |
| `ScoresAreEarned` | `ScoresEarned` | `RatingsInv` and `RewardInv`, below |
| `GoldenValues`, `LinesAddUp`, `NetMonotone`, `WaiverPays` | the payout: the documented example, the lines of a preview, monotony, the waiver | bounds and monotony of rounding |
| `SplitAddsUp`, `WordsSayTheAmount`, `SharesMeetTheFee` | invoices: net and tax, the words, two shares of a delivery fee | the same |

`Sequential` means that the app has one verify call of a payment open at a time,
no process dies, and only steps up to the PAID update fail.  `Serial` means one
open handler per order.  The code enforces neither, and section 3 shows what happens without
them.  The other theorems have no such condition; those of `Replacements`,
`StreamLifecycle` and `Accounts` speak of the serial rows of a behaviour, beside any
others.  `PlacementsAreTraceable` assumes that failure rows can be written ("audit" is no
member of `Faults`): `RecordCheckoutFailure` swallows its error, and a failed insert is
simply no trace.

The arguments of the larger proofs:

**Overlapping handlers** (`ProofSeen`, `SeenOK`, `CartInv`, `Own`, `Bound`, `TracesKept`).  A
handler decides on what it has read and writes by id later, so an invariant over rows alone
is never inductive.  The strengthening says, for each place a handler can wait at, which
facts it has seen *that no other handler can take back*: a video, a tracking id, a capture
and a shipment are never undone, an account is never deleted, a code is at most the number
sent.  What others can take back (a status, above all) is not in the invariant, and this is
where the disagreements of section 3 come from.

**Serial rows** (`SerialOK`, `SerialInv`, `SerialKept`).  Where handlers of a row do not
overlap the invariant may say that the row is still as its one handler read it (`Current`), with
`Alone` for the uniqueness of that handler.
- `Replacements`: `SerialInv` adds `SessionsOwned` and `OneAttempt` (a session offered is the
  one on the row, since a second one is made only when the row has none) and `RowSerial`, which
  relates status, balance, video and tracking of a row.  `Moves` and `Filed` say what a step
  does to a request of a serial order, and carry the refinement.
- `StreamLifecycle`: `Own` says that rows and slots name recordings of their own stream and that
  a READY replay's recording came to its end.  `SerialKept` is, for each serial stream,
  `RowFine`, `Alone`, `Current` (what the handler knows of the row: `Exists`, `Knows`,
  `Stopped`) and `Held`: every recording the webhook has not reported is on the row, or in the
  slot of the start that is about to write it, or has ended with the row gone or ended,
  unless the stream is spoiled.  `Held` is what excludes a second recording.  `Calm` covers the
  many steps that touch no recording.
- `Accounts`: `SerialKept` has a part for codes, accounts, sellers and the book.  Each has two
  lemmas: a frame (steps of the other groups leave it alone) and a serial step (its own).
  `CodesKept` relates each code to the place of its verify: accepted once or still in hand.
  `AccountsKept` says that roles and profiles agree also in the middle of a registration, and
  that who is turned away shares a mailbox with somebody else.

- Reminders (`RemindersReach`): `serial` says that runs of the cron end within their minute and
  nothing fails.  `Awaited` is why no stream is missed: in the last minute of its window, once the
  cron has fired, some run has the stream on its list, so the clock cannot leave that minute before
  the stream is marked.  It needs the window to be no shorter than the period, and speaks only of times
  that were set (`setAt`) before the last minute of their window began: a PATCH takes any time, and
  one that is over is reminded of by no run.  `Marked` says what a mark means after a move: it is
  of a minute in the window of the time the stream has now, or from before that time was set
  (`Timely`).  `RunKnows` is why no device is told
  twice, in however many batches: what a run has left has not been told, what it no longer
  has left was told once.  `BuyersListed` needs no `serial`: a device keeps the users it was
  ever registered for, so what was looked up stays true of it when it changes hands.

- Mail (`MailIsTruthful`): `JobsTrue` says what an open call knows of its own mails, and carries
  what its answer will claim.  That no address gets a mail too often is a matter of counting,
  below.

- Audience (`AudienceIsCounted`): `SocketsCame` says that who is counted did connect, which is why
  a new socket cannot be on a stream already, and is in the room while it is open.  The rest needs
  handlers that do not overlap: `SerialKept` says that the likes kept are those that were told, that
  the sockets counted on a live stream are those that watch it, and that a handler's like or list
  is still as it was read, so what is written back adds to it.  `RowEndsFirst` is why dropping the
  keys breaks none of this: by then the stream is no longer live.

- Lists (`BoardsAreComplete`): `ScrollKept` says that what a reader has not been shown has as many
  newer rows as the pages before hold: rows only arrive on top, so an unseen row never moves
  to a page that was loaded.  `AllButNewest` turns this into a number: those rows and the pages
  before them are together no more than the list has, which is no more than the count that was
  read and what arrived since.  `CountsKept` sets the badges that were read against the rows that
  have one of their statuses; a row that arrives or moves changes one row of either side.

- Replays (`ReplaysStayPlayable`): `InRun` says which replays a run has deleted or is about to,
  that every page was full of old ones, or else that no more old ones are left than it has
  deleted.  The list is sorted by age, so a page that starts `n` rows late takes the old ones from
  there on (`PageOfOld`): as many are skipped as were deleted before.

- Catalogue (`ProductsStaySellable`): `ReadIsSellable` is why two sales that overlap with an edit
  cannot break the variants: whatever a handler has read was a complete set of them, a delta
  changes nothing but a stock (`DeltaKeeps`), and options, variants and their sum are written
  together.  That an accepted form has a variant for each combination is a bijection
  (`CompleteSells`); the two lines of an order are two such writes, the second on what the first
  has left (`LineKeeps`, cited twice).  Only the price and the tab need `serial`: `ReadIsRow`;
  `PieceIsThere`, one piece of what an order checked is still there when it takes it;
  `StockedOrSold`, which follows a stock of minus one to an order with two lines; and `OrdersStand`,
  since cancelling such an order brings both pieces back.

- Invoices (`InvoicesAlwaysAddUp`): every page is a function of a basket that never changes
  (`PagesAreBaskets`), so that pages add up is arithmetic: a split adds up to its amount, the
  sellers' amounts to the subtotal (`SumByKind`), and each share is within half a paisa of
  its part of the fee (`SumWithin`).  Numbers need `DayStays`: where deliveries of a document do
  not overlap its day is fixed once it is delivered, so a second download that was opened before
  the number was written makes the same one.  `NumbersDiffer` is the unique column.

- Ratings (`ScoresAreEarned`): a score that is written back was computed from one that was read,
  maybe long before, so that handlers only ever know *some* source of theirs and how often it may have
  been lowered (`FromSource`).  `Spent` counts the penalties of a score without those that open
  requests may still claim: a request that lowers it was pending until then, so what it writes is paid
  for, however stale what it read.  An entry of the log becomes a source before the score follows.
  Where nothing overlaps or fails, `HistoryKept` goes through the log entry by entry.

- Live reward (`ScoresAreEarned`): time goes from a stream's session to a handler to what its day
  was to be given (`recorded`) to the row of the day.  `SessionsPassed` sets what all sessions have
  passed on against `recorded`, as sums; `OneSession` is why a stream that is stopped once passes its
  session on once.  `DaysRecorded` bounds each row, and what a handler is about to write to it, by
  `recorded`, which never shrinks: so a stale row that is written back is still no more than was
  streamed.  `Earned` speaks of `recorded` only and stays true, hence `WaiverEarned` whatever
  overlaps; that a day counted now lies in the window is `Past`, no day is recorded ahead of the clock.

**Refinements.**  Initial states map to initial states and each step to a step or a stutter, by
one lemma per group of handlers on what it may do to the row.  `FollowsVerification` and
`FollowsSchedule` also hold an invariant, which comes from the same strengthening.

**Counting.**  `StockAccounted` and `OversellIsBounded` count by the cardinality of the set of
units on order rows, or claimed by handlers, a unit being a request and the number of a line; a
commit moves the units of its lines from one set to the other.  `WithinBudget` counts the
mails out for an address and its `Chances`, the pairs of an open call and a way in which it can
still reach the address: from each place the address has in what is left of the list ("first" or
"last"), or over each transport a registration has not tried.  A dry run has none.
Together they are never more than its `Budget`.  A mail that goes out uses up a chance, whether
its answer arrives or not; a new call adds as many chances as it adds to the budget (for a batch, `asked` counts how often
the address was listed), a restart takes chances away, and a click that is on file adds neither.
`Counted` sets the views of a stream and the handlers about to count one against the windows that
are open or over: opening a window lets one handler through, and a window that ends is one more
that is over.

**Sums.**  What `MapThenSumSet` returns is a recursive function over the subsets of a finite set.
`SumsExist` constructs it and `SumsAgree` shows that any two agree, from `Least` (a set of natural
numbers has a least member), which takes the place of an induction theorem; `SumTakes` and
`SumParts` are the two facts the rest uses: that sums of the same, of added, scaled, bounded and
grouped numbers are what they should be (`SumSame`, `SumAdds`, `SumScales`, `SumWithin`,
`SumGrows`, `SumByKind`, `SumChanges`) follows by taking one member away at a time (`SetInduction`, over the subsets of
a finite set as a set of sets, not a predicate).

Every inductive invariant above was first checked with TLC on the configuration
of the run that has the property.

Only model-checked: liveness (`VerifySettles`, `CartsExpire`, `OverdueLeaves`) is beyond the
prover.  Every other property of a passing run is a theorem.  The arithmetic of `Pricing` is in whole paise: that JavaScript rounds a binary fraction is left out.
The run `bug_refund_of_placed` is a single behaviour.

## 5. What is not modelled, and the plan

Not modelled because there is nothing a model could decide: texts and templates, PDF
rendering, uploads, configuration and health, catalogue CRUD on single rows, following a
seller, the support console's reads, the signing of tokens.

Planned: the composition of checkout and fulfilment on the order rows, so that a refunded order
that ships is one behaviour.
