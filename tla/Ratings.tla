------------------------------ MODULE Ratings ------------------------------
(***************************************************************************)
(* The scores of buyers and sellers (RatingsService): a replacement        *)
(* request is counted and may cost the buyer and the seller two points, an *)
(* admin overrides a score and leaves a log entry, a buyer rates a seller. *)
(*                                                                         *)
(* Of a seller's four ratings only overall is lowered; the others are      *)
(* always written together with it and are left out.  A score is read at   *)
(* the start of a handler and written, by id, at its end.                  *)
(***************************************************************************)
EXTENDS Integers, FiniteSets, Functions, Sequences

CONSTANTS
    Buyers, Sellers,
    Slots,          \* handlers that can be open at one time
    BuyerLimit,     \* requests in 90 days that cost a buyer points (3)
    SellerLimit,    \* requests in 30 days that cost a seller points (5)
    Given,          \* the scores that admins and buyers give
    MaxCalls        \* bound on the requests, overrides and ratings

Rated == Buyers \cup Sellers
Default == 5
Points == 0 .. Default

RatingsAssumption ==
    /\ IsFiniteSet(Buyers) /\ IsFiniteSet(Sellers) /\ Buyers \cap Sellers = {}
    /\ {BuyerLimit, SellerLimit} \subseteq Nat \ {0} /\ MaxCalls \in Nat
    /\ Given \subseteq Points

VARIABLES
    serial,         \* handlers never overlap, fixed at the start
    score,          \* BuyerRating.score and SellerRating.overall
    counted,        \* BuyerRating.replacementCount
    requests,       \* how many ReplacementRequest rows there are of each kind
    log,            \* the RatingOverrideLog rows of each buyer and seller
    voted,          \* the ratings buyers gave a seller
    failed,         \* a handler ended half-way
    pc, job

slot == <<pc, job>>
vars == <<serial, score, counted, requests, log, voted, failed, slot>>

Ages == {"month", "quarter", "old"}     \* up to 30 days, up to 90, more
Kinds == Buyers \X Sellers \X Ages
Override == [old : Points, new : Points]
BuyerSteps == {"read", "count", "window", "penalty"}
RequestSteps == BuyerSteps \cup {"seller", "overall", "demote"}
Steps == {"idle", "log", "patch"} \cup RequestSteps

Free == [op |-> "none"]
RequestJob == [buyer : Buyers, seller : Sellers, old : Points]
PatchJob == [of : Rated, old : Points, new : Points]

Init ==
    /\ serial \in BOOLEAN
    /\ score = [x \in Rated |-> Default]
    /\ counted = [b \in Buyers |-> 0]
    /\ requests = [k \in Kinds |-> 0]
    /\ log = [x \in Rated |-> <<>>]
    /\ voted = [s \in Sellers |-> {}]
    /\ failed = FALSE
    /\ pc = [r \in Slots |-> "idle"]
    /\ job = [r \in Slots |-> Free]

Goto(r, step) == pc' = [pc EXCEPT ![r] = step] /\ UNCHANGED job
Keep(r, step, j) == pc' = [pc EXCEPT ![r] = step] /\ job' = [job EXCEPT ![r] = j]
Close(r) == Keep(r, "idle", Free)
Idle(r) == pc[r] = "idle" /\ (serial => \A q \in Slots : pc[q] = "idle")

Lowered(points) == IF points > 2 THEN points - 2 ELSE 0

(***************************************************************************)
(* onReplacementRequested, from the row createForOrder inserts on.         *)
(***************************************************************************)
Rows(kinds) == SumFunctionOnSet(requests, kinds)
OfBuyer(b) == Rows({b} \X Sellers \X {"month", "quarter"})
OfSeller(s) == Rows(Buyers \X {s} \X {"month"})

\* The calls so far, an override when it is logged.
Calls ==
    SumFunction(requests) + SumFunction([x \in Rated |-> Len(log[x])])
    + SumFunction([s \in Sellers |-> Cardinality(voted[s])])
    + Cardinality({r \in Slots : pc[r] = "log"})

RequestReplacement(r, b, s) ==
    /\ Idle(r)
    /\ Calls < MaxCalls
    /\ requests' = [requests EXCEPT ![<<b, s, "month">>] = @ + 1]
    /\ Keep(r, "read", [buyer |-> b, seller |-> s, old |-> 0])
    /\ UNCHANGED <<serial, score, counted, log, voted, failed>>

Age(b, s, from, to) ==
    /\ requests[b, s, from] > 0
    /\ requests' = [requests EXCEPT ![<<b, s, from>>] = @ - 1, ![<<b, s, to>>] = @ + 1]
    /\ UNCHANGED <<serial, score, counted, log, voted, failed, slot>>

ReadBuyer(r) ==
    /\ pc[r] = "read"
    /\ Keep(r, "count", [job[r] EXCEPT !.old = score[job[r].buyer]])
    /\ UNCHANGED <<serial, score, counted, requests, log, voted, failed>>

CountRequest(r) ==
    /\ pc[r] = "count"
    /\ counted' = [counted EXCEPT ![job[r].buyer] = @ + 1]
    /\ Goto(r, "window")
    /\ UNCHANGED <<serial, score, requests, log, voted, failed>>

CountWindow(r) ==
    /\ pc[r] = "window"
    /\ IF OfBuyer(job[r].buyer) >= BuyerLimit
       THEN Goto(r, "penalty") ELSE Keep(r, "seller", [job[r] EXCEPT !.old = 0])
    /\ UNCHANGED <<serial, score, counted, requests, log, voted, failed>>

PenaliseBuyer(r) ==
    /\ pc[r] = "penalty"
    /\ score' = [score EXCEPT ![job[r].buyer] = Lowered(job[r].old)]
    /\ Keep(r, "seller", [job[r] EXCEPT !.old = 0])
    /\ UNCHANGED <<serial, counted, requests, log, voted, failed>>

CountSeller(r) ==
    /\ pc[r] = "seller"
    /\ IF OfSeller(job[r].seller) >= SellerLimit THEN Goto(r, "overall") ELSE Close(r)
    /\ UNCHANGED <<serial, score, counted, requests, log, voted, failed>>

ReadSeller(r) ==
    /\ pc[r] = "overall"
    /\ Keep(r, "demote", [job[r] EXCEPT !.old = score[job[r].seller]])
    /\ UNCHANGED <<serial, score, counted, requests, log, voted, failed>>

DemoteSeller(r) ==
    /\ pc[r] = "demote"
    /\ score' = [score EXCEPT ![job[r].seller] = Lowered(job[r].old)]
    /\ Close(r)
    /\ UNCHANGED <<serial, counted, requests, log, voted, failed>>

(***************************************************************************)
(* Overrides and ratings.                                                  *)
(***************************************************************************)
PatchRating(r, x, to) ==
    /\ Idle(r)
    /\ Calls < MaxCalls
    /\ Keep(r, "log", [of |-> x, old |-> score[x], new |-> to])
    /\ UNCHANGED <<serial, score, counted, requests, log, voted, failed>>

LogOverride(r) ==
    /\ pc[r] = "log"
    /\ log' = [log EXCEPT ![job[r].of] = Append(@, [old |-> job[r].old, new |-> job[r].new])]
    /\ Goto(r, "patch")
    /\ UNCHANGED <<serial, score, counted, requests, voted, failed>>

WriteOverride(r) ==
    /\ pc[r] = "patch"
    /\ score' = [score EXCEPT ![job[r].of] = job[r].new]
    /\ Close(r)
    /\ UNCHANGED <<serial, counted, requests, log, voted, failed>>

\* The rating of a delivered order replaces the seller's, as often as it is given.
SubmitSellerRating(s, to) ==
    /\ serial => \A q \in Slots : pc[q] = "idle"
    /\ Calls < MaxCalls
    /\ score' = [score EXCEPT ![s] = to]
    /\ voted' = [voted EXCEPT ![s] = @ \cup {to}]
    /\ UNCHANGED <<serial, counted, requests, log, failed, slot>>

Fail(r) ==
    /\ pc[r] # "idle"
    /\ failed' = TRUE
    /\ Close(r)
    /\ UNCHANGED <<serial, score, counted, requests, log, voted>>

Next ==
    \/ \E r \in Slots, b \in Buyers, s \in Sellers : RequestReplacement(r, b, s)
    \/ \E b \in Buyers, s \in Sellers :
          Age(b, s, "month", "quarter") \/ Age(b, s, "quarter", "old")
    \/ \E r \in Slots : ReadBuyer(r) \/ CountRequest(r) \/ CountWindow(r) \/ PenaliseBuyer(r)
    \/ \E r \in Slots : CountSeller(r) \/ ReadSeller(r) \/ DemoteSeller(r)
    \/ \E r \in Slots, x \in Rated, to \in Given : PatchRating(r, x, to)
    \/ \E r \in Slots : LogOverride(r) \/ WriteOverride(r) \/ Fail(r)
    \/ \E s \in Sellers, to \in Given : SubmitSellerRating(s, to)

Spec == Init /\ [][Next]_vars

-----------------------------------------------------------------------------
\* The scores stay between 0 and 5, and the rows and the locals in their domains.
TypeOK ==
    /\ serial \in BOOLEAN /\ failed \in BOOLEAN
    /\ score \in [Rated -> Points]
    /\ counted \in [Buyers -> Nat]
    /\ requests \in [Kinds -> Nat]
    /\ log \in [Rated -> Seq(Override)]
    /\ voted \in [Sellers -> SUBSET Points]
    /\ pc \in [Slots -> Steps]
    /\ DOMAIN job = Slots
    /\ \A r \in Slots :
          /\ pc[r] = "idle" => job[r] = Free
          /\ pc[r] \in {"log", "patch"} => job[r] \in PatchJob
          /\ pc[r] \in RequestSteps => job[r] \in RequestJob

Quiet == \A r \in Slots : pc[r] = "idle"
Asked(x) == Rows({k \in Kinds : x \in {k[1], k[2]}})
Limit(x) == IF x \in Buyers THEN BuyerLimit ELSE SellerLimit
\* The requests below the limit cost nothing, unless they still run when it is reached.
Penalties(x) ==
    IF Asked(x) < Limit(x) THEN 0 ELSE IF serial THEN Asked(x) - Limit(x) + 1 ELSE Asked(x)

\* What a score may start from.
News(x) == {log[x][i].new : i \in DOMAIN log[x]}
Sources(x) == {Default} \cup News(x) \cup (IF x \in Sellers THEN voted[x] ELSE {})

\* points is from, less two points for each of at most n requests.
Explained(points, from, n) ==
    \E k \in 0 .. n : points = IF from > 2 * k THEN from - 2 * k ELSE 0

\* The count of a buyer's requests misses none, although the score that is written next
\* to it may (ratings.service.ts:189-192: one is an increment, the other a stale value).
EveryRequestCounted ==
    \A b \in Buyers : /\ counted[b] <= Asked(b)
                      /\ ~failed /\ Quiet => counted[b] = Asked(b)

\* A score is the default, a logged override or a buyer's rating, less two points for
\* each request from the limit on: no interleaving of overrides, ratings and penalties
\* invents another, nor an override that no log entry tells of (ratings.service.ts:135).
ScoreExplained ==
    \A x \in Rated : \E from \in Sources(x) : Explained(score[x], from, Penalties(x))

\* The log of a buyer reads as the history of the score when handlers do not overlap:
\* each entry starts from what the one before left, and the last one stands but for
\* later penalties (ratings.service.ts:135-148).
LogIsHistory ==
    serial /\ ~failed /\ Quiet => \A b \in Buyers :
        LET told == <<Default>> \o [i \in DOMAIN log[b] |-> log[b][i].new] IN
        /\ \A i \in DOMAIN log[b] : Explained(log[b][i].old, told[i], Penalties(b))
        /\ Explained(score[b], told[Len(told)], Penalties(b))

-----------------------------------------------------------------------------
(***************************************************************************)
(* Why these hold at every step.                                           *)
(***************************************************************************)
\* The open requests of a buyer that are not counted, and those that may still lower x.
Uncounted(b) == {r \in Slots : pc[r] \in {"read", "count"} /\ job[r].buyer = b}
Pending(x) ==
    IF x \in Buyers THEN {r \in Slots : pc[r] \in BuyerSteps /\ job[r].buyer = x}
    ELSE {r \in Slots : pc[r] \in RequestSteps /\ job[r].seller = x}

\* The requests that did lower x are no more than the others.
Spent(x) == Penalties(x) - (IF Asked(x) < Limit(x) THEN 0 ELSE Cardinality(Pending(x)))

Alone == serial => \A r, q \in Slots : pc[r] # "idle" /\ pc[q] # "idle" => r = q

RequestsCounted ==
    \A b \in Buyers :
        /\ IsFiniteSet(Uncounted(b)) /\ counted[b] + Cardinality(Uncounted(b)) <= Asked(b)
        /\ ~failed => counted[b] + Cardinality(Uncounted(b)) = Asked(b)

PendingAsked ==
    \A x \in Rated : IsFiniteSet(Pending(x)) /\ Cardinality(Pending(x)) <= Asked(x)

LimitReached ==
    \A r \in Slots :
        /\ pc[r] = "penalty" => Asked(job[r].buyer) >= BuyerLimit
        /\ pc[r] \in {"overall", "demote"} => Asked(job[r].seller) >= SellerLimit

\* So scores, and what handlers have read of them, were lowered as often as was paid for.
FromSource(x, points) == \E from \in Sources(x) : Explained(points, from, Spent(x))
ReadExplained ==
    /\ \A x \in Rated : FromSource(x, score[x])
    /\ \A r \in Slots :
          /\ pc[r] \in {"count", "window", "penalty"} => FromSource(job[r].buyer, job[r].old)
          /\ pc[r] = "demote" => FromSource(job[r].seller, job[r].old)
          /\ pc[r] = "patch" => job[r].new \in News(job[r].of)

\* What the entries of a log before the i-th left, and all of them.
Before(entries, i) == IF i = 1 THEN Default ELSE entries[i - 1].new
LeftBy(entries) == Before(entries, Len(entries) + 1)

HistoryKept ==
    serial /\ ~failed => \A b \in Buyers :
        /\ \A i \in DOMAIN log[b] : Explained(log[b][i].old, Before(log[b], i), Spent(b))
        /\ Explained(score[b], LeftBy(log[b]), Spent(b))
           \/ \E r \in Slots : pc[r] = "patch" /\ job[r].of = b
        /\ \A r \in Slots :
              /\ pc[r] \in {"count", "window", "penalty"} /\ job[r].buyer = b =>
                    Explained(job[r].old, LeftBy(log[b]), Spent(b))
              /\ pc[r] = "log" /\ job[r].of = b => job[r].old = score[b]
              /\ pc[r] = "patch" /\ job[r].of = b => job[r].new = LeftBy(log[b])

RatingsInv ==
    /\ TypeOK /\ Alone /\ RequestsCounted /\ PendingAsked /\ LimitReached
    /\ ReadExplained /\ HistoryKept
=============================================================================
