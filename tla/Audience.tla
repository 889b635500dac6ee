------------------------------ MODULE Audience ------------------------------
(***************************************************************************)
(* Who watches a stream and what they do there (StreamsGateway, the        *)
(* engagement part of StreamsService): the sockets counted in Redis, the   *)
(* likes, comments and bids kept there as one value each, and the views    *)
(* counted on the stream's row.                                            *)
(*                                                                         *)
(* The streams are live at the start, and stop.  A list is read, changed   *)
(* and written back whole.  A comment is an entry of amount 0.             *)
(***************************************************************************)
EXTENDS Naturals, Sequences, FiniteSets, FiniteSetsExt

CONSTANTS
    Streams, NoStream, Users, Sockets,
    Slots,          \* HTTP handlers that can run at one time
    Amounts,        \* what is bid
    Cap,            \* entries kept of each list, by its kind
    MaxCalls,       \* bound on the handlers started
    MaxWindows      \* bound on the ten-minute windows of a viewer that end

AudienceAssumption ==
    /\ NoStream \notin Streams
    /\ Amounts \subseteq Nat \ {0} /\ \E top \in Amounts : \A a \in Amounts : a <= top
    /\ Cap \in [{"comments", "bids"} -> Nat \ {0}]
    /\ MaxCalls \in Nat /\ MaxWindows \in Nat

VARIABLES
    serial,         \* handlers never overlap or fail, sockets keep to one stream
    live,           \* Stream.isLive
    client,         \* the sockets: state, streamId, and the rooms joined
    viewers,        \* Redis: the set of sockets of each stream
    likes,          \* Redis: the users whose like stands
    entries,        \* Redis: the comments and the bids
    views,          \* Stream.viewCount
    window,         \* Redis: the viewers counted in the last ten minutes
    summary,        \* what stopping a stream answered
    told,           \* history: the users last told that they like it, until it stops
    past,           \* history: the windows that ended
    calls, pc, job

redis == <<viewers, likes, entries, window>>
slot == <<pc, job, calls>>
vars == <<serial, live, client, redis, views, summary, told, past, slot>>

Kinds == {"comments", "bids"}
Free == [op |-> "none"]
NoSummary == [engagement |-> "none"]

Last(s, n) == IF Len(s) <= n THEN s ELSE SubSeq(s, Len(s) - n + 1, Len(s))
TopBid(s) == Max({0} \cup {entries[s].bids[i] : i \in DOMAIN entries[s].bids})
EngagementSummary(s) ==
    [likes |-> Cardinality(likes[s]), comments |-> Len(entries[s].comments),
     bids |-> Len(entries[s].bids), topBid |-> TopBid(s)]

\* What the home page shows: the live streams, each with the larger of its two counts.
ActiveList == [s \in {x \in Streams : live[x]} |-> Max({views[s], Cardinality(viewers[s])})]

Init ==
    /\ serial \in BOOLEAN
    /\ live = [s \in Streams |-> TRUE]
    /\ client = [k \in Sockets |-> [state |-> "new", stream |-> NoStream, rooms |-> {}]]
    /\ viewers = [s \in Streams |-> {}]
    /\ likes = [s \in Streams |-> {}]
    /\ entries = [s \in Streams |-> [k \in Kinds |-> <<>>]]
    /\ views = [s \in Streams |-> 0]
    /\ window = [s \in Streams |-> {}]
    /\ summary = [s \in Streams |-> NoSummary]
    /\ told = [s \in Streams |-> {}]
    /\ past = [s \in Streams |-> 0]
    /\ calls = 0
    /\ pc = [r \in Slots |-> "idle"]
    /\ job = [r \in Slots |-> Free]

-----------------------------------------------------------------------------
(***************************************************************************)
(* The sockets.  The commands of a socket reach Redis in the order they    *)
(* were sent; each may be refused.                                         *)
(***************************************************************************)
Connect(k) ==
    /\ client[k].state = "new"
    /\ client' = [client EXCEPT ![k].state = "open"]
    /\ UNCHANGED <<serial, live, redis, views, summary, told, past, slot>>

\* Joining a room leaves no other; only the last stream is remembered.
JoinRoom(k, s) ==
    /\ client[k].state = "open"
    /\ serial => client[k].stream \in {NoStream, s}
    /\ client' = [client EXCEPT ![k].stream = s, ![k].rooms = @ \cup {s}]
    /\ \/ viewers' = [viewers EXCEPT ![s] = @ \cup {k}]
       \/ ~serial /\ UNCHANGED viewers
    /\ UNCHANGED <<serial, live, likes, entries, window, views, summary, told, past, slot>>

Gone == [state |-> "gone", stream |-> NoStream, rooms |-> {}]

HandleDisconnect(k) ==
    /\ client[k].state = "open"
    /\ client' = [client EXCEPT ![k] = Gone]
    /\ LET s == client[k].stream IN
       \/ viewers' = IF s = NoStream THEN viewers ELSE [viewers EXCEPT ![s] = @ \ {k}]
       \/ ~serial /\ UNCHANGED viewers
    /\ UNCHANGED <<serial, live, likes, entries, window, views, summary, told, past, slot>>

\* The server dies with its handlers; no socket is taken from the count.
Restart ==
    /\ ~serial
    /\ client' = [k \in Sockets |-> IF client[k].state = "open" THEN Gone ELSE client[k]]
    /\ pc' = [r \in Slots |-> "idle"]
    /\ job' = [r \in Slots |-> Free]
    /\ UNCHANGED <<serial, live, redis, views, summary, told, past, calls>>

ViewersExpire(s) ==
    /\ ~serial
    /\ viewers' = [viewers EXCEPT ![s] = {}]
    /\ UNCHANGED <<serial, live, client, likes, entries, window, views, summary, told, past, slot>>

-----------------------------------------------------------------------------
(***************************************************************************)
(* The handlers.                                                           *)
(***************************************************************************)
Start(r, step, j) ==
    /\ pc[r] = "idle"
    /\ serial => \A x \in Slots : pc[x] = "idle"
    /\ calls < MaxCalls
    /\ calls' = calls + 1
    /\ pc' = [pc EXCEPT ![r] = step]
    /\ job' = [job EXCEPT ![r] = j]

At(r, step) == pc[r] = step /\ UNCHANGED <<calls, serial>>
Goto(r, step) == pc' = [pc EXCEPT ![r] = step] /\ UNCHANGED job
Done(r) == pc' = [pc EXCEPT ![r] = "idle"] /\ job' = [job EXCEPT ![r] = Free]

\* toggleLike
ReadLikes(r, s, u) ==
    /\ Start(r, "like", [op |-> "like", stream |-> s, user |-> u, likedBy |-> likes[s]])
    /\ UNCHANGED <<serial, live, client, redis, views, summary, told, past>>

Toggle(set, u) == IF u \in set THEN set \ {u} ELSE set \cup {u}

WriteLikes(r) ==
    LET j == job[r]  s == j.stream  likedBy == Toggle(j.likedBy, j.user) IN
    /\ At(r, "like")
    /\ likes' = [likes EXCEPT ![s] = likedBy]
    /\ told' = [told EXCEPT ![s] = IF j.user \in likedBy THEN @ \cup {j.user} ELSE @ \ {j.user}]
    /\ Done(r)
    /\ UNCHANGED <<live, client, viewers, entries, window, views, summary, past>>

\* addBid and addComment
ReadEntries(r, s, kind, amount) ==
    /\ kind = "comments" <=> amount = 0
    /\ Start(r, "entry", [op |-> kind, stream |-> s, amount |-> amount, list |-> entries[s][kind]])
    /\ UNCHANGED <<serial, live, client, redis, views, summary, told, past>>

PutEntries(r, list) ==
    /\ At(r, "entry")
    /\ entries' = [entries EXCEPT ![job[r].stream][job[r].op] = list]
    /\ Done(r)
    /\ UNCHANGED <<live, client, viewers, likes, window, views, summary, told, past>>

WriteEntries(r) == PutEntries(r, Last(Append(job[r].list, job[r].amount), Cap[job[r].op]))

EngagementExpires(s) ==
    /\ ~serial
    /\ \/ likes' = [likes EXCEPT ![s] = {}] /\ UNCHANGED entries
       \/ \E k \in Kinds : entries' = [entries EXCEPT ![s][k] = <<>>] /\ UNCHANGED likes
    /\ UNCHANGED <<serial, live, client, viewers, window, views, summary, told, past, slot>>

\* getJoinToken and getViewerToken: a view is counted once for a viewer in ten minutes.
GetJoinToken(r, s, u) ==
    /\ live[s]
    /\ Start(r, "window", [op |-> "view", stream |-> s, user |-> u])
    /\ UNCHANGED <<serial, live, client, redis, views, summary, told, past>>

OpenWindow(r) ==
    LET j == job[r] IN
    /\ At(r, "window")
    /\ window' = [window EXCEPT ![j.stream] = @ \cup {j.user}]
    /\ IF j.user \in window[j.stream] THEN Done(r) ELSE Goto(r, "count")
    /\ UNCHANGED <<live, client, viewers, likes, entries, views, summary, told, past>>

CountView(r) ==
    /\ At(r, "count")
    /\ views' = [views EXCEPT ![job[r].stream] = @ + 1]
    /\ Done(r)
    /\ UNCHANGED <<live, client, redis, summary, told, past>>

WindowEnds(s, u) ==
    /\ u \in window[s]
    /\ past[s] < MaxWindows
    /\ window' = [window EXCEPT ![s] = @ \ {u}]
    /\ past' = [past EXCEPT ![s] = @ + 1]
    /\ UNCHANGED <<serial, live, client, viewers, likes, entries, views, summary, told, slot>>

\* stopStream, of which the lifecycle module has the rest: the number of views is read
\* with the row, the summary before the keys are dropped.
StopStream(r, s) ==
    /\ Start(r, "end", [op |-> "stop", stream |-> s, viewCount |-> views[s]])
    /\ UNCHANGED <<serial, live, client, redis, views, summary, told, past>>

\* Mutation: the keys are dropped at once.
EndRow_ClearFirst(r) ==
    LET s == job[r].stream IN
    /\ At(r, "end")
    /\ live' = [live EXCEPT ![s] = FALSE]
    /\ likes' = [likes EXCEPT ![s] = {}]
    /\ entries' = [entries EXCEPT ![s] = [k \in Kinds |-> <<>>]]
    /\ viewers' = [viewers EXCEPT ![s] = {}]
    /\ Goto(r, "summary")
    /\ UNCHANGED <<client, window, views, summary, told, past>>

EndRow(r) ==
    /\ At(r, "end")
    /\ live' = [live EXCEPT ![job[r].stream] = FALSE]
    /\ Goto(r, "summary")
    /\ UNCHANGED <<client, redis, views, summary, told, past>>

BuildStreamEndSummary(r) ==
    LET s == job[r].stream IN
    /\ At(r, "summary")
    /\ summary' = [summary EXCEPT ![s] =
            [engagement |-> EngagementSummary(s), viewCount |-> job[r].viewCount]]
    /\ Goto(r, "clear")
    /\ UNCHANGED <<live, client, redis, views, told, past>>

ClearStreamEphemeralKeys(r) ==
    LET s == job[r].stream IN
    /\ At(r, "clear")
    /\ likes' = [likes EXCEPT ![s] = {}]
    /\ entries' = [entries EXCEPT ![s] = [k \in Kinds |-> <<>>]]
    /\ viewers' = [viewers EXCEPT ![s] = {}]
    /\ told' = [told EXCEPT ![s] = {}]
    /\ Done(r)
    /\ UNCHANGED <<live, client, window, views, summary, past>>

Fail(r) ==
    /\ ~serial
    /\ pc[r] # "idle"
    /\ Done(r)
    /\ UNCHANGED <<serial, live, client, redis, views, summary, told, past, calls>>

SocketSteps ==
    \/ \E k \in Sockets : Connect(k) \/ HandleDisconnect(k)
    \/ \E k \in Sockets, s \in Streams : JoinRoom(k, s)
    \/ \E s \in Streams : ViewersExpire(s)
EngagementSteps ==
    \/ \E r \in Slots, s \in Streams, u \in Users : ReadLikes(r, s, u)
    \/ \E r \in Slots, s \in Streams, kind \in Kinds, amount \in Amounts \cup {0} :
            ReadEntries(r, s, kind, amount)
    \/ \E r \in Slots : WriteLikes(r) \/ WriteEntries(r)
    \/ \E s \in Streams : EngagementExpires(s)
ViewSteps ==
    \/ \E r \in Slots, s \in Streams, u \in Users : GetJoinToken(r, s, u)
    \/ \E r \in Slots : OpenWindow(r) \/ CountView(r)
    \/ \E s \in Streams, u \in Users : WindowEnds(s, u)
StopSteps ==
    \/ \E r \in Slots, s \in Streams : StopStream(r, s)
    \/ \E r \in Slots :
         EndRow(r) \/ BuildStreamEndSummary(r) \/ ClearStreamEphemeralKeys(r) \/ Fail(r)
    \/ Restart

Next == SocketSteps \/ EngagementSteps \/ ViewSteps \/ StopSteps

Spec == Init /\ [][Next]_vars

-----------------------------------------------------------------------------
\* What a handler holds where it waits.
Entry == Amounts \cup {0}
Liking == [op : {"like"}, stream : Streams, user : Users, likedBy : SUBSET Users]
Entering == [op : Kinds, stream : Streams, amount : Entry, list : Seq(Entry)]
Viewing == [op : {"view"}, stream : Streams, user : Users]
Stopping == [op : {"stop"}, stream : Streams, viewCount : Nat]
JobAt(at) ==
    CASE at = "idle" -> {Free}
      [] at = "like" -> Liking
      [] at = "entry" -> Entering
      [] at \in {"window", "count"} -> Viewing
      [] OTHER -> Stopping
Steps == {"idle", "like", "entry", "window", "count", "end", "summary", "clear"}

\* The keys, the rows and the locals keep to their domains.
TypeOK ==
    /\ serial \in BOOLEAN /\ live \in [Streams -> BOOLEAN]
    /\ client \in [Sockets -> [state : {"new", "open", "gone"},
                               stream : Streams \cup {NoStream}, rooms : SUBSET Streams]]
    /\ \A k \in Sockets : client[k].state # "open" => client[k].rooms = {}
    /\ viewers \in [Streams -> SUBSET Sockets]
    /\ likes \in [Streams -> SUBSET Users] /\ told \in [Streams -> SUBSET Users]
    /\ entries \in [Streams -> [Kinds -> Seq(Entry)]]
    /\ \A s \in Streams, k \in Kinds : Len(entries[s][k]) <= Cap[k]
    /\ views \in [Streams -> Nat] /\ window \in [Streams -> SUBSET Users]
    /\ past \in [Streams -> 0 .. MaxWindows] /\ calls \in 0 .. MaxCalls
    /\ DOMAIN summary = Streams
    /\ pc \in [Slots -> Steps]
    /\ job \in [Slots -> {Free} \cup Liking \cup Entering \cup Viewing \cup Stopping]
    /\ \A r \in Slots : job[r] \in JobAt(pc[r])

Watching(s) == {k \in Sockets : client[k].state = "open" /\ client[k].stream = s}

\* A socket that is counted and still connected is in the stream's room; and while sockets
\* keep to one stream and Redis answers, the home page never shows fewer than are watching
\* nor more than are watching or were counted (streams.gateway.ts:25-47,
\* streams.service.ts:545-556).
CountIsAudience ==
    /\ \A s \in Streams : \A k \in viewers[s] : client[k].state = "open" => s \in client[k].rooms
    /\ serial => \A s \in DOMAIN ActiveList :
           ActiveList[s] = Max({views[s], Cardinality(Watching(s))})

\* The summary a step writes counts the likes its buyers were told they gave: it is built
\* before the keys are dropped, when handlers do not overlap (streams.service.ts:783-791).
KeepsTold ==
    \A s \in Streams : serial /\ summary'[s] # summary[s] =>
        summary'[s].engagement.likes = Cardinality(told[s])

\* No step lowers the top bid of a live stream before the list is full, when handlers do
\* not overlap (streams.service.ts:1190-1203).
KeepsTopBid ==
    \A s \in Streams : serial /\ live'[s] /\ Len(entries[s].bids) < Cap.bids =>
        TopBid(s)' >= TopBid(s)

\* A viewer is counted at most once in ten minutes, whatever tokens are asked for at one
\* time: the views of a stream are no more than the windows opened on it
\* (streams.service.ts:1030-1042).
Counting(s) == {r \in Slots : pc[r] = "count" /\ job[r].stream = s}
ViewsCountedOnce ==
    \A s \in Streams :
        views[s] + Cardinality(Counting(s)) <= past[s] + Cardinality(window[s])

-----------------------------------------------------------------------------
(***************************************************************************)
(* What these rest on.                                                     *)
(***************************************************************************)
\* Only a socket that came is counted, and one that is open is in the room.
SocketsCame ==
    /\ \A k \in Sockets : client[k].state = "new" => client[k].stream = NoStream
    /\ \A s \in Streams : \A k \in viewers[s] :
          client[k].state # "new" /\ (client[k].state = "open" => s \in client[k].rooms)

\* The row of a stream is ended before its keys are dropped.
RowEndsFirst == \A r \in Slots : pc[r] \in {"summary", "clear"} => ~live[job[r].stream]

FiniteCounts == \A s \in Streams : IsFiniteSet(Counting(s)) /\ IsFiniteSet(window[s])

\* Where handlers do not overlap or fail, what was read still stands when it is written back.
SerialKept ==
    /\ \A r, q \in Slots : pc[r] # "idle" /\ pc[q] # "idle" => r = q
    /\ \A s \in Streams : likes[s] = told[s] /\ (live[s] => viewers[s] = Watching(s))
    /\ \A r \in Slots :
          /\ pc[r] = "like" => job[r].likedBy = likes[job[r].stream]
          /\ pc[r] = "entry" => job[r].list = entries[job[r].stream][job[r].op]

CrowdInv ==
    /\ TypeOK /\ SocketsCame /\ RowEndsFirst /\ FiniteCounts /\ ViewsCountedOnce
    /\ serial => SerialKept
=============================================================================
