----------------------------- MODULE LiveAlerts -----------------------------
(***************************************************************************)
(* Who is told that a stream is about to start, has started or has ended:  *)
(* the cron of ScheduledLiveReminderService, BuyerLiveBroadcastService,    *)
(* the batches of FirebasePushService, and the registration of devices.    *)
(*                                                                         *)
(* Time is counted in minutes, the period of the cron.  The cron does not  *)
(* wait for its last run.  A message is only told apart by its stream and  *)
(* by whether it is the reminder.                                          *)
(***************************************************************************)
EXTENDS Naturals, FiniteSets

CONSTANTS
    Streams, Users, Tokens, NoUser,
    HostOf,         \* the user of each stream's seller
    Profiles,       \* "seller" and "buyer" profiles and the role "BUYER" of each user
    Slots,          \* runs and broadcasts that can be open at one time
    Window,         \* minutes around the scheduled time, 2 in the code
    BatchSize,      \* devices of a multicast, 500 in the code
    MaxNow,         \* bound on the clock
    MaxMoves        \* bound on registrations, new times and broadcasts

\* The cron comes round within the window, and hosts are users.
AlertsAssumption ==
    /\ Window \in Nat \ {0} /\ MaxNow \in Nat /\ MaxMoves \in Nat
    /\ HostOf \in [Streams -> Users]
    /\ NoUser \notin Users

VARIABLES
    serial,         \* runs end within their minute and nothing fails, fixed at the start
    now, cron,      \* the clock, and the last minute the cron fired
    row,            \* isLive and endedAt, startedAt, goLiveReminderSentAt; and as history
                    \* the minute in which startedAt was set
    device,         \* UserPushDevice: the user of each token
    owned,          \* history: the users each token was registered for
    told,           \* history: the reminders a token got of each stream, up to two
    reached,        \* history: the tokens that got a buyer message about each stream
    moves, pc, job

slot == <<pc, job>>
history == <<owned, told, reached>>
vars == <<serial, now, cron, row, device, history, moves, slot>>

NoTime == MaxNow + 1
Free == [op |-> "none"]
States == {"scheduled", "live", "ended"}

\* getBuyerLiveAudienceFcmTokens: buyers, whatever else they are, but the host.
Hears(u, s) ==
    /\ ~("seller" \in Profiles[u] /\ "buyer" \notin Profiles[u])
    /\ Profiles[u] \cap {"buyer", "BUYER"} # {}
    /\ u # HostOf[s]

AudienceTokens(s) == {t \in Tokens : device[t] # NoUser /\ Hears(device[t], s)}
HostTokens(s) == {t \in Tokens : device[t] = HostOf[s]}

Init ==
    /\ serial \in BOOLEAN
    /\ now = 0 /\ cron = NoTime
    /\ row \in [Streams -> [state : {"scheduled"}, at : 0 .. MaxNow, sentAt : {NoTime},
                           setAt : {0}]]
    /\ device \in [Tokens -> Users \cup {NoUser}]
    /\ owned = [t \in Tokens |-> {device[t]} \ {NoUser}]
    /\ told = [s \in Streams |-> [t \in Tokens |-> 0]]
    /\ reached = [s \in Streams |-> {}]
    /\ moves = 0
    /\ pc = [r \in Slots |-> "idle"]
    /\ job = [r \in Slots |-> Free]

Quiet == \A r \in Slots : pc[r] = "idle"
Begin(r, step, j) == pc[r] = "idle" /\ pc' = [pc EXCEPT ![r] = step] /\ job' = [job EXCEPT ![r] = j]
Keep(r, step, j) == pc' = [pc EXCEPT ![r] = step] /\ job' = [job EXCEPT ![r] = j]
Done(r) == Keep(r, "idle", Free)

Tick ==
    /\ now < MaxNow
    /\ serial => Quiet /\ cron = now
    /\ now' = now + 1
    /\ UNCHANGED <<serial, cron, row, device, history, moves, slot>>

\* registerPushDevice: a token belongs to the user who registered it last.
RegisterPushDevice(u, t) ==
    /\ moves < MaxMoves
    /\ moves' = moves + 1
    /\ device' = [device EXCEPT ![t] = u]
    /\ owned' = [owned EXCEPT ![t] = @ \cup {u}]
    /\ UNCHANGED <<serial, now, cron, row, told, reached, slot>>

\* PATCH scheduledAt takes any date, one that is over too, and leaves
\* goLiveReminderSentAt alone.  Nothing here reads the date of a stream that has started.
Reschedule(s, at) ==
    /\ moves < MaxMoves
    /\ moves' = moves + 1
    /\ row[s].state = "scheduled"
    /\ row' = [row EXCEPT ![s].at = at, ![s].setAt = now]
    /\ UNCHANGED <<serial, now, cron, device, history, slot>>

\* notifyBuyersSellerWentLive and notifyBuyersLiveEnded, in the background.
Broadcast(r, s) ==
    /\ moves < MaxMoves
    /\ moves' = moves + 1
    /\ row[s].state \in {"scheduled", "live"}
    /\ row' = [row EXCEPT ![s].state = IF @ = "scheduled" THEN "live" ELSE "ended"]
    /\ Begin(r, "audience", [op |-> "broadcast", due |-> {}, stream |-> s, left |-> {}, on |-> now])
    /\ UNCHANGED <<serial, now, cron, device, history>>

-----------------------------------------------------------------------------
(***************************************************************************)
(* A run of the cron.                                                      *)
(***************************************************************************)
InWindow(time, s) == row[s].at <= time + Window /\ time <= row[s].at + Window
Due == {s \in Streams : row[s].state = "scheduled" /\ row[s].sentAt = NoTime /\ InWindow(now, s)}

SendDueReminders(r) ==
    /\ cron # now
    /\ serial => Quiet
    /\ cron' = now
    /\ Begin(r, "next", [op |-> "run", due |-> Due, on |-> now])
    /\ UNCHANGED <<serial, now, row, device, history, moves>>

\* The streams are those read at the start, whatever became of them.
NextStream(r, s) ==
    /\ pc[r] = "next"
    /\ s \in job[r].due
    /\ Keep(r, IF HostTokens(s) = {} THEN "audience" ELSE "host",
            [op |-> "run", due |-> job[r].due \ {s}, stream |-> s, left |-> {}, on |-> job[r].on])
    /\ UNCHANGED <<serial, now, cron, row, device, history, moves>>

EndRun(r) ==
    /\ pc[r] = "next"
    /\ job[r].due = {}
    /\ Done(r)
    /\ UNCHANGED <<serial, now, cron, row, device, history, moves>>

\* A seller who could not be reached is tried again by the next run.
PushHost(r) ==
    /\ pc[r] = "host"
    /\ \/ Keep(r, "audience", job[r])
       \/ ~serial /\ Keep(r, "next", [op |-> "run", due |-> job[r].due, on |-> job[r].on])
    /\ UNCHANGED <<serial, now, cron, row, device, history, moves>>

\* Buyers who could not be reached are given up.
AfterAudience(r) ==
    IF job[r].op = "run" THEN Keep(r, "mark", [job[r] EXCEPT !.left = {}]) ELSE Done(r)

ReadAudience(r) ==
    /\ pc[r] = "audience"
    /\ LET tokens == AudienceTokens(job[r].stream) IN
       \/ tokens # {} /\ Keep(r, "batch", [job[r] EXCEPT !.left = tokens])
       \/ tokens = {} /\ AfterAudience(r)
       \/ ~serial /\ AfterAudience(r)
    /\ UNCHANGED <<serial, now, cron, row, device, history, moves>>

\* Mutation: only the first multicast is sent.
PushBatch_First(r, batch) ==
    LET s == job[r].stream IN
    /\ pc[r] = "batch"
    /\ batch \subseteq job[r].left
    /\ Cardinality(batch) = BatchSize \/ batch = job[r].left
    /\ reached' = [reached EXCEPT ![s] = @ \cup batch]
    /\ told' = IF job[r].op # "run" THEN told
               ELSE [told EXCEPT ![s] = [t \in Tokens |-> IF t \in batch THEN 1 ELSE @[t]]]
    /\ AfterAudience(r)
    /\ UNCHANGED <<serial, now, cron, row, device, owned, moves>>

\* sendToTokensBatched: one multicast after the other, and some devices of one may be
\* missed without an error.
PushBatch(r, batch) ==
    LET s == job[r].stream  rest == job[r].left \ batch IN
    /\ pc[r] = "batch"
    /\ batch \subseteq job[r].left
    /\ Cardinality(batch) = BatchSize \/ (Cardinality(batch) < BatchSize /\ rest = {})
    /\ \E got \in IF serial THEN {batch} ELSE SUBSET batch :
         /\ reached' = [reached EXCEPT ![s] = @ \cup got]
         /\ told' = IF job[r].op # "run" THEN told
                    ELSE [told EXCEPT ![s] = [t \in Tokens |->
                            IF t \in got /\ @[t] < 2 THEN @[t] + 1 ELSE @[t]]]
         /\ \/ rest # {} /\ Keep(r, "batch", [job[r] EXCEPT !.left = rest])
            \/ rest = {} /\ AfterAudience(r)
            \/ ~serial /\ AfterAudience(r)
    /\ UNCHANGED <<serial, now, cron, row, device, owned, moves>>

Mark(r) ==
    /\ pc[r] = "mark"
    /\ row' = [row EXCEPT ![job[r].stream].sentAt = job[r].on]
    /\ Keep(r, "next", [op |-> "run", due |-> job[r].due, on |-> job[r].on])
    /\ UNCHANGED <<serial, now, cron, device, history, moves>>

\* A rejected query ends the run with the streams it had left, as does the process.
Fail(r) ==
    /\ ~serial
    /\ pc[r] # "idle"
    /\ Done(r)
    /\ UNCHANGED <<serial, now, cron, row, device, history, moves>>

Next ==
    \/ Tick
    \/ \E u \in Users, t \in Tokens : RegisterPushDevice(u, t)
    \/ \E s \in Streams, at \in 0 .. MaxNow : Reschedule(s, at)
    \/ \E r \in Slots, s \in Streams : Broadcast(r, s) \/ NextStream(r, s)
    \/ \E r \in Slots : \/ SendDueReminders(r) \/ EndRun(r) \/ PushHost(r) \/ ReadAudience(r)
                        \/ Mark(r) \/ Fail(r)
    \/ \E r \in Slots, batch \in SUBSET Tokens : PushBatch(r, batch)

Spec == Init /\ [][Next]_vars

-----------------------------------------------------------------------------
\* A run between two streams; and a run or a broadcast that is about a stream.
RunJob == [op : {"run"}, due : SUBSET Streams, on : 0 .. MaxNow]
TellJob == [op : {"run", "broadcast"}, due : SUBSET Streams, stream : Streams,
            left : SUBSET Tokens, on : 0 .. MaxNow]

\* The rows, the devices and the locals keep to their domains.
TypeOK ==
    /\ serial \in BOOLEAN /\ now \in 0 .. MaxNow /\ cron \in 0 .. NoTime /\ moves \in 0 .. MaxMoves
    /\ row \in [Streams -> [state : States, at : 0 .. MaxNow, sentAt : 0 .. NoTime,
                       setAt : 0 .. MaxNow]]
    /\ device \in [Tokens -> Users \cup {NoUser}] /\ owned \in [Tokens -> SUBSET Users]
    /\ told \in [Streams -> [Tokens -> 0 .. 2]] /\ reached \in [Streams -> SUBSET Tokens]
    /\ pc \in [Slots -> {"idle", "next", "host", "audience", "batch", "mark"}]
    /\ job \in [Slots -> RunJob \cup TellJob \cup {Free}]
    /\ \A r \in Slots :
         /\ pc[r] = "idle" => job[r] = Free
         /\ pc[r] = "next" => job[r] \in RunJob
         /\ pc[r] \notin {"idle", "next"} =>
               job[r] \in TellJob /\ (pc[r] = "batch" <=> job[r].left # {})
         /\ pc[r] \in {"host", "mark"} => job[r].op = "run"

\* A reminder sent in that minute is of the time the stream has now, or from before it was
\* moved there.
Timely(time, s) == time <= row[s].setAt \/ InWindow(time, s)

\* No device gets the reminder of a stream twice, whoever registers it meanwhile and
\* whatever time the stream is moved to, when runs do not overlap and nothing fails
\* (scheduled-live-reminder.service.ts:118-121).
RemindedOnce == serial => \A s \in Streams, t \in Tokens : told[s][t] < 2

\* A stream that was marked as reminded of was announced to every device of a buyer, in
\* however many batches, when nothing fails and no device or stream is moved
\* (firebase-push.service.ts:91-97).
AllReminded ==
    serial => \A s \in Streams, t \in Tokens :
        /\ row[s].sentAt # NoTime
        /\ moves = 0 /\ device[t] # NoUser /\ Hears(device[t], s)
        => told[s][t] = 1

\* When the cron fires every minute and nothing fails, no planned time passes without a
\* reminder that was sent in its window, which is wider than the period of the cron; but
\* for a time that was over, or whose window was closing, when a PATCH set it, and for a
\* stream already marked by then: no reminder of a new time goes out after one of the old
\* (scheduled-live-reminder.service.ts:37-46, streams.service.ts:716-718).
NoneMissed ==
    serial => \A s \in Streams :
        /\ row[s].state = "scheduled"
        /\ row[s].setAt < row[s].at + Window
        /\ row[s].at + Window < now
        => /\ row[s].sentAt # NoTime
           /\ Timely(row[s].sentAt, s)

\* A buyers' message about a stream only reaches devices that were some buyer's at some
\* time, and not only the host's, although a device may change hands between the look-up
\* and the multicast (buyer-live-broadcast.service.ts:32-51).
OnlyBuyersReached ==
    \A s \in Streams : \A t \in reached[s] : \E u \in owned[t] : Hears(u, s)

-----------------------------------------------------------------------------
(***************************************************************************)
(* What these rest on.                                                     *)
(***************************************************************************)
Running(r) == pc[r] # "idle" /\ job[r].op = "run"
About(r, s) == pc[r] \notin {"idle", "next"} /\ job[r].op = "run" /\ job[r].stream = s
Untold(s) == \A t \in Tokens : told[s][t] = 0

\* Whoever is to be told was a buyer when it was looked up, and its device remembers.
BuyersListed ==
    /\ \A t \in Tokens : device[t] # NoUser => device[t] \in owned[t]
    /\ \A r \in Slots : pc[r] = "batch" =>
          \A t \in job[r].left : \E u \in owned[t] : Hears(u, job[r].stream)

\* What a serial run knows: the streams it has left are unannounced and in their window,
\* unless moved in this minute, the devices left of the one it is about have not been
\* told, and those no longer left have.
RunKnows(r) ==
    /\ job[r].on = now /\ cron = now
    /\ \A s \in job[r].due : row[s].sentAt = NoTime /\ Untold(s) /\ Timely(now, s)
    /\ \A s \in Streams : About(r, s) =>
          /\ Timely(now, s)
          /\ s \notin job[r].due /\ row[s].sentAt = NoTime
          /\ pc[r] \in {"host", "audience"} => Untold(s)
          /\ pc[r] = "batch" => \A t \in job[r].left : told[s][t] = 0
          /\ pc[r] \in {"batch", "mark"} /\ moves = 0 =>
                \A t \in AudienceTokens(s) \ job[r].left : told[s][t] = 1

\* A stream that is not marked is unannounced or being announced; and in the last minute
\* of a window that its time was set in time for, once the cron has fired, a run has it on
\* its list.
Awaited(s) ==
    row[s].sentAt = NoTime =>
        /\ Untold(s) \/ \E r \in Slots : About(r, s)
        /\ row[s].state = "scheduled" /\ row[s].setAt < row[s].at + Window =>
              /\ now <= row[s].at + Window
              /\ now = row[s].at + Window /\ cron = now =>
                    \E r \in Slots : Running(r) /\ (About(r, s) \/ s \in job[r].due)

\* A mark is from a minute that has begun.
Marked(s) == row[s].sentAt # NoTime => row[s].sentAt <= now /\ Timely(row[s].sentAt, s)

SerialKept ==
    serial =>
        /\ \A q, r \in Slots : Running(q) /\ Running(r) => q = r
        /\ \A r \in Slots : Running(r) => RunKnows(r)
        /\ \A s \in Streams : Awaited(s) /\ Marked(s)
=============================================================================
