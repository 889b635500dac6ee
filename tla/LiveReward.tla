----------------------------- MODULE LiveReward -----------------------------
(***************************************************************************)
(* The reward for streaming: stopStream keeps the length of the stream,    *)
(* adds it to the total of the day, and from the days that qualify in the  *)
(* last WindowDays derives the flag that waives the seller's commission    *)
(* (StreamsService.stopStream, RatingsService.recordStreamDuration,        *)
(* getLiveRewardStatus, refreshCommissionWaiver).                          *)
(*                                                                         *)
(* One seller.  Time is counted in units of which DayLength make a day; a  *)
(* day is a calendar day in India, Offset units ahead of the clock, and is *)
(* stored as that date at midnight UTC.  Deleting a stream is left to      *)
(* StreamLifecycle.                                                        *)
(***************************************************************************)
EXTENDS Integers, FiniteSets, Functions

CONSTANTS
    Streams,
    Slots,          \* stop requests that can be open at one time
    DayLength,
    Offset,
    QualifiedTime,  \* QUALIFIED_DAY_SECONDS
    RequiredDays,   \* REWARD_DAYS_REQUIRED
    WindowDays,     \* REWARD_WINDOW_DAYS
    MaxNow,         \* bound on the clock
    MaxStops        \* bound on the stops of a behaviour

RewardAssumption ==
    /\ IsFiniteSet(Streams)
    /\ DayLength \in Nat \ {0}
    /\ Offset \in 0 .. DayLength - 1
    /\ {QualifiedTime, RequiredDays, WindowDays, MaxNow, MaxStops} \subseteq Nat \ {0}

VARIABLES
    serial,         \* requests never overlap, fixed at the start
    now,
    started,        \* Stream.startedAt, Never before
    session,        \* StreamSession.durationSeconds, Never before
    day,            \* the SellerLiveQualificationDay rows
    waiver,         \* Seller.commissionWaiverActive
    asked,          \* by stream, the stops that wrote it
    recorded,       \* by day, all the time that was to be added to it
    refreshed,      \* when the days were last counted for the flag
    failed,         \* a request ended half-way
    pc, job

slot == <<pc, job>>
stored == <<started, session, day, waiver>>
ghosts == <<asked, recorded, refreshed, failed>>
vars == <<serial, now, stored, ghosts, slot>>

Never == MaxNow + 1
Today == (now + Offset) \div DayLength         \* istDateOnly
Days == 0 .. (MaxNow + Offset) \div DayLength
Steps == {"idle", "write", "session", "read", "total", "count", "waiver"}
Free == [op |-> "none"]

\* time is the length of the stream, and later the new total of the day.
Job == [stream : Streams, since : 0 .. MaxNow, time : Nat, day : Days, reward : BOOLEAN]

NoDay == [total |-> 0, qualified |-> FALSE]

Init ==
    /\ serial \in BOOLEAN
    /\ now = 0
    /\ started = [s \in Streams |-> Never]
    /\ session = [s \in Streams |-> Never]
    /\ day = [d \in Days |-> NoDay]
    /\ waiver = FALSE
    /\ asked = [s \in Streams |-> 0]
    /\ recorded = [d \in Days |-> 0]
    /\ refreshed = Never
    /\ failed = FALSE
    /\ pc = [r \in Slots |-> "idle"]
    /\ job = [r \in Slots |-> Free]

Goto(r, step) == pc' = [pc EXCEPT ![r] = step] /\ UNCHANGED job
Keep(r, step, j) == pc' = [pc EXCEPT ![r] = step] /\ job' = [job EXCEPT ![r] = j]
Close(r) == Keep(r, "idle", Free)

Tick == now < MaxNow /\ now' = now + 1 /\ UNCHANGED <<serial, stored, ghosts, slot>>

GoLive(s) ==
    /\ started[s] = Never
    /\ started' = [started EXCEPT ![s] = now]
    /\ UNCHANGED <<serial, now, session, day, waiver, ghosts, slot>>

\* The stops that wrote a row, and those that may still.
Stops ==
    SumFunction(asked) + Cardinality({r \in Slots : pc[r] = "write"})

\* stopStream takes a stream that has already ended like any other.
StopStream(r, s) ==
    /\ pc[r] = "idle"
    /\ serial => \A q \in Slots : pc[q] = "idle"
    /\ started[s] # Never
    /\ Stops < MaxStops
    /\ Keep(r, "write", [stream |-> s, since |-> started[s], time |-> 0, day |-> 0,
                         reward |-> FALSE])
    /\ UNCHANGED <<serial, now, stored, ghosts>>

\* The row is written after the recording and the room were awaited.
WriteStop(r) ==
    /\ pc[r] = "write"
    /\ Keep(r, "session", [job[r] EXCEPT !.time = now - job[r].since])
    /\ asked' = [asked EXCEPT ![job[r].stream] = @ + 1]
    /\ UNCHANGED <<serial, now, stored, recorded, refreshed, failed>>

SaveSession(r) ==
    /\ pc[r] = "session"
    /\ session' = [session EXCEPT ![job[r].stream] = job[r].time]
    /\ IF job[r].time > 0 THEN Goto(r, "read") ELSE Close(r)
    /\ UNCHANGED <<serial, now, started, day, waiver, ghosts>>

\* Mutation: the day starts from this stream alone.
ReadDay_Forget(r) ==
    /\ pc[r] = "read"
    /\ Keep(r, "total", [job[r] EXCEPT !.day = Today])
    /\ recorded' = [recorded EXCEPT ![Today] = @ + job[r].time]
    /\ UNCHANGED <<serial, now, stored, asked, refreshed, failed>>

ReadDay(r) ==
    /\ pc[r] = "read"
    /\ Keep(r, "total", [job[r] EXCEPT !.day = Today, !.time = @ + day[Today].total])
    /\ recorded' = [recorded EXCEPT ![Today] = @ + job[r].time]
    /\ UNCHANGED <<serial, now, stored, asked, refreshed, failed>>

WriteDay(r) ==
    /\ pc[r] = "total"
    /\ day' = [day EXCEPT ![job[r].day] = [total |-> job[r].time,
                                           qualified |-> job[r].time >= QualifiedTime]]
    /\ Goto(r, "count")
    /\ UNCHANGED <<serial, now, started, session, waiver, ghosts>>

\* The dates on or after this time of day, WindowDays ago.
QualifiedDays ==
    Cardinality({d \in Days : day[d].qualified /\ d * DayLength + WindowDays * DayLength >= now})

RewardActive == QualifiedDays >= RequiredDays

CountDays(r) ==
    /\ pc[r] = "count"
    /\ Keep(r, "waiver", [job[r] EXCEPT !.reward = RewardActive])
    /\ refreshed' = now
    /\ UNCHANGED <<serial, now, stored, asked, recorded, failed>>

WriteWaiver(r) ==
    /\ pc[r] = "waiver"
    /\ waiver' = job[r].reward
    /\ Close(r)
    /\ UNCHANGED <<serial, now, started, session, day, ghosts>>

Fail(r) ==
    /\ pc[r] # "idle"
    /\ failed' = TRUE
    /\ Close(r)
    /\ UNCHANGED <<serial, now, stored, asked, recorded, refreshed>>

Next ==
    \/ Tick
    \/ \E s \in Streams : GoLive(s)
    \/ \E r \in Slots, s \in Streams : StopStream(r, s)
    \/ \E r \in Slots : WriteStop(r) \/ SaveSession(r) \/ ReadDay(r) \/ WriteDay(r)
    \/ \E r \in Slots : CountDays(r) \/ WriteWaiver(r) \/ Fail(r)

Spec == Init /\ [][Next]_vars

-----------------------------------------------------------------------------
\* The rows and the locals keep to their domains.
TypeOK ==
    /\ serial \in BOOLEAN /\ waiver \in BOOLEAN /\ failed \in BOOLEAN
    /\ now \in 0 .. MaxNow /\ refreshed \in 0 .. Never
    /\ started \in [Streams -> 0 .. Never]
    /\ session \in [Streams -> 0 .. Never]
    /\ day \in [Days -> [total : Nat, qualified : BOOLEAN]]
    /\ asked \in [Streams -> Nat]
    /\ recorded \in [Days -> Nat]
    /\ pc \in [Slots -> Steps]
    /\ DOMAIN job = Slots
    /\ \A r \in Slots : IF pc[r] = "idle" THEN job[r] = Free ELSE job[r] \in Job

Quiet == \A r \in Slots : pc[r] = "idle"
StoppedOnce == \A s \in Streams : asked[s] <= 1
DaysTotal == SumFunction([d \in Days |-> day[d].total])
SessionsTotal == SumFunctionOnSet(session, {s \in Streams : session[s] # Never})

\* While no stream is stopped twice the days hold no more time than the sessions that
\* were streamed, however requests overlap or fail; and exactly that much when they do
\* neither: the two tables stopStream keeps agree (streams.service.ts:783-793).
TimeIsStreamed ==
    StoppedOnce =>
        /\ DaysTotal <= SessionsTotal
        /\ serial /\ ~failed /\ Quiet => DaysTotal = SessionsTotal

\* RequiredDays qualified days in one window, as it was at some time.
Earned ==
    \E t \in 0 .. now :
        RequiredDays <= Cardinality({d \in Days : /\ recorded[d] >= QualifiedTime
                                                  /\ (d + WindowDays) * DayLength >= t
                                                  /\ d * DayLength <= t + Offset})

\* Commission is waived only for a seller who had RequiredDays qualified days in one
\* window (ratings.service.ts:313-319), whatever was lost or overwritten meanwhile.
WaiverEarned == waiver => Earned

\* The flag getPricingPreview charges by and the reward getLiveRewardStatus shows agree
\* at the moment of a stop, when stops do not overlap (ratings.service.ts:308-309).
FlagFresh == serial /\ ~failed /\ Quiet /\ refreshed = now => waiver = RewardActive

-----------------------------------------------------------------------------
(***************************************************************************)
(* Why these hold at every step.                                           *)
(***************************************************************************)
Alone == serial => \A r, q \in Slots : pc[r] # "idle" /\ pc[q] # "idle" => r = q

\* The clock does not go back.
Past ==
    /\ \A s \in Streams : started[s] # Never => started[s] <= now
    /\ \A r \in Slots : /\ pc[r] # "idle" => job[r].since <= now
                        /\ pc[r] \in {"session", "read"} => job[r].time <= MaxNow
    /\ refreshed # Never => refreshed <= now
    /\ \A d \in Days : recorded[d] > 0 => d * DayLength <= now + Offset

\* A stream that is stopped once has one handler between its row and its day.
OneSession ==
    \A s \in Streams : asked[s] <= 1 =>
        /\ asked[s] = 0 => session[s] = Never
        /\ \A r, q \in Slots :
              /\ pc[r] \in {"session", "read"} /\ job[r].stream = s
              /\ pc[q] \in {"session", "read"} /\ job[q].stream = s
              => r = q
        /\ \A r \in Slots : pc[r] \in {"session", "read"} /\ job[r].stream = s =>
              asked[s] = 1 /\ session[s] = IF pc[r] = "read" THEN job[r].time ELSE Never

\* What of a session is on its way to a day, or there.
Passed(s) ==
    IF session[s] = Never \/ \E r \in Slots : pc[r] = "read" /\ job[r].stream = s
    THEN 0 ELSE session[s]
SessionsPassed ==
    StoppedOnce =>
        LET given == SumFunction(recorded)
            passed == SumFunction([s \in Streams |-> Passed(s)])
        IN  given <= passed /\ (~failed => given = passed)

DaysRecorded ==
    /\ \A d \in Days : day[d].total <= recorded[d]
                       /\ (day[d].qualified => recorded[d] >= QualifiedTime)
    /\ \A r \in Slots : pc[r] = "total" => job[r].time <= recorded[job[r].day]
    /\ serial /\ ~failed =>
          /\ \A d \in Days :
                day[d].total = recorded[d] \/ \E r \in Slots : pc[r] = "total" /\ job[r].day = d
          /\ \A r \in Slots : pc[r] = "total" => job[r].time = recorded[job[r].day]

FlagDerived ==
    /\ waiver => Earned
    /\ \A r \in Slots : pc[r] = "waiver" /\ job[r].reward => Earned
    /\ serial /\ ~failed /\ refreshed = now =>
          /\ waiver = RewardActive \/ \E r \in Slots : pc[r] \in {"count", "waiver"}
          /\ \A r \in Slots : pc[r] = "waiver" => job[r].reward = RewardActive

RewardInv ==
    /\ TypeOK /\ Alone /\ Past /\ OneSession /\ SessionsPassed /\ DaysRecorded /\ FlagDerived
=============================================================================
