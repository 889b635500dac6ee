-------------------------- MODULE StreamLifecycle --------------------------
(***************************************************************************)
(* The life of a stream row: StreamsService, its two cron jobs, the        *)
(* LiveKit webhook and the recordings LiveKit makes of the room.           *)
(*                                                                         *)
(* A handler reads the row, awaits LiveKit, and updates or deletes the row *)
(* by id whatever it has become; the start of a recording is not awaited   *)
(* and goes on after the answer, in the slot of the handler.  A crash is   *)
(* every open handler failing.  The cron jobs treat the streams they list  *)
(* one by one, so a slot stands for one stream of a list.  Times are kept  *)
(* as what the code compares them with: see Ages and Beats.                *)
(***************************************************************************)
EXTENDS Naturals

CONSTANTS
    Streams,
    Slots,          \* requests, webhooks and cron jobs that can be open at one time
    Egresses,       \* recordings LiveKit makes; none when recording is not configured
    NoEgress

ASSUME StreamAssumption == NoEgress \notin Egresses

VARIABLES
    serial,         \* streams whose handlers never overlap, fixed at the start
    row,            \* the Stream rows
    take,           \* the recordings of LiveKit
    spoiled,        \* streams with a recording whose id was lost or that did not stop
    pc, job         \* what each slot waits for, and its locals

slot == <<pc, job>>
vars == <<serial, row, take, spoiled, pc, job>>

\* startedAt, planned or real: more than EARLY_MS ahead; then, until the two minutes
\* of the clean-up are over; until the 8 hours of the sweep are; and after.
\* The start window closes somewhere in "missed", at LATE_MS.
Ages == {"far", "near", "missed", "old"}

Older == [far |-> "near", near |-> "missed", missed |-> "old"]

\* sellerLiveHeartbeatAt: null, or within the last five minutes, or before.
Beats == {"none", "fresh", "stale"}

Replays == {"NONE", "RECORDING", "READY", "FAILED"}

Unborn == [is |-> "unborn"]
Lapsed == [is |-> "lapsed"]         \* deleted by the clean-up
Removed == [is |-> "removed"]       \* deleted by anybody else

\* told counts the pushes to buyers; buyersNotifiedAt is null as long as it is 0.
\* broadcastStartedAt, which only lists read, is left out.
Row == [is : {"row"}, live : BOOLEAN, ended : BOOLEAN, start : Ages, beat : Beats,
        room : BOOLEAN, egress : Egresses \cup {NoEgress}, replay : Replays,
        told : Nat]
Fresh == [is |-> "row", live |-> FALSE, ended |-> FALSE, start |-> "near", beat |-> "none",
          room |-> FALSE, egress |-> NoEgress, replay |-> "NONE", told |-> 0]
Exists(s) == row[s].is = "row"

\* A recording ends and is then reported by a webhook.
Unused == [state |-> "unused"]
Take == [state : {"running", "ended", "reported"}, of : Streams]

Handlers == {"create", "start", "stop", "patch", "remove", "missed", "sweep", "mark"}
Steps == {"room", "write", "record", "keep", "finalize", "delete", "live", "show", "tell"}
Free == [op |-> "none"]

\* replay is what finalizeLiveRecordingAndRoom found, NONE when it patches nothing;
\* to is the isLive of a PATCH.
Job == [op : Handlers, stream : Streams, egress : Egresses \cup {NoEgress},
        replay : Replays, to : BOOLEAN]

Init ==
    /\ serial \in SUBSET Streams
    /\ row = [s \in Streams |-> Unborn]
    /\ take = [e \in Egresses |-> Unused]
    /\ spoiled = {}
    /\ pc = [r \in Slots |-> "idle"]
    /\ job = [r \in Slots |-> Free]

Recording == Egresses # {}          \* isReplayRecordingConfigured

\* The slots of a stream that is serial are taken one at a time.
MayOpen(s) == s \in serial => \A q \in Slots : pc[q] # "idle" => job[q].stream # s

Begin(r, s, op, egress, to, at) ==
    /\ pc[r] = "idle"
    /\ MayOpen(s)
    /\ pc' = [pc EXCEPT ![r] = at]
    /\ job' = [job EXCEPT ![r] = [op |-> op, stream |-> s, egress |-> egress,
                                  replay |-> "NONE", to |-> to]]

\* A handler that has read row s and goes on to step at.
Read(r, s, op, to, at) ==
    /\ Exists(s)
    /\ Begin(r, s, op, row[s].egress, to, at)
    /\ UNCHANGED <<serial, row, take, spoiled>>

Goto(r, at) == pc' = [pc EXCEPT ![r] = at] /\ UNCHANGED job

Close(r) ==
    /\ pc' = [pc EXCEPT ![r] = "idle"]
    /\ job' = [job EXCEPT ![r] = Free]

At(r, ops, step) == pc[r] = step /\ job[r].op \in ops
Of(r) == job[r].stream

\* The update of row Of(r) to q, and on to step at; without a row it throws.
Update(r, q, at) ==
    IF Exists(Of(r))
    THEN row' = [row EXCEPT ![Of(r)] = q] /\ (IF at = "idle" THEN Close(r) ELSE Goto(r, at))
    ELSE UNCHANGED row /\ Close(r)

(***************************************************************************)
(* Planning and going live.                                                *)
(***************************************************************************)
Schedule(s) ==
    /\ row[s] = Unborn
    /\ \E at \in {"far", "near"} : row' = [row EXCEPT ![s] = [Fresh EXCEPT !.start = at]]
    /\ UNCHANGED <<serial, take, spoiled>> /\ UNCHANGED slot

\* create inserts the row live before it asks LiveKit for a room.
Create(r, s) ==
    /\ row[s] = Unborn
    /\ row' = [row EXCEPT ![s] = [Fresh EXCEPT !.live = TRUE, !.beat = "fresh"]]
    /\ Begin(r, s, "create", NoEgress, TRUE, "room")
    /\ UNCHANGED <<serial, take, spoiled>>

StartScheduled(r, s) ==
    /\ Exists(s)
    /\ ~row[s].live /\ ~row[s].ended
    /\ row[s].start \in {"near", "missed"}
    /\ ~row[s].room
    /\ Read(r, s, "start", TRUE, "room")

CreateRoom(r) ==
    /\ At(r, {"create", "start"}, "room")
    /\ Goto(r, "write")
    /\ UNCHANGED <<serial, row, take, spoiled>>

\* LiveKit or the update fails: create deletes its row, and if that fails too
\* leaves it; startScheduledStream only throws.
StartFails(r) ==
    /\ At(r, {"create", "start"}, "room") \/ At(r, {"create", "start"}, "write")
    /\ \/ job[r].op = "create" /\ Exists(Of(r)) /\ row' = [row EXCEPT ![Of(r)] = Removed]
       \/ UNCHANGED row
    /\ Close(r)
    /\ UNCHANGED <<serial, take, spoiled>>

AfterStart == IF Recording THEN "record" ELSE "idle"

WriteRoom(r) ==
    /\ At(r, {"create"}, "write")
    /\ Update(r, [row[Of(r)] EXCEPT !.room = TRUE], AfterStart)
    /\ UNCHANGED <<serial, take, spoiled>>

WriteStarted(r) ==
    /\ At(r, {"start"}, "write")
    /\ Update(r, [row[Of(r)] EXCEPT !.live = TRUE, !.start = "near", !.beat = "fresh",
                                    !.room = TRUE], AfterStart)
    /\ UNCHANGED <<serial, take, spoiled>>

(***************************************************************************)
(* Recording.                                                              *)
(***************************************************************************)
\* startRoomRecording; the answer may be lost or an error.
StartEgress(r) ==
    /\ At(r, {"create", "start", "mark"}, "record")
    /\ \E e \in Egresses :
          /\ take[e] = Unused
          /\ take' = [take EXCEPT ![e] = [state |-> "running", of |-> Of(r)]]
          /\ \/ /\ job' = [job EXCEPT ![r].egress = e]
                /\ pc' = [pc EXCEPT ![r] = "keep"]
                /\ UNCHANGED spoiled
             \/ /\ spoiled' = spoiled \cup {Of(r)}
                /\ Close(r)
    /\ UNCHANGED <<serial, row>>

\* tryStartStreamRecording writes the id by stream id, and swallows a failure.
KeepEgress(r) ==
    /\ pc[r] = "keep"
    /\ LET s == Of(r)
           e == job[r].egress
       IN  \/ /\ Exists(s)
              /\ row' = [row EXCEPT ![s].egress = e, ![s].replay = "RECORDING"]
              /\ UNCHANGED spoiled
           \/ /\ spoiled' = spoiled \cup {s}
              /\ UNCHANGED row
    /\ Close(r)
    /\ UNCHANGED <<serial, take>>

\* A recording ends: its room is empty or gone, or it failed.
EgressEnds(e) ==
    /\ take[e].state = "running"
    /\ take' = [take EXCEPT ![e].state = "ended"]
    /\ UNCHANGED <<serial, row, spoiled>> /\ UNCHANGED slot

\* The webhook egress_ended: written to the room's stream whatever it records now.
EgressEnded(e) ==
    /\ take[e].state = "ended"
    /\ MayOpen(take[e].of)
    /\ take' = [take EXCEPT ![e].state = "reported"]
    /\ LET s == take[e].of
       IN  IF Exists(s)
           THEN \E found \in {row[s].replay, "READY", "FAILED"} :
                   row' = [row EXCEPT ![s].egress = NoEgress, ![s].replay = found]
           ELSE UNCHANGED row
    /\ UNCHANGED <<serial, spoiled>> /\ UNCHANGED slot

\* Mutation: the public URL counts as a replay though nothing was recorded.
Found_Optimistic(e) == IF Recording THEN {"READY", "FAILED"} ELSE {"NONE"}

\* What finalizeLiveRecordingAndRoom makes of an egress id that stops.
Found(e) ==
    IF e # NoEgress THEN {"READY", "FAILED"}
    ELSE IF Recording THEN {"FAILED"} ELSE {"NONE"}

\* The recording named by the row that was read is stopped and the room deleted; a
\* failure of either is swallowed.
Finalize(r) ==
    /\ pc[r] = "finalize"
    /\ LET e == job[r].egress
       IN  \/ /\ \E found \in Found(e) : job' = [job EXCEPT ![r].replay = found]
              /\ take' = IF e # NoEgress /\ take[e].state = "running"
                         THEN [take EXCEPT ![e].state = "ended"] ELSE take
              /\ UNCHANGED spoiled
           \/ /\ e # NoEgress
              /\ job' = [job EXCEPT ![r].replay = "FAILED"]
              /\ spoiled' = spoiled \cup {Of(r)}
              /\ UNCHANGED take
    /\ pc' = [pc EXCEPT ![r] = IF job[r].op = "remove" THEN "delete" ELSE "write"]
    /\ UNCHANGED <<serial, row>>

(***************************************************************************)
(* Ending.                                                                 *)
(***************************************************************************)
\* stopStream asks for no status.
Stop(r, s) == Read(r, s, "stop", FALSE, "finalize")

\* update with isLive: only FALSE on a row read as live ends the stream.
Patch(r, s, to) ==
    /\ Exists(s)
    /\ Read(r, s, "patch", to, IF row[s].live /\ ~to THEN "finalize" ELSE "live")

Remove(r, s) == Read(r, s, "remove", FALSE, "finalize")

Live(q) == q.is = "row" /\ q.live /\ ~q.ended

\* What sweepZombieLiveStreams lists.  Without a heartbeat five minutes are enough.
Zombie(q) ==
    /\ Live(q)
    /\ q.beat = "stale" \/ q.start = "old" \/ (q.beat = "none" /\ q.start = "missed")

Sweep(r, s) == Zombie(row[s]) /\ Read(r, s, "sweep", FALSE, "finalize")

Patched(r, q) ==
    [q EXCEPT !.egress = IF job[r].egress # NoEgress THEN NoEgress ELSE @,
              !.replay = IF job[r].replay # "NONE" THEN job[r].replay ELSE @]

WriteEnded(r) ==
    /\ At(r, {"stop", "patch", "sweep"}, "write")
    /\ Update(r, [Patched(r, row[Of(r)]) EXCEPT !.live = FALSE, !.ended = TRUE], "idle")
    /\ UNCHANGED <<serial, take, spoiled>>

\* A PATCH that does not end the stream writes isLive and nothing else.
WriteLive(r) ==
    /\ At(r, {"patch"}, "live")
    /\ Update(r, [row[Of(r)] EXCEPT !.live = job[r].to], "idle")
    /\ UNCHANGED <<serial, take, spoiled>>

\* A PATCH of scheduledAt: any date, live or not.
Reschedule(s) ==
    /\ Exists(s) /\ ~row[s].ended
    /\ MayOpen(s)
    /\ \E at \in Ages : row' = [row EXCEPT ![s].start = at]
    /\ UNCHANGED <<serial, take, spoiled>> /\ UNCHANGED slot

\* What deleteMissedScheduledStreams lists.
Missed(q) ==
    /\ q.is = "row" /\ ~q.live /\ ~q.ended /\ ~q.room
    /\ q.start \in {"missed", "old"}

\* Mutation: the clean-up lists every stream whose time has passed.
DeleteMissed_Live(r, s) ==
    /\ Exists(s) /\ ~row[s].ended /\ row[s].start \in {"missed", "old"}
    /\ Read(r, s, "missed", FALSE, "delete")

\* Mutation: the clean-up lists streams whose startedAt is a day old or more.
DeleteMissed_Never(r, s) ==
    /\ Missed(row[s]) /\ row[s].start = "far"
    /\ Read(r, s, "missed", FALSE, "delete")

DeleteMissed(r, s) == Missed(row[s]) /\ Read(r, s, "missed", FALSE, "delete")

DeleteRow(r) ==
    /\ At(r, {"remove", "missed"}, "delete")
    /\ Update(r, IF job[r].op = "missed" THEN Lapsed ELSE Removed, "idle")
    /\ UNCHANGED <<serial, take, spoiled>>

(***************************************************************************)
(* The seller on air.                                                      *)
(***************************************************************************)
\* markBroadcastStarted, from the seller's app or the webhook track_published.
MarkBroadcast(r, s) == Live(row[s]) /\ Read(r, s, "mark", TRUE, "show")

\* ensureStreamRecordingStarted, with the egress id read at the start.
Ensure(r) == IF job[r].egress = NoEgress /\ Recording THEN "record" ELSE "idle"

\* broadcastStartedAt is written, and the row read back.
Show(r) ==
    /\ pc[r] = "show"
    /\ Update(r, row[Of(r)],
              IF Exists(Of(r)) /\ row[Of(r)].told = 0 THEN "tell" ELSE Ensure(r))
    /\ UNCHANGED <<serial, take, spoiled>>

\* buyersNotifiedAt is written and the push queued.
Tell(r) ==
    /\ pc[r] = "tell"
    /\ Update(r, [row[Of(r)] EXCEPT !.told = @ + 1], Ensure(r))
    /\ UNCHANGED <<serial, take, spoiled>>

Heartbeat(s) ==
    /\ Exists(s) /\ ~row[s].ended
    /\ row' = [row EXCEPT ![s].beat = "fresh"]
    /\ UNCHANGED <<serial, take, spoiled>> /\ UNCHANGED slot

(***************************************************************************)
(* The environment.  Nothing asks how old a stream that has ended is.      *)
(***************************************************************************)
Age(s) ==
    /\ Exists(s) /\ ~row[s].ended /\ row[s].start # "old"
    /\ row' = [row EXCEPT ![s].start = Older[@]]
    /\ UNCHANGED <<serial, take, spoiled>> /\ UNCHANGED slot

GoSilent(s) ==
    /\ Exists(s) /\ ~row[s].ended /\ row[s].beat = "fresh"
    /\ row' = [row EXCEPT ![s].beat = "stale"]
    /\ UNCHANGED <<serial, take, spoiled>> /\ UNCHANGED slot

\* An await of a handler rejects.
Fail(r) ==
    /\ pc[r] \notin {"idle", "room", "keep"} /\ ~At(r, {"create", "start"}, "write")
    /\ Close(r)
    /\ UNCHANGED <<serial, row, take, spoiled>>

Request(r, s) ==
    \/ Create(r, s) \/ StartScheduled(r, s) \/ Stop(r, s) \/ Remove(r, s)
    \/ \E to \in BOOLEAN : Patch(r, s, to)
    \/ MarkBroadcast(r, s) \/ DeleteMissed(r, s) \/ Sweep(r, s)

Step(r) ==
    \/ CreateRoom(r) \/ WriteRoom(r) \/ WriteStarted(r)
    \/ StartEgress(r) \/ KeepEgress(r) \/ Finalize(r)
    \/ WriteEnded(r) \/ WriteLive(r) \/ DeleteRow(r) \/ Show(r) \/ Tell(r)

Next ==
    \/ \E r \in Slots, s \in Streams : Request(r, s)
    \/ \E r \in Slots : Step(r) \/ StartFails(r) \/ Fail(r)
    \/ \E s \in Streams : Schedule(s) \/ Reschedule(s) \/ Heartbeat(s) \/ Age(s) \/ GoSilent(s)
    \/ \E e \in Egresses : EgressEnds(e) \/ EgressEnded(e)

Spec == Init /\ [][Next]_vars

(***************************************************************************)
(* Fairness.  Time passes.  The cron jobs come back for a stream that      *)
(* stays on their list, whatever failed last time (their loops catch what  *)
(* one stream throws), and what they do does not fail for ever.            *)
(***************************************************************************)
CronRuns(s) ==
    /\ SF_vars(\E r \in Slots : DeleteMissed(r, s))
    /\ SF_vars(\E r \in Slots : Sweep(r, s))

CronWorks(r) ==
    /\ SF_vars(job[r].op = "sweep" /\ Finalize(r))
    /\ SF_vars(job[r].op = "sweep" /\ WriteEnded(r))
    /\ SF_vars(job[r].op = "missed" /\ DeleteRow(r))

FairSpec ==
    /\ Spec
    /\ \A s \in Streams : WF_vars(Age(s)) /\ CronRuns(s)
    /\ \A r \in Slots : WF_vars(Step(r)) /\ CronWorks(r)

(***************************************************************************)
(* Properties.                                                             *)
(***************************************************************************)
\* Type invariant of every variable.
TypeOK ==
    /\ serial \subseteq Streams
    /\ spoiled \subseteq Streams
    /\ row \in [Streams -> Row \cup {Unborn, Lapsed, Removed}]
    /\ take \in [Egresses -> Take \cup {Unused}]
    /\ pc \in [Slots -> {"idle"} \cup Steps]
    /\ job \in [Slots -> Job \cup {Free}]
    /\ \A r \in Slots : pc[r] # "idle" => job[r] \in Job
    /\ \A r \in Slots : pc[r] = "keep" => job[r].egress \in Egresses
    /\ \A s \in Streams : Exists(s) /\ row[s].egress # NoEgress => take[row[s].egress] # Unused
    /\ \A r \in Slots : pc[r] # "idle" /\ job[r].egress # NoEgress => take[job[r].egress] # Unused

TakesOf(s) == {e \in Egresses : take[e] # Unused /\ take[e].of = s}

\* However handlers, the webhook and the failures of LiveKit overlap, a stream is
\* shown with a replay only when a recording of it was made and has come to its end
\* (finalizeLiveRecordingAndRoom may mark READY before any file is there).
ReplayRecorded ==
    \A s \in Streams : Exists(s) /\ row[s].replay = "READY" =>
        \E e \in TakesOf(s) : take[e].state \in {"ended", "reported"}

\* Where the handlers of a stream do not overlap and no recording was lost, LiveKit
\* never makes two recordings of it at a time: they would write the same file.
OneRecording ==
    \A s \in serial \ spoiled :
        \A d, e \in TakesOf(s) : take[d].state = "running" /\ take[e].state = "running" => d = e

\* Where its handlers do not overlap, buyers are told once that a stream is live
\* (the app and the webhook both report the first picture, more than once).
ToldOnce == \A s \in serial : Exists(s) => row[s].told <= 1

\* Rooms, recordings and rows agree: the types, and the three above.
LiveConsistent == TypeOK /\ ReplayRecorded /\ OneRecording /\ ToldOnce

\* Where its handlers do not overlap, a stream that is planned has no room: it can
\* be started, and the clean-up takes it when it is missed.
PlannedStartable ==
    \A s \in serial : Exists(s) /\ ~row[s].live /\ ~row[s].ended =>
        ~row[s].room /\ row[s].egress = NoEgress

\* Where its handlers do not overlap, a stream keeps to StreamSchedule: it is live
\* once and ends once, and the clean-up deletes planned streams only.
stageBar ==
    [s \in Streams |->
        IF s \notin serial \/ row[s] = Unborn THEN "NONE"
        ELSE IF row[s] = Lapsed THEN "LAPSED"
        ELSE IF row[s] = Removed THEN "REMOVED"
        ELSE IF row[s].ended THEN "ENDED"
        ELSE IF row[s].live THEN "LIVE" ELSE "PLANNED"]

Plan == INSTANCE StreamSchedule WITH stage <- stageBar

FollowsSchedule == Plan!Spec /\ []PlannedStartable

\* A stream does not stay in the list of active ones when its seller went silent or
\* its 8 hours are over, nor on the calendar when it was missed: however handlers
\* overlap and fail, each time a cron job sees to it.
OverdueLeaves == \A s \in Streams : []<>(~Zombie(row[s]) /\ ~Missed(row[s]))

=============================================================================
