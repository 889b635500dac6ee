------------------------- MODULE StreamLifecycleProofs -------------------------
(***************************************************************************)
(* Theorems about StreamLifecycle, for any number of streams, handlers and *)
(* recordings.                                                             *)
(***************************************************************************)
EXTENDS StreamLifecycle, TLAPS

\* What a slot does in a step: a request, webhook or cron job goes on, throws or fails.
Runs(r) == Step(r) \/ StartFails(r) \/ Fail(r)

\* What opening a handler does to the slots.
LEMMA BeginStep ==
    ASSUME TypeOK, NEW r \in Slots, NEW s \in Streams, NEW op \in Handlers,
           NEW egress \in Egresses \cup {NoEgress}, NEW to \in BOOLEAN, NEW at \in Steps,
           Begin(r, s, op, egress, to, at)
    PROVE  /\ pc[r] = "idle" /\ pc'[r] = at
           /\ job'[r] = [op |-> op, stream |-> s, egress |-> egress, replay |-> "NONE", to |-> to]
           /\ job'[r] \in Job
           /\ pc' \in [Slots -> {"idle"} \cup Steps] /\ job' \in [Slots -> Job \cup {Free}]
           /\ \A q \in Slots \ {r} : pc'[q] = pc[q] /\ job'[q] = job[q]
           /\ s \in serial => \A q \in Slots : pc[q] # "idle" => job[q].stream # s
<1>1. [op |-> op, stream |-> s, egress |-> egress, replay |-> "NONE", to |-> to] \in Job
  BY DEF Job, Replays
<1>2. QED
  BY <1>1 DEF TypeOK, Begin, MayOpen

\* What a handler has been let in for.
LetIn(s, op, to, at) ==
    /\ Exists(s)
    /\ \/ op = "start" /\ at = "room" /\ ~row[s].live /\ ~row[s].ended
       \/ op \in {"stop", "remove", "sweep"} /\ at = "finalize"
       \/ op = "patch" /\ (at = "finalize" \/ (at = "live" /\ (~row[s].live \/ to)))
       \/ op = "mark" /\ at = "show" /\ Live(row[s])
       \/ op = "missed" /\ at = "delete" /\ ~row[s].live /\ ~row[s].ended

\* A request, webhook or cron job takes a slot, and creates its row or leaves it.
LEMMA RequestSteps ==
    ASSUME TypeOK, NEW r \in Slots, NEW s \in Streams, Request(r, s)
    PROVE  /\ UNCHANGED <<serial, take, spoiled>>
           /\ \/ /\ row[s] = Unborn
                 /\ row' = [row EXCEPT ![s] = [Fresh EXCEPT !.live = TRUE, !.beat = "fresh"]]
                 /\ Begin(r, s, "create", NoEgress, TRUE, "room")
              \/ /\ UNCHANGED row
                 /\ \E op \in Handlers, to \in BOOLEAN, at \in Steps :
                       LetIn(s, op, to, at) /\ Begin(r, s, op, row[s].egress, to, at)
BY DEF Request, Create, StartScheduled, Stop, Remove, Patch, MarkBroadcast, DeleteMissed, Sweep,
       Read, LetIn, Missed, Live, Handlers, Steps, Exists

LEMMA RowOf ==
    ASSUME TypeOK, NEW s \in Streams, Exists(s)
    PROVE  row[s] \in Row
BY DEF TypeOK, Exists, Unborn, Lapsed, Removed

\* How a handler begins.
LEMMA RequestBegins ==
    ASSUME TypeOK, NEW r \in Slots, NEW s \in Streams, Request(r, s)
    PROVE  /\ UNCHANGED <<serial, take, spoiled>>
           /\ pc[r] = "idle" /\ pc'[r] \in Steps \ {"keep"}
           /\ job'[r] \in Job /\ job'[r].stream = s /\ job'[r].replay = "NONE"
           /\ pc' \in [Slots -> {"idle"} \cup Steps] /\ job' \in [Slots -> Job \cup {Free}]
           /\ \A q \in Slots \ {r} : pc'[q] = pc[q] /\ job'[q] = job[q]
           /\ s \in serial => \A q \in Slots : pc[q] # "idle" => job[q].stream # s
           /\ \/ /\ row[s] = Unborn
                 /\ row' = [row EXCEPT ![s] = [Fresh EXCEPT !.live = TRUE, !.beat = "fresh"]]
                 /\ job'[r].op = "create" /\ job'[r].egress = NoEgress /\ pc'[r] = "room"
              \/ /\ UNCHANGED row /\ job'[r].egress = row[s].egress
                 /\ LetIn(s, job'[r].op, job'[r].to, pc'[r])
<1>1. UNCHANGED <<serial, take, spoiled>>
  BY RequestSteps
<1>2. CASE /\ row[s] = Unborn
           /\ row' = [row EXCEPT ![s] = [Fresh EXCEPT !.live = TRUE, !.beat = "fresh"]]
           /\ Begin(r, s, "create", NoEgress, TRUE, "room")
  <2>1. "create" \in Handlers /\ NoEgress \in Egresses \cup {NoEgress} /\ TRUE \in BOOLEAN
        /\ "room" \in Steps
    BY DEF Handlers, Steps
  <2>2. /\ pc[r] = "idle" /\ pc'[r] = "room"
        /\ job'[r] = [op |-> "create", stream |-> s, egress |-> NoEgress, replay |-> "NONE", to |-> TRUE]
        /\ job'[r] \in Job
        /\ pc' \in [Slots -> {"idle"} \cup Steps] /\ job' \in [Slots -> Job \cup {Free}]
        /\ \A q \in Slots \ {r} : pc'[q] = pc[q] /\ job'[q] = job[q]
        /\ s \in serial => \A q \in Slots : pc[q] # "idle" => job[q].stream # s
    BY <1>2, <2>1, BeginStep
  <2>3. QED
    BY <1>1, <1>2, <2>1, <2>2
<1>3. ASSUME UNCHANGED row, NEW op \in Handlers, NEW to \in BOOLEAN, NEW at \in Steps,
             LetIn(s, op, to, at), Begin(r, s, op, row[s].egress, to, at)
      PROVE  /\ pc[r] = "idle" /\ pc'[r] \in Steps \ {"keep"}
             /\ job'[r] \in Job /\ job'[r].stream = s /\ job'[r].replay = "NONE"
             /\ pc' \in [Slots -> {"idle"} \cup Steps] /\ job' \in [Slots -> Job \cup {Free}]
             /\ \A q \in Slots \ {r} : pc'[q] = pc[q] /\ job'[q] = job[q]
             /\ s \in serial => \A q \in Slots : pc[q] # "idle" => job[q].stream # s
             /\ job'[r].egress = row[s].egress /\ LetIn(s, job'[r].op, job'[r].to, pc'[r])
  <2>1. row[s].egress \in Egresses \cup {NoEgress} /\ at # "keep"
    BY <1>3, RowOf DEF LetIn, Row
  <2>2. /\ pc[r] = "idle" /\ pc'[r] = at
        /\ job'[r] = [op |-> op, stream |-> s, egress |-> row[s].egress, replay |-> "NONE", to |-> to]
        /\ job'[r] \in Job
        /\ pc' \in [Slots -> {"idle"} \cup Steps] /\ job' \in [Slots -> Job \cup {Free}]
        /\ \A q \in Slots \ {r} : pc'[q] = pc[q] /\ job'[q] = job[q]
        /\ s \in serial => \A q \in Slots : pc[q] # "idle" => job[q].stream # s
    BY <1>3, <2>1, BeginStep
  <2>3. QED
    BY <1>3, <2>1, <2>2
<1>4. QED
  BY <1>1, <1>2, <1>3, RequestSteps

\* The ways a step leaves a slot.
LEMMA SlotSteps ==
    ASSUME TypeOK, NEW r \in Slots
    PROVE  /\ \A at \in Steps : Goto(r, at) =>
                 /\ pc' \in [Slots -> {"idle"} \cup Steps] /\ pc'[r] = at /\ job' = job
                 /\ \A q \in Slots \ {r} : pc'[q] = pc[q]
           /\ Close(r) =>
                 /\ pc' \in [Slots -> {"idle"} \cup Steps] /\ job' \in [Slots -> Job \cup {Free}]
                 /\ pc'[r] = "idle" /\ job'[r] = Free
                 /\ \A q \in Slots \ {r} : pc'[q] = pc[q] /\ job'[q] = job[q]
BY DEF TypeOK, Goto, Close

\* The slot of a step: open, left to the same handler or to none; no other slot moves.
Stays(r) ==
    /\ pc[r] # "idle" /\ job[r] \in Job
    /\ pc' \in [Slots -> {"idle"} \cup Steps] /\ job' \in [Slots -> Job \cup {Free}]
    /\ \A q \in Slots \ {r} : pc'[q] = pc[q] /\ job'[q] = job[q]
    /\ pc'[r] # "idle" =>
          /\ job'[r] \in Job
          /\ job'[r].op = job[r].op /\ job'[r].stream = job[r].stream /\ job'[r].to = job[r].to

LEMMA GotoStays ==
    ASSUME TypeOK, NEW r \in Slots, pc[r] # "idle", NEW at \in Steps, Goto(r, at)
    PROVE  Stays(r) /\ pc'[r] = at /\ job'[r] = job[r]
BY SlotSteps DEF Stays, TypeOK

LEMMA CloseStays ==
    ASSUME TypeOK, NEW r \in Slots, pc[r] # "idle", Close(r)
    PROVE  Stays(r) /\ pc'[r] = "idle"
BY SlotSteps DEF Stays, TypeOK

\* The update of a row, or the throw when there is none.
LEMMA UpdateSteps ==
    ASSUME TypeOK, NEW r \in Slots, pc[r] # "idle", NEW q, NEW at \in Steps \cup {"idle"},
           Update(r, q, at)
    PROVE  /\ Stays(r)
           /\ \/ /\ Exists(Of(r)) /\ row' = [row EXCEPT ![Of(r)] = q]
                 /\ pc'[r] = at /\ (at # "idle" => job'[r] = job[r])
              \/ ~Exists(Of(r)) /\ UNCHANGED row /\ pc'[r] = "idle"
<1>1. at \in Steps \/ at = "idle"
  OBVIOUS
<1>2. "idle" \notin Steps
  BY DEF Steps
<1>3. QED
  BY <1>1, <1>2, GotoStays, CloseStays DEF Update

LEMMA RunsStays ==
    ASSUME TypeOK, NEW r \in Slots, Runs(r)
    PROVE  Stays(r) /\ serial' = serial
<1>. USE StreamAssumption
<1>1. serial' = serial
  BY DEF Runs, Step, CreateRoom, WriteRoom, WriteStarted, StartEgress, KeepEgress, Finalize,
     WriteEnded, WriteLive, DeleteRow, Show, Tell, StartFails, Fail
<1>2. pc[r] # "idle" /\ job[r] \in Job
  BY DEF Runs, Step, CreateRoom, WriteRoom, WriteStarted, StartEgress, KeepEgress, Finalize,
     WriteEnded, WriteLive, DeleteRow, Show, Tell, StartFails, Fail, At, TypeOK
<1>3. AfterStart \in Steps \cup {"idle"} /\ Ensure(r) \in Steps \cup {"idle"}
  BY DEF AfterStart, Ensure, Steps
<1>4. CASE WriteRoom(r) \/ WriteStarted(r) \/ WriteEnded(r) \/ WriteLive(r) \/ DeleteRow(r)
           \/ Show(r) \/ Tell(r)
  <2>1. \E q : \E at \in Steps \cup {"idle"} : Update(r, q, at)
    BY <1>3, <1>4 DEF WriteRoom, WriteStarted, WriteEnded, WriteLive, DeleteRow, Show, Tell, Steps
  <2>2. QED
    BY <1>1, <1>2, <2>1, UpdateSteps
<1>5. CASE CreateRoom(r)
  BY <1>1, <1>2, <1>5, GotoStays DEF CreateRoom, Steps
<1>6. CASE StartFails(r) \/ KeepEgress(r) \/ Fail(r)
  BY <1>1, <1>2, <1>6, CloseStays DEF StartFails, KeepEgress, Fail
<1>7. CASE StartEgress(r)
  <2>1. PICK e \in Egresses :
          \/ job' = [job EXCEPT ![r].egress = e] /\ pc' = [pc EXCEPT ![r] = "keep"]
          \/ Close(r)
    BY <1>7 DEF StartEgress
  <2>2. CASE job' = [job EXCEPT ![r].egress = e] /\ pc' = [pc EXCEPT ![r] = "keep"]
    <3>1. job'[r] = [job[r] EXCEPT !.egress = e] /\ \A q \in Slots \ {r} : job'[q] = job[q]
      BY <2>2 DEF TypeOK
    <3>2. job'[r] \in Job /\ job'[r].op = job[r].op /\ job'[r].stream = job[r].stream
          /\ job'[r].to = job[r].to
      BY <1>2, <3>1 DEF Job
    <3>3. job' \in [Slots -> Job \cup {Free}]
      BY <2>2, <3>2 DEF TypeOK
    <3>4. pc' \in [Slots -> {"idle"} \cup Steps] /\ \A q \in Slots \ {r} : pc'[q] = pc[q]
      BY <2>2 DEF TypeOK, Steps
    <3>5. QED
      BY <1>1, <1>2, <3>1, <3>2, <3>3, <3>4 DEF Stays
  <2>3. QED
    BY <1>1, <1>2, <2>1, <2>2, CloseStays
<1>8. CASE Finalize(r)
  <2>1. PICK found \in Replays : job' = [job EXCEPT ![r].replay = found]
    BY <1>8 DEF Finalize, Found, Replays
  <2>2. PICK at \in Steps : pc' = [pc EXCEPT ![r] = at]
    BY <1>8 DEF Finalize, Steps
  <2>3. job'[r] = [job[r] EXCEPT !.replay = found] /\ \A q \in Slots \ {r} : job'[q] = job[q]
    BY <2>1 DEF TypeOK
  <2>4. job'[r] \in Job /\ job'[r].op = job[r].op /\ job'[r].stream = job[r].stream
        /\ job'[r].to = job[r].to
    BY <1>2, <2>3 DEF Job
  <2>5. job' \in [Slots -> Job \cup {Free}]
    BY <2>1, <2>4 DEF TypeOK
  <2>6. pc' \in [Slots -> {"idle"} \cup Steps] /\ \A q \in Slots \ {r} : pc'[q] = pc[q]
    BY <2>2 DEF TypeOK, Steps
  <2>7. QED
    BY <1>1, <1>2, <2>3, <2>4, <2>5, <2>6 DEF Stays
<1>9. QED
  BY <1>4, <1>5, <1>6, <1>7, <1>8 DEF Runs, Step

-----------------------------------------------------------------------------
(***************************************************************************)
(* Rows and recordings.                                                    *)
(***************************************************************************)
\* The row of a stream is replaced.
Puts(s, q) ==
    /\ q \in Row \cup {Lapsed, Removed} /\ row'[s] = q
    /\ row' \in [Streams -> Row \cup {Unborn, Lapsed, Removed}]
    /\ \A j \in Streams \ {s} : row'[j] = row[j]

LEMMA JobTyped ==
    ASSUME NEW r \in Slots, job[r] \in Job
    PROVE  /\ Of(r) \in Streams /\ job[r].op \in Handlers
           /\ job[r].egress \in Egresses \cup {NoEgress} /\ job[r].replay \in Replays
           /\ job[r].to \in BOOLEAN
BY DEF Job, Of

\* What the handlers write to a row.
StepPuts(r) ==
    LET s == Of(r)
        q == row[s]
    IN  /\ Exists(s)
        /\ \/ /\ At(r, {"create"}, "room") \/ At(r, {"create"}, "write")
              /\ Puts(s, Removed) /\ pc'[r] = "idle"
           \/ /\ At(r, {"create"}, "write")
              /\ Puts(s, [q EXCEPT !.room = TRUE])
              /\ pc'[r] = AfterStart /\ (pc'[r] # "idle" => job'[r] = job[r])
           \/ /\ At(r, {"start"}, "write")
              /\ Puts(s, [q EXCEPT !.live = TRUE, !.start = "near", !.beat = "fresh", !.room = TRUE])
              /\ pc'[r] = AfterStart /\ (pc'[r] # "idle" => job'[r] = job[r])
           \/ /\ pc[r] = "keep"
              /\ Puts(s, [q EXCEPT !.egress = job[r].egress, !.replay = "RECORDING"])
              /\ pc'[r] = "idle"
           \/ /\ At(r, {"stop", "patch", "sweep"}, "write")
              /\ Puts(s, [Patched(r, q) EXCEPT !.live = FALSE, !.ended = TRUE])
              /\ pc'[r] = "idle"
           \/ /\ At(r, {"patch"}, "live")
              /\ Puts(s, [q EXCEPT !.live = job[r].to]) /\ pc'[r] = "idle"
           \/ At(r, {"missed"}, "delete") /\ Puts(s, Lapsed) /\ pc'[r] = "idle"
           \/ At(r, {"remove"}, "delete") /\ Puts(s, Removed) /\ pc'[r] = "idle"
           \/ /\ pc[r] = "tell"
              /\ Puts(s, [q EXCEPT !.told = @ + 1])
              /\ pc'[r] = Ensure(r) /\ (pc'[r] # "idle" => job'[r] = job[r])

LEMMA StepRow ==
    ASSUME TypeOK, NEW r \in Slots, Runs(r)
    PROVE  \/ StepPuts(r) /\ UNCHANGED <<take, spoiled>>
           \/ UNCHANGED row /\ pc'[r] = "idle"
           \/ UNCHANGED row /\ (CreateRoom(r) \/ StartEgress(r) \/ Finalize(r) \/ Show(r))
<1>. USE StreamAssumption
<1>. SUFFICES ASSUME ~(UNCHANGED row /\ pc'[r] = "idle")
              PROVE  \/ StepPuts(r) /\ UNCHANGED <<take, spoiled>>
                     \/ UNCHANGED row /\ (CreateRoom(r) \/ StartEgress(r) \/ Finalize(r) \/ Show(r))
  OBVIOUS
<1>1. /\ pc[r] # "idle" /\ job[r] \in Job /\ Of(r) \in Streams
      /\ job[r].egress \in Egresses \cup {NoEgress} /\ job[r].replay \in Replays
      /\ job[r].to \in BOOLEAN
  BY RunsStays, JobTyped DEF Stays
<1>2. Exists(Of(r)) => row[Of(r)] \in Row
  BY <1>1, RowOf
<1>3. AfterStart \in Steps \cup {"idle"} /\ Ensure(r) \in Steps \cup {"idle"}
      /\ "idle" \in Steps \cup {"idle"}
  BY DEF AfterStart, Ensure, Steps
<1>4. CASE StartFails(r)
  <2>1. row' = [row EXCEPT ![Of(r)] = Removed] /\ Exists(Of(r)) /\ job[r].op = "create"
    BY <1>1, <1>4, CloseStays DEF StartFails
  <2>2. Puts(Of(r), Removed)
    BY <1>1, <2>1 DEF Puts, TypeOK
  <2>3. QED
    BY <1>1, <1>4, <2>1, <2>2, CloseStays DEF StartFails, StepPuts, At
<1>5. CASE WriteRoom(r)
  <2>1. Update(r, [row[Of(r)] EXCEPT !.room = TRUE], AfterStart) /\ At(r, {"create"}, "write")
        /\ UNCHANGED <<take, spoiled>>
    BY <1>5 DEF WriteRoom
  <2>2. /\ Exists(Of(r)) /\ row' = [row EXCEPT ![Of(r)] = [row[Of(r)] EXCEPT !.room = TRUE]]
        /\ pc'[r] = AfterStart /\ (AfterStart # "idle" => job'[r] = job[r])
    BY <1>1, <1>3, <2>1, UpdateSteps
  <2>3. [row[Of(r)] EXCEPT !.room = TRUE] \in Row
    BY <1>2, <2>2 DEF Row
  <2>4. Puts(Of(r), [row[Of(r)] EXCEPT !.room = TRUE])
    BY <1>1, <2>2, <2>3 DEF Puts, TypeOK
  <2>5. QED
    BY <2>1, <2>2, <2>4 DEF StepPuts
<1>6. CASE WriteStarted(r)
  <2>. DEFINE n == [row[Of(r)] EXCEPT !.live = TRUE, !.start = "near", !.beat = "fresh", !.room = TRUE]
  <2>1. Update(r, n, AfterStart) /\ At(r, {"start"}, "write") /\ UNCHANGED <<take, spoiled>>
    BY <1>6 DEF WriteStarted
  <2>2. /\ Exists(Of(r)) /\ row' = [row EXCEPT ![Of(r)] = n]
        /\ pc'[r] = AfterStart /\ (AfterStart # "idle" => job'[r] = job[r])
    BY <1>1, <1>3, <2>1, UpdateSteps
  <2>3. n \in Row
    BY <1>2, <2>2 DEF Row, Ages, Beats
  <2>4. Puts(Of(r), n)
    BY <1>1, <2>2, <2>3 DEF Puts, TypeOK
  <2>5. QED
    BY <2>1, <2>2, <2>4 DEF StepPuts
<1>7. CASE KeepEgress(r)
  <2>. DEFINE n == [row[Of(r)] EXCEPT !.egress = job[r].egress, !.replay = "RECORDING"]
  <2>1. /\ Exists(Of(r)) /\ pc[r] = "keep" /\ UNCHANGED <<take, spoiled>> /\ Close(r)
        /\ row' = [row EXCEPT ![Of(r)].egress = job[r].egress, ![Of(r)].replay = "RECORDING"]
    BY <1>1, <1>7, CloseStays DEF KeepEgress
  <2>2. n \in Row
    BY <1>1, <1>2, <2>1 DEF Row, Replays
  <2>3. Puts(Of(r), n)
    BY <1>1, <1>2, <2>1, <2>2 DEF Puts, TypeOK, Row
  <2>4. QED
    BY <1>1, <2>1, <2>3, CloseStays DEF StepPuts
<1>8. CASE WriteEnded(r)
  <2>. DEFINE n == [Patched(r, row[Of(r)]) EXCEPT !.live = FALSE, !.ended = TRUE]
  <2>1. Update(r, n, "idle") /\ At(r, {"stop", "patch", "sweep"}, "write") /\ UNCHANGED <<take, spoiled>>
    BY <1>8 DEF WriteEnded
  <2>2. Exists(Of(r)) /\ row' = [row EXCEPT ![Of(r)] = n] /\ pc'[r] = "idle"
    BY <1>1, <1>3, <2>1, UpdateSteps
  <2>3. n \in Row
    BY <1>1, <1>2, <2>2 DEF Row, Patched
  <2>4. Puts(Of(r), n)
    BY <1>1, <2>2, <2>3 DEF Puts, TypeOK
  <2>5. QED
    BY <2>1, <2>2, <2>4 DEF StepPuts
<1>9. CASE WriteLive(r)
  <2>. DEFINE n == [row[Of(r)] EXCEPT !.live = job[r].to]
  <2>1. Update(r, n, "idle") /\ At(r, {"patch"}, "live") /\ UNCHANGED <<take, spoiled>>
    BY <1>9 DEF WriteLive
  <2>2. Exists(Of(r)) /\ row' = [row EXCEPT ![Of(r)] = n] /\ pc'[r] = "idle"
    BY <1>1, <1>3, <2>1, UpdateSteps
  <2>3. n \in Row
    BY <1>1, <1>2, <2>2 DEF Row
  <2>4. Puts(Of(r), n)
    BY <1>1, <2>2, <2>3 DEF Puts, TypeOK
  <2>5. QED
    BY <2>1, <2>2, <2>4 DEF StepPuts
<1>10. CASE DeleteRow(r)
  <2>. DEFINE n == IF job[r].op = "missed" THEN Lapsed ELSE Removed
  <2>1. Update(r, n, "idle") /\ At(r, {"remove", "missed"}, "delete") /\ UNCHANGED <<take, spoiled>>
    BY <1>10 DEF DeleteRow
  <2>2. Exists(Of(r)) /\ row' = [row EXCEPT ![Of(r)] = n] /\ pc'[r] = "idle"
    BY <1>1, <1>3, <2>1, UpdateSteps
  <2>3. Puts(Of(r), n)
    BY <1>1, <2>2 DEF Puts, TypeOK
  <2>4. QED
    BY <2>1, <2>2, <2>3 DEF StepPuts, At
<1>11. CASE Tell(r)
  <2>. DEFINE n == [row[Of(r)] EXCEPT !.told = @ + 1]
  <2>1. Update(r, n, Ensure(r)) /\ pc[r] = "tell" /\ UNCHANGED <<take, spoiled>>
    BY <1>11 DEF Tell
  <2>2. /\ Exists(Of(r)) /\ row' = [row EXCEPT ![Of(r)] = n] /\ pc'[r] = Ensure(r)
        /\ (Ensure(r) # "idle" => job'[r] = job[r])
    BY <1>1, <1>3, <2>1, UpdateSteps
  <2>3. n \in Row
    BY <1>2, <2>2 DEF Row
  <2>4. Puts(Of(r), n)
    BY <1>1, <2>2, <2>3 DEF Puts, TypeOK
  <2>5. QED
    BY <2>1, <2>2, <2>4 DEF StepPuts
<1>12. CASE Show(r)
  <2>. DEFINE at == IF Exists(Of(r)) /\ row[Of(r)].told = 0 THEN "tell" ELSE Ensure(r)
  <2>1. Update(r, row[Of(r)], at) /\ at \in Steps \cup {"idle"}
    BY <1>3, <1>12 DEF Show, Steps
  <2>2. row' = [row EXCEPT ![Of(r)] = row[Of(r)]]
    BY <1>1, <2>1, UpdateSteps
  <2>3. QED
    BY <1>1, <1>12, <2>2 DEF TypeOK
<1>13. CASE CreateRoom(r) \/ StartEgress(r) \/ Finalize(r)
  BY <1>13 DEF CreateRoom, StartEgress, Finalize
<1>14. CASE Fail(r)
  BY <1>1, <1>14, CloseStays DEF Fail
<1>15. QED
  BY <1>4, <1>5, <1>6, <1>7, <1>8, <1>9, <1>10, <1>11, <1>12, <1>13, <1>14 DEF Runs, Step

\* A recording is never taken back, handed over, or running again.
TakesLast ==
    \A e \in Egresses : take[e] # Unused =>
        /\ take'[e] # Unused /\ take'[e].of = take[e].of
        /\ take[e].state # "running" => take'[e].state # "running"

LEMMA TakeOf ==
    ASSUME TypeOK, NEW e \in Egresses, take[e] # Unused
    PROVE  take[e] \in Take /\ take[e].of \in Streams
BY DEF TypeOK, Take

\* What the handlers do to a recording.
LEMMA StepTake ==
    ASSUME TypeOK, NEW r \in Slots, Runs(r)
    PROVE  /\ take' \in [Egresses -> Take \cup {Unused}] /\ TakesLast
           /\ spoiled \subseteq spoiled' /\ spoiled' \subseteq spoiled \cup {Of(r)}
           /\ \A e \in Egresses : take'[e] # take[e] =>
                 \/ /\ At(r, {"create", "start", "mark"}, "record") /\ take[e] = Unused
                    /\ take'[e] = [state |-> "running", of |-> Of(r)]
                    /\ \A d \in Egresses \ {e} : take'[d] = take[d]
                    /\ \/ pc'[r] = "keep" /\ job'[r].egress = e /\ job'[r].replay = job[r].replay
                       \/ pc'[r] = "idle" /\ Of(r) \in spoiled'
                 \/ /\ pc[r] = "finalize" /\ e = job[r].egress /\ take[e].state = "running"
                    /\ take'[e] = [take[e] EXCEPT !.state = "ended"]
<1>1. /\ pc[r] # "idle" /\ job[r] \in Job /\ Of(r) \in Streams
      /\ job[r].egress \in Egresses \cup {NoEgress}
  BY RunsStays, JobTyped DEF Stays
<1>2. CASE StartEgress(r)
  <2>1. PICK e \in Egresses :
          /\ take[e] = Unused
          /\ take' = [take EXCEPT ![e] = [state |-> "running", of |-> Of(r)]]
          /\ \/ /\ job' = [job EXCEPT ![r].egress = e]
                /\ pc' = [pc EXCEPT ![r] = "keep"]
                /\ UNCHANGED spoiled
             \/ spoiled' = spoiled \cup {Of(r)} /\ Close(r)
    BY <1>2 DEF StartEgress
  <2>2. [state |-> "running", of |-> Of(r)] \in Take
    BY <1>1 DEF Take
  <2>3. /\ take'[e] = [state |-> "running", of |-> Of(r)]
        /\ \A d \in Egresses \ {e} : take'[d] = take[d]
        /\ take' \in [Egresses -> Take \cup {Unused}]
    BY <2>1, <2>2 DEF TypeOK
  <2>4. \/ pc'[r] = "keep" /\ job'[r].egress = e /\ job'[r].replay = job[r].replay
        \/ pc'[r] = "idle" /\ Of(r) \in spoiled'
    <3>1. CASE /\ job' = [job EXCEPT ![r].egress = e]
               /\ pc' = [pc EXCEPT ![r] = "keep"]
      <4>1. job'[r] = [job[r] EXCEPT !.egress = e] /\ pc'[r] = "keep"
        BY <3>1 DEF TypeOK
      <4>2. QED
        BY <1>1, <4>1 DEF Job
    <3>2. QED
      BY <1>1, <2>1, <3>1, CloseStays
  <2>5. At(r, {"create", "start", "mark"}, "record")
    BY <1>2 DEF StartEgress
  <2>6. QED
    BY <2>1, <2>3, <2>4, <2>5 DEF TakesLast
<1>3. CASE Finalize(r)
  <2>. DEFINE e == job[r].egress
  <2>1. CASE /\ take' = [take EXCEPT ![e].state = "ended"] /\ e # NoEgress /\ UNCHANGED spoiled
             /\ take[e].state = "running"
    <3>1. take[e] \in Take
      BY <1>1, <2>1 DEF TypeOK
    <3>2. [take[e] EXCEPT !.state = "ended"] \in Take
      BY <3>1 DEF Take
    <3>3. /\ take'[e] = [take[e] EXCEPT !.state = "ended"]
          /\ \A d \in Egresses \ {e} : take'[d] = take[d]
          /\ take' \in [Egresses -> Take \cup {Unused}]
      BY <1>1, <2>1, <3>2 DEF TypeOK
    <3>4. take'[e] # Unused /\ take'[e].of = take[e].of /\ take'[e].state # "running"
      BY <3>1, <3>3 DEF Take, Unused
    <3>5. pc[r] = "finalize"
      BY <1>3 DEF Finalize
    <3>. HIDE DEF e
    <3>6. TakesLast
      BY <3>3, <3>4 DEF TakesLast
    <3>7. \A d \in Egresses : take'[d] # take[d] => d = e
      BY <3>3
    <3>8. QED
      BY <2>1, <3>3, <3>5, <3>6, <3>7 DEF e
  <2>2. CASE UNCHANGED take /\ spoiled \subseteq spoiled' /\ spoiled' \subseteq spoiled \cup {Of(r)}
    BY <2>2 DEF TypeOK, TakesLast
  <2>3. QED
    BY <1>3, <2>1, <2>2 DEF Finalize
<1>4. CASE UNCHANGED take /\ spoiled \subseteq spoiled' /\ spoiled' \subseteq spoiled \cup {Of(r)}
  BY <1>4 DEF TypeOK, TakesLast
<1>5. QED
  BY <1>2, <1>3, <1>4 DEF Runs, Step, CreateRoom, WriteRoom, WriteStarted, KeepEgress,
     WriteEnded, WriteLive, DeleteRow, Show, Tell, StartFails, Fail

\* What happens to a stream outside the handlers: it is planned, rescheduled or gets older.
Ticks(s, n) ==
    /\ Puts(s, n) /\ n \in Row
    /\ UNCHANGED <<serial, take, spoiled>> /\ UNCHANGED slot
    /\ \/ /\ row[s] = Unborn
          /\ ~n.live /\ ~n.ended /\ ~n.room /\ n.egress = NoEgress /\ n.replay = "NONE" /\ n.told = 0
       \/ /\ Exists(s)
          /\ n.live = row[s].live /\ n.ended = row[s].ended /\ n.room = row[s].room
          /\ n.egress = row[s].egress /\ n.replay = row[s].replay /\ n.told = row[s].told

LEMMA TickSteps ==
    ASSUME TypeOK, NEW s \in Streams,
           Schedule(s) \/ Reschedule(s) \/ Heartbeat(s) \/ Age(s) \/ GoSilent(s)
    PROVE  \E n \in Row : Ticks(s, n)
<1>1. CASE Schedule(s)
  <2>1. PICK at \in {"far", "near"} : row' = [row EXCEPT ![s] = [Fresh EXCEPT !.start = at]]
    BY <1>1 DEF Schedule
  <2>. DEFINE n == [Fresh EXCEPT !.start = at]
  <2>2. n \in Row /\ ~n.live /\ ~n.ended /\ ~n.room /\ n.egress = NoEgress /\ n.replay = "NONE"
        /\ n.told = 0
    BY DEF Fresh, Row, Ages, Beats, Replays
  <2>3. Puts(s, n)
    BY <2>1, <2>2 DEF Puts, TypeOK
  <2>4. QED
    BY <1>1, <2>2, <2>3 DEF Schedule, Ticks
<1>2. CASE Reschedule(s) \/ Heartbeat(s) \/ Age(s) \/ GoSilent(s)
  <2>1. Exists(s) /\ row[s] \in Row /\ UNCHANGED <<serial, take, spoiled>> /\ UNCHANGED slot
    BY <1>2, RowOf DEF Reschedule, Heartbeat, Age, GoSilent
  <2>2. \/ \E at \in Ages : row' = [row EXCEPT ![s].start = at]
        \/ \E beat \in Beats : row' = [row EXCEPT ![s].beat = beat]
    <3>1. Age(s) => Older[row[s].start] \in Ages
      BY <2>1 DEF Age, Older, Ages, Row
    <3>2. QED
      BY <1>2, <3>1 DEF Reschedule, Heartbeat, Age, GoSilent, Beats
  <2>3. \E n \in Row :
           /\ row' = [row EXCEPT ![s] = n]
           /\ n.live = row[s].live /\ n.ended = row[s].ended /\ n.room = row[s].room
           /\ n.egress = row[s].egress /\ n.replay = row[s].replay /\ n.told = row[s].told
    <3>1. ASSUME NEW at \in Ages
          PROVE  LET n == [row[s] EXCEPT !.start = at] IN
                 /\ n \in Row
                 /\ n.live = row[s].live /\ n.ended = row[s].ended /\ n.room = row[s].room
                 /\ n.egress = row[s].egress /\ n.replay = row[s].replay /\ n.told = row[s].told
      BY <2>1 DEF Row
    <3>2. ASSUME NEW beat \in Beats
          PROVE  LET n == [row[s] EXCEPT !.beat = beat] IN
                 /\ n \in Row
                 /\ n.live = row[s].live /\ n.ended = row[s].ended /\ n.room = row[s].room
                 /\ n.egress = row[s].egress /\ n.replay = row[s].replay /\ n.told = row[s].told
      BY <2>1 DEF Row
    <3>3. QED
      BY <2>2, <3>1, <3>2
  <2>4. PICK n \in Row :
           /\ row' = [row EXCEPT ![s] = n]
           /\ n.live = row[s].live /\ n.ended = row[s].ended /\ n.room = row[s].room
           /\ n.egress = row[s].egress /\ n.replay = row[s].replay /\ n.told = row[s].told
    BY <2>3
  <2>5. Puts(s, n)
    BY <2>4 DEF Puts, TypeOK
  <2>6. QED
    BY <2>1, <2>4, <2>5 DEF Ticks
<1>3. QED
  BY <1>1, <1>2

\* What happens to a recording outside the handlers: it ends, and is reported.
LEMMA TakeSteps ==
    ASSUME TypeOK, NEW e \in Egresses, EgressEnds(e) \/ EgressEnded(e)
    PROVE  /\ UNCHANGED <<serial, spoiled>> /\ UNCHANGED slot
           /\ take[e] # Unused /\ take[e].of \in Streams
           /\ take' \in [Egresses -> Take \cup {Unused}] /\ TakesLast
           /\ take'[e] # Unused /\ \A d \in Egresses \ {e} : take'[d] = take[d]
           /\ \/ take[e].state = "running" /\ take'[e].state = "ended" /\ UNCHANGED row
              \/ /\ take[e].state = "ended" /\ take'[e].state = "reported"
                 /\ MayOpen(take[e].of)
                 /\ \/ ~Exists(take[e].of) /\ UNCHANGED row
                    \/ /\ Exists(take[e].of)
                       /\ \E found \in {row[take[e].of].replay, "READY", "FAILED"} :
                             Puts(take[e].of, [row[take[e].of] EXCEPT !.egress = NoEgress,
                                                                      !.replay = found])
<1>1. take[e] # Unused
  BY DEF EgressEnds, EgressEnded, Unused
<1>2. take[e] \in Take /\ take[e].of \in Streams
  BY <1>1, TakeOf
<1>3. PICK state \in {"ended", "reported"} : take' = [take EXCEPT ![e].state = state]
  BY DEF EgressEnds, EgressEnded
<1>4. /\ take'[e] = [take[e] EXCEPT !.state = state] /\ take'[e] \in Take
      /\ \A d \in Egresses \ {e} : take'[d] = take[d]
      /\ take' \in [Egresses -> Take \cup {Unused}]
  <2>1. [take[e] EXCEPT !.state = state] \in Take
    BY <1>2 DEF Take
  <2>2. QED
    BY <1>3, <2>1 DEF TypeOK
<1>5. take'[e] # Unused /\ take'[e].of = take[e].of /\ take'[e].state = state
  BY <1>2, <1>4 DEF Take, Unused
<1>6. TakesLast
  BY <1>4, <1>5 DEF TakesLast
<1>7. UNCHANGED <<serial, spoiled>> /\ UNCHANGED slot
  BY DEF EgressEnds, EgressEnded
<1>8. CASE EgressEnds(e)
  <2>1. take' = [take EXCEPT ![e].state = "ended"] /\ UNCHANGED row /\ take[e].state = "running"
    BY <1>8 DEF EgressEnds
  <2>2. take'[e].state = "ended"
    BY <1>2, <2>1 DEF TypeOK, Take
  <2>3. QED
    BY <1>1, <1>2, <1>4, <1>5, <1>6, <1>7, <2>1, <2>2
<1>9. CASE EgressEnded(e)
  <2>. DEFINE s == take[e].of
  <2>1. take' = [take EXCEPT ![e].state = "reported"] /\ take[e].state = "ended" /\ MayOpen(s)
    BY <1>9 DEF EgressEnded
  <2>2. take'[e].state = "reported"
    BY <1>2, <2>1 DEF TypeOK, Take
  <2>3. CASE ~Exists(s)
    BY <1>1, <1>2, <1>4, <1>5, <1>6, <1>7, <1>9, <2>1, <2>2, <2>3 DEF EgressEnded
  <2>4. CASE Exists(s)
    <3>1. PICK found \in {row[s].replay, "READY", "FAILED"} :
             row' = [row EXCEPT ![s].egress = NoEgress, ![s].replay = found]
      BY <1>9, <2>4 DEF EgressEnded
    <3>2. row[s] \in Row /\ row[s].replay \in Replays
      BY <1>2, <2>4, RowOf DEF Row
    <3>3. [row[s] EXCEPT !.egress = NoEgress, !.replay = found] \in Row
      BY <3>2 DEF Row, Replays
    <3>4. Puts(s, [row[s] EXCEPT !.egress = NoEgress, !.replay = found])
      BY <1>2, <3>1, <3>2, <3>3 DEF Puts, TypeOK
    <3>5. QED
      BY <1>1, <1>2, <1>4, <1>5, <1>6, <1>7, <2>1, <2>2, <2>4, <3>4
  <2>5. QED
    BY <2>3, <2>4
<1>10. QED
  BY <1>8, <1>9

\* The locals of a handler that goes on.
LEMMA StepJob ==
    ASSUME TypeOK, NEW r \in Slots, Runs(r), pc'[r] # "idle"
    PROVE  \/ job'[r] = job[r] /\ pc'[r] # "keep" /\ pc[r] # "finalize"
           \/ /\ At(r, {"create", "start", "mark"}, "record") /\ pc'[r] = "keep"
              /\ job'[r].replay = job[r].replay
              /\ \E e \in Egresses : /\ job'[r].egress = e
                                     /\ take' = [take EXCEPT ![e] = [state |-> "running", of |-> Of(r)]]
           \/ /\ pc[r] = "finalize" /\ pc'[r] \in {"write", "delete"}
              /\ job'[r].egress = job[r].egress
              /\ job'[r].replay = "READY" => job[r].egress # NoEgress
              /\ \/ take'[job[r].egress].state # "running" \/ job[r].egress = NoEgress
                 \/ Of(r) \in spoiled' /\ job'[r].replay # "READY"
<1>1. /\ pc[r] # "idle" /\ job[r] \in Job /\ Of(r) \in Streams
      /\ job[r].egress \in Egresses \cup {NoEgress}
  BY RunsStays, JobTyped DEF Stays
<1>2. CASE StartEgress(r)
  <2>1. PICK e \in Egresses :
          /\ take' = [take EXCEPT ![e] = [state |-> "running", of |-> Of(r)]]
          /\ \/ job' = [job EXCEPT ![r].egress = e] /\ pc' = [pc EXCEPT ![r] = "keep"]
             \/ Close(r)
    BY <1>2 DEF StartEgress
  <2>2. job' = [job EXCEPT ![r].egress = e] /\ pc'[r] = "keep"
    BY <2>1, SlotSteps DEF TypeOK
  <2>3. job'[r].egress = e /\ job'[r].replay = job[r].replay
    BY <1>1, <2>2 DEF TypeOK, Job
  <2>4. QED
    BY <1>2, <2>1, <2>2, <2>3 DEF StartEgress
<1>3. CASE Finalize(r)
  <2>. DEFINE e == job[r].egress
  <2>1. pc[r] = "finalize" /\ pc'[r] \in {"write", "delete"}
    BY <1>3 DEF Finalize, TypeOK
  <2>2. PICK found \in Replays :
           /\ job' = [job EXCEPT ![r].replay = found]
           /\ found = "READY" => e # NoEgress
           /\ \/ take' = IF e # NoEgress /\ take[e].state = "running"
                         THEN [take EXCEPT ![e].state = "ended"] ELSE take
              \/ Of(r) \in spoiled' /\ found # "READY"
    BY <1>3 DEF Finalize, Found, Replays
  <2>3. job'[r].egress = e /\ job'[r].replay = found
    BY <1>1, <2>2 DEF TypeOK, Job
  <2>4. ASSUME e # NoEgress,
               take' = IF e # NoEgress /\ take[e].state = "running"
                       THEN [take EXCEPT ![e].state = "ended"] ELSE take
        PROVE  take'[e].state # "running"
    <3>1. take[e] \in Take
      BY <1>1, <2>4 DEF TypeOK
    <3>2. QED
      BY <1>1, <2>4, <3>1 DEF TypeOK, Take
  <2>5. QED
    BY <2>1, <2>2, <2>3, <2>4
<1>4. CASE ~StartEgress(r) /\ ~Finalize(r)
  <2>1. ASSUME \E q : \E at \in Steps \cup {"idle"} : Update(r, q, at) /\ at # "keep"
        PROVE  job'[r] = job[r] /\ pc'[r] # "keep"
    BY <1>1, <2>1, UpdateSteps
  <2>2. ASSUME \E at \in Steps : Goto(r, at) /\ at # "keep"
        PROVE  job'[r] = job[r] /\ pc'[r] # "keep"
    BY <1>1, <2>2, GotoStays
  <2>3. ASSUME Close(r)
        PROVE  job'[r] = job[r] /\ pc'[r] # "keep"
    BY <1>1, <2>3, CloseStays
  <2>4. AfterStart \in (Steps \cup {"idle"}) \ {"keep"} /\ Ensure(r) \in (Steps \cup {"idle"}) \ {"keep"}
    BY DEF AfterStart, Ensure, Steps
  <2>5. WriteRoom(r) \/ WriteStarted(r) \/ WriteEnded(r) \/ WriteLive(r) \/ DeleteRow(r)
           \/ Show(r) \/ Tell(r) => \E q : \E at \in Steps \cup {"idle"} : Update(r, q, at) /\ at # "keep"
    BY <2>4 DEF WriteRoom, WriteStarted, WriteEnded, WriteLive, DeleteRow, Show, Tell, Steps
  <2>6. CreateRoom(r) => \E at \in Steps : Goto(r, at) /\ at # "keep"
    BY DEF CreateRoom, Steps
  <2>7. StartFails(r) \/ KeepEgress(r) \/ Fail(r) => Close(r)
    BY DEF StartFails, KeepEgress, Fail
  <2>8. pc[r] # "finalize"
    BY <1>1, <1>4, CloseStays DEF Runs, Step, CreateRoom, WriteRoom, WriteStarted, KeepEgress,
       WriteEnded, WriteLive, DeleteRow, Show, Tell, StartFails, Fail, At
  <2>9. job'[r] = job[r] /\ pc'[r] # "keep"
    BY <1>4, <2>1, <2>2, <2>3, <2>5, <2>6, <2>7 DEF Runs, Step
  <2>10. QED
    BY <2>8, <2>9
<1>5. QED
  BY <1>2, <1>3, <1>4

LEMMA NextCases ==
    ASSUME TypeOK, [Next]_vars
    PROVE  \/ \E r \in Slots, s \in Streams : Request(r, s)
           \/ \E r \in Slots : Runs(r)
           \/ \E s \in Streams : \E n \in Row : Ticks(s, n)
           \/ \E e \in Egresses : EgressEnds(e) \/ EgressEnded(e)
           \/ UNCHANGED vars
BY TickSteps DEF Next, Runs

-----------------------------------------------------------------------------
(***************************************************************************)
(* Whose recordings rows and slots name.                                   *)
(***************************************************************************)
Works(r, s) == pc[r] # "idle" /\ Of(r) = s
Over(s) == \E e \in TakesOf(s) : take[e].state \in {"ended", "reported"}

\* Rows and slots name recordings of their stream, and a replay that is ready is of one
\* that came to its end.
OwnRow(s) ==
    /\ row[s] = Unborn => TakesOf(s) = {}
    /\ Exists(s) => /\ row[s].egress # NoEgress => row[s].egress \in TakesOf(s)
                    /\ row[s].replay = "READY" => Over(s)

OwnSlot(r) ==
    pc[r] # "idle" =>
        /\ row[Of(r)] # Unborn
        /\ job[r].egress # NoEgress => job[r].egress \in TakesOf(Of(r))
        /\ job[r].replay = "READY" => Over(Of(r))

Own == (\A s \in Streams : OwnRow(s)) /\ (\A r \in Slots : OwnSlot(r))

\* The types, but for the recordings that rows and slots name.
SlotsTyped ==
    /\ spoiled \subseteq Streams
    /\ pc \in [Slots -> {"idle"} \cup Steps]
    /\ job \in [Slots -> Job \cup {Free}]
    /\ \A r \in Slots : pc[r] # "idle" => job[r] \in Job
    /\ \A r \in Slots : pc[r] = "keep" => job[r].egress \in Egresses

Typed ==
    /\ serial \subseteq Streams
    /\ row \in [Streams -> Row \cup {Unborn, Lapsed, Removed}]
    /\ take \in [Egresses -> Take \cup {Unused}]
    /\ SlotsTyped

LEMMA TypedOwn == Typed /\ Own => TypeOK
<1>. SUFFICES ASSUME Typed, Own PROVE TypeOK
  OBVIOUS
<1>1. \A s \in Streams : Exists(s) /\ row[s].egress # NoEgress => take[row[s].egress] # Unused
  BY DEF Own, OwnRow, TakesOf
<1>2. \A r \in Slots : pc[r] # "idle" /\ job[r].egress # NoEgress => take[job[r].egress] # Unused
  BY DEF Own, OwnSlot, TakesOf
<1>3. QED
  BY <1>1, <1>2 DEF Typed, SlotsTyped, TypeOK

LEMMA Grows ==
    ASSUME TypeOK, take' \in [Egresses -> Take \cup {Unused}], TakesLast, NEW s \in Streams
    PROVE  TakesOf(s) \subseteq TakesOf(s)' /\ (Over(s) => Over(s)')
<1>1. TakesOf(s) \subseteq TakesOf(s)'
  BY DEF TakesOf, TakesLast
<1>2. ASSUME NEW e \in TakesOf(s), take[e].state \in {"ended", "reported"}
      PROVE  take'[e].state \in {"ended", "reported"}
  BY <1>2 DEF TakesOf, TakesLast, Take
<1>3. QED
  BY <1>1, <1>2 DEF Over

\* The first recordings of a stream are made by one of its handlers.
LEMMA TakesNext ==
    ASSUME TypeOK, [Next]_vars
    PROVE  /\ serial' = serial
           /\ take' \in [Egresses -> Take \cup {Unused}] /\ TakesLast
           /\ \A e \in Egresses : take'[e] # take[e] /\ take[e] = Unused =>
                 \E r \in Slots : pc[r] # "idle" /\ take'[e].of = Of(r)
<1>1. CASE \E r \in Slots, s \in Streams : Request(r, s)
  BY <1>1, RequestSteps DEF TypeOK, TakesLast
<1>2. ASSUME NEW r \in Slots, Runs(r)
      PROVE  /\ serial' = serial
             /\ take' \in [Egresses -> Take \cup {Unused}] /\ TakesLast
             /\ \A e \in Egresses : take'[e] # take[e] /\ take[e] = Unused =>
                   pc[r] # "idle" /\ take'[e].of = Of(r)
  <2>1. pc[r] # "idle" /\ serial' = serial
    BY <1>2, RunsStays DEF Stays
  <2>2. take' \in [Egresses -> Take \cup {Unused}] /\ TakesLast
    BY <1>2, StepTake
  <2>3. ASSUME NEW e \in Egresses, take'[e] # take[e], take[e] = Unused
        PROVE  take'[e].of = Of(r)
    <3>1. pc[r] = "finalize" => job[r].egress # e
      BY <2>1, <2>3, StreamAssumption DEF TypeOK
    <3>2. take'[e] = [state |-> "running", of |-> Of(r)]
      BY <1>2, <2>3, <3>1, StepTake
    <3>3. QED
      BY <3>2
  <2>4. QED
    BY <2>1, <2>2, <2>3
<1>3. CASE \E s \in Streams : \E n \in Row : Ticks(s, n)
  BY <1>3 DEF Ticks, TypeOK, TakesLast
<1>4. ASSUME NEW e \in Egresses, EgressEnds(e) \/ EgressEnded(e)
      PROVE  /\ serial' = serial
             /\ take' \in [Egresses -> Take \cup {Unused}] /\ TakesLast
             /\ \A d \in Egresses : take'[d] # take[d] => take[d] # Unused
  BY <1>4, TakeSteps
<1>5. CASE UNCHANGED vars
  BY <1>5 DEF vars, TypeOK, TakesLast
<1>6. QED
  BY <1>1, <1>2, <1>3, <1>4, <1>5, NextCases

\* How a row changes.
LEMMA RowNext ==
    ASSUME TypeOK, [Next]_vars
    PROVE  /\ row' \in [Streams -> Row \cup {Unborn, Lapsed, Removed}]
           /\ \A s \in Streams : row'[s] # row[s] =>
                 \/ row[s] = Unborn /\ row'[s] = [Fresh EXCEPT !.live = TRUE, !.beat = "fresh"]
                 \/ \E n \in Row : Ticks(s, n)
                 \/ \E r \in Slots : Runs(r) /\ Of(r) = s /\ StepPuts(r) /\ UNCHANGED <<take, spoiled>>
                 \/ /\ Exists(s)
                    /\ \E e \in Egresses :
                         /\ EgressEnded(e) /\ take[e].of = s /\ take[e].state = "ended"
                         /\ \E found \in {row[s].replay, "READY", "FAILED"} :
                              Puts(s, [row[s] EXCEPT !.egress = NoEgress, !.replay = found])
<1>1. ASSUME NEW r \in Slots, NEW s \in Streams, Request(r, s)
      PROVE  /\ row' \in [Streams -> Row \cup {Unborn, Lapsed, Removed}]
             /\ \A j \in Streams : row'[j] # row[j] =>
                 row[j] = Unborn /\ row'[j] = [Fresh EXCEPT !.live = TRUE, !.beat = "fresh"]
  <2>1. [Fresh EXCEPT !.live = TRUE, !.beat = "fresh"] \in Row
    BY DEF Fresh, Row, Ages, Beats, Replays
  <2>2. CASE /\ row[s] = Unborn
             /\ row' = [row EXCEPT ![s] = [Fresh EXCEPT !.live = TRUE, !.beat = "fresh"]]
    BY <2>1, <2>2 DEF TypeOK
  <2>3. CASE UNCHANGED row
    BY <2>3 DEF TypeOK
  <2>4. QED
    BY <1>1, <2>2, <2>3, RequestSteps
<1>2. ASSUME NEW r \in Slots, Runs(r)
      PROVE  /\ row' \in [Streams -> Row \cup {Unborn, Lapsed, Removed}]
             /\ \A j \in Streams : row'[j] # row[j] =>
                 Of(r) = j /\ StepPuts(r) /\ UNCHANGED <<take, spoiled>>
  <2>1. CASE UNCHANGED row
    BY <2>1 DEF TypeOK
  <2>2. CASE ~UNCHANGED row
    <3>1. StepPuts(r) /\ UNCHANGED <<take, spoiled>>
      BY <1>2, <2>2, StepRow
    <3>2. \E q : Puts(Of(r), q)
      BY <3>1 DEF StepPuts
    <3>3. QED
      BY <3>1, <3>2 DEF Puts
  <2>3. QED
    BY <2>1, <2>2
<1>3. ASSUME NEW s \in Streams, NEW n \in Row, Ticks(s, n)
      PROVE  /\ row' \in [Streams -> Row \cup {Unborn, Lapsed, Removed}]
             /\ \A j \in Streams : row'[j] # row[j] => j = s
  BY <1>3 DEF Ticks, Puts
<1>4. ASSUME NEW e \in Egresses, EgressEnds(e) \/ EgressEnded(e)
      PROVE  /\ row' \in [Streams -> Row \cup {Unborn, Lapsed, Removed}]
             /\ \A s \in Streams : row'[s] # row[s] =>
                   /\ Exists(s)
                   /\ EgressEnded(e) /\ take[e].of = s /\ take[e].state = "ended"
                   /\ \E found \in {row[s].replay, "READY", "FAILED"} :
                        Puts(s, [row[s] EXCEPT !.egress = NoEgress, !.replay = found])
  <2>1. CASE UNCHANGED row
    BY <2>1 DEF TypeOK
  <2>2. CASE ~UNCHANGED row
    <3>1. /\ take[e].state = "ended" /\ Exists(take[e].of) /\ take[e].of \in Streams
          /\ \E found \in {row[take[e].of].replay, "READY", "FAILED"} :
               Puts(take[e].of, [row[take[e].of] EXCEPT !.egress = NoEgress, !.replay = found])
      BY <1>4, <2>2, TakeSteps
    <3>2. EgressEnded(e)
      BY <1>4, <3>1 DEF EgressEnds
    <3>3. QED
      BY <3>1, <3>2 DEF Puts
  <2>3. QED
    BY <2>1, <2>2
<1>5. CASE UNCHANGED vars
  BY <1>5 DEF vars, TypeOK
<1>6. QED
  BY <1>1, <1>2, <1>3, <1>4, <1>5, NextCases

LEMMA BornLasts ==
    ASSUME TypeOK, [Next]_vars, NEW s \in Streams, row[s] # Unborn
    PROVE  row'[s] # Unborn
<1>1. \A n \in Row \cup {Lapsed, Removed} : n # Unborn
  BY DEF Row, Lapsed, Removed, Unborn
<1>2. ASSUME NEW q, Puts(s, q) PROVE row'[s] # Unborn
  BY <1>1, <1>2 DEF Puts
<1>3. ASSUME NEW r \in Slots, StepPuts(r), Of(r) = s PROVE \E q : Puts(s, q)
  BY <1>3 DEF StepPuts
<1>4. QED
  BY <1>2, <1>3, RowNext DEF Ticks

LEMMA OwnRowStep ==
    ASSUME TypeOK, Own, [Next]_vars, NEW s \in Streams
    PROVE  OwnRow(s)'
<1>0. /\ take' \in [Egresses -> Take \cup {Unused}] /\ TakesLast
      /\ TakesOf(s) \subseteq TakesOf(s)' /\ (Over(s) => Over(s)')
  BY TakesNext, Grows
<1>1. row'[s] = Unborn => TakesOf(s)' = {}
  <2>. SUFFICES ASSUME row'[s] = Unborn, NEW e \in TakesOf(s)'
                PROVE  FALSE
    OBVIOUS
  <2>1. row[s] = Unborn /\ TakesOf(s) = {}
    BY BornLasts DEF Own, OwnRow
  <2>2. take'[e] # take[e] /\ take[e] = Unused /\ take'[e].of = s
    BY <1>0, <2>1 DEF TakesOf, TakesLast
  <2>3. PICK r \in Slots : pc[r] # "idle" /\ Of(r) = s
    BY <2>2, TakesNext DEF TakesOf
  <2>4. QED
    BY <2>1, <2>3 DEF Own, OwnSlot
<1>. DEFINE Fine(q) == /\ q.egress # NoEgress => q.egress \in TakesOf(s)'
                       /\ q.replay = "READY" => Over(s)'
<1>2. CASE row'[s] = row[s]
  BY <1>0, <1>1, <1>2 DEF Own, OwnRow, Exists
<1>3. ASSUME row'[s] # row[s], Exists(s)'
      PROVE  Fine(row'[s])
  <2>1. CASE row[s] = Unborn /\ row'[s] = [Fresh EXCEPT !.live = TRUE, !.beat = "fresh"]
    BY <2>1 DEF Fresh
  <2>2. ASSUME NEW n \in Row, Ticks(s, n)
        PROVE  Fine(row'[s])
    BY <1>0, <2>2 DEF Ticks, Puts, Own, OwnRow
  <2>3. ASSUME NEW r \in Slots, Runs(r), Of(r) = s, StepPuts(r), UNCHANGED <<take, spoiled>>
        PROVE  Fine(row'[s])
    <3>. DEFINE q == row[s]
    <3>1. /\ q \in Row /\ job[r] \in Job /\ pc[r] # "idle"
          /\ q.egress # NoEgress => q.egress \in TakesOf(s)'
          /\ q.replay = "READY" => Over(s)'
      BY <1>0, <2>3, RowOf, RunsStays DEF StepPuts, Stays, Own, OwnRow
    <3>2. /\ job[r].egress # NoEgress => job[r].egress \in TakesOf(s)'
          /\ job[r].replay = "READY" => Over(s)'
      BY <1>0, <2>3, <3>1 DEF Own, OwnSlot
    <3>. HIDE DEF q
    <3>3. CASE Puts(s, Removed) \/ Puts(s, Lapsed)
      BY <1>3, <3>3 DEF Puts, Exists, Lapsed, Removed
    <3>4. CASE \E n \in Row : Puts(s, n) /\ n.egress = q.egress /\ n.replay = q.replay
      BY <3>1, <3>4 DEF Puts
    <3>5. CASE Puts(s, [q EXCEPT !.egress = job[r].egress, !.replay = "RECORDING"])
      BY <3>1, <3>2, <3>5 DEF Puts, Row
    <3>6. CASE Puts(s, [Patched(r, q) EXCEPT !.live = FALSE, !.ended = TRUE])
      <4>1. row'[s] = [Patched(r, q) EXCEPT !.live = FALSE, !.ended = TRUE]
        BY <3>6 DEF Puts
      <4>2. /\ row'[s].egress = NoEgress \/ row'[s].egress = q.egress
            /\ row'[s].replay = job[r].replay \/ row'[s].replay = q.replay
        BY <3>1, <4>1 DEF Row, Patched
      <4>3. QED
        BY <3>1, <3>2, <4>2
    <3>7. \/ Puts(s, Removed) \/ Puts(s, Lapsed)
          \/ \E n \in Row : Puts(s, n) /\ n.egress = q.egress /\ n.replay = q.replay
          \/ Puts(s, [q EXCEPT !.egress = job[r].egress, !.replay = "RECORDING"])
          \/ Puts(s, [Patched(r, q) EXCEPT !.live = FALSE, !.ended = TRUE])
      <4>1. ASSUME Puts(s, [q EXCEPT !.room = TRUE])
            PROVE  \E n \in Row : Puts(s, n) /\ n.egress = q.egress /\ n.replay = q.replay
        <5>1. LET n == [q EXCEPT !.room = TRUE] IN
              n \in Row /\ n.egress = q.egress /\ n.replay = q.replay
          BY <3>1 DEF Row
        <5>2. QED
          BY <4>1, <5>1
      <4>2. ASSUME Puts(s, [q EXCEPT !.live = TRUE, !.start = "near", !.beat = "fresh", !.room = TRUE])
            PROVE  \E n \in Row : Puts(s, n) /\ n.egress = q.egress /\ n.replay = q.replay
        <5>1. LET n == [q EXCEPT !.live = TRUE, !.start = "near", !.beat = "fresh", !.room = TRUE] IN
              n \in Row /\ n.egress = q.egress /\ n.replay = q.replay
          BY <3>1 DEF Row, Ages, Beats
        <5>2. QED
          BY <4>2, <5>1
      <4>3. ASSUME Puts(s, [q EXCEPT !.live = job[r].to])
            PROVE  \E n \in Row : Puts(s, n) /\ n.egress = q.egress /\ n.replay = q.replay
        <5>1. LET n == [q EXCEPT !.live = job[r].to] IN
              n \in Row /\ n.egress = q.egress /\ n.replay = q.replay
          BY <3>1, JobTyped DEF Row
        <5>2. QED
          BY <4>3, <5>1
      <4>4. ASSUME Puts(s, [q EXCEPT !.told = @ + 1])
            PROVE  \E n \in Row : Puts(s, n) /\ n.egress = q.egress /\ n.replay = q.replay
        <5>1. LET n == [q EXCEPT !.told = @ + 1] IN
              n \in Row /\ n.egress = q.egress /\ n.replay = q.replay
          BY <3>1 DEF Row
        <5>2. QED
          BY <4>4, <5>1
      <4>5. QED
        BY <2>3, <4>1, <4>2, <4>3, <4>4 DEF StepPuts, q
    <3>8. QED
      BY <3>3, <3>4, <3>5, <3>6, <3>7
  <2>4. ASSUME NEW e \in Egresses, EgressEnded(e), take[e].of = s, Exists(s),
               take[e].state = "ended",
               NEW found, Puts(s, [row[s] EXCEPT !.egress = NoEgress, !.replay = found])
        PROVE  Fine(row'[s])
    <3>1. e \in TakesOf(s)
      BY <2>4, TakeSteps DEF TakesOf
    <3>2. Over(s)'
      BY <1>0, <2>4, <3>1 DEF Over
    <3>3. row'[s].egress = NoEgress
      BY <2>4, RowOf DEF Puts, Row
    <3>4. QED
      BY <3>2, <3>3
  <2>5. QED
    BY <1>3, <2>1, <2>2, <2>3, <2>4, RowNext
<1>4. QED
  BY <1>1, <1>2, <1>3 DEF OwnRow

LEMMA OwnSlotLasts ==
    ASSUME TypeOK, Own, [Next]_vars, NEW r \in Slots, pc[r] # "idle", job'[r] = job[r]
    PROVE  OwnSlot(r)'
<1>1. Of(r) \in Streams /\ Of(r)' = Of(r) /\ OwnSlot(r)
  BY JobTyped DEF TypeOK, Own, Of
<1>2. TakesOf(Of(r)) \subseteq TakesOf(Of(r))' /\ (Over(Of(r)) => Over(Of(r))')
  BY <1>1, TakesNext, Grows
<1>3. row'[Of(r)] # Unborn
  BY <1>1, BornLasts DEF OwnSlot
<1>4. QED
  BY <1>1, <1>2, <1>3 DEF OwnSlot

LEMMA OwnSlotStep ==
    ASSUME TypeOK, Own, [Next]_vars, NEW r \in Slots
    PROVE  OwnSlot(r)'
<1>0. \A s \in Streams : TakesOf(s) \subseteq TakesOf(s)' /\ (Over(s) => Over(s)')
  BY TakesNext, Grows
<1>1. CASE pc[r] # "idle" /\ job'[r] = job[r]
  BY <1>1, OwnSlotLasts
<1>2. CASE pc'[r] = "idle"
  BY <1>2 DEF OwnSlot
<1>3. ASSUME NEW q \in Slots, NEW s \in Streams, Request(q, s)
      PROVE  OwnSlot(r)'
  <2>1. CASE r # q
    BY <1>1, <1>2, <1>3, <2>1, RequestBegins
  <2>2. CASE r = q
    <3>1. job'[r].stream = s /\ job'[r].replay = "NONE" /\ Of(r)' = s
      BY <1>3, <2>2, RequestBegins DEF Of
    <3>2. CASE /\ row' = [row EXCEPT ![s] = [Fresh EXCEPT !.live = TRUE, !.beat = "fresh"]]
               /\ job'[r].egress = NoEgress
      <4>1. row'[s] # Unborn
        BY <3>2 DEF TypeOK, Fresh, Unborn
      <4>2. QED
        BY <3>1, <3>2, <4>1 DEF OwnSlot
    <3>3. CASE UNCHANGED row /\ job'[r].egress = row[s].egress /\ Exists(s)
      <4>1. row'[s] # Unborn /\ (row[s].egress # NoEgress => row[s].egress \in TakesOf(s))
        BY <3>3 DEF Own, OwnRow, Exists, Unborn
      <4>2. QED
        BY <1>0, <3>1, <3>3, <4>1 DEF OwnSlot
    <3>4. QED
      BY <1>3, <2>2, <3>2, <3>3, RequestBegins DEF LetIn
  <2>3. QED
    BY <2>1, <2>2
<1>4. ASSUME NEW q \in Slots, Runs(q)
      PROVE  OwnSlot(r)'
  <2>1. CASE r # q
    BY <1>1, <1>2, <1>4, <2>1, RunsStays DEF Stays
  <2>2. CASE r = q /\ pc'[r] # "idle"
    <3>1. /\ pc[r] # "idle" /\ job[r] \in Job /\ job'[r].stream = job[r].stream
          /\ Of(r) \in Streams /\ Of(r)' = Of(r) /\ OwnSlot(r)
      BY <1>4, <2>2, RunsStays, JobTyped DEF Stays, Own, Of
    <3>2. row'[Of(r)] # Unborn
      BY <3>1, BornLasts DEF OwnSlot
    <3>3. ASSUME At(r, {"create", "start", "mark"}, "record"), job'[r].replay = job[r].replay,
                 NEW e \in Egresses, job'[r].egress = e,
                 take' = [take EXCEPT ![e] = [state |-> "running", of |-> Of(r)]]
          PROVE  OwnSlot(r)'
      <4>1. take'[e] # Unused /\ take'[e].of = Of(r)
        BY <3>3 DEF TypeOK, Unused
      <4>2. e \in TakesOf(Of(r))'
        BY <3>1, <4>1 DEF TakesOf
      <4>3. QED
        BY <1>0, <3>1, <3>2, <3>3, <4>2 DEF OwnSlot
    <3>4. ASSUME pc[r] = "finalize", job'[r].egress = job[r].egress,
                 job'[r].replay = "READY" => job[r].egress # NoEgress,
                 \/ take'[job[r].egress].state # "running" \/ job[r].egress = NoEgress
                 \/ job'[r].replay # "READY"
          PROVE  OwnSlot(r)'
      <4>1. job[r].egress # NoEgress => job[r].egress \in TakesOf(Of(r))'
        BY <1>0, <3>1 DEF OwnSlot
      <4>2. ASSUME job'[r].replay = "READY" PROVE Over(Of(r))'
        <5>1. /\ job[r].egress \in TakesOf(Of(r))' /\ take'[job[r].egress].state # "running"
              /\ job[r].egress \in Egresses /\ take'[job[r].egress] # Unused
          BY <3>4, <4>1, <4>2 DEF TakesOf
        <5>2. take'[job[r].egress] \in Take
          BY <5>1, TakesNext
        <5>3. QED
          BY <5>1, <5>2 DEF Over, Take
      <4>3. QED
        BY <3>1, <3>2, <3>4, <4>1, <4>2 DEF OwnSlot
    <3>5. CASE job'[r] = job[r]
      BY <1>1, <3>1, <3>5
    <3>6. QED
      BY <1>4, <2>2, <3>3, <3>4, <3>5, StepJob
  <2>3. QED
    BY <1>2, <2>1, <2>2
<1>5. CASE \E s \in Streams : \E n \in Row : Ticks(s, n)
  BY <1>1, <1>2, <1>5 DEF Ticks, slot
<1>6. CASE \E e \in Egresses : EgressEnds(e) \/ EgressEnded(e)
  BY <1>1, <1>2, <1>6, TakeSteps DEF slot
<1>7. CASE UNCHANGED vars
  BY <1>1, <1>2, <1>7 DEF vars
<1>8. QED
  BY <1>3, <1>4, <1>5, <1>6, <1>7, NextCases

LEMMA OwnStep ==
    ASSUME TypeOK, Own, [Next]_vars
    PROVE  Own'
BY OwnRowStep, OwnSlotStep DEF Own

LEMMA TypedStep ==
    ASSUME TypeOK, [Next]_vars
    PROVE  Typed'
<1>1. serial' = serial /\ take' \in [Egresses -> Take \cup {Unused}]
      /\ row' \in [Streams -> Row \cup {Unborn, Lapsed, Removed}]
  BY TakesNext, RowNext
<1>2. ASSUME NEW r \in Slots, NEW s \in Streams, Request(r, s)
      PROVE  SlotsTyped'
  <2>1. UNCHANGED spoiled /\ spoiled \subseteq Streams
    BY <1>2, RequestBegins DEF TypeOK
  <2>2. /\ pc' \in [Slots -> {"idle"} \cup Steps] /\ job' \in [Slots -> Job \cup {Free}]
        /\ job'[r] \in Job /\ pc'[r] # "keep"
        /\ \A q \in Slots \ {r} : pc'[q] = pc[q] /\ job'[q] = job[q]
    BY <1>2, RequestBegins
  <2>3. QED
    BY <2>1, <2>2 DEF SlotsTyped, TypeOK
<1>3. ASSUME NEW r \in Slots, Runs(r)
      PROVE  SlotsTyped'
  <2>1. Stays(r) /\ Of(r) \in Streams
    BY <1>3, RunsStays, JobTyped DEF Stays
  <2>2. pc'[r] = "keep" => job'[r].egress \in Egresses
    <3>1. CASE pc'[r] = "keep"
      <4>1. \E e \in Egresses : job'[r].egress = e
        BY <1>3, <3>1, StepJob
      <4>2. QED
        BY <4>1
    <3>2. QED
      BY <3>1
  <2>3. spoiled' \subseteq Streams
    <3>1. spoiled' \subseteq spoiled \cup {Of(r)} /\ spoiled \subseteq Streams
      BY <1>3, StepTake DEF TypeOK
    <3>2. QED
      BY <2>1, <3>1
  <2>4. /\ pc' \in [Slots -> {"idle"} \cup Steps] /\ job' \in [Slots -> Job \cup {Free}]
        /\ pc'[r] # "idle" => job'[r] \in Job
        /\ \A q \in Slots \ {r} : pc'[q] = pc[q] /\ job'[q] = job[q]
    BY <2>1 DEF Stays
  <2>5. QED
    BY <2>2, <2>3, <2>4 DEF SlotsTyped, TypeOK
<1>4. ASSUME spoiled' = spoiled, pc' = pc, job' = job
      PROVE  SlotsTyped'
  <2>1. SlotsTyped
    BY DEF SlotsTyped, TypeOK
  <2>2. QED
    BY <1>4, <2>1 DEF SlotsTyped
<1>5. SlotsTyped'
  <2>1. (\E s \in Streams : \E n \in Row : Ticks(s, n)) => spoiled' = spoiled /\ pc' = pc /\ job' = job
    BY DEF Ticks, slot
  <2>2. (\E e \in Egresses : EgressEnds(e) \/ EgressEnded(e)) => spoiled' = spoiled /\ pc' = pc /\ job' = job
    BY TakeSteps DEF slot
  <2>3. UNCHANGED vars => spoiled' = spoiled /\ pc' = pc /\ job' = job
    BY DEF vars
  <2>4. QED
    BY <1>2, <1>3, <1>4, <2>1, <2>2, <2>3, NextCases
<1>6. QED
  BY <1>1, <1>5 DEF Typed, TypeOK

\* Every variable keeps its type, and rows and slots name only recordings of their own
\* stream, for any number of streams, handlers and recordings.
THEOREM StreamsTyped == Spec => [](TypeOK /\ Own)
<1>1. Init => TypeOK /\ Own
  BY StreamAssumption DEF Init, TypeOK, Own, OwnRow, OwnSlot, TakesOf, Unborn, Exists
<1>2. TypeOK /\ Own /\ [Next]_vars => TypeOK' /\ Own'
  <2>. SUFFICES ASSUME TypeOK, Own, [Next]_vars PROVE TypeOK' /\ Own'
    OBVIOUS
  <2>1. Typed' /\ Own'
    BY TypedStep, OwnStep
  <2>2. Typed' /\ Own' => TypeOK'
    BY TypedOwn, PTL
  <2>3. QED
    BY <2>1, <2>2
<1>3. QED
  BY <1>1, <1>2, PTL DEF Spec

\* However handlers, webhook and failures overlap, a stream shown with a replay has a
\* recording that came to its end.
THEOREM ReplaysAreRecorded == Spec => []ReplayRecorded
<1>1. Own => ReplayRecorded
  BY DEF Own, OwnRow, Over, ReplayRecorded
<1>2. QED
  BY <1>1, StreamsTyped, PTL

-----------------------------------------------------------------------------
(***************************************************************************)
(* Streams whose handlers do not overlap.                                  *)
(***************************************************************************)
\* The row: nobody is told twice, and what is planned or over has no recording.
RowFine(s) ==
    Exists(s) =>
        /\ row[s].told <= 1
        /\ ~row[s].live /\ ~row[s].ended => ~row[s].room /\ row[s].egress = NoEgress
        /\ row[s].ended => row[s].egress = NoEgress

\* Whose hands a recording is in until the webhook has reported it.
Held(s) ==
    s \notin spoiled =>
        \A e \in TakesOf(s) : take[e].state # "reported" =>
            \/ Exists(s) /\ row[s].egress = e
            \/ \E r \in Slots : Works(r, s) /\ pc[r] = "keep" /\ job[r].egress = e
            \/ take[e].state = "ended" /\ (~Exists(s) \/ row[s].ended)

Ending == {"stop", "patch", "remove", "sweep"}

\* What a handler knows of row s, at each of its steps.
Knows(r, s) ==
    /\ pc[r] # "keep" => row[s].egress = job[r].egress
    /\ job[r].op = "create" /\ pc[r] \in {"room", "write"} =>
          row[s].live /\ ~row[s].ended /\ row[s].egress = NoEgress
    /\ job[r].op = "start" /\ pc[r] \in {"room", "write"} => ~row[s].live /\ ~row[s].ended
    /\ pc[r] \in {"record", "keep"} => row[s].live /\ ~row[s].ended /\ row[s].egress = NoEgress
    /\ pc[r] \in {"show", "tell"} => row[s].live /\ ~row[s].ended
    /\ pc[r] = "tell" => row[s].told = 0
    /\ pc[r] = "live" => ~row[s].live \/ job[r].to
    /\ job[r].op = "missed" => ~row[s].live /\ ~row[s].ended

\* A handler that ends a stream has stopped its recording before it writes.
Stopped(r, s) ==
    /\ pc[r] = "finalize" => job[r].op \in Ending
    /\ pc[r] \in {"write", "delete"} /\ job[r].op \in Ending =>
          job[r].egress = NoEgress \/ s \in spoiled \/ take[job[r].egress].state # "running"

Current(r, s) == Exists(s) /\ Knows(r, s) /\ Stopped(r, s)

Alone(s) == \A q, r \in Slots : Works(q, s) /\ Works(r, s) => q = r

Kept(s) ==
    /\ RowFine(s) /\ Held(s) /\ Alone(s)
    /\ \A r \in Slots : Works(r, s) => Current(r, s)

SerialKept == \A s \in serial : Kept(s)

\* A step that is not about stream s, or only about how old it is, or the end of one of
\* its recordings.
Calm(s) ==
    /\ Exists(s)' <=> Exists(s)
    /\ Exists(s) =>
          /\ row'[s].live = row[s].live /\ row'[s].ended = row[s].ended
          /\ row'[s].room = row[s].room /\ row'[s].egress = row[s].egress
          /\ row'[s].told = row[s].told
    /\ s \in spoiled' <=> s \in spoiled
    /\ TakesOf(s)' = TakesOf(s)
    /\ \A e \in TakesOf(s) :
          take'[e] = take[e] \/ (take[e].state = "running" /\ take'[e].state = "ended")
    /\ \A r \in Slots : Works(r, s) \/ Works(r, s)' => pc'[r] = pc[r] /\ job'[r] = job[r]

LEMMA CalmKeeps ==
    ASSUME Own, NEW s \in Streams, Kept(s), Calm(s)
    PROVE  Kept(s)'
<1>1. \A r \in Slots : Works(r, s)' <=> Works(r, s)
  BY DEF Calm, Works, Of
<1>2. RowFine(s)'
  BY DEF Kept, RowFine, Calm
<1>3. Alone(s)'
  BY <1>1 DEF Kept, Alone
<1>4. Held(s)'
  <2>. SUFFICES ASSUME s \notin spoiled', NEW e \in TakesOf(s)', take'[e].state # "reported"
                PROVE  \/ Exists(s)' /\ row'[s].egress = e
                       \/ \E r \in Slots : Works(r, s)' /\ pc'[r] = "keep" /\ job'[r].egress = e
                       \/ take'[e].state = "ended" /\ (~Exists(s)' \/ row'[s].ended)
    BY DEF Held
  <2>1. e \in TakesOf(s) /\ take[e].state # "reported" /\ s \notin spoiled
        /\ (take[e].state = "ended" => take'[e].state = "ended")
    BY DEF Calm
  <2>2. \/ Exists(s) /\ row[s].egress = e
        \/ \E r \in Slots : Works(r, s) /\ pc[r] = "keep" /\ job[r].egress = e
        \/ take[e].state = "ended" /\ (~Exists(s) \/ row[s].ended)
    BY <2>1 DEF Kept, Held
  <2>3. CASE Exists(s) /\ row[s].egress = e
    BY <2>3 DEF Calm
  <2>4. ASSUME NEW r \in Slots, Works(r, s), pc[r] = "keep", job[r].egress = e
        PROVE  Works(r, s)' /\ pc'[r] = "keep" /\ job'[r].egress = e
    BY <1>1, <2>4 DEF Calm
  <2>5. CASE take[e].state = "ended" /\ (~Exists(s) \/ row[s].ended)
    BY <2>1, <2>5 DEF Calm
  <2>6. QED
    BY <2>2, <2>3, <2>4, <2>5
<1>5. ASSUME NEW r \in Slots, Works(r, s)'
      PROVE  Current(r, s)'
  <2>1. /\ Works(r, s) /\ pc'[r] = pc[r] /\ job'[r] = job[r]
        /\ Exists(s) /\ Knows(r, s) /\ Stopped(r, s)
    BY <1>1, <1>5 DEF Kept, Current, Calm
  <2>2. Exists(s)' /\ Knows(r, s)'
    BY <2>1 DEF Calm, Knows
  <2>3. job[r].egress # NoEgress => job[r].egress \in TakesOf(s)
    BY <2>1 DEF Own, OwnSlot, Works
  <2>4. job[r].egress # NoEgress /\ take[job[r].egress].state # "running" =>
           take'[job[r].egress].state # "running"
    BY <2>3 DEF Calm
  <2>5. Stopped(r, s)'
    BY <2>1, <2>4 DEF Calm, Stopped
  <2>6. QED
    BY <2>2, <2>5 DEF Current
<1>6. QED
  BY <1>2, <1>3, <1>4, <1>5 DEF Kept

\* A recording that no row and no slot holds has ended.
LEMMA HeldBy ==
    ASSUME NEW s \in Streams, Kept(s), s \notin spoiled, NEW r \in Slots, Works(r, s),
           pc[r] # "keep", NEW e \in TakesOf(s), take[e].state # "reported"
    PROVE  row[s].egress = e \/ (take[e].state = "ended" /\ row[s].ended)
BY DEF Kept, Held, Alone, Current

\* Handlers of other streams, and what happens to other rows, leave a stream alone.
LEMMA CalmRequest ==
    ASSUME TypeOK, NEW r \in Slots, NEW j \in Streams, Request(r, j), NEW s \in Streams, s # j
    PROVE  Calm(s)
<1>1. row'[s] = row[s]
  BY RequestBegins DEF TypeOK
<1>2. take' = take /\ spoiled' = spoiled
  BY RequestBegins
<1>3. \A q \in Slots : Works(q, s) \/ Works(q, s)' => pc'[q] = pc[q] /\ job'[q] = job[q]
  BY RequestBegins DEF Works, Of
<1>4. QED
  BY <1>1, <1>2, <1>3 DEF Calm, Exists, TakesOf

LEMMA CalmRun ==
    ASSUME TypeOK, Own, NEW r \in Slots, Runs(r), NEW s \in Streams, s # Of(r)
    PROVE  Calm(s)
<1>1. Stays(r) /\ Of(r) \in Streams /\ (Of(r)' = Of(r) \/ pc'[r] = "idle")
  BY RunsStays, JobTyped DEF Stays, Of
<1>2. row'[s] = row[s]
  <2>1. StepPuts(r) => \E q : Puts(Of(r), q)
    BY DEF StepPuts
  <2>2. QED
    BY <2>1, StepRow DEF Puts
<1>3. s \in spoiled' <=> s \in spoiled
  BY StepTake
<1>4. ASSUME NEW e \in Egresses, e \in TakesOf(s) \/ e \in TakesOf(s)'
      PROVE  take'[e] = take[e]
  <2>1. CASE take[e] = Unused /\ take'[e] = [state |-> "running", of |-> Of(r)]
    BY <1>4, <2>1 DEF TakesOf
  <2>2. CASE pc[r] = "finalize" /\ e = job[r].egress
    <3>1. pc[r] # "idle" /\ e \in TakesOf(Of(r))
      BY <2>2, StreamAssumption DEF Own, OwnSlot
    <3>2. take[e] # Unused /\ take[e].of = Of(r)
      BY <3>1 DEF TakesOf
    <3>3. take'[e].of = Of(r)
      BY <3>2, StepTake DEF TakesLast
    <3>4. QED
      BY <1>4, <3>2, <3>3 DEF TakesOf
  <2>3. QED
    BY <2>1, <2>2, StepTake
<1>5. TakesOf(s)' = TakesOf(s)
  BY <1>4 DEF TakesOf
<1>6. \A q \in Slots : Works(q, s) \/ Works(q, s)' => pc'[q] = pc[q] /\ job'[q] = job[q]
  BY <1>1, RunsStays DEF Works, Stays, Of
<1>7. QED
  BY <1>2, <1>3, <1>4, <1>5, <1>6 DEF Calm, Exists, TakesOf

\* A stream that is planned, rescheduled or gets older.
LEMMA KeptTick ==
    ASSUME TypeOK, Own, NEW j \in Streams, NEW n \in Row, Ticks(j, n), NEW s \in Streams, Kept(s)
    PROVE  Kept(s)'
<1>1. take' = take /\ spoiled' = spoiled /\ pc' = pc /\ job' = job
  BY DEF Ticks, slot
<1>2. CASE s # j \/ Exists(j)
  <2>1. Calm(s)
    BY <1>1, <1>2 DEF Ticks, Puts, Calm, Exists, Row, TakesOf, Unborn
  <2>2. QED
    BY <2>1, CalmKeeps
<1>3. CASE s = j /\ row[s] = Unborn
  <2>1. TakesOf(s)' = {} /\ \A r \in Slots : ~Works(r, s)'
    BY <1>1, <1>3 DEF Own, OwnRow, OwnSlot, TakesOf, Works, Of
  <2>2. ~row'[s].live /\ ~row'[s].room /\ row'[s].egress = NoEgress /\ row'[s].told = 0
        /\ ~row'[s].ended
    BY <1>3 DEF Ticks, Puts, Exists, Unborn
  <2>3. QED
    BY <2>1, <2>2 DEF Kept, RowFine, Held, Alone
<1>4. QED
  BY <1>2, <1>3 DEF Ticks

\* A handler that begins is alone with its stream, and knows the row it read.
LEMMA KeptRequest ==
    ASSUME TypeOK, Own, NEW r \in Slots, NEW s \in Streams, Request(r, s), s \in serial, Kept(s)
    PROVE  Kept(s)'
<1>1. /\ take' = take /\ spoiled' = spoiled /\ pc'[r] \in Steps \ {"keep"}
      /\ job'[r].stream = s
      /\ \A q \in Slots \ {r} : pc'[q] = pc[q] /\ job'[q] = job[q]
      /\ \A q \in Slots : ~Works(q, s)
  BY RequestBegins DEF Works, Of
<1>2. \A q \in Slots : Works(q, s)' => q = r
  BY <1>1 DEF Works, Of
<1>3. TakesOf(s)' = TakesOf(s)
  BY <1>1 DEF TakesOf
<1>4. CASE /\ row[s] = Unborn
           /\ row' = [row EXCEPT ![s] = [Fresh EXCEPT !.live = TRUE, !.beat = "fresh"]]
           /\ job'[r].op = "create" /\ job'[r].egress = NoEgress /\ pc'[r] = "room"
  <2>1. row'[s] = [Fresh EXCEPT !.live = TRUE, !.beat = "fresh"]
    BY <1>4 DEF TypeOK
  <2>2. Exists(s)' /\ row'[s].live /\ ~row'[s].ended /\ row'[s].egress = NoEgress /\ row'[s].told = 0
    BY <2>1 DEF Exists, Fresh
  <2>3. TakesOf(s)' = {}
    BY <1>3, <1>4 DEF Own, OwnRow
  <2>4. RowFine(s)' /\ Held(s)' /\ Alone(s)'
    BY <1>2, <2>2, <2>3 DEF RowFine, Held, Alone
  <2>5. Current(r, s)'
    BY <1>4, <2>2 DEF Current, Knows, Stopped
  <2>6. QED
    BY <1>2, <2>4, <2>5 DEF Kept
<1>5. CASE UNCHANGED row /\ job'[r].egress = row[s].egress /\ LetIn(s, job'[r].op, job'[r].to, pc'[r])
  <2>1. RowFine(s)' /\ Alone(s)'
    BY <1>2, <1>5 DEF Kept, RowFine, Alone, Exists
  <2>2. Held(s)'
    BY <1>1, <1>3, <1>5 DEF Kept, Held, Exists
  <2>3. Exists(s)' /\ Knows(r, s)'
    BY <1>1, <1>5 DEF LetIn, Knows, Exists, Live
  <2>4. Stopped(r, s)'
    BY <1>5 DEF LetIn, Stopped, Ending
  <2>5. QED
    BY <1>2, <2>1, <2>2, <2>3, <2>4 DEF Kept, Current
<1>6. QED
  BY <1>4, <1>5, RequestBegins

\* A recording ends, or is reported to a stream that nobody works on.
LEMMA KeptTake ==
    ASSUME TypeOK, Own, NEW e \in Egresses, EgressEnds(e) \/ EgressEnded(e),
           NEW s \in Streams, s \in serial, Kept(s)
    PROVE  Kept(s)'
<1>1. /\ spoiled' = spoiled /\ pc' = pc /\ job' = job
      /\ take[e] # Unused /\ take'[e] # Unused /\ take'[e].of = take[e].of
      /\ \A d \in Egresses \ {e} : take'[d] = take[d]
  BY TakeSteps DEF slot, TakesLast
<1>2. TakesOf(s)' = TakesOf(s)
  BY <1>1 DEF TakesOf
<1>3. CASE \/ s # take[e].of
           \/ UNCHANGED row /\ take[e].state = "running" /\ take'[e].state = "ended"
  <2>1. row'[s] = row[s]
    BY <1>3, TakeSteps DEF Puts
  <2>2. \A d \in TakesOf(s) :
           take'[d] = take[d] \/ (take[d].state = "running" /\ take'[d].state = "ended")
    BY <1>1, <1>3 DEF TakesOf
  <2>3. Calm(s)
    BY <1>1, <1>2, <2>1, <2>2 DEF Calm, Exists
  <2>4. QED
    BY <2>3, CalmKeeps
<1>4. CASE s = take[e].of /\ MayOpen(s) /\ take[e].state = "ended" /\ take'[e].state = "reported"
           /\ (~Exists(s) /\ UNCHANGED row)
  <2>1. \A r \in Slots : ~Works(r, s) /\ ~Works(r, s)'
    BY <1>1, <1>4 DEF MayOpen, Works, Of
  <2>2. Held(s)'
    BY <1>1, <1>2, <1>4, <2>1 DEF Kept, Held, TakesOf, Exists
  <2>3. QED
    BY <1>4, <2>1, <2>2 DEF Kept, RowFine, Alone, Exists
<1>5. ASSUME s = take[e].of, MayOpen(s), take[e].state = "ended", take'[e].state = "reported",
             Exists(s), NEW found,
             Puts(s, [row[s] EXCEPT !.egress = NoEgress, !.replay = found])
      PROVE  Kept(s)'
  <2>1. \A r \in Slots : ~Works(r, s) /\ ~Works(r, s)'
    BY <1>1, <1>5 DEF MayOpen, Works, Of
  <2>2. /\ row[s] \in Row /\ Exists(s)' /\ row'[s].egress = NoEgress
        /\ row'[s].live = row[s].live /\ row'[s].ended = row[s].ended
        /\ row'[s].room = row[s].room /\ row'[s].told = row[s].told
    BY <1>5, RowOf DEF Puts, Row, Exists
  <2>3. RowFine(s)'
    BY <1>5, <2>2 DEF Kept, RowFine
  <2>4. Held(s)'
    <3>. SUFFICES ASSUME s \notin spoiled', NEW d \in TakesOf(s)', take'[d].state # "reported"
                  PROVE  take'[d].state = "ended" /\ row'[s].ended
      BY DEF Held
    <3>1. d # e /\ d \in TakesOf(s) /\ take[d].state # "reported" /\ s \notin spoiled
          /\ take'[d] = take[d] /\ d \in Egresses /\ e \in TakesOf(s)
      BY <1>1, <1>2, <1>5 DEF TakesOf
    <3>2. row[s].egress = e \/ row[s].ended
      BY <1>5, <2>1, <3>1 DEF Kept, Held
    <3>3. row[s].egress = d \/ (take[d].state = "ended" /\ row[s].ended)
      BY <1>5, <2>1, <3>1 DEF Kept, Held
    <3>4. row[s].ended => row[s].egress = NoEgress
      BY <1>5 DEF Kept, RowFine
    <3>5. QED
      BY <2>2, <3>1, <3>2, <3>3, <3>4, StreamAssumption
  <2>5. QED
    BY <2>1, <2>3, <2>4 DEF Kept, Alone
<1>6. ASSUME s = take[e].of
      PROVE  \/ take[e].state = "running" /\ take'[e].state = "ended" /\ UNCHANGED row
             \/ /\ take[e].state = "ended" /\ take'[e].state = "reported" /\ MayOpen(s)
                /\ \/ ~Exists(s) /\ UNCHANGED row
                   \/ /\ Exists(s)
                      /\ \E found \in {row[s].replay, "READY", "FAILED"} :
                            Puts(s, [row[s] EXCEPT !.egress = NoEgress, !.replay = found])
  BY <1>6, TakeSteps
<1>7. CASE s = take[e].of
  BY <1>3, <1>4, <1>5, <1>6, <1>7
<1>8. QED
  BY <1>3, <1>7

\* The one handler of a stream goes on: what is left to show is the row, the recordings
\* and what the handler knows.
LEMMA KeptAlone ==
    ASSUME NEW r \in Slots, NEW s \in Streams, Kept(s), Works(r, s), Stays(r),
           RowFine(s)', Held(s)', pc'[r] # "idle" => Current(r, s)'
    PROVE  Kept(s)'
<1>1. \A q \in Slots : Works(q, s)' => q = r
  BY DEF Kept, Alone, Stays, Works, Of
<1>2. QED
  BY <1>1 DEF Kept, Alone, Works

\* While no slot keeps a recording, those of a live row without one are all reported.
LEMMA NoneHeld ==
    ASSUME NEW s \in Streams, Kept(s), s \notin spoiled, NEW r \in Slots, Works(r, s),
           pc[r] # "keep", row[s].egress = NoEgress, ~row[s].ended, NEW e \in TakesOf(s)
    PROVE  take[e].state = "reported"
BY HeldBy, StreamAssumption DEF TakesOf

\* A handler writes the row.
LEMMA KeptPuts ==
    ASSUME TypeOK, Own, NEW r \in Slots, Runs(r), StepPuts(r), UNCHANGED <<take, spoiled>>,
           NEW s \in Streams, s = Of(r), Kept(s)
    PROVE  Kept(s)'
<1>. DEFINE q == row[s]
            n == row'[s]
<1>1. /\ Stays(r) /\ Works(r, s) /\ job[r] \in Job /\ q \in Row
      /\ job[r].egress \in Egresses \cup {NoEgress}
  BY RunsStays, JobTyped, RowOf DEF Stays, Works, StepPuts
<1>2. Exists(s) /\ Knows(r, s) /\ Stopped(r, s)
  BY <1>1 DEF Kept, Current
<1>3. TakesOf(s)' = TakesOf(s) /\ take' = take /\ spoiled' = spoiled
  BY DEF TakesOf
\* What a row that stays has to have for its recordings to be held.
<1>4. ASSUME Exists(s)', n.egress = q.egress, q.ended => n.ended, pc[r] # "keep"
      PROVE  Held(s)'
  BY <1>1, <1>3, <1>4, HeldBy DEF Held
<1>5. ASSUME q.egress = NoEgress, ~q.ended, pc[r] # "keep"
      PROVE  Held(s)'
  BY <1>1, <1>3, <1>5, NoneHeld DEF Held
<1>6. ASSUME Puts(s, Removed) \/ Puts(s, Lapsed), pc'[r] = "idle",
             \/ q.egress = NoEgress /\ ~q.ended /\ pc[r] # "keep"
             \/ pc[r] = "delete" /\ job[r].op \in Ending
      PROVE  Kept(s)'
  <2>1. ~Exists(s)'
    BY <1>6 DEF Puts, Exists, Removed, Lapsed
  <2>2. Held(s)'
    <3>1. CASE pc[r] = "delete" /\ job[r].op \in Ending
      <4>. SUFFICES ASSUME s \notin spoiled, NEW e \in TakesOf(s), take[e].state # "reported"
                    PROVE  take[e].state = "ended"
        BY <1>3, <2>1 DEF Held
      <4>1. CASE q.egress = e
        <5>1. job[r].egress = e /\ e \in Egresses /\ e # NoEgress
          BY <1>2, <3>1, <4>1, StreamAssumption DEF Knows, TakesOf
        <5>2. take[e].state # "running" /\ take[e] \in Take
          BY <1>2, <3>1, <5>1, TakeOf DEF Stopped, TakesOf
        <5>3. QED
          BY <5>2 DEF Take
      <4>2. QED
        BY <1>1, <3>1, <4>1, HeldBy
    <3>2. CASE q.egress = NoEgress /\ ~q.ended /\ pc[r] # "keep"
      BY <1>5, <3>2
    <3>3. QED
      BY <1>6, <3>1, <3>2
  <2>3. QED
    BY <1>1, <1>6, <2>1, <2>2, KeptAlone DEF RowFine
<1>7. CASE /\ At(r, {"create"}, "room") \/ At(r, {"create"}, "write")
           /\ Puts(s, Removed) /\ pc'[r] = "idle"
  BY <1>2, <1>6, <1>7 DEF Knows, At
<1>8. CASE /\ At(r, {"create"}, "write")
           /\ Puts(s, [q EXCEPT !.room = TRUE])
           /\ pc'[r] = AfterStart /\ (pc'[r] # "idle" => job'[r] = job[r])
  <2>1. pc[r] = "write" /\ q.live /\ ~q.ended /\ q.egress = NoEgress /\ job[r].egress = NoEgress
        /\ job[r].op = "create"
    BY <1>2, <1>8 DEF Knows, At
  <2>2. /\ Exists(s)' /\ n.live /\ ~n.ended /\ n.egress = NoEgress /\ n.told = q.told
    BY <1>1, <1>2, <1>8, <2>1 DEF Puts, Exists, Row
  <2>3. RowFine(s)' /\ Held(s)'
    BY <1>2, <1>5, <2>1, <2>2 DEF RowFine, Kept
  <2>4. ASSUME pc'[r] # "idle" PROVE Current(r, s)'
    <3>1. pc'[r] = "record" /\ job'[r] = job[r]
      BY <1>8, <2>4 DEF AfterStart
    <3>2. QED
      BY <2>1, <2>2, <3>1 DEF Current, Knows, Stopped
  <2>5. QED
    BY <1>1, <2>3, <2>4, KeptAlone
<1>9. CASE /\ At(r, {"start"}, "write")
           /\ Puts(s, [q EXCEPT !.live = TRUE, !.start = "near", !.beat = "fresh", !.room = TRUE])
           /\ pc'[r] = AfterStart /\ (pc'[r] # "idle" => job'[r] = job[r])
  <2>1. pc[r] = "write" /\ ~q.live /\ ~q.ended /\ q.egress = NoEgress /\ job[r].egress = NoEgress
        /\ job[r].op = "start"
    BY <1>2, <1>9 DEF Knows, At, Kept, RowFine
  <2>2. /\ Exists(s)' /\ n.live /\ ~n.ended /\ n.egress = NoEgress /\ n.told = q.told
    BY <1>1, <1>2, <1>9, <2>1 DEF Puts, Exists, Row
  <2>3. RowFine(s)' /\ Held(s)'
    BY <1>2, <1>5, <2>1, <2>2 DEF RowFine, Kept
  <2>4. ASSUME pc'[r] # "idle" PROVE Current(r, s)'
    <3>1. pc'[r] = "record" /\ job'[r] = job[r]
      BY <1>9, <2>4 DEF AfterStart
    <3>2. QED
      BY <2>1, <2>2, <3>1 DEF Current, Knows, Stopped
  <2>5. QED
    BY <1>1, <2>3, <2>4, KeptAlone
<1>10. CASE /\ pc[r] = "keep"
            /\ Puts(s, [q EXCEPT !.egress = job[r].egress, !.replay = "RECORDING"])
            /\ pc'[r] = "idle"
  <2>1. q.live /\ ~q.ended /\ q.egress = NoEgress
    BY <1>2, <1>10 DEF Knows
  <2>2. /\ Exists(s)' /\ n.live /\ ~n.ended /\ n.egress = job[r].egress /\ n.told = q.told
    BY <1>1, <1>2, <1>10, <2>1 DEF Puts, Exists, Row
  <2>3. Held(s)'
    <3>. SUFFICES ASSUME s \notin spoiled, NEW e \in TakesOf(s), take[e].state # "reported"
                  PROVE  job[r].egress = e
      BY <1>3, <2>2 DEF Held
    <3>1. e # NoEgress
      BY StreamAssumption DEF TakesOf
    <3>2. QED
      BY <1>1, <1>2, <2>1, <3>1 DEF Kept, Held, Alone
  <2>4. RowFine(s)'
    BY <1>2, <2>2 DEF RowFine, Kept
  <2>5. QED
    BY <1>1, <1>10, <2>3, <2>4, KeptAlone
<1>11. CASE /\ At(r, {"stop", "patch", "sweep"}, "write")
            /\ Puts(s, [Patched(r, q) EXCEPT !.live = FALSE, !.ended = TRUE])
            /\ pc'[r] = "idle"
  <2>1. pc[r] = "write" /\ job[r].op \in Ending /\ q.egress = job[r].egress
    BY <1>2, <1>11 DEF Knows, At, Ending
  <2>2. Patched(r, q) \in [is : {"row"}, live : BOOLEAN, ended : BOOLEAN, start : Ages,
           beat : Beats, room : BOOLEAN, egress : {NoEgress}, replay : Replays, told : {q.told}]
    BY <1>1, <2>1, JobTyped DEF Row, Patched
  <2>3. /\ Exists(s)' /\ ~n.live /\ n.ended /\ n.egress = NoEgress /\ n.told = q.told
    BY <1>11, <2>2 DEF Puts, Exists
  <2>4. Held(s)'
    <3>. SUFFICES ASSUME s \notin spoiled, NEW e \in TakesOf(s), take[e].state # "reported"
                  PROVE  take[e].state = "ended"
      BY <1>3, <2>3 DEF Held
    <3>1. CASE q.egress = e
      <4>1. job[r].egress = e /\ e \in Egresses /\ e # NoEgress
        BY <2>1, <3>1, StreamAssumption DEF TakesOf
      <4>2. take[e].state # "running" /\ take[e] \in Take
        BY <1>2, <2>1, <4>1, TakeOf DEF Stopped, TakesOf
      <4>3. QED
        BY <4>2 DEF Take
    <3>2. QED
      BY <1>1, <2>1, <3>1, HeldBy
  <2>5. RowFine(s)'
    BY <1>2, <2>3 DEF RowFine, Kept
  <2>6. QED
    BY <1>1, <1>11, <2>4, <2>5, KeptAlone
<1>12. CASE /\ At(r, {"patch"}, "live")
            /\ Puts(s, [q EXCEPT !.live = job[r].to]) /\ pc'[r] = "idle"
  <2>1. pc[r] = "live" /\ (~q.live \/ job[r].to) /\ job[r].to \in BOOLEAN
    BY <1>1, <1>2, <1>12, JobTyped DEF Knows, At
  <2>2. /\ Exists(s)' /\ n.live = job[r].to /\ n.ended = q.ended /\ n.egress = q.egress
        /\ n.room = q.room /\ n.told = q.told
    BY <1>1, <1>2, <1>12, <2>1 DEF Puts, Exists, Row
  <2>3. RowFine(s)' /\ Held(s)'
    BY <1>2, <1>4, <2>1, <2>2 DEF RowFine, Kept
  <2>4. QED
    BY <1>1, <1>12, <2>3, KeptAlone
<1>13. CASE At(r, {"missed"}, "delete") /\ Puts(s, Lapsed) /\ pc'[r] = "idle"
  <2>1. q.egress = NoEgress /\ ~q.ended /\ pc[r] # "keep"
    BY <1>2, <1>13 DEF Knows, At, Kept, RowFine
  <2>2. QED
    BY <1>6, <1>13, <2>1
<1>14. CASE At(r, {"remove"}, "delete") /\ Puts(s, Removed) /\ pc'[r] = "idle"
  BY <1>6, <1>14 DEF At, Ending
<1>15. CASE /\ pc[r] = "tell"
            /\ Puts(s, [q EXCEPT !.told = @ + 1])
            /\ pc'[r] = Ensure(r) /\ (pc'[r] # "idle" => job'[r] = job[r])
  <2>1. q.live /\ ~q.ended /\ q.told = 0 /\ q.egress = job[r].egress
    BY <1>2, <1>15 DEF Knows
  <2>2. /\ Exists(s)' /\ n.live /\ ~n.ended /\ n.egress = q.egress /\ n.told = 1
    BY <1>1, <1>2, <1>15, <2>1 DEF Puts, Exists, Row
  <2>3. Held(s)'
    BY <1>4, <1>15, <2>1, <2>2
  <2>4. RowFine(s)'
    BY <2>2 DEF RowFine
  <2>5. ASSUME pc'[r] # "idle" PROVE Current(r, s)'
    <3>1. pc'[r] = "record" /\ job'[r] = job[r] /\ job[r].egress = NoEgress
      BY <1>15, <2>5 DEF Ensure
    <3>2. job[r].op # "missed"
      BY <1>2, <2>1 DEF Knows
    <3>3. QED
      BY <2>1, <2>2, <3>1, <3>2 DEF Current, Knows, Stopped
  <2>6. QED
    BY <1>1, <2>3, <2>4, <2>5, KeptAlone
<1>16. QED
  BY <1>7, <1>8, <1>9, <1>10, <1>11, <1>12, <1>13, <1>14, <1>15 DEF StepPuts

\* A handler leaves the row alone and closes.
LEMMA KeptClose ==
    ASSUME TypeOK, Own, NEW r \in Slots, Runs(r), UNCHANGED row, pc'[r] = "idle",
           NEW s \in Streams, s = Of(r), Kept(s)
    PROVE  Kept(s)'
<1>1. Stays(r) /\ Works(r, s) /\ Exists(s)' /\ Exists(s)
  BY RunsStays DEF Stays, Works, Kept, Current, Exists
<1>2. TakesLast /\ spoiled \subseteq spoiled' /\ take' \in [Egresses -> Take \cup {Unused}]
  BY StepTake
<1>3. RowFine(s)'
  BY DEF Kept, RowFine, Exists
<1>4. Held(s)'
  <2>. SUFFICES ASSUME s \notin spoiled', NEW e \in TakesOf(s)', take'[e].state # "reported"
                PROVE  row'[s].egress = e \/ (take'[e].state = "ended" /\ row'[s].ended)
    BY <1>1 DEF Held
  <2>1. pc[r] # "keep"
    <3>. SUFFICES ASSUME pc[r] = "keep" PROVE FALSE
      OBVIOUS
    <3>1. KeepEgress(r)
      BY DEF Runs, Step, CreateRoom, WriteRoom, WriteStarted, StartEgress, Finalize, WriteEnded,
         WriteLive, DeleteRow, Show, Tell, StartFails, Fail, At
    <3>2. row[s] \in Row /\ job[r].egress \in Egresses /\ row[s].egress = NoEgress
      BY <1>1, RowOf DEF TypeOK, Kept, Current, Knows
    <3>3. row' = [row EXCEPT ![s].egress = job[r].egress, ![s].replay = "RECORDING"]
      BY <3>1 DEF KeepEgress
    <3>4. row'[s].egress = job[r].egress
      BY <3>2, <3>3 DEF TypeOK, Row
    <3>5. QED
      BY <3>2, <3>4, StreamAssumption
  <2>2. e \in TakesOf(s)
    <3>. SUFFICES ASSUME take[e] = Unused PROVE FALSE
      BY <1>2 DEF TakesOf, TakesLast
    <3>1. take'[e] # take[e] /\ e \in Egresses
      BY DEF TakesOf
    <3>2. ~(pc[r] = "finalize" /\ e = job[r].egress)
      BY <3>1, StreamAssumption DEF TypeOK
    <3>3. QED
      BY <3>1, <3>2, StepTake
  <2>3. take[e].state # "reported" /\ s \notin spoiled /\ take'[e] \in Take
        /\ (take[e].state # "running" => take'[e].state # "running")
    <3>1. e \in Egresses /\ take[e] # Unused /\ take'[e] # Unused
      BY <2>2 DEF TakesOf, TakesLast
    <3>2. take[e].state # "reported"
      <4>1. CASE take'[e] = take[e]
        BY <4>1
      <4>2. CASE take[e].state = "running"
        BY <4>2
      <4>3. QED
        BY <3>1, <4>1, <4>2, StepTake
    <3>3. QED
      BY <1>2, <3>1, <3>2 DEF TakesLast
  <2>4. row[s].egress = e \/ (take[e].state = "ended" /\ row[s].ended)
    BY <1>1, <2>1, <2>2, <2>3, HeldBy
  <2>5. QED
    BY <2>3, <2>4 DEF Take
<1>5. QED
  BY <1>1, <1>3, <1>4, KeptAlone

\* LiveKit has made the room, or the first picture has been filed.
LEMMA KeptRoom ==
    ASSUME TypeOK, NEW r \in Slots, CreateRoom(r), NEW s \in Streams, s = Of(r), Kept(s)
    PROVE  Kept(s)'
<1>1. /\ pc[r] = "room" /\ job[r].op \in {"create", "start"} /\ Goto(r, "write")
      /\ UNCHANGED <<row, take, spoiled>>
  BY DEF CreateRoom, At
<1>2. Stays(r) /\ pc'[r] = "write" /\ job'[r] = job[r]
  BY <1>1, GotoStays DEF Steps
<1>3. Works(r, s) /\ Exists(s) /\ Knows(r, s)
  BY <1>1 DEF Works, Kept, Current
<1>4. TakesOf(s)' = TakesOf(s) /\ Exists(s)'
  BY <1>1, <1>3 DEF TakesOf, Exists
<1>5. RowFine(s)'
  BY <1>1, <1>3 DEF Kept, RowFine
<1>6. Held(s)'
  BY <1>1, <1>3, <1>4, HeldBy DEF Held
<1>7. Current(r, s)'
  BY <1>1, <1>2, <1>3, <1>4 DEF Current, Knows, Stopped, Ending
<1>8. QED
  BY <1>2, <1>3, <1>5, <1>6, <1>7, KeptAlone

LEMMA KeptShow ==
    ASSUME TypeOK, NEW r \in Slots, Show(r), UNCHANGED row, NEW s \in Streams, s = Of(r), Kept(s)
    PROVE  Kept(s)'
<1>. DEFINE at == IF Exists(s) /\ row[s].told = 0 THEN "tell" ELSE Ensure(r)
<1>1. pc[r] = "show" /\ Update(r, row[s], at) /\ UNCHANGED <<take, spoiled>>
  BY DEF Show
<1>2. Works(r, s) /\ Exists(s) /\ Knows(r, s)
  BY <1>1 DEF Works, Kept, Current
<1>3. at \in Steps \cup {"idle"}
  BY DEF Ensure, Steps
<1>4. Stays(r) /\ pc'[r] = at /\ (at # "idle" => job'[r] = job[r])
  BY <1>1, <1>2, <1>3, UpdateSteps
<1>5. TakesOf(s)' = TakesOf(s) /\ Exists(s)'
  BY <1>1, <1>2 DEF TakesOf, Exists
<1>6. RowFine(s)'
  BY <1>2 DEF Kept, RowFine
<1>7. Held(s)'
  BY <1>1, <1>2, <1>5, HeldBy DEF Held
<1>8. ASSUME pc'[r] # "idle" PROVE Current(r, s)'
  <2>1. row[s].live /\ ~row[s].ended /\ row[s].egress = job[r].egress /\ job'[r] = job[r]
    BY <1>1, <1>2, <1>4, <1>8 DEF Knows
  <2>2. \/ pc'[r] = "tell" /\ row[s].told = 0
        \/ pc'[r] = "record" /\ job[r].egress = NoEgress
    BY <1>4, <1>8 DEF Ensure
  <2>3. job[r].op # "missed"
    BY <1>2, <2>1 DEF Knows
  <2>4. QED
    BY <1>5, <2>1, <2>2, <2>3 DEF Current, Knows, Stopped
<1>9. QED
  BY <1>2, <1>4, <1>6, <1>7, <1>8, KeptAlone

\* A recording has been started: the slot holds it, or nobody knows its id.
LEMMA KeptStart ==
    ASSUME TypeOK, Own, NEW r \in Slots, StartEgress(r), pc'[r] # "idle",
           NEW s \in Streams, s = Of(r), Kept(s)
    PROVE  Kept(s)'
<1>1. /\ pc[r] = "record" /\ UNCHANGED row /\ job[r].op \in {"create", "start", "mark"}
  BY DEF StartEgress, At
<1>2. PICK e \in Egresses :
         /\ take' = [take EXCEPT ![e] = [state |-> "running", of |-> s]]
         /\ job' = [job EXCEPT ![r].egress = e]
         /\ pc' = [pc EXCEPT ![r] = "keep"]
         /\ UNCHANGED spoiled
  BY SlotSteps DEF StartEgress
<1>3. /\ Works(r, s) /\ Exists(s) /\ Exists(s)' /\ Stays(r)
      /\ row[s].live /\ ~row[s].ended /\ row[s].egress = NoEgress
  BY <1>1, RunsStays DEF Works, Kept, Current, Knows, Exists, Runs, Step
<1>4. job[r] \in Job /\ job'[r] = [job[r] EXCEPT !.egress = e] /\ pc'[r] = "keep"
  BY <1>2, <1>3 DEF TypeOK, Stays
<1>5. job'[r].egress = e /\ job'[r].op = job[r].op /\ Works(r, s)'
  BY <1>3, <1>4 DEF Job, Works, Of
<1>6. Held(s)'
  <2>. SUFFICES ASSUME s \notin spoiled, NEW d \in TakesOf(s)', take'[d].state # "reported", d # e
                PROVE  FALSE
    BY <1>2, <1>4, <1>5 DEF Held
  <2>1. d \in TakesOf(s) /\ take[d].state # "reported"
    BY <1>2 DEF TakesOf, TypeOK
  <2>2. QED
    BY <1>1, <1>3, <2>1, NoneHeld
<1>7. RowFine(s)'
  BY <1>1, <1>3 DEF Kept, RowFine
<1>8. Current(r, s)'
  BY <1>1, <1>3, <1>4, <1>5 DEF Current, Knows, Stopped
<1>9. QED
  BY <1>3, <1>6, <1>7, <1>8, KeptAlone

\* The recording has been stopped and the room deleted, or that has failed.
LEMMA KeptFinalize ==
    ASSUME TypeOK, Own, NEW r \in Slots, Finalize(r), NEW s \in Streams, s = Of(r), Kept(s)
    PROVE  Kept(s)'
<1>1. pc[r] = "finalize" /\ UNCHANGED row /\ Runs(r) /\ pc'[r] \in {"write", "delete"}
  BY DEF Finalize, Runs, Step, TypeOK
<1>2. /\ Works(r, s) /\ Exists(s) /\ Exists(s)' /\ Stays(r) /\ job[r].op \in Ending
      /\ row[s].egress = job[r].egress
  BY <1>1, RunsStays DEF Works, Kept, Current, Knows, Stopped, Exists
<1>3. /\ job'[r].op = job[r].op /\ job'[r].egress = job[r].egress
      /\ \/ take'[job[r].egress].state # "running" \/ job[r].egress = NoEgress
         \/ s \in spoiled'
  <2>1. pc'[r] # "idle" /\ pc'[r] # "keep" /\ ~At(r, {"create", "start", "mark"}, "record")
    BY <1>1 DEF At
  <2>2. /\ job'[r].egress = job[r].egress
        /\ \/ take'[job[r].egress].state # "running" \/ job[r].egress = NoEgress
           \/ Of(r) \in spoiled'
    BY <1>1, <2>1, StepJob
  <2>3. QED
    BY <1>2, <2>1, <2>2 DEF Stays
<1>4. Current(r, s)'
  BY <1>1, <1>2, <1>3 DEF Current, Knows, Stopped, Ending
<1>5. RowFine(s)'
  BY <1>1, <1>2 DEF Kept, RowFine
<1>6. Held(s)'
  <2>. SUFFICES ASSUME s \notin spoiled', NEW e \in TakesOf(s)', take'[e].state # "reported"
                PROVE  row'[s].egress = e \/ (take'[e].state = "ended" /\ row'[s].ended)
    BY <1>2 DEF Held
  <2>1. /\ e \in TakesOf(s) /\ s \notin spoiled
        /\ take'[e] = take[e] \/ (take[e].state = "running" /\ take'[e].state = "ended")
    BY <1>1 DEF Finalize, TakesOf, TypeOK, Take
  <2>2. QED
    BY <1>1, <1>2, <2>1, HeldBy
<1>7. QED
  BY <1>1, <1>2, <1>4, <1>5, <1>6, KeptAlone

LEMMA KeptStep ==
    ASSUME TypeOK, Own, [Next]_vars, NEW s \in serial, Kept(s)
    PROVE  Kept(s)'
<1>0. s \in Streams
  BY DEF TypeOK
<1>1. ASSUME NEW r \in Slots, NEW j \in Streams, Request(r, j)
      PROVE  Kept(s)'
  BY <1>0, <1>1, KeptRequest, CalmRequest, CalmKeeps
<1>2. ASSUME NEW r \in Slots, Runs(r)
      PROVE  Kept(s)'
  <2>1. CASE s # Of(r)
    BY <1>0, <1>2, <2>1, CalmRun, CalmKeeps
  <2>2. CASE s = Of(r)
    BY <1>0, <1>2, <2>2, StepRow, KeptPuts, KeptClose, KeptRoom, KeptShow, KeptStart, KeptFinalize
  <2>3. QED
    BY <2>1, <2>2
<1>3. ASSUME NEW j \in Streams, NEW n \in Row, Ticks(j, n)
      PROVE  Kept(s)'
  BY <1>0, <1>3, KeptTick
<1>4. ASSUME NEW e \in Egresses, EgressEnds(e) \/ EgressEnded(e)
      PROVE  Kept(s)'
  BY <1>0, <1>4, KeptTake
<1>5. CASE UNCHANGED vars
  <2>1. Calm(s)
    BY <1>5 DEF vars, Calm, Exists, TakesOf, Works, Of
  <2>2. QED
    BY <1>0, <2>1, CalmKeeps
<1>6. QED
  BY <1>1, <1>2, <1>3, <1>4, <1>5, NextCases

\* The inductive invariant: types, whose recordings are named, and what is known of the
\* streams whose handlers do not overlap.
THEOREM SerialStreams == Spec => [](TypeOK /\ Own /\ SerialKept)
<1>1. Init => SerialKept
  <2>. SUFFICES ASSUME Init, NEW s \in serial PROVE Kept(s)
    BY DEF SerialKept
  <2>1. s \in Streams /\ ~Exists(s) /\ TakesOf(s) = {} /\ \A r \in Slots : ~Works(r, s)
    BY DEF Init, Exists, Unborn, TakesOf, Unused, Works
  <2>2. QED
    BY <2>1 DEF Kept, RowFine, Held, Alone
<1>2. TypeOK /\ Own /\ SerialKept /\ [Next]_vars => SerialKept'
  <2>. SUFFICES ASSUME TypeOK, Own, SerialKept, [Next]_vars PROVE SerialKept'
    OBVIOUS
  <2>1. serial' = serial
    BY TakesNext
  <2>2. \A s \in serial : Kept(s)'
    BY KeptStep DEF SerialKept
  <2>3. QED
    BY <2>1, <2>2 DEF SerialKept
<1>3. QED
  BY <1>1, <1>2, StreamsTyped, PTL DEF Spec

\* Two recordings of a stream that run would both be in the hands of its row or of its
\* one handler, which keeps a recording only while the row has none.
LEMMA KeptAgree ==
    ASSUME TypeOK, Own, SerialKept
    PROVE  OneRecording /\ ToldOnce /\ PlannedStartable
<1>1. ToldOnce /\ PlannedStartable
  BY DEF SerialKept, Kept, RowFine, ToldOnce, PlannedStartable
<1>2. OneRecording
  <2>. SUFFICES ASSUME NEW s \in serial, s \notin spoiled, NEW d \in TakesOf(s), NEW e \in TakesOf(s),
                       take[d].state = "running", take[e].state = "running"
                PROVE  d = e
    BY DEF OneRecording
  <2>. DEFINE OnRow(x) == Exists(s) /\ row[s].egress = x
              Hand(x) == \E r \in Slots : Works(r, s) /\ pc[r] = "keep" /\ job[r].egress = x
  <2>1. Kept(s) /\ s \in Streams /\ d # NoEgress /\ e # NoEgress
    BY StreamAssumption DEF SerialKept, TypeOK, TakesOf
  <2>2. (OnRow(d) \/ Hand(d)) /\ (OnRow(e) \/ Hand(e))
    BY <2>1 DEF Kept, Held
  <2>3. \A x, y : OnRow(x) /\ Hand(y) => x = NoEgress
    BY <2>1 DEF Kept, Current, Knows
  <2>4. Hand(d) /\ Hand(e) => d = e
    BY <2>1 DEF Kept, Alone
  <2>5. QED
    BY <2>1, <2>2, <2>3, <2>4
<1>3. QED
  BY <1>1, <1>2

\* Rooms, recordings and rows agree, for any number of streams, handlers and recordings.
THEOREM StreamsAgree == Spec => []LiveConsistent
<1>1. TypeOK /\ Own /\ SerialKept => LiveConsistent
  BY KeptAgree DEF LiveConsistent, Own, OwnRow, Over, ReplayRecorded
<1>2. QED
  BY <1>1, SerialStreams, PTL

-----------------------------------------------------------------------------
(***************************************************************************)
(* Streams whose handlers do not overlap keep to StreamSchedule.           *)
(***************************************************************************)
Moves(from, to) ==
    \/ from = to
    \/ from = "NONE" /\ to \in {"PLANNED", "LIVE"}
    \/ from = "PLANNED" /\ to \in {"LIVE", "ENDED", "LAPSED", "REMOVED"}
    \/ from = "LIVE" /\ to \in {"ENDED", "REMOVED"}
    \/ from = "ENDED" /\ to = "REMOVED"

LEMMA StageRows ==
    ASSUME TypeOK, NEW s \in Streams, s \in serial
    PROVE  /\ row[s] = Unborn => stageBar[s] = "NONE"
           /\ row[s] = Lapsed => stageBar[s] = "LAPSED"
           /\ row[s] = Removed => stageBar[s] = "REMOVED"
           /\ Exists(s) => stageBar[s] = IF row[s].ended THEN "ENDED"
                                         ELSE IF row[s].live THEN "LIVE" ELSE "PLANNED"
BY DEF stageBar, Exists, Unborn, Lapsed, Removed

LEMMA StageRowsNext ==
    ASSUME TypeOK', NEW s \in Streams, s \in serial'
    PROVE  /\ row'[s] = Unborn => stageBar'[s] = "NONE"
           /\ row'[s] = Lapsed => stageBar'[s] = "LAPSED"
           /\ row'[s] = Removed => stageBar'[s] = "REMOVED"
           /\ Exists(s)' => stageBar'[s] = IF row'[s].ended THEN "ENDED"
                                           ELSE IF row'[s].live THEN "LIVE" ELSE "PLANNED"
BY DEF stageBar, Exists, Unborn, Lapsed, Removed

\* A handler moves its stream along the schedule.
LEMMA PutsMoves ==
    ASSUME TypeOK, TypeOK', NEW r \in Slots, Runs(r), StepPuts(r), serial' = serial,
           NEW s \in Streams, s \in serial, s = Of(r), Kept(s)
    PROVE  Moves(stageBar[s], stageBar'[s])
<1>. DEFINE q == row[s]
            n == row'[s]
<1>1. /\ Works(r, s) /\ job[r] \in Job /\ q \in Row /\ job[r].to \in BOOLEAN
      /\ job[r].egress \in Egresses \cup {NoEgress} /\ job[r].replay \in Replays
  BY RunsStays, JobTyped, RowOf DEF Stays, Works, StepPuts
<1>2. Exists(s) /\ Knows(r, s)
  BY <1>1 DEF Kept, Current
<1>3. stageBar[s] = IF q.ended THEN "ENDED" ELSE IF q.live THEN "LIVE" ELSE "PLANNED"
  BY <1>2, StageRows
<1>4. Exists(s)' => stageBar'[s] = IF n.ended THEN "ENDED" ELSE IF n.live THEN "LIVE" ELSE "PLANNED"
  BY StageRowsNext
<1>5. CASE Puts(s, Removed)
  BY <1>3, <1>5, StageRowsNext DEF Puts, Moves
<1>6. CASE At(r, {"missed"}, "delete") /\ Puts(s, Lapsed)
  BY <1>2, <1>3, <1>6, StageRowsNext DEF Puts, Moves, Knows, At
<1>7. CASE \/ Puts(s, [q EXCEPT !.room = TRUE])
           \/ Puts(s, [q EXCEPT !.egress = job[r].egress, !.replay = "RECORDING"])
           \/ Puts(s, [q EXCEPT !.told = @ + 1])
  <2>1. Exists(s)' /\ n.live = q.live /\ n.ended = q.ended
    BY <1>1, <1>2, <1>7 DEF Puts, Exists, Row
  <2>2. QED
    BY <1>3, <1>4, <2>1 DEF Moves
<1>8. CASE /\ At(r, {"start"}, "write")
           /\ Puts(s, [q EXCEPT !.live = TRUE, !.start = "near", !.beat = "fresh", !.room = TRUE])
  <2>1. Exists(s)' /\ n.live /\ n.ended = q.ended /\ ~q.ended /\ ~q.live
    BY <1>1, <1>2, <1>8 DEF Puts, Exists, Row, Knows, At
  <2>2. QED
    BY <1>3, <1>4, <2>1 DEF Moves
<1>9. CASE Puts(s, [Patched(r, q) EXCEPT !.live = FALSE, !.ended = TRUE])
  <2>1. Patched(r, q) \in Row
    BY <1>1 DEF Row, Patched
  <2>2. Exists(s)' /\ n.ended
    BY <1>9, <2>1 DEF Puts, Exists, Row
  <2>3. QED
    BY <1>3, <1>4, <2>2 DEF Moves
<1>10. CASE At(r, {"patch"}, "live") /\ Puts(s, [q EXCEPT !.live = job[r].to])
  <2>1. Exists(s)' /\ n.live = job[r].to /\ n.ended = q.ended /\ (~q.live \/ job[r].to)
    BY <1>1, <1>2, <1>10 DEF Puts, Exists, Row, Knows, At
  <2>2. QED
    BY <1>1, <1>3, <1>4, <2>1 DEF Moves
<1>11. QED
  BY <1>5, <1>6, <1>7, <1>8, <1>9, <1>10 DEF StepPuts

LEMMA StageNext ==
    ASSUME TypeOK, TypeOK', SerialKept, [Next]_vars, NEW s \in Streams
    PROVE  Moves(stageBar[s], stageBar'[s])
<1>1. serial' = serial
  BY TakesNext
<1>2. CASE s \notin serial
  BY <1>1, <1>2 DEF stageBar, Moves
<1>3. CASE row'[s] = row[s]
  BY <1>1, <1>3 DEF stageBar, Moves
<1>4. ASSUME s \in serial, row[s] = Unborn, row'[s] = [Fresh EXCEPT !.live = TRUE, !.beat = "fresh"]
      PROVE  Moves(stageBar[s], stageBar'[s])
  <2>1. Exists(s)' /\ row'[s].live /\ ~row'[s].ended
    BY <1>4 DEF Exists, Fresh
  <2>2. QED
    BY <1>1, <1>4, <2>1, StageRows, StageRowsNext DEF Moves
<1>5. ASSUME s \in serial, NEW n \in Row, Ticks(s, n)
      PROVE  Moves(stageBar[s], stageBar'[s])
  <2>1. row'[s] = n /\ Exists(s)'
    BY <1>5 DEF Ticks, Puts, Exists, Row
  <2>2. QED
    BY <1>1, <1>5, <2>1, StageRows, StageRowsNext DEF Moves, Ticks
<1>6. ASSUME s \in serial, NEW r \in Slots, Runs(r), Of(r) = s, StepPuts(r)
      PROVE  Moves(stageBar[s], stageBar'[s])
  BY <1>1, <1>6, PutsMoves DEF SerialKept
<1>7. ASSUME s \in serial, Exists(s), NEW found,
             Puts(s, [row[s] EXCEPT !.egress = NoEgress, !.replay = found])
      PROVE  Moves(stageBar[s], stageBar'[s])
  <2>1. Exists(s)' /\ row'[s].live = row[s].live /\ row'[s].ended = row[s].ended
    BY <1>7, RowOf DEF Puts, Exists, Row
  <2>2. QED
    BY <1>1, <1>7, <2>1, StageRows, StageRowsNext DEF Moves
<1>8. QED
  BY <1>2, <1>3, <1>4, <1>5, <1>6, <1>7, RowNext

\* A step changes the row of one stream at most.
LEMMA OneRow ==
    ASSUME TypeOK, [Next]_vars, ~UNCHANGED row
    PROVE  \E s \in Streams : \A j \in Streams \ {s} : row'[j] = row[j]
<1>1. ASSUME NEW r \in Slots, NEW s \in Streams, Request(r, s)
      PROVE  \A j \in Streams \ {s} : row'[j] = row[j]
  BY <1>1, RequestBegins DEF TypeOK
<1>2. ASSUME NEW r \in Slots, Runs(r)
      PROVE  Of(r) \in Streams /\ \A j \in Streams \ {Of(r)} : row'[j] = row[j]
  <2>1. Of(r) \in Streams
    BY <1>2, RunsStays, JobTyped DEF Stays
  <2>2. StepPuts(r) => \E q : Puts(Of(r), q)
    BY DEF StepPuts
  <2>3. QED
    BY <1>2, <2>1, <2>2, StepRow DEF Puts
<1>3. ASSUME NEW e \in Egresses, EgressEnds(e) \/ EgressEnded(e)
      PROVE  take[e].of \in Streams /\ \A j \in Streams \ {take[e].of} : row'[j] = row[j]
  BY <1>3, TakeSteps DEF Puts
<1>4. QED
  BY <1>1, <1>2, <1>3, NextCases DEF Ticks, Puts, vars

\* Where its handlers do not overlap, a stream is live once and ends once, the clean-up
\* deletes planned streams only, and a planned stream can be started.
THEOREM StreamsFollowSchedule == Spec => FollowsSchedule
<1>1. Init => Plan!Init
  BY DEF Init, Plan!Init, stageBar
<1>2. TypeOK /\ TypeOK' /\ SerialKept /\ [Next]_vars => [Plan!Next]_stageBar
  <2>. SUFFICES ASSUME TypeOK, TypeOK', SerialKept, [Next]_vars, stageBar' # stageBar
                PROVE  Plan!Next
    OBVIOUS
  <2>1. serial' = serial
    BY TakesNext
  <2>2. ~UNCHANGED row
    BY <2>1 DEF stageBar
  <2>3. PICK s \in Streams : \A j \in Streams \ {s} : row'[j] = row[j]
    BY <2>2, OneRow
  <2>4. \A j \in Streams \ {s} : stageBar'[j] = stageBar[j]
    BY <2>1, <2>3 DEF stageBar
  <2>5. stageBar' = [stageBar EXCEPT ![s] = stageBar'[s]]
    BY <2>4 DEF stageBar
  <2>6. Moves(stageBar[s], stageBar'[s]) /\ stageBar'[s] # stageBar[s]
    BY <2>5, StageNext DEF stageBar
  <2>7. QED
    BY <2>5, <2>6 DEF Moves, Plan!Next, Plan!Plan, Plan!GoLive, Plan!Stop, Plan!Lapse, Plan!Remove,
       Plan!Move
<1>3. TypeOK /\ Own /\ SerialKept => PlannedStartable
  BY KeptAgree
<1>4. QED
  BY <1>1, <1>2, <1>3, SerialStreams, PTL DEF Spec, Plan!Spec, FollowsSchedule
=============================================================================
