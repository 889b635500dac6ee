---------------------------- MODULE ReplayCleanup ----------------------------
(***************************************************************************)
(* StorageCleanupService.deleteOldReplays: every hour the recordings older *)
(* than a day are deleted from object storage, page by page, and the rows  *)
(* of their streams stop pointing at them.                                 *)
(*                                                                         *)
(* Time is counted in hours.  An object is told apart by its stream, the   *)
(* one its key names.  A run ends within its hour.                         *)
(***************************************************************************)
EXTENDS Naturals, FiniteSets, Sequences, SequencesExt

CONSTANTS
    Streams,
    MaxAge,         \* hours a replay is kept, 24 in the code
    PageSize,       \* objects of a page, 100 in the code
    MaxPages,       \* pages of a run, 200 in the code
    MaxNow          \* bound on the clock

ReplaysAssumption ==
    /\ IsFiniteSet(Streams) /\ MaxNow \in Nat
    /\ MaxAge \in Nat /\ PageSize \in Nat \ {0} /\ MaxPages \in Nat \ {0}

VARIABLES
    serial,         \* storage answers, the process stays up, and nothing is stored during
                    \* a run; fixed at the start
    now, cron,      \* the clock, and the last hour the cron fired
    object,         \* when the recording of a stream was stored
    replay,         \* the streams whose row has a replayUrl
    pc,             \* "idle", "list", "delete" or "clear"
    run,            \* cutoff, offset, pages and ids of the run, and its page of old replays
    backlog         \* history: old replays before the last complete run, and after it

vars == <<serial, now, cron, object, replay, pc, run, backlog>>

NoTime == MaxNow + 1
NoRun == [cutoff |-> 0, offset |-> 0, pages |-> 0, page |-> {}, ids |-> {}]
Stored == {s \in Streams : object[s] # NoTime}
Old(cutoff) == {s \in Stored : object[s] < cutoff}

Init ==
    /\ serial \in BOOLEAN
    /\ now = 0 /\ cron = NoTime
    /\ object = [s \in Streams |-> NoTime] /\ replay = {}
    /\ pc = "idle" /\ run = NoRun
    /\ backlog = [before |-> 0, after |-> 0]

Tick ==
    /\ now < MaxNow
    /\ pc = "idle"
    /\ now' = now + 1
    /\ UNCHANGED <<serial, cron, object, replay, pc, run, backlog>>

\* LiveKit has stored the recording of a stream, and stopStream has written its URL.
Recorded(s) ==
    /\ object[s] = NoTime
    /\ serial => pc = "idle"
    /\ object' = [object EXCEPT ![s] = now]
    /\ replay' = replay \cup {s}
    /\ UNCHANGED <<serial, now, cron, pc, run, backlog>>

\* The hours are counted from MaxAge, so that nothing is old at the start of the clock.
DeleteOldReplays ==
    /\ pc = "idle" /\ cron # now
    /\ cron' = now
    /\ pc' = "list"
    /\ LET cutoff == IF now < MaxAge THEN 0 ELSE now - MaxAge IN
       /\ run' = [NoRun EXCEPT !.cutoff = cutoff]
       /\ backlog' = [before |-> Cardinality(Old(cutoff)), after |-> 0]
    /\ UNCHANGED <<serial, now, object, replay>>

\* listObjects: the rows from an offset on, the oldest object first.
Listings == {all \in SetToSeqs(Stored) :
                \A i, j \in DOMAIN all : i < j => object[all[i]] <= object[all[j]]}
PageFrom(all, offset) ==
    SubSeq(all, offset + 1, IF Len(all) < offset + PageSize THEN Len(all) ELSE offset + PageSize)

\* Mutation: the newest object comes first.
ListObjects_Desc(offset) == {PageFrom(Reverse(all), offset) : all \in Listings}

ListObjects(offset) == {PageFrom(all, offset) : all \in Listings}

IsOld(s) == object[s] < run.cutoff

\* The offset moves on by the rows of the page, also by those that are deleted next.
ListPage ==
    /\ pc = "list"
    /\ \E rows \in ListObjects(run.offset) :
         LET old == {s \in ToSet(rows) : IsOld(s)} IN
         /\ run' = [run EXCEPT !.page = old, !.ids = @ \cup old, !.pages = @ + 1,
                               !.offset = @ + Len(rows)]
         /\ pc' = IF old = {} THEN "clear" ELSE "delete"
    /\ UNCHANGED <<serial, now, cron, object, replay, backlog>>

\* tryDeleteMany: a failure is logged, and the replays count as deleted.
TryDeleteMany ==
    /\ pc = "delete"
    /\ \/ object' = [s \in Streams |-> IF s \in run.page THEN NoTime ELSE object[s]]
       \/ ~serial /\ UNCHANGED object
    /\ pc' = IF run.pages < MaxPages THEN "list" ELSE "clear"
    /\ UNCHANGED <<serial, now, cron, replay, run, backlog>>

ClearPointers ==
    /\ pc = "clear"
    /\ replay' = replay \ run.ids
    /\ backlog' = [backlog EXCEPT !.after = Cardinality(Old(run.cutoff))]
    /\ pc' = "idle" /\ run' = NoRun
    /\ UNCHANGED <<serial, now, cron, object>>

\* A list that fails throws out of the run, as does the update of the rows: the ids of what
\* was deleted are forgotten.  A crash does the same.
Aborted ==
    /\ ~serial
    /\ pc # "idle"
    /\ backlog' = [before |-> 0, after |-> 0]
    /\ pc' = "idle" /\ run' = NoRun
    /\ UNCHANGED <<serial, now, cron, object, replay>>

Next ==
    \/ Tick \/ DeleteOldReplays \/ ListPage \/ TryDeleteMany \/ ClearPointers \/ Aborted
    \/ \E s \in Streams : Recorded(s)

Spec == Init /\ [][Next]_vars
-----------------------------------------------------------------------------
(***************************************************************************)
(* Properties.                                                             *)
(***************************************************************************)
TypeOK ==
    /\ serial \in BOOLEAN
    /\ now \in 0 .. MaxNow /\ cron \in 0 .. NoTime
    /\ object \in [Streams -> 0 .. NoTime] /\ replay \subseteq Streams
    /\ pc \in {"idle", "list", "delete", "clear"}
    /\ run \in [cutoff : 0 .. MaxNow, offset : Nat, pages : 0 .. MaxPages,
                page : SUBSET Streams, ids : SUBSET Streams]
    /\ backlog \in [before : 0 .. Cardinality(Streams), after : 0 .. Cardinality(Streams)]

\* "Archived lives" plays what it shows: after a run a row points at no recording that is
\* gone, as the comment in deleteOldReplays asks.  A list that throws on a later page or a
\* crash breaks it for good, because no later run lists the deleted object again.
ShownIsStored == serial /\ pc = "idle" => replay \subseteq Stored

\* Deleting while the offset moves on skips as many replays as it deletes, so a run leaves
\* old replays behind, but never more than half of those it found, or else it has deleted as
\* many as all its pages hold.
RunHalvesBacklog ==
    serial /\ pc = "idle" =>
        \/ 2 * backlog.after <= backlog.before
        \/ backlog.before - backlog.after >= MaxPages * PageSize

\* No step takes a replay before its day is over, from storage or from its stream's row.
YoungStays ==
    \A s \in Streams : serial /\ s \in Stored /\ now <= object[s] + MaxAge =>
        object'[s] = object[s] /\ (s \in replay => s \in replay')

\* What a run knows: which replays it has deleted or is about to, and that its pages were
\* full of old ones, or else no more old ones are left than it has deleted.
InRun ==
    LET left == Old(run.cutoff) \ run.ids IN
    /\ run.cutoff = IF now < MaxAge THEN 0 ELSE now - MaxAge
    /\ run.ids \cap Stored \subseteq (IF pc = "delete" THEN run.page ELSE {})
    /\ pc = "delete" => run.page \subseteq run.ids \cap Old(run.cutoff)
    /\ backlog.before = Cardinality(left \cup run.ids)
    /\ \/ Cardinality(left) <= Cardinality(run.ids)
       \/ /\ Cardinality(run.ids) = run.offset /\ run.offset = run.pages * PageSize
          /\ pc = "clear" => run.pages = MaxPages

ReplaysInv ==
    /\ TypeOK /\ RunHalvesBacklog
    /\ pc = "list" => run.pages < MaxPages
    /\ pc = "idle" => run = NoRun
    /\ serial => replay \subseteq Stored \cup run.ids
    /\ serial /\ pc # "idle" => InRun
=============================================================================
