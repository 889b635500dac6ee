--------------------------- MODULE StreamSchedule ---------------------------
(***************************************************************************)
(* What the life of a stream promises: it is planned or goes live at once, *)
(* is live once, ends once, and the clean-up of missed streams takes only  *)
(* planned ones (streams.service.ts: "Auto-delete scheduled streams that   *)
(* were not started shortly after their scheduled time").                  *)
(***************************************************************************)
CONSTANT Streams

VARIABLE stage      \* where each stream is

Init == stage = [s \in Streams |-> "NONE"]

Move(s, from, to) ==
    /\ stage[s] \in from
    /\ stage' = [stage EXCEPT ![s] = to]

Plan(s) == Move(s, {"NONE"}, "PLANNED")
GoLive(s) == Move(s, {"NONE", "PLANNED"}, "LIVE")
Stop(s) == Move(s, {"PLANNED", "LIVE"}, "ENDED")
Lapse(s) == Move(s, {"PLANNED"}, "LAPSED")
Remove(s) == Move(s, {"PLANNED", "LIVE", "ENDED"}, "REMOVED")

Next == \E s \in Streams : Plan(s) \/ GoLive(s) \/ Stop(s) \/ Lapse(s) \/ Remove(s)

Spec == Init /\ [][Next]_stage
=============================================================================
