------------------------- MODULE MCStreamLifecycle -------------------------
(***************************************************************************)
(* Instances of StreamLifecycle for TLC.                                   *)
(***************************************************************************)
EXTENDS StreamLifecycle, TLC

\* Where handlers overlap, the last recording is made while nobody but stops and reports
\* of the first picture is about: the two that have to do with recordings.
LastTake ==
    serial = {} /\ (\A e \in Egresses : take[e] # Unused) =>
        \A r \in Slots : job[r].op \in {"none", "stop", "mark"}

\* No step leaves these states.
WithinLastTake == LastTake'

Symmetry == Permutations(Slots) \cup Permutations(Egresses)
=============================================================================
