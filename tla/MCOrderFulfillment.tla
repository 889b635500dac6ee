------------------------- MODULE MCOrderFulfillment -------------------------
(***************************************************************************)
(* Instances of OrderFulfillment for TLC.                                  *)
(***************************************************************************)
EXTENDS OrderViews, TLC

AllEndpoints == Handlers

\* Orders share nothing but the slots, so one of them, live or direct, is followed at a time.
OneOrder ==
    \E o \in Orders : \A p \in Orders \ {o} :
        status[p] = "NONE" /\ \A r \in Slots : pc[r] # "idle" => job[r].order # p

Symmetry == Permutations(Slots)
=============================================================================
