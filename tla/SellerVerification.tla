------------------------- MODULE SellerVerification -------------------------
(***************************************************************************)
(* What onboarding promises about a seller: nobody sells without a         *)
(* decision of an admin, a rejection is final until a new application or   *)
(* an approval, and the reason shown belongs to the last decision (PRD.md: *)
(* "Seller approve/reject/request-changes/reregister").                    *)
(***************************************************************************)
CONSTANT Sellers

VARIABLES
    stage,      \* where each application is
    shown,      \* the reason the seller is shown
    asked       \* the stage at which changes were last asked for

Init ==
    /\ stage = [u \in Sellers |-> "NONE"]
    /\ shown = [u \in Sellers |-> "none"]
    /\ asked = [u \in Sellers |-> "NONE"]

Become(u, at, reason) ==
    /\ stage' = [stage EXCEPT ![u] = at]
    /\ shown' = [shown EXCEPT ![u] = reason]
    /\ UNCHANGED asked

Apply(u) == Become(u, "PENDING", "none")
Approve(u) == stage[u] \in {"PENDING", "REJECTED", "NEEDS_CHANGES"} /\ Become(u, "VERIFIED", "none")
Reject(u) == stage[u] \in {"PENDING", "VERIFIED", "NEEDS_CHANGES"} /\ Become(u, "REJECTED", "rejected")
Reset(u) == stage[u] # "NONE" /\ Become(u, "PENDING", "reset")
Resubmit(u) == stage[u] = "NEEDS_CHANGES" /\ Become(u, "PENDING", "none")

AskForChanges(u) ==
    /\ stage[u] \in {"PENDING", "VERIFIED", "NEEDS_CHANGES"}
    /\ stage' = [stage EXCEPT ![u] = "NEEDS_CHANGES"]
    /\ asked' = [asked EXCEPT ![u] = stage[u]]
    /\ UNCHANGED shown

Next == \E u \in Sellers :
    Apply(u) \/ Approve(u) \/ Reject(u) \/ Reset(u) \/ AskForChanges(u) \/ Resubmit(u)

Spec == Init /\ [][Next]_<<stage, shown, asked>>
=============================================================================
