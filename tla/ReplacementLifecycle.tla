------------------------ MODULE ReplacementLifecycle ------------------------
(***************************************************************************)
(* What the replacement pipeline promises about a request: it is decided   *)
(* once, goes on to the seller only when its balance is settled, and then  *)
(* moves one way to the buyer (PRD.md: "submit window, auto-approve vs     *)
(* admin, seller fulfillment").                                            *)
(***************************************************************************)
CONSTANT Requests

VARIABLES
    stage,      \* where each request is
    owes        \* the requests whose balance is still to be paid

Open == {"REVIEW", "PAYING", "APPROVED"}
Shipping == [APPROVED |-> "PACKED", PACKED |-> "SHIPPED", SHIPPED |-> "DELIVERED"]

Init ==
    /\ stage = [i \in Requests |-> "NONE"]
    /\ owes = {}

\* A request is filed and, if the buyer's score allows it, approved at once.
File(i) ==
    /\ stage[i] = "NONE"
    /\ \E at \in Open : stage' = [stage EXCEPT ![i] = at]
    /\ owes' = IF stage'[i] = "PAYING" THEN owes \cup {i} ELSE owes

Decide(i) ==
    /\ stage[i] = "REVIEW"
    /\ \E verdict \in {"PAYING", "APPROVED", "REJECTED"} :
          stage' = [stage EXCEPT ![i] = verdict]
    /\ owes' = IF stage'[i] = "PAYING" THEN owes \cup {i} ELSE owes

Pay(i) ==
    /\ stage[i] = "PAYING"
    /\ i \in owes
    /\ stage' = [stage EXCEPT ![i] = "APPROVED"]
    /\ owes' = owes \ {i}

Ship(i) ==
    /\ stage[i] \in DOMAIN Shipping
    /\ i \notin owes
    /\ stage' = [stage EXCEPT ![i] = Shipping[stage[i]]]
    /\ UNCHANGED owes

Next == \E i \in Requests : File(i) \/ Decide(i) \/ Pay(i) \/ Ship(i)

Spec == Init /\ [][Next]_<<stage, owes>>
=============================================================================
