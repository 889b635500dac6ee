----------------------------- MODULE Settlement -----------------------------
(***************************************************************************)
(* What checkout promises about money: a captured payment is settled once, *)
(* either by an order or by giving the money back, and stays settled.      *)
(***************************************************************************)
CONSTANT Payments

VARIABLES paid, settled

Init ==
    /\ paid = {}
    /\ settled = [k \in Payments |-> "open"]

Capture(k) ==
    /\ k \notin paid
    /\ paid' = paid \cup {k}
    /\ UNCHANGED settled

Settle(k, how) ==
    /\ k \in paid
    /\ settled[k] = "open"
    /\ settled' = [settled EXCEPT ![k] = how]
    /\ UNCHANGED paid

Next == \E k \in Payments :
            Capture(k) \/ Settle(k, "placed") \/ Settle(k, "returned")

Spec == Init /\ [][Next]_<<paid, settled>>
=============================================================================
