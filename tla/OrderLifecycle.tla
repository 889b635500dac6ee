--------------------------- MODULE OrderLifecycle ---------------------------
(***************************************************************************)
(* What fulfilment promises about the goods of an order: they move one way *)
(* along the documented stages, and the stock an order holds goes back     *)
(* exactly when, and only if, the order is cancelled.                      *)
(***************************************************************************)
EXTENDS Naturals

CONSTANT Orders

VARIABLES
    stage,      \* where the goods of each order are
    units       \* units of stock each order holds, 1 or 0

Successors ==
    [NONE |-> {"PENDING"},
     PENDING |-> {"PAID"},
     PAID |-> {"PACKED", "SHIPPED"},
     PACKED |-> {"SHIPPED"},
     SHIPPED |-> {"DELIVERED"},
     DELIVERED |-> {},
     CANCELLED |-> {}]

Cancellable == {"PENDING", "PAID", "PACKED"}

Init ==
    /\ stage = [o \in Orders |-> "NONE"]
    /\ units = [o \in Orders |-> 1]

Move(o) ==
    /\ \E next \in Successors[stage[o]] : stage' = [stage EXCEPT ![o] = next]
    /\ UNCHANGED units

Cancel(o) ==
    /\ stage[o] \in Cancellable
    /\ stage' = [stage EXCEPT ![o] = "CANCELLED"]
    /\ units' = [units EXCEPT ![o] = 0]

Next == \E o \in Orders : Move(o) \/ Cancel(o)

Spec == Init /\ [][Next]_<<stage, units>>
=============================================================================
