----------------------------- MODULE MCCheckout -----------------------------
(***************************************************************************)
(* Instances of Checkout for TLC.  "tee" is a product without variants,    *)
(* "red" and "blue" are two variants of one product row.                   *)
(***************************************************************************)
EXTENDS Checkout, TLC

MCRowOf == [s \in Skus |-> IF s = "tee" THEN "plain" ELSE "dress"]
MCInitialStock == [s \in Skus |-> 1]

Symmetry == Permutations(Buyers) \cup Permutations(Payments) \cup Permutations(Requests)
=============================================================================
