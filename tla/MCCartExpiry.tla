---------------------------- MODULE MCCartExpiry ----------------------------
(***************************************************************************)
(* The instance of CartExpiry for TLC: its constants are given values in   *)
(* cart_expiry.cfg.  No symmetry: the run checks a liveness property.      *)
(***************************************************************************)
EXTENDS CartExpiry
=============================================================================
