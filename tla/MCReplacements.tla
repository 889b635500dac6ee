--------------------------- MODULE MCReplacements ---------------------------
(***************************************************************************)
(* The instance of Replacements for TLC.                                   *)
(***************************************************************************)
EXTENDS Replacements, TLC

Symmetry == Permutations(Slots) \cup Permutations(Requests) \cup Permutations(Sessions)
=============================================================================
