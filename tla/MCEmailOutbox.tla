--------------------------- MODULE MCEmailOutbox ---------------------------
(***************************************************************************)
(* Instances of EmailOutbox for TLC.                                       *)
(***************************************************************************)
EXTENDS EmailOutbox, TLC

Symmetry == Permutations(Workers)
=============================================================================
