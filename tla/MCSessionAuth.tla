--------------------------- MODULE MCSessionAuth ---------------------------
(***************************************************************************)
(* Instances of SessionAuth for TLC.                                       *)
(***************************************************************************)
EXTENDS SessionAuth, TLC

Symmetry == Permutations(Pairs) \cup Permutations(Challenges) \cup Permutations(Requests)
=============================================================================
