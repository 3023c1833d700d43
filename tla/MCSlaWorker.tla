---------------------------- MODULE MCSlaWorker ----------------------------
(***************************************************************************)
(* Instances of SlaWorker for TLC.                                         *)
(***************************************************************************)
EXTENDS SlaWorker, TLC

Symmetry == Permutations(Tickets) \cup Permutations(Workers)
=============================================================================
