-------------------------- MODULE MCPasswordReset --------------------------
(***************************************************************************)
(* Instances of PasswordReset for TLC.                                     *)
(***************************************************************************)
EXTENDS PasswordReset, TLC

Symmetry == Permutations(Tokens) \cup Permutations(Procs)
=============================================================================
