-------------------------- MODULE MCChangeControl --------------------------
(* A small instance of ChangeControl for TLC. *)
EXTENDS ChangeControl, TLC

CONSTANTS agent, client, c1, r1, r2

MCUsers == {agent, client}
MCRole == (agent :> "agent") @@ (client :> "client")
MCChanges == {c1}
MCRequests == {r1, r2}
Symmetry == Permutations(MCRequests)
=============================================================================
