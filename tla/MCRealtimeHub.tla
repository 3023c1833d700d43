--------------------------- MODULE MCRealtimeHub ---------------------------
(* Instances of RealtimeHub for TLC. *)
EXTENDS RealtimeHub, TLC

CONSTANTS c1, c2

\* The second connection is another user of the same tenant or of another one.
MCPrincipals ==
    (c1 :> {[tenant |-> "a", user |-> "ann"]}) @@
    (c2 :> {[tenant |-> "a", user |-> "bob"], [tenant |-> "b", user |-> "cid"]})

\* One event for all of tenant "a", one for one of its users.
MCEvents ==
    {[tenant |-> "a", scoped |-> FALSE, users |-> {}],
     [tenant |-> "a", scoped |-> TRUE, users |-> {"ann", "cid"}]}
=============================================================================
