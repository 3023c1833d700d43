------------------------- MODULE MCTicketLifecycle -------------------------
(* Small instances of TicketLifecycle for TLC. *)
EXTENDS TicketLifecycle, TLC

CONSTANTS agent, client, system, noOne, low, high, keep, j1, j2

\* One rule per hazard: a breach puts the ticket back to work, a resolution is
\* closed and its ticket raised, and a rule with an impossible assignee.
MCRules == <<
    [trigger |-> "sla_breach", newValue |-> {"true"}, status |-> Active,
     setStatus |-> "in_progress", setPriority |-> high, assignTo |-> keep],
    [trigger |-> "status_changed", newValue |-> {"resolved"}, status |-> {"resolved"},
     setStatus |-> "closed", setPriority |-> keep, assignTo |-> agent],
    [trigger |-> "status_changed", newValue |-> Active, status |-> Status,
     setStatus |-> keep, setPriority |-> low, assignTo |-> client] >>

MCUsers == {agent, client}
MCStaff == {agent}
MCPriorities == {low, high}
MCJobs == {j1, j2}
JobSymmetry == Permutations(MCJobs)
=============================================================================
