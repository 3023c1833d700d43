--------------------------- MODULE EmailDelivery ---------------------------
(***************************************************************************)
(* What the email outbox promises, without leases, attempts or workers: an *)
(* accepted email stays queued until it is settled once and for all, it is *)
(* reported sent only if the mail server took a copy, and the server may   *)
(* take any number of copies (at least once, never "exactly once").        *)
(***************************************************************************)
EXTENDS Naturals

CONSTANT Emails

VARIABLES
    state,    \* what an operator sees of each email
    copies    \* copies the mail server has taken

vars == <<state, copies>>

Init ==
    /\ state = [e \in Emails |-> "absent"]
    /\ copies = [e \in Emails |-> 0]

Accept(e) ==
    /\ state[e] = "absent"
    /\ state' = [state EXCEPT ![e] = "queued"]
    /\ UNCHANGED copies

\* A slow sender may hand over a copy after the email was settled.
Deliver(e) ==
    /\ state[e] # "absent"
    /\ copies' = [copies EXCEPT ![e] = @ + 1]
    /\ UNCHANGED state

Confirm(e) ==
    /\ state[e] = "queued"
    /\ copies[e] > 0
    /\ state' = [state EXCEPT ![e] = "sent"]
    /\ UNCHANGED copies

GiveUp(e) ==
    /\ state[e] = "queued"
    /\ state' = [state EXCEPT ![e] = "failed"]
    /\ UNCHANGED copies

Next == \E e \in Emails : Accept(e) \/ Deliver(e) \/ Confirm(e) \/ GiveUp(e)

Spec == Init /\ [][Next]_vars
=============================================================================
