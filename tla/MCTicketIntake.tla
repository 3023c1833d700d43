--------------------------- MODULE MCTicketIntake ---------------------------
(* Small instances of TicketIntake for TLC. *)
EXTENDS TicketIntake, TLC

CONSTANTS t1, t2, alice, bob, p1, p2, r1, r2

TwoTabs == {t1, t2}
TwoPeople == {alice, bob}
TwoPayloads == {p1, p2}
TwoRequests == {r1, r2}

\* One page, any of the two, with two accounts, signing out, and two payloads; and
\* two pages of one account that stays signed in, whose forms all say the same.
MCScenarios ==
    {[tabs |-> {t}, people |-> TwoPeople \cup {NoOne}, payloads |-> TwoPayloads, tickets |-> 3]
        : t \in TwoTabs}
    \cup {[tabs |-> TwoTabs, people |-> {alice}, payloads |-> {p1}, tickets |-> 2]}

Symmetry == Permutations(TwoTabs) \cup Permutations(TwoRequests)
=============================================================================
