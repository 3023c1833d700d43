----------------------------- MODULE MspDomain -----------------------------
(***************************************************************************)
(* The rules of the MSP domain (domain/msp/msp.go): who may see a client,  *)
(* which moves a status has, what minutes cost, when an alert deserves a   *)
(* ticket.  Pure operators, no state.  Texts are left out except where a   *)
(* rule asks whether they are blank; amounts are cents, days are numbers.  *)
(***************************************************************************)
EXTENDS Tables, FiniteSetsExt

---------------------------------------------------------------------------
(* Clients and contracts *)

ClientStatus == {"active", "inactive", "suspended"}
ValidClient(c) == c.name # "" /\ c.status \in ClientStatus \cup {""}
ValidClientContact(c) == c.email # ""

\* The isolation rule: staff see every client, a contact only its own.
CanAccessClient(role, clientIds, k) == role \in Staff \/ k \in clientIds

ContractStatus == {"draft", "active", "suspended", "expired", "cancelled"}
ValidContract(c) ==
    /\ c.status \in ContractStatus \cup {""}
    /\ c.fee >= 0
    /\ c.ends = None \/ c.ends >= c.starts

\* One number stands for the pair of response and resolution minutes, and one
\* override, that of priority "high", for the map of overrides.
ResolveSLA(c, priority) ==
    IF priority = "high" /\ c.high > 0 THEN c.high ELSE c.base

---------------------------------------------------------------------------
(* Planning, time and expenses *)

ValidTechnician(t) == t.rate >= 0
ValidAvailability(a) == a.day \in 0..6 /\ a.from < a.to

InterventionTransitions ==
    [scheduled   |-> {"in_progress", "cancelled"},
     in_progress |-> {"done", "cancelled"},
     done        |-> {},
     cancelled   |-> {}]
ValidIntervention(v) == v.starts < v.ends

\* Two half-open windows.
IntervalsOverlap(a, b) == a.starts < b.ends /\ b.starts < a.ends

\* Half up to the nearest cent.
TimeEntryCost(minutes, rate) ==
    IF minutes <= 0 \/ rate <= 0 THEN 0 ELSE (minutes * rate + 30) \div 60

\* Up to a day of work.
ValidTimeEntry(e) == e.minutes \in 1..1440 /\ e.rate >= 0
ValidExpense(e) == e.amount > 0

---------------------------------------------------------------------------
(* Projects and billing *)

ProjectTransitions ==
    [planned   |-> {"active", "cancelled"},
     active    |-> {"on_hold", "done", "cancelled"},
     on_hold   |-> {"active", "cancelled"},
     done      |-> {},
     cancelled |-> {}]

TaskTransitions ==
    [todo |-> {"doing"}, doing |-> {"todo", "done"}, done |-> {"doing"}]

DraftStatus == {"draft", "issued", "void"}

DraftTotal(items) == MapThenSumSet(LAMBDA i : i.amount, items)

---------------------------------------------------------------------------
(* Inventory, monitoring and remote sessions *)

DiscoveredStatus == {"pending", "imported", "ignored"}
ValidDiscoveredAsset(d) == d.external # ""
ValidMonitoringSource(s) == s.name # ""
ValidMonitoringAlert(a) == a.resource # ""

ShouldCreateTicketForAlert(openExists, status) == ~openExists /\ status = "open"

RemoteSessionTransitions ==
    [requested  |-> {"authorized", "denied"},
     authorized |-> {"active", "denied"},
     active     |-> {"ended"},
     ended      |-> {},
     denied     |-> {}]

CanAuthorizeSession(role) == role \in Staff

\* Variant: the session need not have been authorized.
CanStartSession_Any(s, tech, user, role) ==
    s.status \in {"requested", "authorized"} /\ (role \in Staff \/ tech.user = user)

\* tech is the row of the technician the session was asked for.
CanStartSession(s, tech, user, role) ==
    s.status = "authorized" /\ (role \in Staff \/ tech.user = user)

\* CanMoveTo of interventions, projects, tasks and remote sessions.
CanMove(transitions, row, next) == next \in transitions[row.status]
=============================================================================
