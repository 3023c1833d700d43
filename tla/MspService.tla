----------------------------- MODULE MspService -----------------------------
(***************************************************************************)
(* What the MSP service decides on the rows it has read                    *)
(* (application/msp/service.go): who is answered, which rows an answer     *)
(* holds, whether a request is accepted and what it will write.  Every     *)
(* operator is evaluated on the database as it was at the service's reads; *)
(* Msp executes the writes later, on whatever the database is then.        *)
(***************************************************************************)
EXTENDS MspStore

CONSTANT Today   \* the day every request is served

ASSUME TodayAssumption == Today \in Nat

---------------------------------------------------------------------------
(* Visibility *)

VisibleClients(d, u) ==
    [all |-> Role[u] \in Staff,
     ids |-> IF Role[u] \in Staff THEN {} ELSE ContactClientIDs(d, u)]

CheckClient(d, u, k) == CanAccessClient(Role[u], ContactClientIDs(d, u), k)

\* A viewer who names a client they may not see is answered with nothing.
Named(scope, k, rows) == IF k # None /\ ~InScope(scope, k) THEN {} ELSE rows

ClientsFor(d, scope) == SelectClients(d, scope)
ContractsFor(d, scope, k) ==
    IF k # None \/ scope.all THEN SelectContracts(d, k)
    ELSE UNION {{x \in d.contracts : x.client = id} : id \in scope.ids}
TicketsFor(d, scope, k) == Named(scope, k, SelectTickets(d, scope, k))
InterventionsFor(d, scope, k) == Named(scope, k, SelectInterventions(d, scope, k))
TimeEntriesFor(d, scope, k) == Named(scope, k, SelectTimeEntries(d, scope, k))
ExpensesFor(d, scope, k) == Named(scope, k, SelectExpenses(d, scope, k))
ProjectsFor(d, scope, k) == Named(scope, k, SelectProjects(d, scope, k))
BillingDraftsFor(d, scope, k) == Named(scope, k, SelectBillingDrafts(d, scope, k))
ProfitabilityFor(d, scope, k, p) == Named(scope, k, SelectProfitability(d, scope, k, p))
AlertsFor(d, scope, k) == Named(scope, k, SelectAlerts(d, scope, k))
RemoteSessionsFor(d, scope, k) == Named(scope, k, SelectRemoteSessions(d, scope, k))

---------------------------------------------------------------------------
(* Clients, contracts, tickets *)

ContactAccepted(d, c) == ValidClientContact(c) /\ Has(d, "clients", c.client)
ContractAccepted(d, c) == ValidContract(c) /\ Has(d, "clients", c.client)

\* The contract a ticket of the client is billed against: the one named, if it
\* is the client's (active or not), else an active one, else none.
ContractsForTicket(d, k, named) ==
    IF named # None THEN {c.id : c \in {x \in SelectContracts(d, k) : x.id = named}}
    ELSE IF ActiveContracts(d, k, Today) = {} THEN {None}
    ELSE {c.id : c \in ActiveContracts(d, k, Today)}

Minutes(d, contract, priority) ==
    IF contract = None THEN 0 ELSE ResolveSLA(Row(d, "contracts", contract), priority)

TicketAccepted(d, u, k) == CheckClient(d, u, k) /\ Has(d, "clients", k)

\* Variant: a ticket of any client will do.
TicketOfClient_Any(d, ticket, k) == ticket # None => \E x \in d.contexts : x.id = ticket

\* Time, money and sessions may name a ticket of their own client only.
TicketOfClient(d, ticket, k) ==
    ticket # None => \E x \in d.contexts : x.id = ticket /\ x.client = k

---------------------------------------------------------------------------
(* Planning, time, expenses, projects *)

AvailabilityAccepted(d, a) == ValidAvailability(a) /\ Has(d, "technicians", a.tech)

InterventionAccepted(d, v) ==
    /\ ValidIntervention(v)
    /\ Has(d, "clients", v.client) /\ Has(d, "technicians", v.tech)
    /\ TicketOfClient(d, v.ticket, v.client)
    /\ ~OverlappingIntervention(d, v)

\* The intervention an entry names is not looked at.
TimeEntryAccepted(d, e) ==
    /\ Has(d, "clients", e.client)
    /\ TicketOfClient(d, e.ticket, e.client)
    /\ ValidTimeEntry(e)

ExpenseAccepted(d, e) ==
    /\ ValidExpense(e)
    /\ Has(d, "clients", e.client)
    /\ TicketOfClient(d, e.ticket, e.client)
    /\ e.project # None => \E p \in d.projects : p.id = e.project /\ p.client = e.client

ProjectAccepted(d, p) == Has(d, "clients", p.client)
TaskAccepted(d, t) == Has(d, "projects", t.project) /\ Keyed(d, "technicians", t.tech)

---------------------------------------------------------------------------
(* Billing *)

\* Time is priced at the technician's rate: the rate of the contract, which an
\* entry could carry as well, is never stored by any operation.
TimeItems(entries) ==
    {[kind |-> "time", of |-> e.id, amount |-> TimeEntryCost(e.minutes, e.rate)]
        : e \in {x \in entries : x.billable}}
ExpenseItems(expenses) ==
    {[kind |-> "expense", of |-> e.id, amount |-> e.amount] : e \in expenses}
FeeItems(d, contract) ==
    {[kind |-> "fee", of |-> c.id, amount |-> c.fee]
        : c \in {x \in d.contracts : x.id = contract /\ x.fee > 0}}

\* A void draft is never issued again, by what was read of it.
DraftMoves(draft, next) == next \in {"issued", "void"} /\ draft.status # "void"

---------------------------------------------------------------------------
(* Inventory, monitoring, remote sessions *)

AssetLinkAccepted(d, link) == Has(d, "clients", link.client) /\ Has(d, "assets", link.id)
DiscoveredAccepted(d, a) == ValidDiscoveredAsset(a) /\ Has(d, "clients", a.client)

\* A delivery for a resource with an open alert writes that alert back, with the
\* status it was read with or as resolved; it never makes a ticket.
AlertOnFile(existing, status) ==
    IF status = "resolved" THEN [existing EXCEPT !.status = "resolved"] ELSE existing

SessionAccepted(d, u, s) ==
    /\ Has(d, "clients", s.client)
    /\ CheckClient(d, u, s.client)
    /\ Has(d, "technicians", s.tech)
    /\ TicketOfClient(d, s.ticket, s.client)

Authorized(s, u, grant) ==
    [s EXCEPT !.status = IF grant THEN "authorized" ELSE "denied", !.by = u]
Started(s) == [s EXCEPT !.status = "active", !.started = TRUE]
Ended(s) == [s EXCEPT !.status = "ended", !.ended = TRUE]
=============================================================================
