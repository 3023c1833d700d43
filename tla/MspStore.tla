------------------------------ MODULE MspStore ------------------------------
(***************************************************************************)
(* The MSP tables of one tenant and the statements that touch them         *)
(* (infrastructure/postgres/msp_repo.go over migration 000015).            *)
(*                                                                         *)
(* Each operator is one statement or one transaction: it returns the       *)
(* database afterwards, and the old one where a constraint or a missing    *)
(* row makes the statement fail.                                           *)
(***************************************************************************)
EXTENDS MspDomain, ItsmStore

Client == [id : Id, name : STRING, domain : STRING, status : ClientStatus]
Contact == [id : Id, client : Id, user : Users, email : STRING]
Contract == [id : Id, client : Id, status : ContractStatus, starts : Nat, ends : Nat,
             fee : Nat, base : Nat, high : Nat]
Ticket == [id : Id, by : Users, category : {"general", "monitoring"}]
TicketContext == [id : Id, client : Id, contract : OrNone(Id), minutes : Nat]
Technician == [id : Id, user : Users, rate : Nat, active : BOOLEAN]
Availability == [id : Id, tech : Id, day : 0..6, from : Nat, to : Nat]
Intervention == [id : Id, client : Id, tech : Id, ticket : OrNone(Id), starts : Nat,
                 ends : Nat, status : DOMAIN InterventionTransitions]
TimeEntry == [id : Id, client : Id, tech : Id, ticket : OrNone(Id),
              intervention : OrNone(Id), minutes : 1..1440, billable : BOOLEAN,
              billed : BOOLEAN, rate : Nat, cost : Nat, day : Nat]
Expense == [id : Id, client : Id, ticket : OrNone(Id), project : OrNone(Id),
            amount : Nat \ {0}, billed : BOOLEAN, day : Nat]
Project == [id : Id, client : Id, status : DOMAIN ProjectTransitions]
ProjectTask == [id : Id, project : Id, tech : OrNone(Id), status : DOMAIN TaskTransitions]

\* An item of a draft names the row it bills; "saw" is a history field, the
\* drafts that were stored when this one read its entries.
BillingItem == [kind : {"time", "expense", "fee"}, of : Id, amount : Nat]
BillingDraft == [id : Id, client : Id, contract : OrNone(Id), from : Nat, to : Nat,
                 status : DraftStatus, total : Nat, items : SUBSET BillingItem,
                 saw : SUBSET Id]

ClientAsset == [id : Id, client : Id]     \* the asset and the client that has it
DiscoveredAsset == [id : Id, client : Id, external : STRING,
                    status : DiscoveredStatus, asset : OrNone(Id)]
MonitoringSource == [id : Id, name : STRING, token : STRING]
MonitoringAlert == [id : Id, source : Id, client : Id, resource : STRING,
                    status : {"open", "resolved"}, ticket : OrNone(Id)]
RemoteSession == [id : Id, client : Id, ticket : OrNone(Id), tech : Id,
                  status : DOMAIN RemoteSessionTransitions, by : Users \cup {None},
                  started : BOOLEAN, ended : BOOLEAN]

---------------------------------------------------------------------------
ContactClientIDs(d, u) == {c.client : c \in {x \in d.contacts : x.user = u}}

(* Clients, contacts, contracts, tickets *)

SelectClients(d, scope) == {x \in d.clients : InScope(scope, x.id)}

ClientKeysFree(d, c) ==
    \A x \in d.clients : x.id = c.id \/ (x.name # c.name /\ x.domain # c.domain)

InsertClient(d, c) == Insert(d, "clients", c, ClientKeysFree(d, c))

\* An empty status passes validation here and fails the column's CHECK.
UpdateClientRow(d, c) ==
    IF ClientKeysFree(d, c) /\ c.status \in ClientStatus THEN Put(d, "clients", c) ELSE d

\* ON DELETE CASCADE, and SET NULL for a time entry of an intervention that
\* went: nobody checked that the intervention was of the entry's client.
DeleteClientRow(d, k) ==
    LET Left(table) == {x \in d[table] : x.client # k}
        Stays(table, id) == \E x \in d[table] : x.id = id /\ x.client # k
    IN  [d EXCEPT
            !.clients = {x \in @ : x.id # k},
            !.contacts = Left("contacts"),
            !.contracts = Left("contracts"),
            !.contexts = Left("contexts"),
            !.interventions = Left("interventions"),
            !.entries =
                {IF Stays("interventions", e.intervention) THEN e
                 ELSE [e EXCEPT !.intervention = None] : e \in Left("entries")},
            !.expenses = Left("expenses"),
            !.projects = Left("projects"),
            !.tasks = {t \in @ : Stays("projects", t.project)},
            !.drafts = Left("drafts"),
            !.linked = Left("linked"),
            !.discovered = Left("discovered"),
            !.alerts = Left("alerts"),
            !.sessions = Left("sessions")]

SelectContacts(d, k) == {x \in d.contacts : x.client = k}
InsertContact(d, c) ==
    Insert(d, "contacts", c,
           /\ Has(d, "clients", c.client)
           /\ \A x \in SelectContacts(d, c.client) : x.email # c.email)
DeleteContactRow(d, k, id) ==
    [d EXCEPT !.contacts = {x \in @ : x.id # id \/ x.client # k}]

SelectContracts(d, k) == {x \in d.contracts : k \in {None, x.client}}
InsertContract(d, c) == Insert(d, "contracts", c, Has(d, "clients", c.client))
\* The client is not among the columns written.
UpdateContractRow(d, c) ==
    IF Has(d, "contracts", c.id) /\ c.status \in ContractStatus
    THEN Put(d, "contracts", [c EXCEPT !.client = Row(d, "contracts", c.id).client])
    ELSE d

\* The active contract that started last; ties in any order.
ActiveContracts(d, k, today) ==
    LET covers == {c \in SelectContracts(d, k) :
                      /\ c.status = "active"
                      /\ c.starts <= today
                      /\ c.ends = None \/ today <= c.ends}
    IN  {c \in covers : \A o \in covers : o.starts <= c.starts}

InsertTicketWithContext(d, ticket, context) ==
    IF Has(d, "clients", context.client) /\ Keyed(d, "contracts", context.contract)
    THEN [d EXCEPT !.tickets = @ \cup {ticket}, !.contexts = @ \cup {context}]
    ELSE d

SelectTickets(d, scope, k) == Where(d.contexts, "client", scope, k)

---------------------------------------------------------------------------
(* Technicians and planning *)

InsertTechnician(d, t) ==
    Insert(d, "technicians", t, \A x \in d.technicians : x.user # t.user)
\* The user is not among the columns written.
UpdateTechnicianRow(d, t) ==
    Put(d, "technicians", [t EXCEPT !.user = Row(d, "technicians", t.id).user])
InsertAvailability(d, a) ==
    Insert(d, "availability", a,
           \A x \in d.availability : [x EXCEPT !.id = a.id] # a)

SelectInterventions(d, scope, k) == Where(d.interventions, "client", scope, k)
OverlappingIntervention(d, v) ==
    \E x \in d.interventions :
        x.tech = v.tech /\ x.status # "cancelled" /\ IntervalsOverlap(x, v)
InsertIntervention(d, v) == Insert(d, "interventions", v, Has(d, "clients", v.client))
UpdateInterventionRow(d, v) == SetField(d, "interventions", {v.id}, "status", v.status)

---------------------------------------------------------------------------
(* Time, expenses and projects *)

InsertTimeEntry(d, e) ==
    Insert(d, "entries", e,
           Has(d, "clients", e.client) /\ Keyed(d, "interventions", e.intervention))
SelectTimeEntries(d, scope, k) == Where(d.entries, "client", scope, k)

\* Variant: billed rows are offered again.
Unbilled_Any(rows, k, from, to) == {e \in rows : e.client = k /\ e.day \in from..to}

\* What a draft of the client and the period may bill.
Unbilled(rows, k, from, to) ==
    {e \in rows : e.client = k /\ ~e.billed /\ e.day \in from..to}
UnbilledTimeEntries(d, k, from, to) == Unbilled(d.entries, k, from, to)

InsertExpense(d, e) ==
    Insert(d, "expenses", e,
           Has(d, "clients", e.client) /\ Keyed(d, "projects", e.project))
SelectExpenses(d, scope, k) == Where(d.expenses, "client", scope, k)
UnbilledExpenses(d, k, from, to) == Unbilled(d.expenses, k, from, to)

SelectProjects(d, scope, k) == Where(d.projects, "client", scope, k)
InsertProject(d, p) == Insert(d, "projects", p, Has(d, "clients", p.client))
UpdateProjectRow(d, p) == Put(d, "projects", p)
SelectTasks(d, p) == {t \in d.tasks : t.project = p}
InsertTask(d, t) == Insert(d, "tasks", t, Has(d, "projects", t.project))
UpdateTaskRow(d, t) == Put(d, "tasks", t)

---------------------------------------------------------------------------
(* Billing *)

Billed(draft, kind) == {i.of : i \in {x \in draft.items : x.kind = kind}}

\* Variant: only the time entries are marked as billed.
InsertBillingDraft_TimeOnly(d, draft) ==
    IF Has(d, "clients", draft.client)
    THEN [SetField(d, "entries", Billed(draft, "time"), "billed", TRUE)
             EXCEPT !.drafts = @ \cup {draft}]
    ELSE d

\* One transaction: the draft, its items, and the rows they bill marked as
\* billed, whether or not they have been billed meanwhile.
InsertBillingDraft(d, draft) ==
    LET free == \A x \in d.drafts :
                    <<x.client, x.from, x.to>> # <<draft.client, draft.from, draft.to>>
        marked == SetField(SetField(d, "entries", Billed(draft, "time"), "billed", TRUE),
                           "expenses", Billed(draft, "expense"), "billed", TRUE)
        keyed == Has(d, "clients", draft.client) /\ Keyed(d, "contracts", draft.contract)
    IN  IF free /\ keyed THEN [marked EXCEPT !.drafts = @ \cup {draft}] ELSE d

SelectBillingDrafts(d, scope, k) == Where(d.drafts, "client", scope, k)
UpdateBillingDraftRow(d, draft) == SetField(d, "drafts", {draft.id}, "status", draft.status)

\* The rows a profitability figure adds up.
SelectProfitability(d, scope, k, project) ==
    {e \in Where(d.entries, "client", scope, k) : e.billable}
    \cup {x \in Where(d.expenses, "client", scope, k) : project \in {None, x.project}}
    \cup {x \in Where(d.drafts, "client", scope, k) : x.status = "issued"}

---------------------------------------------------------------------------
(* Inventory *)

InsertClientAsset(d, link) ==
    IF Has(d, "clients", link.client) /\ Has(d, "assets", link.id)
    THEN [d EXCEPT !.linked = @ \cup {link}] ELSE d
DeleteClientAsset(d, link) == [d EXCEPT !.linked = @ \ {link}]
SelectClientAssets(d, k) == {x \in d.linked : x.client = k}

InsertDiscoveredAsset(d, a) ==
    Insert(d, "discovered", a,
           /\ Has(d, "clients", a.client)
           /\ \A x \in d.discovered : <<x.client, x.external>> # <<a.client, a.external>>)
SelectDiscoveredAssets(d, k) == {x \in d.discovered : x.client = k}

\* One transaction: the asset, if its type is there, its link, and the discovery
\* marked as imported, undone as a whole unless the discovery was still pending.
ImportDiscovered(d, k, id, asset) ==
    LET found == {x \in d.discovered : x.id = id /\ x.client = k /\ x.status = "pending"}
        link == [id |-> asset.id, client |-> k]
    IN  IF ~AssetKeys(d, asset) \/ ~Has(d, "clients", k) \/ found = {} THEN d
        ELSE [d EXCEPT
                 !.assets = @ \cup {asset},
                 !.linked = @ \cup {link},
                 !.discovered =
                     (@ \ found) \cup {[x EXCEPT !.status = "imported", !.asset = asset.id]
                                           : x \in found}]

---------------------------------------------------------------------------
(* Monitoring and remote sessions *)

InsertMonitoringSource(d, s) ==
    Insert(d, "sources", s, \A x \in d.sources : x.name # s.name)
\* Tokens are not unique: which of several sources answers is not said.
SourcesByToken(d, token) == {s \in d.sources : s.token = token /\ s.token # ""}
UpdateSourceToken(d, id, token) == SetField(d, "sources", {id}, "token", token)

OpenAlertsFor(d, source, resource) ==
    {a \in d.alerts : a.source = source /\ a.resource = resource /\ a.status = "open"}

\* Variant: the index is missing.
OpenIsFree_NoIndex(d, a) == a.status \in {"open", "resolved"}

\* The partial unique index: one open alert per source and resource.
OpenIsFree(d, a) ==
    a.status = "open" => OpenAlertsFor(d, a.source, a.resource) \subseteq
                             {x \in d.alerts : x.id = a.id}
InsertAlert(d, a) ==
    Insert(d, "alerts", a, Has(d, "clients", a.client) /\ OpenIsFree(d, a))
UpdateAlertRow(d, a) == IF OpenIsFree(d, a) THEN Put(d, "alerts", a) ELSE d
SelectAlerts(d, scope, k) == Where(d.alerts, "client", scope, k)

InsertRemoteSession(d, s) == Insert(d, "sessions", s, Has(d, "clients", s.client))
\* Status, authorizer and both times, whatever they are by now.
UpdateRemoteSessionRow(d, s) == Put(d, "sessions", s)
SelectRemoteSessions(d, scope, k) == Where(d.sessions, "client", scope, k)
=============================================================================
