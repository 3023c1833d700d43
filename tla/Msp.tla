-------------------------------- MODULE Msp --------------------------------
(***************************************************************************)
(* The MSP area at work: the routes under /msp (interfaces/http) serve     *)
(* requests that read, decide and write in separate statements, so that    *)
(* other requests come in between.                                         *)
(*                                                                         *)
(* See Requests for how a handler becomes actions.  The action has the name *)
(* of the handler, its call mostly too; MspFinish executes a call's last    *)
(* statement.                                                               *)
(***************************************************************************)
EXTENDS MspService, Requests

CONSTANTS Resources, Tokens, Days   \* bounds on what requests carry

---------------------------------------------------------------------------
(* Reading.  The viewer's clients are read first, the rows afterwards.  An  *)
(* answer shows the clients its rows belong to.                             *)

\* Lists take an optional client; a viewer's own scope limits the rows.
Ask(u, op, k) ==
    Begin(op, [by |-> u, scope |-> VisibleClients(db, u), client |-> k])
\* These name one client, which the viewer must be allowed to see.
AskOf(u, op, k) == CheckClient(db, u, k) /\ Ask(u, op, k)

ListClients(u) == Ask(u, "ListClients", None)
GetClient(u, k) == AskOf(u, "GetClient", k)
ListContacts(u, k) == AskOf(u, "ListContacts", k)
ListContracts(u, k) == (k # None => CheckClient(db, u, k)) /\ Ask(u, "ListContracts", k)
ListMSPTickets(u, k) == Ask(u, "ListMSPTickets", k)
\* Here the row comes first and the check with the answer.
GetTicketContext(u) == \E x \in db.contexts : Ask(u, "GetTicketContext", x.client)
ListInterventions(u, k) == Ask(u, "ListInterventions", k)
ListTimeEntries(u, k) == Ask(u, "ListTimeEntries", k)
ListExpenses(u, k) == Ask(u, "ListExpenses", k)
ListProjects(u, k) == Ask(u, "ListProjects", k)
ListTasks(u) ==
    \E p \in db.projects :
        /\ CheckClient(db, u, p.client)
        /\ Begin("ListTasks", [by |-> u, scope |-> VisibleClients(db, u),
                               client |-> p.client, project |-> p.id])
ListBillingDrafts(u, k) == Ask(u, "ListBillingDrafts", k)
Profitability(u, k) == Ask(u, "Profitability", k)
ListClientAssets(u, k) == AskOf(u, "ListClientAssets", k)
ListDiscoveredAssets(u, k) == AskOf(u, "ListDiscoveredAssets", k)
ListMonitoringAlerts(u, k) == Ask(u, "ListMonitoringAlerts", k)
ListRemoteSessions(u, k) == Ask(u, "ListRemoteSessions", k)

Reply(c, shown) == ReplyAs(c, c.row.scope.ids, shown, FALSE)
ReplyRows(c, rows) == Reply(c, {x.client : x \in rows})

\* The second query of a read: nothing of it depends on the viewer any more
\* except the scope that was read first.
MspAnswer(c) ==
    LET s == c.row.scope
        k == c.row.client
    IN  \/ c.op = "ListClients" /\ Reply(c, {x.id : x \in ClientsFor(db, s)})
        \/ c.op = "GetClient" /\ Reply(c, {x.id : x \in {y \in db.clients : y.id = k}})
        \/ c.op = "ListContacts" /\ ReplyRows(c, SelectContacts(db, k))
        \/ c.op = "ListContracts" /\ ReplyRows(c, ContractsFor(db, s, k))
        \/ c.op = "ListMSPTickets" /\ ReplyRows(c, TicketsFor(db, s, k))
        \/ c.op = "GetTicketContext" /\ CheckClient(db, c.row.by, k)
           /\ ReplyAs(c, VisibleClients(db, c.row.by).ids, {k}, FALSE)
        \/ c.op = "ListTasks" /\ Reply(c, {k : t \in SelectTasks(db, c.row.project)})
        \/ c.op = "ListInterventions" /\ ReplyRows(c, InterventionsFor(db, s, k))
        \/ c.op = "ListTimeEntries" /\ ReplyRows(c, TimeEntriesFor(db, s, k))
        \/ c.op = "ListExpenses" /\ ReplyRows(c, ExpensesFor(db, s, k))
        \/ c.op = "ListProjects" /\ ReplyRows(c, ProjectsFor(db, s, k))
        \/ c.op = "ListBillingDrafts" /\ ReplyRows(c, BillingDraftsFor(db, s, k))
        \/ c.op = "Profitability" /\ ReplyRows(c, ProfitabilityFor(db, s, k, None))
        \/ c.op = "ListClientAssets" /\ ReplyRows(c, SelectClientAssets(db, k))
        \/ c.op = "ListDiscoveredAssets" /\ ReplyRows(c, SelectDiscoveredAssets(db, k))
        \/ c.op = "ListMonitoringAlerts" /\ ReplyRows(c, AlertsFor(db, s, k))
        \/ c.op = "ListRemoteSessions" /\ ReplyRows(c, RemoteSessionsFor(db, s, k))

---------------------------------------------------------------------------
(* Clients, contacts, contracts and tickets *)

Clients == {x.id : x \in db.clients}

CreateClient(u) ==
    \E name, domain \in Names \cup {""}, status \in {"", "inactive"} :
        LET c == [id |-> serial, name |-> name, domain |-> domain,
                  status |-> IF status = "" THEN "active" ELSE status]
        IN  ByStaff(u) /\ ValidClient(c) /\ AtOnce("CreateClient", InsertClient(db, c))

UpdateClient(u, k) ==
    \E name, domain \in Names, status \in {"", "inactive"} :
        LET c == [id |-> k, name |-> name, domain |-> domain, status |-> status]
        IN  ByStaff(u) /\ ValidClient(c) /\ AtOnce("UpdateClient", UpdateClientRow(db, c))

DeleteClient(u, k) == ByAdmin(u) /\ AtOnce("DeleteClient", DeleteClientRow(db, k))

CreateContact(u, k) ==
    \E user \in Users, email \in Names :
        LET c == [id |-> serial, client |-> k, user |-> user, email |-> email]
        IN  ByStaff(u) /\ ContactAccepted(db, c) /\ Begin("CreateContact", c)

DeleteContact(u, k) ==
    \E x \in db.contacts :
        ByStaff(u) /\ AtOnce("DeleteContact", DeleteContactRow(db, k, x.id))

ContractInput(id, k) ==
    [id : {id}, client : {k}, status : {"active", "expired"}, starts : Days,
     ends : {None, 1}, fee : {5}, base : {8}, high : {0, 4}]

CreateContract(u, k) ==
    \E c \in ContractInput(serial, k) :
        ByStaff(u) /\ ContractAccepted(db, c) /\ Begin("CreateContract", c)

UpdateContract(u, x) ==
    \E c \in ContractInput(x.id, x.client) :
        ByStaff(u) /\ ValidContract(c) /\ AtOnce("UpdateContract", UpdateContractRow(db, c))

CreateMSPTicket(u, k) ==
    \E named \in OrNone({x.id : x \in db.contracts}), priority \in {"high", "low"} :
        \E contract \in ContractsForTicket(db, k, named) :
            /\ TicketAccepted(db, u, k)
            /\ Begin("CreateMSPTicket",
                     [ticket |-> [id |-> serial, by |-> u, category |-> "general"],
                      context |-> [id |-> serial, client |-> k, contract |-> contract,
                                   minutes |-> Minutes(db, contract, priority)]])

---------------------------------------------------------------------------
(* Planning *)

CreateTechnician(u) ==
    \E user \in Users, rate \in {-1, 90} :
        LET t == [id |-> serial, user |-> user, rate |-> rate, active |-> TRUE]
        IN  /\ ByStaff(u) /\ ValidTechnician(t)
            /\ AtOnce("CreateTechnician", InsertTechnician(db, t))

UpdateTechnician(u) ==
    \E t \in db.technicians, rate \in {-1, 0}, active \in BOOLEAN :
        LET new == [t EXCEPT !.rate = rate, !.active = active]
        IN  /\ ByStaff(u) /\ ValidTechnician(new)
            /\ AtOnce("UpdateTechnician", UpdateTechnicianRow(db, new))

\* Technicians are never deleted: nothing comes between the check and the INSERT.
CreateAvailability(u) ==
    \E t \in db.technicians, from, to \in Days :
        LET a == [id |-> serial, tech |-> t.id, day |-> 1, from |-> from, to |-> to]
        IN  /\ ByStaff(u) /\ AvailabilityAccepted(db, a)
            /\ AtOnce("CreateAvailability", InsertAvailability(db, a))

TicketIds == OrNone({x.id : x \in db.contexts})

CreateIntervention(u, k) ==
    \E t \in db.technicians, ticket \in TicketIds, starts, ends \in Days :
        LET v == [id |-> serial, client |-> k, tech |-> t.id, ticket |-> ticket,
                  starts |-> starts, ends |-> ends, status |-> "scheduled"]
        IN  ByStaff(u) /\ InterventionAccepted(db, v) /\ Begin("CreateIntervention", v)

UpdateInterventionStatus(u) ==
    \E v \in db.interventions, next \in DOMAIN InterventionTransitions :
        /\ ByStaff(u) /\ CanMove(InterventionTransitions, v, next)
        /\ Begin("UpdateInterventionStatus", [v EXCEPT !.status = next])

---------------------------------------------------------------------------
(* Time, expenses, projects and tasks *)

CreateTimeEntry(u, k) ==
    \E t \in db.technicians, ticket \in TicketIds, billable \in BOOLEAN, day \in Days,
       intervention \in OrNone({v.id : v \in db.interventions}), minutes \in {0, 10} :
        LET e == [id |-> serial, client |-> k, tech |-> t.id, ticket |-> ticket,
                  intervention |-> intervention, minutes |-> minutes,
                  billable |-> billable, billed |-> FALSE, rate |-> t.rate,
                  cost |-> TimeEntryCost(minutes, t.rate), day |-> day]
        IN  ByStaff(u) /\ TimeEntryAccepted(db, e) /\ Begin("CreateTimeEntry", e)

CreateExpense(u, k) ==
    \E ticket \in TicketIds, project \in OrNone({p.id : p \in db.projects}), day \in Days :
        LET e == [id |-> serial, client |-> k, ticket |-> ticket, project |-> project,
                  amount |-> 7, billed |-> FALSE, day |-> day]
        IN  ByStaff(u) /\ ExpenseAccepted(db, e) /\ Begin("CreateExpense", e)

CreateProject(u, k) ==
    LET p == [id |-> serial, client |-> k, status |-> "planned"]
    IN  ByStaff(u) /\ ProjectAccepted(db, p) /\ Begin("CreateProject", p)

UpdateProjectStatus(u) ==
    \E p \in db.projects, next \in DOMAIN ProjectTransitions :
        /\ ByStaff(u) /\ CanMove(ProjectTransitions, p, next)
        /\ Begin("UpdateProjectStatus", [p EXCEPT !.status = next])

CreateTask(u) ==
    \E p \in db.projects, tech \in OrNone({t.id : t \in db.technicians}) :
        LET t == [id |-> serial, project |-> p.id, tech |-> tech, status |-> "todo"]
        IN  ByStaff(u) /\ TaskAccepted(db, t) /\ Begin("CreateTask", t)

UpdateTaskStatus(u) ==
    \E t \in db.tasks, next \in DOMAIN TaskTransitions :
        /\ ByStaff(u) /\ CanMove(TaskTransitions, t, next)
        /\ Begin("UpdateTaskStatus", [t EXCEPT !.status = next])

---------------------------------------------------------------------------
(* Billing.  A draft is made of three reads and a transaction: the entries, *)
(* then the expenses and the contract, then everything is stored.           *)

GenerateBillingDraft(u, k) ==
    \E from, to \in Days :
        /\ ByStaff(u) /\ from <= to
        /\ Begin("GenerateBillingDraft",
                 [id |-> serial, client |-> k, contract |-> None, from |-> from, to |-> to,
                  status |-> "draft", total |-> 0,
                  items |-> TimeItems(UnbilledTimeEntries(db, k, from, to)),
                  saw |-> {x.id : x \in db.drafts}])

PriceDraft(c) ==
    LET d == c.row
        active == ActiveContracts(db, d.client, Today)
    IN  /\ c.op = "GenerateBillingDraft"
        /\ \E contract \in IF active = {} THEN {None} ELSE {x.id : x \in active} :
            LET items == d.items \cup FeeItems(db, contract)
                         \cup ExpenseItems(UnbilledExpenses(db, d.client, d.from, d.to))
            IN  Continue(c, db, On(c, "CreateBillingDraft",
                                   [d EXCEPT !.contract = contract, !.items = items,
                                             !.total = DraftTotal(items)]))

UpdateBillingDraftStatus(u) ==
    \E x \in db.drafts, next \in DraftStatus :
        /\ ByStaff(u) /\ DraftMoves(x, next)
        /\ Begin("UpdateBillingDraftStatus", [x EXCEPT !.status = next])

---------------------------------------------------------------------------
(* Inventory *)

LinkClientAsset(u, k) ==
    \E a \in db.assets :
        LET link == [id |-> a.id, client |-> k]
        IN  ByStaff(u) /\ AssetLinkAccepted(db, link) /\ Begin("LinkClientAsset", link)

UnlinkClientAsset(u) ==
    \E link \in db.linked :
        ByStaff(u) /\ AtOnce("UnlinkClientAsset", DeleteClientAsset(db, link))

CreateDiscoveredAsset(u, k) ==
    \E external \in Resources :
        LET a == [id |-> serial, client |-> k, external |-> external,
                  status |-> "pending", asset |-> None]
        IN  ByStaff(u) /\ DiscoveredAccepted(db, a) /\ Begin("CreateDiscoveredAsset", a)

\* The type may be one that is gone: the statement looks.
ImportDiscoveredAsset(u, k) ==
    \E a \in db.discovered, t \in db.citypes, name \in Names :
        LET asset == [id |-> serial, type |-> t.id, name |-> name, status |-> "active"]
        IN  ByStaff(u) /\ Begin("ImportDiscoveredAsset",
                                [client |-> k, of |-> a.id, asset |-> asset])

---------------------------------------------------------------------------
(* Monitoring *)

CreateMonitoringSource(u) ==
    \E name \in Names \cup {""}, token \in Tokens :
        LET s == [id |-> serial, name |-> name, token |-> token]
        IN  /\ ByStaff(u) /\ ValidMonitoringSource(s)
            /\ AtOnce("CreateMonitoringSource", InsertMonitoringSource(db, s))

RotateSourceToken(u) ==
    \E s \in db.sources, token \in Tokens \ {""} :
        ByStaff(u) /\ AtOnce("RotateSourceToken", UpdateSourceToken(db, s.id, token))

\* A delivery: the source by its token, the client, the open alert.  With none
\* on file an "open" delivery resolves the contract for its ticket as well.
Delivery(s, k, resource, status) ==
    LET onFile == OpenAlertsFor(db, s.id, resource)
        alert == [id |-> serial, source |-> s.id, client |-> k, resource |-> resource,
                  status |-> status, ticket |-> None]
    IN  /\ ValidMonitoringAlert(alert)
        /\ \/ \E a \in onFile : Begin("UpdateAlert", AlertOnFile(a, status))
           \/ /\ onFile = {} /\ ~ShouldCreateTicketForAlert(FALSE, status)
              /\ Begin("InsertAlert", alert)
           \/ /\ ShouldCreateTicketForAlert(onFile # {}, status)
              /\ \E contract \in ContractsForTicket(db, k, None) :
                   Begin("TicketForAlert",
                         [alert |-> alert,
                          context |-> [id |-> serial, client |-> k, contract |-> contract,
                                       minutes |-> Minutes(db, contract, "high")]])

Webhook ==
    \E token \in Tokens, k \in Clients, resource \in Resources, status \in {"open", "resolved"} :
        \E s \in SourcesByToken(db, token) : Delivery(s, k, resource, status)

\* The ticket commits on its own; the alert is inserted next, if at all.
TicketForAlert(c) ==
    LET ticket == [id |-> c.n, category |-> "monitoring",
                   by |-> CHOOSE u \in Users : Role[u] \in Staff]
        d == InsertTicketWithContext(db, ticket, c.row.context)
    IN  /\ c.op = "TicketForAlert"
        /\ Continue(c, d, IF d = db THEN {}
                          ELSE On(c, "InsertAlert", [c.row.alert EXCEPT !.ticket = c.n]))

ResolveMonitoringAlert(u) ==
    \E a \in db.alerts :
        ByStaff(u) /\ Begin("UpdateAlert", [a EXCEPT !.status = "resolved"])

---------------------------------------------------------------------------
(* Remote sessions.  Anybody may ask for one and try to start it. *)

RequestRemoteSession(u, k) ==
    \E t \in db.technicians, ticket \in TicketIds :
        LET s == [id |-> serial, client |-> k, ticket |-> ticket, tech |-> t.id,
                  status |-> "requested", by |-> None, started |-> FALSE, ended |-> FALSE]
        IN  SessionAccepted(db, u, s) /\ Begin("RequestRemoteSession", s)

AuthorizeRemoteSession(u) ==
    \E s \in db.sessions, grant \in BOOLEAN :
        /\ ByStaff(u) /\ CanAuthorizeSession(Role[u])
        /\ CanMove(RemoteSessionTransitions, s, IF grant THEN "authorized" ELSE "denied")
        /\ Begin("UpdateRemoteSession", Authorized(s, u, grant))

StartRemoteSession(u) ==
    \E s \in db.sessions :
        /\ CanStartSession(s, Row(db, "technicians", s.tech), u, Role[u])
        /\ Begin("UpdateRemoteSession", Started(s))

EndRemoteSession(u) ==
    \E s \in db.sessions :
        /\ ByStaff(u) /\ CanMove(RemoteSessionTransitions, s, "ended")
        /\ Begin("UpdateRemoteSession", Ended(s))

---------------------------------------------------------------------------
(* The second half of a call and the next-state relation *)

MspFinish(c) ==
    \/ MspAnswer(c)
    \/ PriceDraft(c)
    \/ TicketForAlert(c)
    \/ c.op = "CreateContact" /\ Write(c, InsertContact(db, c.row))
    \/ c.op = "CreateContract" /\ Write(c, InsertContract(db, c.row))
    \/ c.op = "CreateMSPTicket"
       /\ Write(c, InsertTicketWithContext(db, c.row.ticket, c.row.context))
    \/ c.op = "CreateIntervention" /\ Write(c, InsertIntervention(db, c.row))
    \/ c.op = "UpdateInterventionStatus" /\ Write(c, UpdateInterventionRow(db, c.row))
    \/ c.op = "CreateTimeEntry" /\ Write(c, InsertTimeEntry(db, c.row))
    \/ c.op = "CreateExpense" /\ Write(c, InsertExpense(db, c.row))
    \/ c.op = "CreateProject" /\ Write(c, InsertProject(db, c.row))
    \/ c.op = "UpdateProjectStatus" /\ Write(c, UpdateProjectRow(db, c.row))
    \/ c.op = "CreateTask" /\ Write(c, InsertTask(db, c.row))
    \/ c.op = "UpdateTaskStatus" /\ Write(c, UpdateTaskRow(db, c.row))
    \/ c.op = "CreateBillingDraft" /\ Write(c, InsertBillingDraft(db, c.row))
    \/ c.op = "UpdateBillingDraftStatus" /\ Write(c, UpdateBillingDraftRow(db, c.row))
    \/ c.op = "LinkClientAsset" /\ Write(c, InsertClientAsset(db, c.row))
    \/ c.op = "CreateDiscoveredAsset" /\ Write(c, InsertDiscoveredAsset(db, c.row))
    \/ c.op = "ImportDiscoveredAsset"
       /\ Write(c, ImportDiscovered(db, c.row.client, c.row.of, c.row.asset))
    \/ c.op = "InsertAlert" /\ Write(c, InsertAlert(db, c.row))
    \/ c.op = "UpdateAlert" /\ Write(c, UpdateAlertRow(db, c.row))
    \/ c.op = "RequestRemoteSession" /\ Write(c, InsertRemoteSession(db, c.row))
    \/ c.op = "UpdateRemoteSession" /\ Write(c, UpdateRemoteSessionRow(db, c.row))

MspRead(u) ==
    \/ ListClients(u) \/ GetTicketContext(u) \/ ListTasks(u)
    \/ \E k \in Clients :
        GetClient(u, k) \/ ListContacts(u, k) \/ ListClientAssets(u, k)
        \/ ListDiscoveredAssets(u, k)
    \/ \E k \in OrNone(Clients) :
        \/ ListContracts(u, k) \/ ListMSPTickets(u, k) \/ ListInterventions(u, k)
        \/ ListTimeEntries(u, k) \/ ListExpenses(u, k) \/ ListProjects(u, k)
        \/ ListBillingDrafts(u, k) \/ Profitability(u, k) \/ ListMonitoringAlerts(u, k)
        \/ ListRemoteSessions(u, k)

MspChange(u) ==
    \/ CreateClient(u) \/ \E x \in db.contracts : UpdateContract(u, x)
    \/ CreateTechnician(u) \/ UpdateTechnician(u) \/ CreateAvailability(u)
    \/ UpdateInterventionStatus(u) \/ UpdateProjectStatus(u) \/ CreateTask(u)
    \/ UpdateTaskStatus(u) \/ UpdateBillingDraftStatus(u) \/ UnlinkClientAsset(u)
    \/ CreateMonitoringSource(u) \/ RotateSourceToken(u) \/ ResolveMonitoringAlert(u)
    \/ AuthorizeRemoteSession(u) \/ StartRemoteSession(u) \/ EndRemoteSession(u)
    \/ \E k \in Clients :
        \/ UpdateClient(u, k) \/ DeleteClient(u, k) \/ CreateContact(u, k)
        \/ DeleteContact(u, k) \/ CreateContract(u, k) \/ CreateMSPTicket(u, k)
        \/ CreateIntervention(u, k) \/ CreateTimeEntry(u, k) \/ CreateExpense(u, k)
        \/ CreateProject(u, k) \/ GenerateBillingDraft(u, k) \/ LinkClientAsset(u, k)
        \/ CreateDiscoveredAsset(u, k) \/ ImportDiscoveredAsset(u, k)
        \/ RequestRemoteSession(u, k)

MspNext ==
    \/ MoreRequests /\ (Webhook \/ \E u \in Users : MspRead(u) \/ MspChange(u))
    \/ \E c \in calls : MspFinish(c)
=============================================================================
