------------------------- MODULE ServiceDeskProofs -------------------------

(***************************************************************************)
(* Proofs about ServiceDesk, for any users, rows to begin with, scenarios  *)
(* and inputs, and any number of requests at once.  First what no action   *)
(* but a few touches, then one invariant for each of the properties.       *)
(***************************************************************************)
EXTENDS ServiceDesk, TLAPS

(***************************************************************************)
(* Of about a hundred and thirty actions a few dozen touch the tables that *)
(* the theorems are about, or leave behind a call that will.  The others   *)
(* are quiet.                                                              *)
(***************************************************************************)
AlertTables == {"alerts", "tickets"}
BillTables == {"entries", "expenses", "drafts"}
CareTables == {"conversations", "messages", "surveys", "customers"}
Watched == AlertTables \cup BillTables \cup CareTables \cup {"sessions", "problems"}

AlertOps == {"TicketForAlert", "InsertAlert", "UpdateAlert"}
BillOps == {"CreateTimeEntry", "CreateExpense", "GenerateBillingDraft", "CreateBillingDraft"}
SessionOps == {"RequestRemoteSession", "UpdateRemoteSession"}
MessageOps == {"AddMessage", "MoveConversation"}
CareOps ==
    {"CreateConversation", "UpdateConversation", "CreateSurvey"} \cup MessageOps \cup Ingesting
MspReadOps == {"ListClients", "GetClient", "ListContacts", "ListContracts", "ListMSPTickets",
               "GetTicketContext", "ListInterventions", "ListTimeEntries", "ListExpenses",
               "ListProjects", "ListTasks", "ListBillingDrafts", "Profitability",
               "ListClientAssets", "ListDiscoveredAssets", "ListMonitoringAlerts",
               "ListRemoteSessions"}
CxReadOps == {"ListCustomers", "GetCustomer", "ListCustomerContacts", "ListConversations",
              "GetConversation", "ListMessages", "ListSurveys", "Report"}
Core == AlertOps \cup BillOps \cup SessionOps \cup CareOps \cup {"UpdateProblem"}

\* Customers may be edited, but none come or go.
Ids(rows) == {x.id : x \in rows}

Keeps(d, e) ==
    /\ DOMAIN e = DOMAIN d
    /\ e.alerts = d.alerts /\ e.tickets = d.tickets
    /\ e.sessions = d.sessions
    /\ e.entries = d.entries /\ e.expenses = d.expenses /\ e.drafts = d.drafts
    /\ e.conversations = d.conversations /\ e.messages = d.messages /\ e.surveys = d.surveys
    /\ Ids(e.customers) = Ids(d.customers)
    /\ e.problems = d.problems

QuietBegin == \E op, row : op \notin Core \cup MspReadOps \cup CxReadOps /\ Begin(op, row)
Reads == \E u \in Users : MspRead(u) \/ CxRead(u)
QuietAtOnce == \E op, d : Keeps(db, d) /\ AtOnce(op, d)
QuietWrite == \E c \in calls : \E d : c.op \notin Ingesting /\ Keeps(db, d) /\ Write(c, d)
Answers == \E c \in calls : MspAnswer(c) \/ CxAnswer(c)

Quiet ==
    QuietBegin \/ QuietAtOnce \/ QuietWrite \/ Reads \/ Answers \/ UNCHANGED vars

\* The actions that are not.
MspWork(u) ==
    \/ ResolveMonitoringAlert(u)
    \/ AuthorizeRemoteSession(u) \/ StartRemoteSession(u) \/ EndRemoteSession(u)
    \/ \E k \in Clients :
        \/ DeleteClient(u, k) \/ CreateTimeEntry(u, k) \/ CreateExpense(u, k)
        \/ GenerateBillingDraft(u, k) \/ RequestRemoteSession(u, k)

MspStatement(c) ==
    \/ PriceDraft(c)
    \/ TicketForAlert(c)
    \/ c.op = "CreateMSPTicket"
       /\ Write(c, InsertTicketWithContext(db, c.row.ticket, c.row.context))
    \/ c.op = "CreateTimeEntry" /\ Write(c, InsertTimeEntry(db, c.row))
    \/ c.op = "CreateExpense" /\ Write(c, InsertExpense(db, c.row))
    \/ c.op = "CreateBillingDraft" /\ Write(c, InsertBillingDraft(db, c.row))
    \/ c.op = "UpdateBillingDraftStatus" /\ Write(c, UpdateBillingDraftRow(db, c.row))
    \/ c.op = "InsertAlert" /\ Write(c, InsertAlert(db, c.row))
    \/ c.op = "UpdateAlert" /\ Write(c, UpdateAlertRow(db, c.row))
    \/ c.op = "RequestRemoteSession" /\ Write(c, InsertRemoteSession(db, c.row))
    \/ c.op = "UpdateRemoteSession" /\ Write(c, UpdateRemoteSessionRow(db, c.row))

Delivered == \E s, k, resource, status : Delivery(s, k, resource, status)

MspCore == Delivered \/ (\E u \in Users : MspWork(u)) \/ \E c \in calls : MspStatement(c)

CxWork(u) ==
    \/ UpdateConversationStatus(u) \/ EscalateConversation(u) \/ AddMessage(u)
    \/ CreateSurvey(u) \/ CreateCustomer(u)
    \/ \E k \in Customers : DeleteCustomer(u, k) \/ CreateConversation(u, k)

CxStatement(c) ==
    \/ StoreMessage(c) \/ MoveConversation(c) \/ AnswerMessage(c)
    \/ InsertSender(c) \/ FindThread(c) \/ OpenThread(c) \/ ReopenThread(c)
    \/ StoreInbound(c)
    \/ c.op = "CreateConversation" /\ Write(c, InsertConversation(db, c.row))
    \/ c.op = "UpdateConversation" /\ Write(c, UpdateConversationRow(db, c.row))
    \/ c.op = "AssignConversation"
       /\ Write(c, AssignConversationRow(db, c.row.id, c.row.to, c.row.status))
    \/ c.op = "CreateSurvey" /\ Write(c, InsertSurvey(db, c.row))

CxCore ==
    \/ \E mail \in Mail : Received(mail)
    \/ \E u \in Users : CxWork(u)
    \/ \E c \in calls : CxStatement(c)

ItsmCore ==
    \/ \E u \in Users : CreateProblem(u) \/ UpdateProblem(u)
    \/ \E c \in calls : c.op = "UpdateProblem" /\ Write(c, UpdateProblemRow(db, c.row.row))

(***************************************************************************)
(* Statements on other tables                                              *)
(***************************************************************************)
LEMMA InsertKeeps ==
    ASSUME NEW d, NEW t, t \notin Watched, NEW row, NEW ok PROVE Keeps(d, Insert(d, t, row, ok))
BY DEF Insert, Keeps, Watched, AlertTables, BillTables, CareTables

LEMMA PutKeeps ==
    ASSUME NEW d, NEW t, t \notin Watched, NEW row PROVE Keeps(d, Put(d, t, row))
BY DEF Put, Keeps, Watched, AlertTables, BillTables, CareTables

LEMMA SetFieldKeeps ==
    ASSUME NEW d, NEW t, t \notin Watched, NEW ids, NEW field, NEW value
    PROVE  Keeps(d, SetField(d, t, ids, field, value))
BY DEF SetField, Keeps, Watched, AlertTables, BillTables, CareTables

LEMMA RemoveKeeps ==
    ASSUME NEW d, NEW t, t \notin Watched, NEW id PROVE Keeps(d, Remove(d, t, id))
BY DEF Remove, Keeps, Watched, AlertTables, BillTables, CareTables

LEMMA KeepsTwice == ASSUME NEW d, NEW e, NEW f, Keeps(d, e), Keeps(e, f) PROVE Keeps(d, f)
BY DEF Keeps

LEMMA KeepsSame == \A d : Keeps(d, d)
BY DEF Keeps

LEMMA OtherTables ==
    \A t \in {"clients", "contacts", "contracts", "contexts", "technicians", "availability",
             "interventions", "projects", "tasks", "linked", "discovered", "sources",
             "custcontacts", "emailAccounts", "whatsappAccounts", "policies",
             "rules", "replies", "categories", "services", "citypes", "assets",
             "relationships", "ticketAssets", "incidents", "changes", "changeTickets"} :
        t \notin Watched
BY DEF Watched, AlertTables, BillTables, CareTables

LEMMA MspKeeps ==
    /\ \A d, c : Keeps(d, InsertClient(d, c))
    /\ \A d, c : Keeps(d, UpdateClientRow(d, c))
    /\ \A d, c : Keeps(d, InsertContact(d, c))
    /\ \A d, k, id : Keeps(d, DeleteContactRow(d, k, id))
    /\ \A d, c : Keeps(d, InsertContract(d, c))
    /\ \A d, c : Keeps(d, UpdateContractRow(d, c))
    /\ \A d, c : Keeps(d, InsertTechnician(d, c))
    /\ \A d, c : Keeps(d, UpdateTechnicianRow(d, c))
    /\ \A d, c : Keeps(d, InsertAvailability(d, c))
    /\ \A d, c : Keeps(d, InsertIntervention(d, c))
    /\ \A d, c : Keeps(d, UpdateInterventionRow(d, c))
    /\ \A d, c : Keeps(d, InsertProject(d, c))
    /\ \A d, c : Keeps(d, UpdateProjectRow(d, c))
    /\ \A d, c : Keeps(d, InsertTask(d, c))
    /\ \A d, c : Keeps(d, UpdateTaskRow(d, c))
    /\ \A d, c : Keeps(d, InsertClientAsset(d, c))
    /\ \A d, c : Keeps(d, DeleteClientAsset(d, c))
    /\ \A d, c : Keeps(d, InsertDiscoveredAsset(d, c))
    /\ \A d, k, id, c : Keeps(d, ImportDiscovered(d, k, id, c))
    /\ \A d, c : Keeps(d, InsertMonitoringSource(d, c))
    /\ \A d, k, id : Keeps(d, UpdateSourceToken(d, k, id))
<1>1. \A d, c : Keeps(d, InsertClient(d, c))
  BY Zenon, InsertKeeps, PutKeeps, SetFieldKeeps, RemoveKeeps, KeepsSame, OtherTables
  DEF InsertClient
<1>2. \A d, c : Keeps(d, UpdateClientRow(d, c))
  BY Zenon, InsertKeeps, PutKeeps, SetFieldKeeps, RemoveKeeps, KeepsSame, OtherTables
  DEF UpdateClientRow
<1>3. \A d, c : Keeps(d, InsertContact(d, c))
  BY Zenon, InsertKeeps, PutKeeps, SetFieldKeeps, RemoveKeeps, KeepsSame, OtherTables
  DEF InsertContact
<1>4. \A d, k, id : Keeps(d, DeleteContactRow(d, k, id))
  BY OtherTables DEF DeleteContactRow, Keeps
<1>5. \A d, c : Keeps(d, InsertContract(d, c))
  BY Zenon, InsertKeeps, PutKeeps, SetFieldKeeps, RemoveKeeps, KeepsSame, OtherTables
  DEF InsertContract
<1>6. \A d, c : Keeps(d, UpdateContractRow(d, c))
  BY Zenon, InsertKeeps, PutKeeps, SetFieldKeeps, RemoveKeeps, KeepsSame, OtherTables
  DEF UpdateContractRow
<1>7. \A d, c : Keeps(d, InsertTechnician(d, c))
  BY Zenon, InsertKeeps, PutKeeps, SetFieldKeeps, RemoveKeeps, KeepsSame, OtherTables
  DEF InsertTechnician
<1>8. \A d, c : Keeps(d, UpdateTechnicianRow(d, c))
  BY Zenon, InsertKeeps, PutKeeps, SetFieldKeeps, RemoveKeeps, KeepsSame, OtherTables
  DEF UpdateTechnicianRow
<1>9. \A d, c : Keeps(d, InsertAvailability(d, c))
  BY Zenon, InsertKeeps, PutKeeps, SetFieldKeeps, RemoveKeeps, KeepsSame, OtherTables
  DEF InsertAvailability
<1>10. \A d, c : Keeps(d, InsertIntervention(d, c))
  BY Zenon, InsertKeeps, PutKeeps, SetFieldKeeps, RemoveKeeps, KeepsSame, OtherTables
  DEF InsertIntervention
<1>11. \A d, c : Keeps(d, UpdateInterventionRow(d, c))
  BY Zenon, InsertKeeps, PutKeeps, SetFieldKeeps, RemoveKeeps, KeepsSame, OtherTables
  DEF UpdateInterventionRow
<1>12. \A d, c : Keeps(d, InsertProject(d, c))
  BY Zenon, InsertKeeps, PutKeeps, SetFieldKeeps, RemoveKeeps, KeepsSame, OtherTables
  DEF InsertProject
<1>13. \A d, c : Keeps(d, UpdateProjectRow(d, c))
  BY Zenon, InsertKeeps, PutKeeps, SetFieldKeeps, RemoveKeeps, KeepsSame, OtherTables
  DEF UpdateProjectRow
<1>14. \A d, c : Keeps(d, InsertTask(d, c))
  BY Zenon, InsertKeeps, PutKeeps, SetFieldKeeps, RemoveKeeps, KeepsSame, OtherTables
  DEF InsertTask
<1>15. \A d, c : Keeps(d, UpdateTaskRow(d, c))
  BY Zenon, InsertKeeps, PutKeeps, SetFieldKeeps, RemoveKeeps, KeepsSame, OtherTables
  DEF UpdateTaskRow
<1>16. \A d, c : Keeps(d, InsertClientAsset(d, c))
  BY OtherTables DEF InsertClientAsset, Keeps
<1>17. \A d, c : Keeps(d, DeleteClientAsset(d, c))
  BY OtherTables DEF DeleteClientAsset, Keeps
<1>18. \A d, c : Keeps(d, InsertDiscoveredAsset(d, c))
  BY Zenon, InsertKeeps, PutKeeps, SetFieldKeeps, RemoveKeeps, KeepsSame, OtherTables
  DEF InsertDiscoveredAsset
<1>19. \A d, k, id, c : Keeps(d, ImportDiscovered(d, k, id, c))
  BY OtherTables DEF ImportDiscovered, Keeps
<1>20. \A d, c : Keeps(d, InsertMonitoringSource(d, c))
  BY Zenon, InsertKeeps, PutKeeps, SetFieldKeeps, RemoveKeeps, KeepsSame, OtherTables
  DEF InsertMonitoringSource
<1>21. \A d, k, id : Keeps(d, UpdateSourceToken(d, k, id))
  BY Zenon, InsertKeeps, PutKeeps, SetFieldKeeps, RemoveKeeps, KeepsSame, OtherTables
  DEF UpdateSourceToken
<1> QED
  BY <1>1, <1>2, <1>3, <1>4, <1>5, <1>6, <1>7, <1>8, <1>9, <1>10, <1>11, <1>12, <1>13, <1>14,
     <1>15, <1>16, <1>17, <1>18, <1>19, <1>20, <1>21

LEMMA CxKeeps ==
    /\ \A d, c : Keeps(d, UpdateCustomerRow(d, c))
    /\ \A d, c : Keeps(d, InsertCustomerContact(d, c))
    /\ \A d, k, id : Keeps(d, DeleteCustomerContactRow(d, k, id))
    /\ \A d, c : Keeps(d, InsertEmailAccount(d, c))
    /\ \A d, c : Keeps(d, UpdateEmailAccountRow(d, c))
    /\ \A d, c : Keeps(d, InsertWhatsAppAccount(d, c))
    /\ \A d, c : Keeps(d, UpdateWhatsAppAccountRow(d, c))
    /\ \A d, c : Keeps(d, UpsertSLAPolicyRow(d, c))
    /\ \A d, c : Keeps(d, InsertAssignmentRule(d, c))
    /\ \A d, c : Keeps(d, DeleteAssignmentRuleRow(d, c))
    /\ \A d, c : Keeps(d, InsertAutoReply(d, c))
    /\ \A d, c : Keeps(d, DeleteAutoReplyRow(d, c))
<1>2. ASSUME NEW d, NEW c PROVE Keeps(d, UpdateCustomerRow(d, c))
  <2>1. ASSUME NEW rows PROVE Ids({IF x.id = c.id THEN c ELSE x : x \in rows}) = Ids(rows)
    BY DEF Ids
  <2>2. Keeps(d, Put(d, "customers", c))
    BY <2>1 DEF Put, Keeps
  <2>3. QED
    BY <2>2, KeepsSame DEF UpdateCustomerRow
<1>3. \A d, c : Keeps(d, InsertCustomerContact(d, c))
  BY Zenon, InsertKeeps, PutKeeps, SetFieldKeeps, RemoveKeeps, KeepsSame, OtherTables
  DEF InsertCustomerContact
<1>4. \A d, k, id : Keeps(d, DeleteCustomerContactRow(d, k, id))
  BY OtherTables DEF DeleteCustomerContactRow, Keeps
<1>5. \A d, c : Keeps(d, InsertEmailAccount(d, c))
  BY Zenon, InsertKeeps, PutKeeps, SetFieldKeeps, RemoveKeeps, KeepsSame, OtherTables
  DEF InsertEmailAccount
<1>6. \A d, c : Keeps(d, UpdateEmailAccountRow(d, c))
  BY Zenon, InsertKeeps, PutKeeps, SetFieldKeeps, RemoveKeeps, KeepsSame, OtherTables
  DEF UpdateEmailAccountRow
<1>7. \A d, c : Keeps(d, InsertWhatsAppAccount(d, c))
  BY Zenon, InsertKeeps, PutKeeps, SetFieldKeeps, RemoveKeeps, KeepsSame, OtherTables
  DEF InsertWhatsAppAccount
<1>8. \A d, c : Keeps(d, UpdateWhatsAppAccountRow(d, c))
  BY Zenon, InsertKeeps, PutKeeps, SetFieldKeeps, RemoveKeeps, KeepsSame, OtherTables
  DEF UpdateWhatsAppAccountRow
<1>9. \A d, c : Keeps(d, UpsertSLAPolicyRow(d, c))
  BY Zenon, InsertKeeps, PutKeeps, SetFieldKeeps, RemoveKeeps, KeepsSame, OtherTables
  DEF UpsertSLAPolicyRow
<1>10. \A d, c : Keeps(d, InsertAssignmentRule(d, c))
  BY Zenon, InsertKeeps, PutKeeps, SetFieldKeeps, RemoveKeeps, KeepsSame, OtherTables
  DEF InsertAssignmentRule
<1>11. \A d, c : Keeps(d, DeleteAssignmentRuleRow(d, c))
  BY Zenon, InsertKeeps, PutKeeps, SetFieldKeeps, RemoveKeeps, KeepsSame, OtherTables
  DEF DeleteAssignmentRuleRow
<1>12. \A d, c : Keeps(d, InsertAutoReply(d, c))
  BY Zenon, InsertKeeps, PutKeeps, SetFieldKeeps, RemoveKeeps, KeepsSame, OtherTables
  DEF InsertAutoReply
<1>13. \A d, c : Keeps(d, DeleteAutoReplyRow(d, c))
  BY Zenon, InsertKeeps, PutKeeps, SetFieldKeeps, RemoveKeeps, KeepsSame, OtherTables
  DEF DeleteAutoReplyRow
<1> QED
  BY <1>2, <1>3, <1>4, <1>5, <1>6, <1>7, <1>8, <1>9, <1>10, <1>11, <1>12, <1>13

LEMMA ItsmKeeps ==
    /\ \A d, c : Keeps(d, InsertCategory(d, c))
    /\ \A d, c : Keeps(d, UpdateCategoryRow(d, c))
    /\ \A d, c : Keeps(d, DeleteCategoryRow(d, c))
    /\ \A d, c : Keeps(d, InsertService(d, c))
    /\ \A d, c : Keeps(d, UpdateServiceRow(d, c))
    /\ \A d, c : Keeps(d, DeleteServiceRow(d, c))
    /\ \A d, c : Keeps(d, InsertCIType(d, c))
    /\ \A d, c : Keeps(d, DeleteCITypeRow(d, c))
    /\ \A d, c : Keeps(d, InsertAsset(d, c))
    /\ \A d, c : Keeps(d, UpdateAssetRow(d, c))
    /\ \A d, c : Keeps(d, DeleteAssetRow(d, c))
    /\ \A d, c : Keeps(d, InsertRelationship(d, c))
    /\ \A d, c : Keeps(d, DeleteRelationshipRow(d, c))
    /\ \A d, c : Keeps(d, InsertTicketAsset(d, c))
    /\ \A d, c : Keeps(d, DeleteTicketAsset(d, c))
    /\ \A d, c : Keeps(d, InsertIncident(d, c))
    /\ \A d, c : Keeps(d, DeleteIncident(d, c))
    /\ \A d, c : Keeps(d, InsertChange(d, c))
    /\ \A d, c : Keeps(d, InsertChangeTicket(d, c))
    /\ \A d, c : Keeps(d, DeleteChangeTicket(d, c))
<1>1. \A d, c : Keeps(d, InsertCategory(d, c))
  BY Zenon, InsertKeeps, PutKeeps, SetFieldKeeps, RemoveKeeps, KeepsSame, OtherTables
  DEF InsertCategory
<1>2. \A d, c : Keeps(d, UpdateCategoryRow(d, c))
  BY Zenon, InsertKeeps, PutKeeps, SetFieldKeeps, RemoveKeeps, KeepsSame, OtherTables
  DEF UpdateCategoryRow
<1>3. ASSUME NEW d, NEW id PROVE Keeps(d, DeleteCategoryRow(d, id))
  <2>1. Keeps(d, Remove(d, "categories", id))
    BY RemoveKeeps, OtherTables
  <2>2. \A e, ids : Keeps(e, SetField(e, "services", ids, "category", None))
    BY SetFieldKeeps, OtherTables
  <2>3. QED
    BY Zenon, <2>1, <2>2, KeepsTwice DEF DeleteCategoryRow
<1>4. \A d, c : Keeps(d, InsertService(d, c))
  BY Zenon, InsertKeeps, PutKeeps, SetFieldKeeps, RemoveKeeps, KeepsSame, OtherTables
  DEF InsertService
<1>5. \A d, c : Keeps(d, UpdateServiceRow(d, c))
  BY Zenon, InsertKeeps, PutKeeps, SetFieldKeeps, RemoveKeeps, KeepsSame, OtherTables
  DEF UpdateServiceRow
<1>6. \A d, c : Keeps(d, DeleteServiceRow(d, c))
  BY Zenon, InsertKeeps, PutKeeps, SetFieldKeeps, RemoveKeeps, KeepsSame, OtherTables
  DEF DeleteServiceRow
<1>7. \A d, c : Keeps(d, InsertCIType(d, c))
  BY Zenon, InsertKeeps, PutKeeps, SetFieldKeeps, RemoveKeeps, KeepsSame, OtherTables
  DEF InsertCIType
<1>8. \A d, c : Keeps(d, DeleteCITypeRow(d, c))
  BY Zenon, InsertKeeps, PutKeeps, SetFieldKeeps, RemoveKeeps, KeepsSame, OtherTables
  DEF DeleteCITypeRow
<1>9. \A d, c : Keeps(d, InsertAsset(d, c))
  BY Zenon, InsertKeeps, PutKeeps, SetFieldKeeps, RemoveKeeps, KeepsSame, OtherTables
  DEF InsertAsset
<1>10. \A d, c : Keeps(d, UpdateAssetRow(d, c))
  BY Zenon, InsertKeeps, PutKeeps, SetFieldKeeps, RemoveKeeps, KeepsSame, OtherTables
  DEF UpdateAssetRow
<1>11. ASSUME NEW d, NEW id PROVE Keeps(d, DeleteAssetRow(d, id))
  <2> DEFINE gone == Remove(d, "assets", id)
             cut == [gone EXCEPT !.relationships = {r \in @ : id \notin {r.source, r.target}},
                                 !.ticketAssets = {l \in @ : l.id # id},
                                 !.linked = {l \in @ : l.id # id}]
  <2>1. Keeps(d, gone)
    BY RemoveKeeps, OtherTables
  <2>2. Keeps(gone, cut)
    BY DEF Keeps
  <2>3. \A e, ids : Keeps(e, SetField(e, "discovered", ids, "asset", None))
    BY SetFieldKeeps, OtherTables
  <2>4. QED
    BY Zenon, <2>1, <2>2, <2>3, KeepsTwice DEF DeleteAssetRow
<1>12. \A d, c : Keeps(d, InsertRelationship(d, c))
  BY Zenon, InsertKeeps, PutKeeps, SetFieldKeeps, RemoveKeeps, KeepsSame, OtherTables
  DEF InsertRelationship
<1>13. \A d, c : Keeps(d, DeleteRelationshipRow(d, c))
  BY Zenon, InsertKeeps, PutKeeps, SetFieldKeeps, RemoveKeeps, KeepsSame, OtherTables
  DEF DeleteRelationshipRow
<1>14. \A d, c : Keeps(d, InsertTicketAsset(d, c))
  BY Zenon, InsertKeeps, PutKeeps, SetFieldKeeps, RemoveKeeps, KeepsSame, OtherTables
  DEF InsertTicketAsset
<1>15. \A d, c : Keeps(d, DeleteTicketAsset(d, c))
  BY OtherTables DEF DeleteTicketAsset, Keeps
<1>16. \A d, c : Keeps(d, InsertIncident(d, c))
  BY Zenon, InsertKeeps, PutKeeps, SetFieldKeeps, RemoveKeeps, KeepsSame, OtherTables
  DEF InsertIncident
<1>17. \A d, c : Keeps(d, DeleteIncident(d, c))
  BY OtherTables DEF DeleteIncident, Keeps
<1>18. \A d, c : Keeps(d, InsertChange(d, c))
  BY Zenon, InsertKeeps, PutKeeps, SetFieldKeeps, RemoveKeeps, KeepsSame, OtherTables
  DEF InsertChange
<1>19. \A d, c : Keeps(d, InsertChangeTicket(d, c))
  BY Zenon, InsertKeeps, PutKeeps, SetFieldKeeps, RemoveKeeps, KeepsSame, OtherTables
  DEF InsertChangeTicket
<1>20. \A d, c : Keeps(d, DeleteChangeTicket(d, c))
  BY OtherTables DEF DeleteChangeTicket, Keeps
<1> QED
  BY <1>1, <1>2, <1>3, <1>4, <1>5, <1>6, <1>7, <1>8, <1>9, <1>10, <1>11, <1>12, <1>13, <1>14,
     <1>15, <1>16, <1>17, <1>18, <1>19, <1>20


LEMMA OtherOps ==
    \A op \in {"UpdateInterventionStatus", "UpdateProjectStatus", "CreateTask",
               "UpdateTaskStatus", "UpdateBillingDraftStatus", "CreateContact",
               "CreateContract", "CreateMSPTicket", "CreateIntervention", "CreateProject",
               "LinkClientAsset", "CreateDiscoveredAsset", "ImportDiscoveredAsset",
               "AssignConversation", "CreateRelationship", "LinkTicketAsset"} :
        op \notin Core \cup MspReadOps \cup CxReadOps
BY DEF Core, AlertOps, BillOps, SessionOps, CareOps, MessageOps, Ingesting, MspReadOps, CxReadOps

LEMMA ReadsApart == Core \cap (MspReadOps \cup CxReadOps) = {}
BY DEF Core, AlertOps, BillOps, SessionOps, CareOps, MessageOps, Ingesting, MspReadOps, CxReadOps

(***************************************************************************)
(* The quiet actions                                                       *)
(***************************************************************************)
LEMMA MspReadsBegin ==
    ASSUME NEW u, MspRead(u)
    PROVE  \E op \in MspReadOps : \E row : Begin(op, row)
<1>1. CASE ListClients(u) \/ GetTicketContext(u) \/ ListTasks(u)
  BY <1>1, Zenon DEF ListClients, GetTicketContext, ListTasks, Ask, MspReadOps
<1>2. ASSUME NEW k, GetClient(u, k) \/ ListContacts(u, k) \/ ListClientAssets(u, k)
                    \/ ListDiscoveredAssets(u, k)
      PROVE  \E op \in MspReadOps : \E row : Begin(op, row)
  BY <1>2, Zenon
  DEF GetClient, ListContacts, ListClientAssets, ListDiscoveredAssets, AskOf, Ask, MspReadOps
<1>3. ASSUME NEW k, ListContracts(u, k) \/ ListMSPTickets(u, k) \/ ListInterventions(u, k)
                    \/ ListTimeEntries(u, k) \/ ListExpenses(u, k)
      PROVE  \E op \in MspReadOps : \E row : Begin(op, row)
  BY <1>3, Zenon
  DEF ListContracts, ListMSPTickets, ListInterventions, ListTimeEntries, ListExpenses, Ask,
      MspReadOps
<1>4. ASSUME NEW k, ListProjects(u, k) \/ ListBillingDrafts(u, k) \/ Profitability(u, k)
                    \/ ListMonitoringAlerts(u, k) \/ ListRemoteSessions(u, k)
      PROVE  \E op \in MspReadOps : \E row : Begin(op, row)
  BY <1>4, Zenon
  DEF ListProjects, ListBillingDrafts, Profitability, ListMonitoringAlerts, ListRemoteSessions,
      Ask, MspReadOps
<1>5. QED
  BY <1>1, <1>2, <1>3, <1>4, Zenon DEF MspRead

LEMMA CxReadsBegin == ASSUME NEW u, CxRead(u) PROVE \E op \in CxReadOps : \E row : Begin(op, row)
<1>1. CASE ListCustomers(u) \/ GetConversation(u) \/ ListMessages(u) \/ Report(u)
  BY <1>1, Zenon DEF ListCustomers, GetConversation, ListMessages, Report, AskCx, CxReadOps
<1>2. ASSUME NEW k, GetCustomer(u, k) \/ ListCustomerContacts(u, k) \/ ListConversations(u, k)
                    \/ ListSurveys(u, k)
      PROVE  \E op \in CxReadOps : \E row : Begin(op, row)
  BY <1>2, Zenon
  DEF GetCustomer, ListCustomerContacts, ListConversations, ListSurveys, AskCx, AskCxOf, CxReadOps
<1>3. QED
  BY <1>1, <1>2, Zenon DEF CxRead

LEMMA MspRequestsQuiet == ASSUME NEW u, MspChange(u) PROVE Quiet \/ MspWork(u)
<1>1. \A op, row : op \notin Core \cup MspReadOps \cup CxReadOps /\ Begin(op, row) => Quiet
  BY DEF Quiet, QuietBegin
<1>2. \A op, d : Keeps(db, d) /\ AtOnce(op, d) => Quiet
  BY DEF Quiet, QuietAtOnce
<1>3. ASSUME NEW x, \/ CreateClient(u) \/ UpdateClient(u, x) \/ DeleteContact(u, x)
                    \/ UpdateContract(u, x)
      PROVE  Quiet
  BY <1>2, <1>3, MspKeeps, Zenon DEF CreateClient, UpdateClient, DeleteContact, UpdateContract
<1>4. CASE CreateTechnician(u) \/ UpdateTechnician(u) \/ CreateAvailability(u)
  <2>1. CASE CreateTechnician(u)
    <3>1. \A c : Keeps(db, InsertTechnician(db, c))
      BY MspKeeps
    <3>2. \E op, c : AtOnce(op, InsertTechnician(db, c))
      BY <2>1 DEF CreateTechnician, ByStaff, ValidTechnician
    <3>3. QED
      BY <1>2, <3>1, <3>2
  <2>2. CASE UpdateTechnician(u)
    BY <1>2, <2>2, MspKeeps, Zenon DEF UpdateTechnician
  <2>3. CASE CreateAvailability(u)
    BY <1>2, <2>3, MspKeeps, Zenon DEF CreateAvailability
  <2>4. QED
    BY <1>4, <2>1, <2>2, <2>3
<1>5. CASE UnlinkClientAsset(u) \/ CreateMonitoringSource(u) \/ RotateSourceToken(u)
  BY <1>2, <1>5, MspKeeps, Zenon DEF UnlinkClientAsset, CreateMonitoringSource, RotateSourceToken
<1>6. CASE UpdateInterventionStatus(u) \/ UpdateProjectStatus(u) \/ CreateTask(u)
           \/ UpdateTaskStatus(u) \/ UpdateBillingDraftStatus(u)
  BY <1>1, <1>6, OtherOps, Zenon
  DEF UpdateInterventionStatus, UpdateProjectStatus, CreateTask, UpdateTaskStatus,
      UpdateBillingDraftStatus
<1>7. ASSUME NEW k, CreateContact(u, k) \/ CreateContract(u, k) \/ CreateMSPTicket(u, k)
      PROVE  Quiet
  BY <1>1, <1>7, OtherOps, Zenon DEF CreateContact, CreateContract, CreateMSPTicket
<1>8. ASSUME NEW k, CreateIntervention(u, k) PROVE Quiet
  BY <1>1, <1>8, OtherOps, Zenon DEF CreateIntervention
<1>9. ASSUME NEW k, CreateProject(u, k) \/ LinkClientAsset(u, k) \/ CreateDiscoveredAsset(u, k)
                    \/ ImportDiscoveredAsset(u, k)
      PROVE  Quiet
  BY <1>1, <1>9, OtherOps, Zenon
  DEF CreateProject, LinkClientAsset, CreateDiscoveredAsset, ImportDiscoveredAsset
<1>10. QED
  BY <1>3, <1>4, <1>5, <1>6, <1>7, <1>8, <1>9, Zenon DEF MspChange, MspWork

LEMMA MspStatementsQuiet == ASSUME NEW c \in calls, MspFinish(c) PROVE Quiet \/ MspStatement(c)
<1>1. CASE MspAnswer(c)
  BY <1>1 DEF Quiet, Answers
<1>2. \A d : c.op \notin Ingesting /\ Keeps(db, d) /\ Write(c, d) => Quiet
  BY DEF Quiet, QuietWrite
<1>3. QED
  BY <1>1, <1>2, MspKeeps DEF MspFinish, MspStatement, Ingesting

LEMMA CxRequestsQuiet == ASSUME NEW u, CxChange(u)
                         PROVE  Quiet \/ CxWork(u) \/ \E mail \in Mail : Received(mail)
<1>1. \A op, row : op \notin Core \cup MspReadOps \cup CxReadOps /\ Begin(op, row) => Quiet
  BY DEF Quiet, QuietBegin
<1>2. \A op, d : Keeps(db, d) /\ AtOnce(op, d) => Quiet
  BY DEF Quiet, QuietAtOnce
<1>3. CASE \E k \in Customers : UpdateCustomer(u, k)
  BY <1>2, <1>3, CxKeeps, Zenon DEF UpdateCustomer
<1>4. CASE \E k \in Customers : CreateCustomerContact(u, k) \/ DeleteCustomerContact(u, k)
  BY <1>2, <1>4, CxKeeps, Zenon DEF CreateCustomerContact, DeleteCustomerContact
<1>5. CASE CreateEmailAccount(u) \/ UpdateEmailAccount(u)
  <2>1. CASE CreateEmailAccount(u)
    <3>1. \A c : Keeps(db, InsertEmailAccount(db, c))
      BY CxKeeps
    <3>2. \E op, c : AtOnce(op, InsertEmailAccount(db, c))
      BY <2>1 DEF CreateEmailAccount, ByStaff
    <3>3. QED
      BY <1>2, <3>1, <3>2
  <2>2. CASE UpdateEmailAccount(u)
    BY <1>2, <2>2, CxKeeps, Zenon DEF UpdateEmailAccount
  <2>3. QED
    BY <1>5, <2>1, <2>2
<1>6. CASE CreateWhatsAppAccount(u) \/ UpdateWhatsAppAccount(u) \/ UpsertSLAPolicy(u)
  BY <1>2, <1>6, CxKeeps, Zenon DEF CreateWhatsAppAccount, UpdateWhatsAppAccount, UpsertSLAPolicy
<1>7. CASE \/ CreateAssignmentRule(u) \/ DeleteAssignmentRule(u)
           \/ CreateAutoReply(u) \/ DeleteAutoReply(u)
  BY <1>2, <1>7, CxKeeps, Zenon
  DEF CreateAssignmentRule, DeleteAssignmentRule, CreateAutoReply, DeleteAutoReply
<1>8. CASE TakeConversation(u) \/ ReleaseConversation(u)
  BY <1>1, <1>8, OtherOps, Zenon DEF TakeConversation, ReleaseConversation
<1>9. CASE IngestEmail(u)
  BY <1>9, Zenon DEF IngestEmail
<1>10. QED
  BY <1>3, <1>4, <1>5, <1>6, <1>7, <1>8, <1>9, Zenon DEF CxChange, CxWork

LEMMA CxStatementsQuiet == ASSUME NEW c \in calls, CxFinish(c) PROVE Quiet \/ CxStatement(c)
<1>1. CASE CxAnswer(c)
  BY <1>1 DEF Quiet, Answers
<1>2. QED
  BY <1>1 DEF CxFinish, CxStatement

LEMMA ItsmQuiet == ASSUME ItsmNext PROVE Quiet \/ ItsmCore
<1>1. \A op, row : op \notin Core \cup MspReadOps \cup CxReadOps /\ Begin(op, row) => Quiet
  BY DEF Quiet, QuietBegin
<1>2. \A op, d : Keeps(db, d) /\ AtOnce(op, d) => Quiet
  BY DEF Quiet, QuietAtOnce
<1>3. ASSUME NEW c \in calls, ItsmFinish(c) PROVE Quiet \/ ItsmCore
  <2>1. \A d : c.op \notin Ingesting /\ Keeps(db, d) /\ Write(c, d) => Quiet
    BY DEF Quiet, QuietWrite
  <2>2. QED
    BY <1>3, <2>1, ItsmKeeps DEF ItsmFinish, ItsmCore, Ingesting
<1>4. ASSUME NEW u, \/ CreateCategory(u) \/ UpdateCategory(u) \/ DeleteCategory(u)
                    \/ CreateService(u) \/ UpdateService(u) \/ DeleteService(u)
      PROVE  Quiet
  BY <1>2, <1>4, ItsmKeeps, Zenon
  DEF CreateCategory, UpdateCategory, DeleteCategory, CreateService, UpdateService, DeleteService
<1>5. ASSUME NEW u, \/ CreateCIType(u) \/ DeleteCIType(u) \/ CreateAsset(u) \/ UpdateAsset(u)
                    \/ DeleteAsset(u) \/ DeleteRelationship(u) \/ UnlinkTicketAsset(u)
      PROVE  Quiet
  BY <1>2, <1>5, ItsmKeeps, Zenon
  DEF CreateCIType, DeleteCIType, CreateAsset, UpdateAsset, DeleteAsset, DeleteRelationship,
      UnlinkTicketAsset
<1>6. ASSUME NEW u, \/ LinkIncident(u) \/ UnlinkIncident(u)
                    \/ CreateChange(u) \/ LinkChangeTicket(u) \/ UnlinkChangeTicket(u)
      PROVE  Quiet
  BY <1>2, <1>6, ItsmKeeps, Zenon
  DEF LinkIncident, UnlinkIncident, CreateChange, LinkChangeTicket, UnlinkChangeTicket
<1>7. ASSUME NEW u, CreateRelationship(u) \/ LinkTicketAsset(u) PROVE Quiet
  BY <1>1, <1>7, OtherOps, Zenon DEF CreateRelationship, LinkTicketAsset
<1>8. QED
  BY <1>3, <1>4, <1>5, <1>6, <1>7, Zenon DEF ItsmNext, ItsmRequest, ItsmCore

\* Every step is quiet or one of the others.
LEMMA Steps == [Next]_vars => Quiet \/ MspCore \/ CxCore \/ ItsmCore
<1>1. ASSUME MspNext PROVE Quiet \/ MspCore
  BY <1>1, MspRequestsQuiet, MspStatementsQuiet, Zenon
  DEF MspNext, MspCore, Webhook, Delivered, Quiet, Reads
<1>2. ASSUME CxNext PROVE Quiet \/ CxCore
  BY <1>2, CxRequestsQuiet, CxStatementsQuiet, Zenon
  DEF CxNext, CxCore, WhatsAppWebhookIngest, Quiet, Reads
<1>3. QED
  BY <1>1, <1>2, ItsmQuiet, Zenon DEF Next, Quiet

(***************************************************************************)
(* What a step does to the calls                                           *)
(***************************************************************************)
WorkOps == Core \cup {"AutoReply"}

Requested == (\E op \in WorkOps : \E row : Begin(op, row)) \/ \E op, d : AtOnce(op, d)

CoreTraffic ==
    \/ Requested
    \/ \E c \in calls : \E d : \/ Continue(c, d, {})
                           \/ \E op \in WorkOps : \E row : Continue(c, d, On(c, op, row))

GoesOn == \E c \in calls : \E d : \/ Continue(c, d, {})
                              \/ \E op, row : Continue(c, d, On(c, op, row))
Ends == \E c \in calls : \E ids, shown, internal : ReplyAs(c, ids, shown, internal)

Traffic ==
    \/ \E op, row : Begin(op, row)
    \/ \E op, d : AtOnce(op, d)
    \/ GoesOn
    \/ Ends
    \/ UNCHANGED vars

LEMMA BeginOnly ==
    ASSUME NEW op, NEW row, Begin(op, row)
    PROVE  /\ db' = db
           /\ \A c \in calls' : c \in calls \/ (c.n = serial /\ c.op = op /\ c.row = row)
BY DEF Begin, Arrives

LEMMA AtOnceOnly ==
    ASSUME NEW op, NEW d, AtOnce(op, d)
    PROVE  db' = d /\ calls' = calls
BY DEF AtOnce

LEMMA WriteOnly ==
    ASSUME NEW c, NEW d, Write(c, d)
    PROVE  db' = d /\ calls' = calls \ {c}
BY DEF Write, Continue

IsCall(c) == DOMAIN c = {"n", "op", "row"}

LEMMA OnCall ==
    ASSUME NEW c, IsCall(c), NEW op, NEW row
    PROVE  \E e : On(c, op, row) = {e} /\ IsCall(e) /\ e.n = c.n /\ e.op = op /\ e.row = row
<1>1. PICK e : e = [c EXCEPT !.op = op, !.row = row]
  OBVIOUS
<1>2. IsCall(e) /\ e.n = c.n /\ e.op = op /\ e.row = row
  BY <1>1 DEF IsCall
<1>3. QED
  BY <1>1, <1>2 DEF On

LEMMA OnOnly ==
    ASSUME NEW c, IsCall(c), NEW d, NEW op, NEW row, Continue(c, d, On(c, op, row))
    PROVE  /\ db' = d
           /\ \A e \in calls' : e \in calls \/ (e.n = c.n /\ e.op = op /\ e.row = row)
BY OnCall DEF Continue

LEMMA StopOnly ==
    ASSUME NEW c, NEW d, Continue(c, d, {})
    PROVE  db' = d /\ calls' = calls \ {c}
BY DEF Continue

LEMMA MspAnswerEnds == ASSUME NEW c \in calls, MspAnswer(c) PROVE Ends
BY DEF MspAnswer, Reply, ReplyRows, Ends

LEMMA CxAnswerEnds == ASSUME NEW c \in calls, CxAnswer(c) PROVE Ends
BY DEF CxAnswer, Tell, TellRows, Ends

LEMMA AnswersOnly == Answers => Ends /\ db' = db /\ calls' \subseteq calls
<1>1. Answers => Ends
  BY MspAnswerEnds, CxAnswerEnds DEF Answers
<1>2. QED
  BY <1>1 DEF Ends, ReplyAs

LEMMA QuietTraffic == Quiet => Traffic
BY AnswersOnly, MspReadsBegin, CxReadsBegin
DEF Quiet, QuietBegin, QuietAtOnce, QuietWrite, Reads, Write, Traffic, GoesOn

LEMMA TheWork ==
    \A op \in {"TicketForAlert", "InsertAlert", "UpdateAlert", "CreateTimeEntry", "CreateExpense",
               "GenerateBillingDraft", "CreateBillingDraft", "RequestRemoteSession",
               "UpdateRemoteSession", "AddMessage", "MoveConversation", "AutoReply",
               "CreateConversation", "UpdateConversation", "CreateSurvey", "Ingest-sender",
               "Ingest-thread", "Ingest-open", "Ingest-reopen", "Ingest-message",
               "UpdateProblem"} :
        op \in WorkOps
BY DEF WorkOps, Core, AlertOps, BillOps, SessionOps, CareOps, MessageOps, Ingesting

LEMMA TimeEntryBegins ==
    ASSUME NEW u, NEW k, CreateTimeEntry(u, k) PROVE \E row : Begin("CreateTimeEntry", row)
BY DEF CreateTimeEntry, ByStaff

LEMMA DeliveryBegins ==
    ASSUME NEW s, NEW k, NEW resource, NEW status, Delivery(s, k, resource, status)
    PROVE  \E op \in AlertOps : \E row : Begin(op, row)
<1>1. {"UpdateAlert", "InsertAlert", "TicketForAlert"} \subseteq AlertOps
  BY DEF AlertOps
<1>2. \E row : \/ Begin("UpdateAlert", row) \/ Begin("InsertAlert", row)
               \/ Begin("TicketForAlert", row)
  BY ZenonT(60) DEF Delivery
<1>3. QED
  BY <1>1, <1>2

LEMMA MspRequested == Delivered \/ (\E u \in Users : MspWork(u)) => Requested
<1>1. \A op \in WorkOps : \A row : Begin(op, row) => Requested
  BY DEF Requested
<1>2. \A op, d : AtOnce(op, d) => Requested
  BY DEF Requested
<1>3. ASSUME NEW u, MspWork(u) PROVE Requested
  <2>1. CASE ResolveMonitoringAlert(u)
    BY <1>1, <2>1, TheWork, Zenon DEF ResolveMonitoringAlert
  <2>2. CASE AuthorizeRemoteSession(u) \/ StartRemoteSession(u) \/ EndRemoteSession(u)
    BY <1>1, <2>2, TheWork, Zenon DEF AuthorizeRemoteSession, StartRemoteSession, EndRemoteSession
  <2>3. ASSUME NEW k, DeleteClient(u, k) \/ GenerateBillingDraft(u, k) \/ RequestRemoteSession(u, k)
        PROVE  Requested
    BY <1>1, <1>2, <2>3, TheWork, Zenon
    DEF DeleteClient, GenerateBillingDraft, RequestRemoteSession
  <2>4. ASSUME NEW k, CreateTimeEntry(u, k) \/ CreateExpense(u, k) PROVE Requested
    BY <1>1, <2>4, TimeEntryBegins, TheWork, Zenon DEF CreateExpense
  <2>5. QED
    BY <1>3, <2>1, <2>2, <2>3, <2>4, Zenon DEF MspWork
<1>4. ASSUME NEW s, NEW k, NEW resource, NEW status, Delivery(s, k, resource, status)
      PROVE  Requested
  BY <1>1, <1>4, DeliveryBegins DEF WorkOps, Core
<1>5. QED
  BY <1>3, <1>4, Zenon DEF Delivered

LEMMA MspTraffic == MspCore => CoreTraffic
<1>1. ASSUME NEW c \in calls, MspStatement(c) PROVE CoreTraffic
  <2>1. CASE PriceDraft(c)
    BY <2>1, TheWork DEF PriceDraft, CoreTraffic
  <2>2. CASE TicketForAlert(c)
    BY <2>2, TheWork DEF TicketForAlert, CoreTraffic
  <2>3. CASE \E d : Write(c, d)
    BY <2>3 DEF Write, CoreTraffic
  <2>4. QED
    BY <1>1, <2>1, <2>2, <2>3, Zenon DEF MspStatement
<1>2. QED
  BY <1>1, MspRequested, Zenon DEF MspCore, CoreTraffic

LEMMA CxRequested ==
    (\E u \in Users : CxWork(u)) \/ (\E mail \in Mail : Received(mail)) => Requested
<1>1. \A op \in WorkOps : \A row : Begin(op, row) => Requested
  BY DEF Requested
<1>2. \A op, d : AtOnce(op, d) => Requested
  BY DEF Requested
<1>3. ASSUME NEW u, CxWork(u) PROVE Requested
  <2>1. CASE UpdateConversationStatus(u) \/ EscalateConversation(u) \/ CreateSurvey(u)
    BY <1>1, <2>1, TheWork, Zenon DEF UpdateConversationStatus, EscalateConversation, CreateSurvey
  <2>2. CASE AddMessage(u)
    BY <1>1, <2>2, TheWork, Zenon DEF AddMessage
  <2>3. ASSUME NEW k, DeleteCustomer(u, k) \/ CreateConversation(u, k) PROVE Requested
    BY <1>1, <1>2, <2>3, TheWork, Zenon DEF DeleteCustomer, CreateConversation
  <2>4. CASE CreateCustomer(u)
    BY <1>2, <2>4, Zenon DEF CreateCustomer
  <2>5. QED
    BY <1>3, <2>1, <2>2, <2>3, <2>4, Zenon DEF CxWork
<1>4. ASSUME NEW mail, Received(mail) PROVE Requested
  BY <1>1, <1>4, TheWork, Zenon DEF Received
<1>5. QED
  BY <1>3, <1>4, Zenon

LEMMA CxTraffic == CxCore => CoreTraffic
<1>1. ASSUME NEW c \in calls, CxStatement(c) PROVE CoreTraffic
  <2>1. CASE StoreMessage(c)
    BY <2>1, TheWork DEF StoreMessage, ToAutoReply, CoreTraffic
  <2>2. CASE MoveConversation(c)
    BY <2>2, TheWork DEF MoveConversation, ToAutoReply, CoreTraffic
  <2>3. CASE InsertSender(c)
    BY <2>3, TheWork DEF InsertSender, CoreTraffic
  <2>4. CASE FindThread(c)
    BY <2>4, TheWork, Zenon DEF FindThread, CoreTraffic
  <2>5. CASE OpenThread(c)
    BY <2>5, TheWork DEF OpenThread, CoreTraffic
  <2>6. CASE ReopenThread(c)
    BY <2>6, TheWork DEF ReopenThread, CoreTraffic
  <2>7. CASE \E d : Write(c, d)
    BY <2>7 DEF Write, CoreTraffic
  <2>8. CASE AnswerMessage(c) \/ StoreInbound(c)
    BY <2>7, <2>8, Zenon DEF AnswerMessage, StoreInbound
  <2>9. QED
    BY <1>1, <2>1, <2>2, <2>3, <2>4, <2>5, <2>6, <2>7, <2>8, Zenon DEF CxStatement
<1>2. QED
  BY <1>1, CxRequested, Zenon DEF CxCore, CoreTraffic

LEMMA ItsmTraffic == ItsmCore => CoreTraffic
<1>1. ASSUME NEW u, CreateProblem(u) \/ UpdateProblem(u) PROVE CoreTraffic
  BY <1>1, TheWork, Zenon DEF CreateProblem, UpdateProblem, CoreTraffic, Requested
<1>2. QED
  BY <1>1 DEF ItsmCore, Write, CoreTraffic

LEMMA CoreInTraffic == CoreTraffic => Traffic
BY DEF CoreTraffic, Requested, Traffic, GoesOn

LEMMA AllTraffic == [Next]_vars => Traffic
BY Steps, QuietTraffic, MspTraffic, CxTraffic, ItsmTraffic, CoreInTraffic

(***************************************************************************)
(* Numbers.  A call has a number of its own, below the next one.  A row is *)
(* known when its number is taken and no call will insert a row with it.   *)
(***************************************************************************)
Numbered ==
    /\ serial \in Nat /\ serial # None
    /\ \A c \in calls : IsCall(c) /\ c.n \in Nat /\ c.n < serial /\ c.n # None
    /\ \A c, e \in calls : c.n = e.n => c = e

Known(ops, id) == id \in Nat /\ id < serial /\ \A c \in calls : c.n = id => c.op \notin ops

LEMMA NumberedInit == Init => Numbered
BY FirstIdAssumption DEF Init, Numbered, Id

LEMMA NumberedNext ==
    ASSUME Numbered, [Next]_vars
    PROVE  Numbered' /\ serial' \in {serial, serial + 1}
<1>1. CASE \E op, row : Begin(op, row)
  <2>1. PICK op, row : Begin(op, row)
    BY <1>1
  <2>2. serial' = serial + 1
    BY <2>1 DEF Begin, Arrives
  <2>3. PICK new : new.n = serial /\ IsCall(new) /\ calls' = calls \cup {new}
    BY <2>1 DEF Begin, IsCall
  <2>4. QED
    BY <2>2, <2>3 DEF Numbered, None
<1>2. CASE \E op, d : AtOnce(op, d)
  BY <1>2 DEF AtOnce, Arrives, Numbered, None
<1>3. CASE GoesOn
  <2>1. PICK c, d : /\ c \in calls
                    /\ \/ Continue(c, d, {})
                       \/ \E op, row : Continue(c, d, On(c, op, row))
    BY <1>3 DEF GoesOn
  <2>2. serial' = serial
    BY <2>1 DEF Continue
  <2>3. CASE Continue(c, d, {})
    BY <2>1, <2>2, <2>3 DEF Continue, Numbered
  <2>4. CASE \E op, row : Continue(c, d, On(c, op, row))
    <3>1. PICK e : e.n = c.n /\ IsCall(e) /\ calls' = (calls \ {c}) \cup {e}
      BY <2>1, <2>4, OnCall DEF Continue, Numbered
    <3>2. QED
      BY <2>1, <2>2, <3>1 DEF Numbered
  <2>5. QED
    BY <2>1, <2>3, <2>4
<1>4. CASE Ends
  BY <1>4 DEF Ends, ReplyAs, Numbered
<1>5. CASE UNCHANGED vars
  BY <1>5 DEF vars, Numbered
<1>6. QED
  BY <1>1, <1>2, <1>3, <1>4, <1>5, AllTraffic DEF Traffic

(***************************************************************************)
(* The areas do not touch each other's tables, nor leave each other calls. *)
(***************************************************************************)
NoNew(ops) == \A c \in calls' : c \in calls \/ c.op \notin ops

OffAlerts ==
    /\ db'.alerts = db.alerts
    /\ db.tickets \subseteq db'.tickets
    /\ NoNew(AlertOps)
OffSessions == db'.sessions = db.sessions /\ NoNew(SessionOps)
OffBills ==
    /\ db'.entries = db.entries /\ db'.expenses = db.expenses /\ db'.drafts = db.drafts
    /\ NoNew(BillOps)
OffCare ==
    /\ db'.conversations = db.conversations
    /\ db'.messages = db.messages
    /\ db'.surveys = db.surveys
    /\ Ids(db'.customers) = Ids(db.customers)
    /\ NoNew(CareOps)
OffProblems == db'.problems = db.problems /\ NoNew({"UpdateProblem"})

SameTables == DOMAIN db' = DOMAIN db
OffMsp == OffAlerts /\ OffSessions /\ OffBills
Off == OffMsp /\ OffCare /\ OffProblems /\ SameTables

LEMMA QuietOff == Quiet => Off
<1>1. ASSUME Keeps(db, db'), NoNew(Core) PROVE Off
  BY <1>1
  DEF Keeps, NoNew, Core, Off, OffMsp, OffAlerts, OffSessions, OffBills, OffCare, OffProblems,
         SameTables
<1>2. CASE QuietBegin \/ Reads
  <2>1. \E op, row : op \notin Core /\ Begin(op, row)
    BY <1>2, MspReadsBegin, CxReadsBegin, ReadsApart DEF QuietBegin, Reads
  <2>2. QED
    BY <1>1, <2>1, BeginOnly, KeepsSame DEF NoNew
<1>3. CASE QuietAtOnce
  BY <1>1, <1>3, AtOnceOnly DEF QuietAtOnce, NoNew
<1>4. CASE QuietWrite
  BY <1>1, <1>4, WriteOnly DEF QuietWrite, NoNew
<1>5. CASE Answers
  BY <1>1, <1>5, AnswersOnly, KeepsSame DEF NoNew
<1>6. CASE UNCHANGED vars
  BY <1>1, <1>6, KeepsSame DEF vars, NoNew
<1>7. QED
  BY <1>2, <1>3, <1>4, <1>5, <1>6 DEF Quiet

\* A call that begins touches no table, and is of one operation.
LEMMA BeginOff ==
    ASSUME NEW op, NEW row, Begin(op, row)
    PROVE  /\ op \notin AlertOps => OffAlerts
           /\ op \notin SessionOps => OffSessions
           /\ op \notin BillOps => OffBills
           /\ op \notin CareOps => OffCare
           /\ op # "UpdateProblem" => OffProblems
BY BeginOnly DEF OffAlerts, OffSessions, OffBills, OffCare, OffProblems, NoNew

LEMMA Apart ==
    /\ AlertOps \cap (SessionOps \cup BillOps \cup CareOps) = {}
    /\ SessionOps \cap (BillOps \cup CareOps) = {}
    /\ BillOps \cap CareOps = {}
    /\ "UpdateProblem" \notin AlertOps \cup SessionOps \cup BillOps \cup CareOps
    /\ "AutoReply" \notin AlertOps \cup SessionOps \cup BillOps \cup CareOps
BY DEF AlertOps, SessionOps, BillOps, CareOps, MessageOps, Ingesting

\* The statements, each on its tables.
DoesAlerts == OffSessions /\ OffBills /\ OffCare /\ OffProblems
DoesSessions == OffAlerts /\ OffBills /\ OffCare /\ OffProblems
DoesBills == OffAlerts /\ OffSessions /\ OffCare /\ OffProblems

LEMMA MspWorkOff ==
    ASSUME NEW u, MspWork(u)
    PROVE  \/ ResolveMonitoringAlert(u) /\ DoesAlerts
           \/ (AuthorizeRemoteSession(u) \/ StartRemoteSession(u) \/ EndRemoteSession(u))
              /\ DoesSessions
           \/ \E k \in Clients :
                \/ DeleteClient(u, k)
                \/ (CreateTimeEntry(u, k) \/ CreateExpense(u, k) \/ GenerateBillingDraft(u, k))
                   /\ DoesBills
                \/ RequestRemoteSession(u, k) /\ DoesSessions
<1>1. /\ "UpdateAlert" \in AlertOps
      /\ {"RequestRemoteSession", "UpdateRemoteSession"} \subseteq SessionOps
      /\ {"CreateTimeEntry", "CreateExpense", "GenerateBillingDraft"} \subseteq BillOps
  BY DEF AlertOps, SessionOps, BillOps
<1>2. \A op, row : op \in AlertOps /\ Begin(op, row) => DoesAlerts
  BY BeginOff, Apart DEF DoesAlerts
<1>3. \A op, row : op \in SessionOps /\ Begin(op, row) => DoesSessions
  BY BeginOff, Apart DEF DoesSessions
<1>4. \A op, row : op \in BillOps /\ Begin(op, row) => DoesBills
  BY BeginOff, Apart DEF DoesBills
<1>5. ResolveMonitoringAlert(u) => DoesAlerts
  BY <1>1, <1>2, Zenon DEF ResolveMonitoringAlert
<1>6. AuthorizeRemoteSession(u) \/ StartRemoteSession(u) \/ EndRemoteSession(u) => DoesSessions
  <2>1. "UpdateRemoteSession" \in SessionOps
    BY <1>1
  <2>2. QED
    BY <1>3, <2>1, Zenon DEF AuthorizeRemoteSession, StartRemoteSession, EndRemoteSession
<1>7. \A k : RequestRemoteSession(u, k) => DoesSessions
  BY <1>1, <1>3, Zenon DEF RequestRemoteSession
<1>8. ASSUME NEW k, CreateTimeEntry(u, k) PROVE DoesBills
  <2>1. \E row : Begin("CreateTimeEntry", row)
    BY <1>8, TimeEntryBegins
  <2>2. "CreateTimeEntry" \in BillOps
    BY <1>1
  <2>3. QED
    BY <1>4, <2>1, <2>2
<1>9. \A k : CreateExpense(u, k) \/ GenerateBillingDraft(u, k) => DoesBills
  BY <1>1, <1>4, Zenon DEF CreateExpense, GenerateBillingDraft
<1>10. QED
  BY <1>5, <1>6, <1>7, <1>8, <1>9, Zenon DEF MspWork

LEMMA DeleteClientOff ==
    ASSUME NEW u, NEW k, DeleteClient(u, k)
    PROVE  /\ calls' = calls /\ db' = DeleteClientRow(db, k)
           /\ OffCare /\ OffProblems
           /\ db'.tickets = db.tickets
<1>1. calls' = calls /\ db' = DeleteClientRow(db, k)
  BY AtOnceOnly DEF DeleteClient
<1>2. QED
  BY <1>1 DEF DeleteClientRow, OffCare, OffProblems, NoNew

LEMMA DeliveredOff == Delivered => DoesAlerts
<1>1. \A op, row : op \in AlertOps /\ Begin(op, row) => DoesAlerts
  BY BeginOff, Apart DEF DoesAlerts
<1>2. QED
  BY <1>1, DeliveryBegins DEF Delivered

AwayFromBills(d, e) ==
    /\ e.alerts = d.alerts /\ e.tickets = d.tickets
    /\ e.sessions = d.sessions /\ e.problems = d.problems
    /\ e.conversations = d.conversations /\ e.messages = d.messages /\ e.surveys = d.surveys
    /\ e.customers = d.customers

LEMMA AwayTwice ==
    ASSUME NEW d, NEW e, NEW f, AwayFromBills(d, e), AwayFromBills(e, f)
    PROVE  AwayFromBills(d, f)
BY DEF AwayFromBills

LEMMA AwaySame == \A d : AwayFromBills(d, d)
BY DEF AwayFromBills

LEMMA MspStatementsOff ==
    ASSUME Numbered, NEW c \in calls, MspStatement(c)
    PROVE  \/ PriceDraft(c) /\ DoesBills
           \/ TicketForAlert(c) /\ DoesAlerts
           \/ DoesAlerts /\ OffAlerts
           \/ c.op = "CreateTimeEntry" /\ Write(c, InsertTimeEntry(db, c.row)) /\ DoesBills
           \/ c.op = "CreateExpense" /\ Write(c, InsertExpense(db, c.row)) /\ DoesBills
           \/ c.op = "CreateBillingDraft" /\ Write(c, InsertBillingDraft(db, c.row)) /\ DoesBills
           \/ c.op = "UpdateBillingDraftStatus" /\ Write(c, UpdateBillingDraftRow(db, c.row))
              /\ DoesBills
           \/ c.op = "InsertAlert" /\ Write(c, InsertAlert(db, c.row)) /\ DoesAlerts
           \/ c.op = "UpdateAlert" /\ Write(c, UpdateAlertRow(db, c.row)) /\ DoesAlerts
           \/ c.op = "RequestRemoteSession" /\ Write(c, InsertRemoteSession(db, c.row))
              /\ DoesSessions
           \/ c.op = "UpdateRemoteSession" /\ Write(c, UpdateRemoteSessionRow(db, c.row))
              /\ DoesSessions
<1>1. \A d, ops : Write(c, d) => NoNew(ops)
  BY WriteOnly DEF NoNew
<1>2. CASE PriceDraft(c)
  <2>1. PICK row : Continue(c, db, On(c, "CreateBillingDraft", row))
    BY <1>2, Zenon DEF PriceDraft
  <2>2. "CreateBillingDraft" \in BillOps
    BY DEF BillOps
  <2>3. db' = db /\ NoNew(AlertOps \cup SessionOps \cup CareOps \cup {"UpdateProblem"})
    BY <2>1, <2>2, OnOnly, Apart DEF NoNew, Numbered
  <2>4. QED
    BY <1>2, <2>3 DEF NoNew, DoesBills, OffAlerts, OffSessions, OffCare, OffProblems
<1>3. CASE TicketForAlert(c)
  <2>1. PICK t, x, row : \/ Continue(c, InsertTicketWithContext(db, t, x), {})
                         \/ Continue(c, InsertTicketWithContext(db, t, x),
                                     On(c, "InsertAlert", row))
    BY <1>3, Zenon DEF TicketForAlert
  <2>2. "InsertAlert" \in AlertOps
    BY DEF AlertOps
  <2>3. NoNew(BillOps \cup SessionOps \cup CareOps \cup {"UpdateProblem"})
    BY <2>1, <2>2, OnOnly, StopOnly, Apart DEF NoNew, Numbered
  <2>4. db' = InsertTicketWithContext(db, t, x)
    BY <2>1, OnOnly, StopOnly DEF Numbered
  <2>5. /\ db'.sessions = db.sessions /\ db'.problems = db.problems
        /\ db'.entries = db.entries /\ db'.expenses = db.expenses /\ db'.drafts = db.drafts
        /\ db'.conversations = db.conversations /\ db'.messages = db.messages
        /\ db'.surveys = db.surveys /\ db'.customers = db.customers
    BY <2>4 DEF InsertTicketWithContext
  <2>6. QED
    BY <1>3, <2>3, <2>5 DEF NoNew, DoesAlerts, OffBills, OffSessions, OffCare, OffProblems
<1>4. CASE c.op = "CreateMSPTicket"
           /\ Write(c, InsertTicketWithContext(db, c.row.ticket, c.row.context))
  <2>1. db' = InsertTicketWithContext(db, c.row.ticket, c.row.context)
    BY <1>4, WriteOnly
  <2>2. /\ db'.sessions = db.sessions
        /\ db'.entries = db.entries /\ db'.expenses = db.expenses /\ db'.drafts = db.drafts
        /\ db'.conversations = db.conversations /\ db'.messages = db.messages
        /\ db'.surveys = db.surveys /\ db'.customers = db.customers
        /\ db'.problems = db.problems
        /\ db'.alerts = db.alerts /\ db.tickets \subseteq db'.tickets
    BY <2>1 DEF InsertTicketWithContext
  <2>3. QED
    BY <1>1, <1>4, <2>2 DEF DoesAlerts, OffAlerts, OffSessions, OffBills, OffCare, OffProblems
<1>5. CASE c.op = "CreateTimeEntry" /\ Write(c, InsertTimeEntry(db, c.row))
  <2>1. db' = InsertTimeEntry(db, c.row)
    BY <1>5, WriteOnly
  <2>2. /\ db'.alerts = db.alerts /\ db'.tickets = db.tickets
        /\ db'.sessions = db.sessions
        /\ db'.conversations = db.conversations /\ db'.messages = db.messages
        /\ db'.surveys = db.surveys /\ db'.customers = db.customers
        /\ db'.problems = db.problems
    BY <2>1 DEF InsertTimeEntry, Insert
  <2>3. DoesBills
    BY <1>1, <1>5, <2>2 DEF DoesBills, OffAlerts, OffSessions, OffCare, OffProblems
  <2>4. QED
    BY <1>5, <2>3
<1>6. CASE c.op = "CreateExpense" /\ Write(c, InsertExpense(db, c.row))
  <2>1. db' = InsertExpense(db, c.row)
    BY <1>6, WriteOnly
  <2>2. /\ db'.alerts = db.alerts /\ db'.tickets = db.tickets
        /\ db'.sessions = db.sessions
        /\ db'.conversations = db.conversations /\ db'.messages = db.messages
        /\ db'.surveys = db.surveys /\ db'.customers = db.customers
        /\ db'.problems = db.problems
    BY <2>1 DEF InsertExpense, Insert
  <2>3. DoesBills
    BY <1>1, <1>6, <2>2 DEF DoesBills, OffAlerts, OffSessions, OffCare, OffProblems
  <2>4. QED
    BY <1>6, <2>3
<1>7. CASE c.op = "CreateBillingDraft" /\ Write(c, InsertBillingDraft(db, c.row))
  <2>1. db' = InsertBillingDraft(db, c.row)
    BY <1>7, WriteOnly
  <2>2. /\ db'.alerts = db.alerts /\ db'.tickets = db.tickets
        /\ db'.sessions = db.sessions
        /\ db'.conversations = db.conversations /\ db'.messages = db.messages
        /\ db'.surveys = db.surveys /\ db'.customers = db.customers
        /\ db'.problems = db.problems
    <3>1. PICK ids1, ids2 :
            db' = [SetField(SetField(db, "entries", ids1, "billed", TRUE),
                            "expenses", ids2, "billed", TRUE)
                     EXCEPT !.drafts = @ \cup {c.row}] \/ db' = db
      BY <2>1, Zenon DEF InsertBillingDraft
    <3>2. \A d, ids : AwayFromBills(d, SetField(d, "entries", ids, "billed", TRUE))
      BY DEF SetField, AwayFromBills
    <3>3. \A d, ids : AwayFromBills(d, SetField(d, "expenses", ids, "billed", TRUE))
      BY DEF SetField, AwayFromBills
    <3>4. \A d, x : AwayFromBills(d, [d EXCEPT !.drafts = @ \cup {x}])
      BY DEF AwayFromBills
    <3>5. AwayFromBills(db, db')
      BY Zenon, <3>1, <3>2, <3>3, <3>4, AwayTwice, AwaySame
    <3>6. QED
      BY <3>5 DEF AwayFromBills
  <2>3. DoesBills
    BY <1>1, <1>7, <2>2 DEF DoesBills, OffAlerts, OffSessions, OffCare, OffProblems
  <2>4. QED
    BY <1>7, <2>3
<1>8. CASE c.op = "UpdateBillingDraftStatus" /\ Write(c, UpdateBillingDraftRow(db, c.row))
  <2>1. db' = UpdateBillingDraftRow(db, c.row)
    BY <1>8, WriteOnly
  <2>2. /\ db'.alerts = db.alerts /\ db'.tickets = db.tickets
        /\ db'.sessions = db.sessions
        /\ db'.conversations = db.conversations /\ db'.messages = db.messages
        /\ db'.surveys = db.surveys /\ db'.customers = db.customers
        /\ db'.problems = db.problems
    BY <2>1 DEF UpdateBillingDraftRow, SetField
  <2>3. DoesBills
    BY <1>1, <1>8, <2>2 DEF DoesBills, OffAlerts, OffSessions, OffCare, OffProblems
  <2>4. QED
    BY <1>8, <2>3
<1>9. CASE c.op = "InsertAlert" /\ Write(c, InsertAlert(db, c.row))
  <2>1. db' = InsertAlert(db, c.row)
    BY <1>9, WriteOnly
  <2>2. /\ db'.sessions = db.sessions
        /\ db'.entries = db.entries /\ db'.expenses = db.expenses /\ db'.drafts = db.drafts
        /\ db'.conversations = db.conversations /\ db'.messages = db.messages
        /\ db'.surveys = db.surveys /\ db'.customers = db.customers
        /\ db'.problems = db.problems
    BY <2>1 DEF InsertAlert, Insert
  <2>3. DoesAlerts
    BY <1>1, <1>9, <2>2 DEF DoesAlerts, OffSessions, OffBills, OffCare, OffProblems
  <2>4. QED
    BY <1>9, <2>3
<1>10. CASE c.op = "UpdateAlert" /\ Write(c, UpdateAlertRow(db, c.row))
  <2>1. db' = UpdateAlertRow(db, c.row)
    BY <1>10, WriteOnly
  <2>2. /\ db'.sessions = db.sessions
        /\ db'.entries = db.entries /\ db'.expenses = db.expenses /\ db'.drafts = db.drafts
        /\ db'.conversations = db.conversations /\ db'.messages = db.messages
        /\ db'.surveys = db.surveys /\ db'.customers = db.customers
        /\ db'.problems = db.problems
    BY <2>1 DEF UpdateAlertRow, Put
  <2>3. DoesAlerts
    BY <1>1, <1>10, <2>2 DEF DoesAlerts, OffSessions, OffBills, OffCare, OffProblems
  <2>4. QED
    BY <1>10, <2>3
<1>11. CASE c.op = "RequestRemoteSession" /\ Write(c, InsertRemoteSession(db, c.row))
  <2>1. db' = InsertRemoteSession(db, c.row)
    BY <1>11, WriteOnly
  <2>2. /\ db'.alerts = db.alerts /\ db'.tickets = db.tickets
        /\ db'.entries = db.entries /\ db'.expenses = db.expenses /\ db'.drafts = db.drafts
        /\ db'.conversations = db.conversations /\ db'.messages = db.messages
        /\ db'.surveys = db.surveys /\ db'.customers = db.customers
        /\ db'.problems = db.problems
    BY <2>1 DEF InsertRemoteSession, Insert
  <2>3. DoesSessions
    BY <1>1, <1>11, <2>2 DEF DoesSessions, OffAlerts, OffBills, OffCare, OffProblems
  <2>4. QED
    BY <1>11, <2>3
<1>12. CASE c.op = "UpdateRemoteSession" /\ Write(c, UpdateRemoteSessionRow(db, c.row))
  <2>1. db' = UpdateRemoteSessionRow(db, c.row)
    BY <1>12, WriteOnly
  <2>2. /\ db'.alerts = db.alerts /\ db'.tickets = db.tickets
        /\ db'.entries = db.entries /\ db'.expenses = db.expenses /\ db'.drafts = db.drafts
        /\ db'.conversations = db.conversations /\ db'.messages = db.messages
        /\ db'.surveys = db.surveys /\ db'.customers = db.customers
        /\ db'.problems = db.problems
    BY <2>1 DEF UpdateRemoteSessionRow, Put
  <2>3. DoesSessions
    BY <1>1, <1>12, <2>2 DEF DoesSessions, OffAlerts, OffBills, OffCare, OffProblems
  <2>4. QED
    BY <1>12, <2>3
<1>13. QED
  BY <1>2, <1>3, <1>4, <1>5, <1>6, <1>7, <1>8, <1>9, <1>10, <1>11, <1>12, Zenon DEF MspStatement

(***************************************************************************)
(* Customer service and ITSM                                               *)
(***************************************************************************)
AwayFromCare(d, e) ==
    /\ DOMAIN e = DOMAIN d
    /\ e.alerts = d.alerts /\ e.tickets = d.tickets
    /\ e.sessions = d.sessions /\ e.problems = d.problems
    /\ e.entries = d.entries /\ e.expenses = d.expenses /\ e.drafts = d.drafts

LEMMA CareStatements ==
    /\ \A d : AwayFromCare(d, d)
    /\ \A d, x : AwayFromCare(d, InsertMessage(d, x))
    /\ \A d, x : AwayFromCare(d, InsertCustomer(d, x))
    /\ \A d, x : AwayFromCare(d, InsertConversation(d, x))
    /\ \A d, x : AwayFromCare(d, UpdateConversationRow(d, x))
    /\ \A d, id, who, status : AwayFromCare(d, AssignConversationRow(d, id, who, status))
    /\ \A d, x : AwayFromCare(d, InsertSurvey(d, x))
    /\ \A d, k : AwayFromCare(d, DeleteCustomerRow(d, k))
<1>1. \A d : AwayFromCare(d, d)
  BY DEF AwayFromCare
<1>2. \A d, x : AwayFromCare(d, InsertMessage(d, x))
  BY DEF AwayFromCare, InsertMessage, Insert
<1>3. \A d, x : AwayFromCare(d, InsertCustomer(d, x))
  BY DEF AwayFromCare, InsertCustomer, Insert
<1>4. \A d, x : AwayFromCare(d, InsertConversation(d, x))
  BY DEF AwayFromCare, InsertConversation, Insert
<1>5. \A d, x : AwayFromCare(d, UpdateConversationRow(d, x))
  BY DEF AwayFromCare, UpdateConversationRow, Put
<1>6. \A d, id, who, status : AwayFromCare(d, AssignConversationRow(d, id, who, status))
  BY <1>1, <1>5, Zenon DEF AssignConversationRow
<1>7. \A d, x : AwayFromCare(d, InsertSurvey(d, x))
  BY DEF AwayFromCare, InsertSurvey, Insert
<1>8. \A d, k : AwayFromCare(d, DeleteCustomerRow(d, k))
  BY DEF AwayFromCare, DeleteCustomerRow, Remove
<1>9. QED
  BY <1>1, <1>2, <1>3, <1>4, <1>5, <1>6, <1>7, <1>8

CareGoesOn == {"AutoReply", "MoveConversation", "Ingest-thread", "Ingest-open",
               "Ingest-reopen", "Ingest-message"}
OtherThanCare == AlertOps \cup SessionOps \cup BillOps \cup {"UpdateProblem"}

LEMMA CareApart == (CareOps \cup CareGoesOn) \cap OtherThanCare = {}
BY DEF CareGoesOn, CareOps, MessageOps, Ingesting, OtherThanCare, AlertOps, SessionOps, BillOps

LEMMA CareOnly ==
    ASSUME AwayFromCare(db, db'), NoNew(OtherThanCare) PROVE OffMsp /\ OffProblems /\ SameTables
BY DEF AwayFromCare, SameTables, NoNew, OtherThanCare, OffMsp, OffAlerts, OffSessions,
       OffBills, OffProblems

LEMMA CareBegins ==
    ASSUME NEW op \in CareOps, NEW row, Begin(op, row) PROVE OffMsp /\ OffProblems /\ SameTables
BY BeginOnly, CareStatements, CareApart, CareOnly DEF NoNew

LEMMA CareContinues ==
    ASSUME Numbered, NEW c \in calls, NEW d, AwayFromCare(db, d), NEW next,
           Continue(c, d, next),
           next = {} \/ \E op \in CareGoesOn : \E row : next = On(c, op, row)
    PROVE  OffMsp /\ OffProblems /\ SameTables
<1>1. CASE next = {}
  BY <1>1, StopOnly, CareOnly DEF NoNew
<1>2. ASSUME NEW op \in CareGoesOn, NEW row, next = On(c, op, row)
      PROVE  OffMsp /\ OffProblems /\ SameTables
  BY <1>2, OnOnly, CareApart, CareOnly DEF NoNew, Numbered
<1>3. QED
  BY <1>1, <1>2

LEMMA CxOff == ASSUME Numbered, CxCore PROVE OffMsp /\ OffProblems /\ SameTables
<1>1. {"UpdateConversation", "AddMessage", "CreateSurvey", "CreateConversation", "Ingest-sender",
       "Ingest-thread"} \subseteq CareOps
  BY DEF CareOps, MessageOps, Ingesting
<1>2. ASSUME NEW u, CxWork(u) PROVE OffMsp /\ OffProblems /\ SameTables
  <2>1. CASE \/ UpdateConversationStatus(u) \/ EscalateConversation(u) \/ AddMessage(u)
             \/ CreateSurvey(u) \/ \E k : CreateConversation(u, k)
    <3>1. \E row : \/ Begin("UpdateConversation", row) \/ Begin("AddMessage", row)
                   \/ Begin("CreateSurvey", row) \/ Begin("CreateConversation", row)
      BY <2>1, Zenon
      DEF UpdateConversationStatus, EscalateConversation, AddMessage, CreateSurvey,
          CreateConversation
    <3>2. QED
      BY <1>1, <3>1, CareBegins
  <2>2. ASSUME NEW k, DeleteCustomer(u, k) PROVE OffMsp /\ OffProblems /\ SameTables
    <3>1. db' = DeleteCustomerRow(db, k) /\ calls' = calls
      BY <2>2, AtOnceOnly DEF DeleteCustomer
    <3>2. AwayFromCare(db, db') /\ NoNew(OtherThanCare)
      BY <3>1, CareStatements DEF NoNew
    <3>3. QED
      BY <3>2, CareOnly
  <2>3. CASE CreateCustomer(u)
    <3>1. \E x : db' = InsertCustomer(db, x) /\ calls' = calls
      BY <2>3, AtOnceOnly, Zenon DEF CreateCustomer
    <3>2. AwayFromCare(db, db') /\ NoNew(OtherThanCare)
      BY <3>1, CareStatements DEF NoNew
    <3>3. QED
      BY <3>2, CareOnly
  <2>4. QED
    BY <1>2, <2>1, <2>2, <2>3, Zenon DEF CxWork
<1>3. ASSUME NEW mail, Received(mail) PROVE OffMsp /\ OffProblems /\ SameTables
  <2>1. \E row : Begin("Ingest-sender", row) \/ Begin("Ingest-thread", row)
    BY <1>3, Zenon DEF Received
  <2>2. QED
    BY <1>1, <2>1, CareBegins
<1>4. ASSUME NEW c \in calls, CxStatement(c) PROVE OffMsp /\ OffProblems /\ SameTables
  <2> DEFINE Then(next) == next = {} \/ \E op \in CareGoesOn : \E row : next = On(c, op, row)
  <2>1. /\ Then({})
        /\ \A row : /\ Then(On(c, "AutoReply", row)) /\ Then(On(c, "MoveConversation", row))
                    /\ Then(On(c, "Ingest-thread", row)) /\ Then(On(c, "Ingest-open", row))
                    /\ Then(On(c, "Ingest-reopen", row)) /\ Then(On(c, "Ingest-message", row))
    BY DEF CareGoesOn
  <2> HIDE DEF Then
  <2>2. \E d, next : AwayFromCare(db, d) /\ Then(next) /\ Continue(c, d, next)
    <3>1. CASE StoreMessage(c)
      BY <2>1, <3>1, CareStatements, Zenon DEF StoreMessage, ToAutoReply
    <3>2. CASE MoveConversation(c)
      BY <2>1, <3>2, CareStatements, Zenon DEF MoveConversation, ToAutoReply
    <3>3. CASE AnswerMessage(c)
      BY <2>1, <3>3, CareStatements, Zenon DEF AnswerMessage, Write
    <3>4. CASE InsertSender(c)
      BY <2>1, <3>4, CareStatements, Zenon DEF InsertSender
    <3>5. CASE FindThread(c)
      BY <2>1, <3>5, CareStatements, Zenon DEF FindThread
    <3>6. CASE OpenThread(c)
      BY <2>1, <3>6, CareStatements, Zenon DEF OpenThread
    <3>7. CASE ReopenThread(c)
      BY <2>1, <3>7, CareStatements, Zenon DEF ReopenThread
    <3>8. CASE StoreInbound(c)
      BY <2>1, <3>8, CareStatements, Zenon DEF StoreInbound, Write
    <3>9. CASE \/ Write(c, InsertConversation(db, c.row))
               \/ Write(c, UpdateConversationRow(db, c.row))
               \/ Write(c, AssignConversationRow(db, c.row.id, c.row.to, c.row.status))
               \/ Write(c, InsertSurvey(db, c.row))
      BY <2>1, <3>9, CareStatements, Zenon DEF Write
    <3>10. QED
      BY <1>4, <3>1, <3>2, <3>3, <3>4, <3>5, <3>6, <3>7, <3>8, <3>9, Zenon DEF CxStatement
  <2>3. QED
    BY <2>2, CareContinues DEF Then
<1>5. QED
  BY <1>2, <1>3, <1>4, Zenon DEF CxCore

LEMMA ItsmOff == ItsmCore => OffMsp /\ OffCare /\ SameTables
<1>1. ASSUME NEW u, CreateProblem(u) PROVE OffMsp /\ OffCare /\ SameTables
  <2>1. PICK p : AtOnce("CreateProblem", InsertProblem(db, p))
    BY <1>1, Zenon DEF CreateProblem
  <2>2. db' = InsertProblem(db, p) /\ calls' = calls
    BY <2>1, AtOnceOnly
  <2>3. QED
    BY <2>2
    DEF InsertProblem, Insert, OffMsp, OffAlerts, OffSessions, OffBills, OffCare, NoNew,
        SameTables
<1>2. ASSUME NEW u, UpdateProblem(u) PROVE OffMsp /\ OffCare /\ SameTables
  <2>1. PICK row : Begin("UpdateProblem", row)
    BY <1>2, Zenon DEF UpdateProblem
  <2>2. QED
    BY <2>1, BeginOnly, BeginOff, Apart DEF OffMsp, SameTables
<1>3. ASSUME NEW c \in calls,
            Write(c, UpdateProblemRow(db, c.row.row))
      PROVE  OffMsp /\ OffCare /\ SameTables
  <2>1. db' = UpdateProblemRow(db, c.row.row) /\ calls' = calls \ {c}
    BY <1>3, WriteOnly
  <2>2. QED
    BY <2>1
    DEF UpdateProblemRow, Put, OffMsp, OffAlerts, OffSessions, OffBills, OffCare, NoNew,
        SameTables
<1>4. QED
  BY <1>1, <1>2, <1>3, Zenon DEF ItsmCore

LEMMA MspTables == ASSUME Numbered, MspCore PROVE SameTables
<1>1. \A op, row : Begin(op, row) => SameTables
  BY BeginOnly DEF SameTables
<1>2. ASSUME NEW u, MspWork(u) PROVE SameTables
  <2>1. CASE \/ ResolveMonitoringAlert(u) \/ AuthorizeRemoteSession(u)
             \/ StartRemoteSession(u) \/ EndRemoteSession(u)
    BY <1>1, <2>1, Zenon
    DEF ResolveMonitoringAlert, AuthorizeRemoteSession, StartRemoteSession, EndRemoteSession
  <2>2. ASSUME NEW k, DeleteClient(u, k) PROVE SameTables
    <3>1. db' = DeleteClientRow(db, k)
      BY <2>2, DeleteClientOff
    <3>2. QED
      BY <3>1 DEF DeleteClientRow, SameTables
  <2>3. ASSUME NEW k, \/ GenerateBillingDraft(u, k) \/ RequestRemoteSession(u, k)
                      \/ CreateExpense(u, k)
        PROVE  SameTables
    BY <1>1, <2>3, Zenon DEF GenerateBillingDraft, RequestRemoteSession, CreateExpense
  <2>4. ASSUME NEW k, CreateTimeEntry(u, k) PROVE SameTables
    BY <1>1, <2>4, TimeEntryBegins
  <2>5. QED
    BY <1>2, <2>1, <2>2, <2>3, <2>4, Zenon DEF MspWork
<1>3. ASSUME Delivered PROVE SameTables
  BY <1>1, <1>3, DeliveryBegins DEF Delivered
<1>4. ASSUME NEW c \in calls, MspStatement(c) PROVE SameTables
  <2>1. \A t, x : DOMAIN InsertTicketWithContext(db, t, x) = DOMAIN db
    BY DEF InsertTicketWithContext
  <2>2. \A t, x, ok : DOMAIN Insert(db, t, x, ok) = DOMAIN db
    BY DEF Insert
  <2>3. \A t, x : DOMAIN Put(db, t, x) = DOMAIN db
    BY DEF Put
  <2>4. \A d, t, ids, field : DOMAIN SetField(d, t, ids, field, TRUE) = DOMAIN d
    BY DEF SetField
  <2>5. ASSUME NEW x PROVE DOMAIN InsertBillingDraft(db, x) = DOMAIN db
    <3>1. \A d : DOMAIN [d EXCEPT !.drafts = @ \cup {x}] = DOMAIN d
      OBVIOUS
    <3>2. ASSUME NEW ids, NEW more
          PROVE  DOMAIN SetField(SetField(db, "entries", ids, "billed", TRUE),
                                 "expenses", more, "billed", TRUE) = DOMAIN db
      BY <2>4
    <3>3. PICK ids, more :
            \/ InsertBillingDraft(db, x) =
                  [SetField(SetField(db, "entries", ids, "billed", TRUE),
                            "expenses", more, "billed", TRUE)
                     EXCEPT !.drafts = @ \cup {x}]
            \/ InsertBillingDraft(db, x) = db
      BY Zenon DEF InsertBillingDraft
    <3>4. CASE InsertBillingDraft(db, x) =
                  [SetField(SetField(db, "entries", ids, "billed", TRUE),
                            "expenses", more, "billed", TRUE)
                     EXCEPT !.drafts = @ \cup {x}]
      BY Zenon, <3>1, <3>2, <3>4
    <3>5. QED
      BY <3>3, <3>4
  <2>6. PICK d, next : Continue(c, d, next) /\ DOMAIN d = DOMAIN db
    <3>1. CASE PriceDraft(c)
      BY <3>1, Zenon DEF PriceDraft
    <3>2. CASE TicketForAlert(c)
      BY <2>1, <3>2, Zenon DEF TicketForAlert
    <3>3. CASE \/ Write(c, InsertTicketWithContext(db, c.row.ticket, c.row.context))
               \/ Write(c, InsertBillingDraft(db, c.row))
      BY <2>1, <2>5, <3>3, Zenon DEF Write
    <3>6. CASE Write(c, UpdateBillingDraftRow(db, c.row))
      BY <3>6 DEF UpdateBillingDraftRow, SetField, Write
    <3>4. CASE \/ Write(c, InsertTimeEntry(db, c.row))
               \/ Write(c, InsertExpense(db, c.row))
               \/ Write(c, InsertAlert(db, c.row))
               \/ Write(c, InsertRemoteSession(db, c.row))
      BY <2>2, <3>4, Zenon
      DEF InsertTimeEntry, InsertExpense, InsertAlert, InsertRemoteSession, Write
    <3>5. CASE \/ Write(c, UpdateAlertRow(db, c.row))
               \/ Write(c, UpdateRemoteSessionRow(db, c.row))
      BY <2>3, <3>5, Zenon DEF UpdateAlertRow, UpdateRemoteSessionRow, Write
    <3>7. QED
      BY <1>4, <3>1, <3>2, <3>3, <3>4, <3>5, <3>6, Zenon DEF MspStatement
  <2>7. QED
    BY <2>6 DEF Continue, SameTables
<1>5. QED
  BY <1>2, <1>3, <1>4 DEF MspCore

\* The tables of the theorems are there all the time.
Tabled == Watched \subseteq DOMAIN db

LEMMA TabledInit == Init => Tabled
BY BeforeAssumption
DEF Init, Tabled, Watched, AlertTables, BillTables, CareTables, MspTable, CxTable, ItsmTable

LEMMA TabledNext == ASSUME Numbered, Tabled, [Next]_vars PROVE Tabled'
BY Steps, QuietOff, MspTables, CxOff, ItsmOff DEF Off, SameTables, Tabled

(***************************************************************************)
(* Remote sessions.  What is written back is a session as it was read with *)
(* one decision added, so it is enough that every row and every row that   *)
(* waits to be written carries its consent.                                *)
(***************************************************************************)
SessionRow(s) ==
    /\ {"status", "by", "started", "ended"} \subseteq DOMAIN s
    /\ s.status \in {"requested", "authorized", "active", "ended", "denied"}
    /\ Consented(s)

SessionInv ==
    /\ \A s \in db.sessions : SessionRow(s)
    /\ \A c \in calls : c.op \in SessionOps => SessionRow(c.row)

LEMMA SessionInit == Init => SessionInv
<1>1. ASSUME NEW s \in Before.sessions PROVE SessionRow(s)
  <2>1. s \in RemoteSession
    BY BeforeAssumption DEF Holds, MspTable
  <2>2. QED
    BY <2>1, SoundAssumption DEF RemoteSession, RemoteSessionTransitions, SessionRow, Sound
<1>2. QED
  BY <1>1 DEF Init, SessionInv

LEMMA SessionsLeft ==
    ASSUME SessionInv, db'.sessions \subseteq db.sessions, NoNew(SessionOps) PROVE SessionInv'
BY DEF SessionInv, NoNew

\* A decision on a session that has its consent.
LEMMA Decisions ==
    ASSUME NEW s, SessionRow(s)
    PROVE  /\ \A u \in Users, grant \in BOOLEAN :
                  Role[u] \in Staff => SessionRow(Authorized(s, u, grant))
           /\ s.status = "authorized" => SessionRow(Started(s))
           /\ s.status = "active" => SessionRow(Ended(s))
<1>1. ASSUME NEW u \in Users, NEW grant \in BOOLEAN, Role[u] \in Staff
      PROVE  SessionRow(Authorized(s, u, grant))
  <2>1. PICK new : new = Authorized(s, u, grant)
    OBVIOUS
  <2>2. new.by = u /\ DOMAIN new = DOMAIN s /\ new.status \in {"authorized", "denied"}
    BY <2>1 DEF Authorized, SessionRow
  <2>3. SessionRow(new)
    BY <1>1, <2>2 DEF SessionRow, Consented, Staff
  <2>4. QED
    BY <2>1, <2>3
<1>2. ASSUME s.status = "authorized" PROVE SessionRow(Started(s))
  <2>1. PICK new : new = Started(s)
    OBVIOUS
  <2>2. new.by = s.by /\ DOMAIN new = DOMAIN s /\ new.status = "active" /\ new.started
    BY <2>1 DEF Started, SessionRow
  <2>3. SessionRow(new)
    BY <1>2, <2>2 DEF SessionRow, Consented
  <2>4. QED
    BY <2>1, <2>3
<1>3. ASSUME s.status = "active" PROVE SessionRow(Ended(s))
  <2>1. PICK new : new = Ended(s)
    OBVIOUS
  <2>2. /\ new.by = s.by /\ DOMAIN new = DOMAIN s /\ new.status = "ended"
        /\ new.started = s.started
    BY <2>1 DEF Ended, SessionRow
  <2>3. SessionRow(new)
    BY <1>3, <2>2 DEF SessionRow, Consented
  <2>4. QED
    BY <2>1, <2>3
<1>4. QED
  BY <1>1, <1>2, <1>3

LEMMA SessionBegins ==
    ASSUME SessionInv, NEW op, NEW row, Begin(op, row), SessionRow(row) PROVE SessionInv'
BY BeginOnly DEF SessionInv

LEMMA SessionWork == ASSUME SessionInv, NEW u \in Users, MspWork(u) PROVE SessionInv'
<1>1. CASE OffSessions
  BY <1>1, SessionsLeft DEF OffSessions
<1>2. CASE AuthorizeRemoteSession(u)
  <2>1. PICK s \in db.sessions, grant \in BOOLEAN :
            ByStaff(u) /\ Begin("UpdateRemoteSession", Authorized(s, u, grant))
    BY <1>2 DEF AuthorizeRemoteSession
  <2>2. SessionRow(Authorized(s, u, grant))
    BY <2>1, Decisions, Zenon DEF SessionInv, ByStaff
  <2>3. QED
    BY <2>1, <2>2, SessionBegins, Zenon
<1>3. CASE StartRemoteSession(u)
  <2>1. PICK s \in db.sessions : s.status = "authorized" /\ Begin("UpdateRemoteSession", Started(s))
    BY <1>3 DEF StartRemoteSession, CanStartSession
  <2>2. SessionRow(Started(s))
    BY <2>1, Decisions, Zenon DEF SessionInv
  <2>3. QED
    BY <2>1, <2>2, SessionBegins, Zenon
<1>4. CASE EndRemoteSession(u)
  <2>1. PICK s \in db.sessions :
            "ended" \in RemoteSessionTransitions[s.status] /\ Begin("UpdateRemoteSession", Ended(s))
    BY <1>4 DEF EndRemoteSession, CanMove
  <2>2. s.status = "active"
    BY <2>1 DEF RemoteSessionTransitions, SessionInv, SessionRow
  <2>3. SessionRow(Ended(s))
    BY <2>2, Decisions, Zenon DEF SessionInv
  <2>4. QED
    BY <2>1, <2>3, SessionBegins, Zenon
<1>5. ASSUME NEW k, RequestRemoteSession(u, k) PROVE SessionInv'
  <2>1. PICK t, ticket :
            Begin("RequestRemoteSession",
                  [id |-> serial, client |-> k, ticket |-> ticket, tech |-> t.id,
                   status |-> "requested", by |-> None, started |-> FALSE, ended |-> FALSE])
    BY <1>5, Zenon DEF RequestRemoteSession
  <2>2. PICK row : /\ row = [id |-> serial, client |-> k, ticket |-> ticket, tech |-> t.id,
                             status |-> "requested", by |-> None, started |-> FALSE,
                             ended |-> FALSE]
                   /\ Begin("RequestRemoteSession", row)
    BY <2>1, Zenon
  <2>3. SessionRow(row)
    BY <2>2 DEF SessionRow, Consented
  <2>4. QED
    BY <2>2, <2>3, SessionBegins
<1>6. ASSUME NEW k, DeleteClient(u, k) PROVE SessionInv'
  <2>1. db' = DeleteClientRow(db, k) /\ calls' = calls
    BY <1>6, DeleteClientOff
  <2>2. db'.sessions \subseteq db.sessions /\ NoNew(SessionOps)
    BY <2>1 DEF DeleteClientRow, NoNew
  <2>3. QED
    BY <2>2, SessionsLeft
<1>7. QED
  BY <1>1, <1>2, <1>3, <1>4, <1>5, <1>6, MspWorkOff, Zenon DEF DoesAlerts, DoesBills

LEMMA SessionNext == ASSUME Numbered, SessionInv, [Next]_vars PROVE SessionInv'
<1>1. CASE OffSessions
  BY <1>1, SessionsLeft DEF OffSessions
<1>2. ASSUME NEW c \in calls, c.op = "RequestRemoteSession",
            Write(c, InsertRemoteSession(db, c.row))
      PROVE  SessionInv'
  <2>1. db' = InsertRemoteSession(db, c.row) /\ calls' \subseteq calls
    BY <1>2, WriteOnly
  <2>2. db'.sessions \subseteq db.sessions \cup {c.row}
    BY <2>1 DEF InsertRemoteSession, Insert
  <2>3. SessionRow(c.row)
    BY <1>2 DEF SessionInv, SessionOps
  <2>4. QED
    BY <2>1, <2>2, <2>3 DEF SessionInv
<1>3. ASSUME NEW c \in calls, c.op = "UpdateRemoteSession",
            Write(c, UpdateRemoteSessionRow(db, c.row))
      PROVE  SessionInv'
  <2>1. db' = UpdateRemoteSessionRow(db, c.row) /\ calls' \subseteq calls
    BY <1>3, WriteOnly
  <2>2. db'.sessions \subseteq db.sessions \cup {c.row}
    BY <2>1 DEF UpdateRemoteSessionRow, Put
  <2>3. SessionRow(c.row)
    BY <1>3 DEF SessionInv, SessionOps
  <2>4. QED
    BY <2>1, <2>2, <2>3 DEF SessionInv
<1>4. CASE MspCore
  <2>1. CASE Delivered
    BY <1>1, <2>1, DeliveredOff DEF DoesAlerts
  <2>2. ASSUME NEW u \in Users, MspWork(u) PROVE SessionInv'
    BY <2>2, SessionWork
  <2>3. ASSUME NEW c \in calls, MspStatement(c) PROVE SessionInv'
    BY <1>1, <1>2, <1>3, <2>3, MspStatementsOff, Zenon DEF DoesAlerts, DoesBills
  <2>4. QED
    BY <1>4, <2>1, <2>2, <2>3 DEF MspCore
<1>5. CASE Quiet
  BY <1>1, <1>5, QuietOff DEF Off, OffMsp
<1>6. CASE CxCore \/ ItsmCore
  BY <1>1, <1>6, CxOff, ItsmOff DEF OffMsp
<1>7. QED
  BY <1>4, <1>5, <1>6, Steps

\* Nobody works in a remote session that no staff member decided on, and one that
\* ended had begun (the handlers for /msp/remote-sessions and service.go): for any
\* users, rows, and any number of requests between each other's reads and writes.
THEOREM ConsentIsGiven == Spec => []NoSessionWithoutConsent
<1>1. Init => Numbered /\ SessionInv
  BY NumberedInit, SessionInit
<1>2. Numbered /\ SessionInv /\ [Next]_vars => (Numbered /\ SessionInv)'
  BY NumberedNext, SessionNext
<1>3. SessionInv => NoSessionWithoutConsent
  BY DEF SessionInv, SessionRow, NoSessionWithoutConsent
<1>4. QED
  BY <1>1, <1>2, <1>3, PTL DEF Spec

(***************************************************************************)
(* Alerts.  An open alert has its ticket before anybody can insert it, and *)
(* no other open one of its resource is there when it is inserted: the row *)
(* that the index would let pass, one of the same number, is not there.    *)
(***************************************************************************)
AlertMakers == {"TicketForAlert", "InsertAlert"}

\* Calls of these operations are new, or go on under the number they had.
Renumbers(ops) ==
    \A e \in calls' : \/ e \in calls
                      \/ e.op \notin ops
                      \/ e.n = serial
                      \/ \E c \in calls : c.n = e.n /\ c.op \in ops

LEMMA KnownStays ==
    ASSUME Numbered, serial' \in {serial, serial + 1}, NEW ops, Renumbers(ops),
           NEW id, Known(ops, id)
    PROVE  Known(ops, id)'
<1>1. id \in Nat /\ id < serial'
  BY DEF Known, Numbered
<1>2. ASSUME NEW e \in calls', e.n = id PROVE e.op \notin ops
  BY <1>2 DEF Renumbers, Known, Numbered
<1>3. QED
  BY <1>1, <1>2 DEF Known

AlertRow(d, a) ==
    /\ {"id", "source", "resource", "status", "ticket"} \subseteq DOMAIN a
    /\ a.status = "open" => MonitoringTicket(d, a.ticket)

OneOpen(alerts) ==
    \A a, b \in alerts :
        a.status = "open" /\ b.status = "open" /\ a.source = b.source /\ a.resource = b.resource
            => a = b

AlertInv ==
    /\ OneOpen(db.alerts)
    /\ \A a \in db.alerts : AlertRow(db, a) /\ Known(AlertMakers, a.id)
    /\ \A c \in calls :
          /\ c.op = "UpdateAlert" => AlertRow(db, c.row) /\ Known(AlertMakers, c.row.id)
          /\ c.op = "InsertAlert" => AlertRow(db, c.row) /\ c.row.id = c.n
          /\ c.op = "TicketForAlert" =>
                /\ {"id", "source", "resource", "status", "ticket"} \subseteq DOMAIN c.row.alert
                /\ c.row.alert.id = c.n

LEMMA AlertInit == Init => AlertInv
<1> SUFFICES ASSUME Init PROVE AlertInv
  OBVIOUS
<1>1. ASSUME NEW a \in Before.alerts PROVE AlertRow(db, a) /\ Known(AlertMakers, a.id)
  <2>1. a \in MonitoringAlert /\ a.id < FirstId
    BY BeforeAssumption, FirstIdAssumption DEF Holds, MspTable
  <2>2. a.id \in Nat
    BY <2>1 DEF MonitoringAlert, Id
  <2>3. a.status = "open" => MonitoringTicket(db, a.ticket)
    BY SoundAssumption DEF Init, Sound, AlertsTicketed
  <2>4. QED
    BY <2>1, <2>2, <2>3 DEF MonitoringAlert, AlertRow, Known, Init
<1>2. OneOpen(Before.alerts)
  BY SoundAssumption DEF Sound, AlertsTicketed, OneOpen
<1>3. QED
  BY <1>1, <1>2 DEF Init, AlertInv

\* Tickets stay.
LEMMA AlertRowStays ==
    ASSUME NEW a, AlertRow(db, a), db.tickets \subseteq db'.tickets PROVE AlertRow(db', a)
BY DEF AlertRow, MonitoringTicket

\* What a step that adds no alert has to show: its new calls are in order.
LEMMA AlertsLeft ==
    ASSUME Numbered, serial' \in {serial, serial + 1}, AlertInv,
           db'.alerts \subseteq db.alerts, db.tickets \subseteq db'.tickets,
           Renumbers(AlertMakers),
           \A e \in calls' \ calls :
              /\ e.op = "UpdateAlert" => AlertRow(db', e.row) /\ Known(AlertMakers, e.row.id)
              /\ e.op = "InsertAlert" => AlertRow(db', e.row) /\ e.row.id = e.n
              /\ e.op = "TicketForAlert" =>
                  /\ {"id", "source", "resource", "status", "ticket"} \subseteq DOMAIN e.row.alert
                  /\ e.row.alert.id = e.n
    PROVE  AlertInv'
<1>1. OneOpen(db'.alerts)
  BY DEF AlertInv, OneOpen
<1>2. \A id : Known(AlertMakers, id) => Known(AlertMakers, id)'
  BY KnownStays
<1>3. \A a : AlertRow(db, a) => AlertRow(db', a)
  BY AlertRowStays
<1>4. \A a \in db'.alerts : AlertRow(db', a) /\ Known(AlertMakers, a.id)'
  BY <1>2, <1>3 DEF AlertInv
<1>5. \A e \in calls' :
          /\ e.op = "UpdateAlert" => AlertRow(db', e.row) /\ Known(AlertMakers, e.row.id)'
          /\ e.op = "InsertAlert" => AlertRow(db', e.row) /\ e.row.id = e.n
          /\ e.op = "TicketForAlert" =>
                /\ {"id", "source", "resource", "status", "ticket"} \subseteq DOMAIN e.row.alert
                /\ e.row.alert.id = e.n
  BY <1>2, <1>3 DEF AlertInv
<1>6. QED
  BY <1>1, <1>4, <1>5, Zenon DEF AlertInv

LEMMA AlertsOff ==
    ASSUME Numbered, serial' \in {serial, serial + 1}, AlertInv, NoNew(AlertOps),
           db'.alerts \subseteq db.alerts, db.tickets \subseteq db'.tickets
    PROVE  AlertInv'
BY AlertsLeft DEF NoNew, Renumbers, AlertOps, AlertMakers

LEMMA AlertBegins ==
    ASSUME Numbered, serial' \in {serial, serial + 1}, AlertInv,
           NEW op, NEW row, Begin(op, row),
           op = "UpdateAlert" => AlertRow(db, row) /\ Known(AlertMakers, row.id),
           op = "InsertAlert" => AlertRow(db, row) /\ row.id = serial,
           op = "TicketForAlert" =>
              /\ {"id", "source", "resource", "status", "ticket"} \subseteq DOMAIN row.alert
              /\ row.alert.id = serial
    PROVE  AlertInv'
<1>1. db' = db /\ \A e \in calls' : e \in calls \/ (e.n = serial /\ e.op = op /\ e.row = row)
  BY BeginOnly
<1>2. Renumbers(AlertMakers)
  BY <1>1 DEF Renumbers
<1>3. QED
  BY <1>1, <1>2, AlertsLeft

\* What is written back of an alert that was read.
LEMMA AlertWrittenBack ==
    ASSUME NEW a, AlertRow(db, a), Known(AlertMakers, a.id)
    PROVE  LET b == [a EXCEPT !.status = "resolved"]
           IN  AlertRow(db, b) /\ Known(AlertMakers, b.id)
<1>1. PICK b : b = [a EXCEPT !.status = "resolved"]
  OBVIOUS
<1>2. b.id = a.id /\ b.status = "resolved" /\ DOMAIN b = DOMAIN a
  BY <1>1 DEF AlertRow
<1>3. AlertRow(db, b) /\ Known(AlertMakers, b.id)
  BY <1>2 DEF AlertRow
<1>4. QED
  BY <1>1, <1>3

LEMMA AlertDelivered ==
    ASSUME Numbered, serial' \in {serial, serial + 1}, AlertInv, Delivered PROVE AlertInv'
<1>1. PICK s, k, resource, status : Delivery(s, k, resource, status)
  BY DEF Delivered
<1> DEFINE onFile == OpenAlertsFor(db, s.id, resource)
<1>2. PICK alert : /\ alert = [id |-> serial, source |-> s.id, client |-> k,
                               resource |-> resource, status |-> status, ticket |-> None]
  OBVIOUS
<1>3. /\ {"id", "source", "resource", "status", "ticket"} \subseteq DOMAIN alert
      /\ alert.id = serial /\ alert.status = status
  BY <1>2
<1>4. \/ \E a \in onFile : Begin("UpdateAlert", AlertOnFile(a, status))
      \/ ~ShouldCreateTicketForAlert(FALSE, status) /\ Begin("InsertAlert", alert)
      \/ \E context : Begin("TicketForAlert", [alert |-> alert, context |-> context])
  BY <1>1, <1>2, Zenon DEF Delivery
<1>5. ASSUME NEW a \in onFile, Begin("UpdateAlert", AlertOnFile(a, status)) PROVE AlertInv'
  <2>1. a \in db.alerts
    BY DEF OpenAlertsFor
  <2>2. AlertRow(db, a) /\ Known(AlertMakers, a.id)
    BY <2>1 DEF AlertInv
  <2>3. PICK row : row = AlertOnFile(a, status)
    OBVIOUS
  <2>4. AlertRow(db, row) /\ Known(AlertMakers, row.id)
    BY <2>2, <2>3, AlertWrittenBack, Zenon DEF AlertOnFile
  <2>5. QED
    BY <1>5, <2>3, <2>4, AlertBegins
<1>6. CASE ~ShouldCreateTicketForAlert(FALSE, status) /\ Begin("InsertAlert", alert)
  <2>1. AlertRow(db, alert)
    BY <1>3, <1>6 DEF AlertRow, ShouldCreateTicketForAlert
  <2>2. QED
    BY <1>3, <1>6, <2>1, AlertBegins
<1>7. ASSUME NEW context, Begin("TicketForAlert", [alert |-> alert, context |-> context])
      PROVE  AlertInv'
  <2>1. PICK row : row = [alert |-> alert, context |-> context]
    OBVIOUS
  <2>2. row.alert = alert
    BY <2>1
  <2>3. QED
    BY <1>3, <1>7, <2>1, <2>2, AlertBegins
<1>8. QED
  BY <1>4, <1>5, <1>6, <1>7

LEMMA AlertWork ==
    ASSUME Numbered, serial' \in {serial, serial + 1}, AlertInv, NEW u, MspWork(u)
    PROVE  AlertInv'
<1>1. CASE OffAlerts
  BY <1>1, AlertsOff DEF OffAlerts
<1>2. CASE ResolveMonitoringAlert(u)
  <2>1. PICK a \in db.alerts : Begin("UpdateAlert", [a EXCEPT !.status = "resolved"])
    BY <1>2 DEF ResolveMonitoringAlert
  <2>2. PICK row : row = [a EXCEPT !.status = "resolved"]
    OBVIOUS
  <2>3. AlertRow(db, a) /\ Known(AlertMakers, a.id)
    BY DEF AlertInv
  <2>4. AlertRow(db, row) /\ Known(AlertMakers, row.id)
    BY <2>2, <2>3, AlertWrittenBack, Zenon
  <2>5. QED
    BY <2>1, <2>2, <2>4, AlertBegins
<1>3. ASSUME NEW k, DeleteClient(u, k) PROVE AlertInv'
  <2>1. db' = DeleteClientRow(db, k) /\ calls' = calls /\ db'.tickets = db.tickets
    BY <1>3, DeleteClientOff
  <2>2. db'.alerts \subseteq db.alerts /\ NoNew(AlertOps)
    BY <2>1 DEF DeleteClientRow, NoNew
  <2>3. QED
    BY <2>1, <2>2, AlertsOff
<1>4. QED
  BY <1>1, <1>2, <1>3, MspWorkOff, Zenon DEF DoesSessions, DoesBills

LEMMA AlertTicketed ==
    ASSUME Numbered, Tabled, serial' = serial, AlertInv, NEW c \in calls, TicketForAlert(c)
    PROVE  AlertInv'
<1> DEFINE ticket == [id |-> c.n, category |-> "monitoring",
                      by |-> CHOOSE u \in Users : Role[u] \in Staff]
           d == InsertTicketWithContext(db, ticket, c.row.context)
           row == [c.row.alert EXCEPT !.ticket = c.n]
<1>1. c.op = "TicketForAlert" /\ Continue(c, d, IF d = db THEN {} ELSE On(c, "InsertAlert", row))
  BY DEF TicketForAlert
<1>2. d.alerts = db.alerts /\ db.tickets \subseteq d.tickets
  BY DEF InsertTicketWithContext
<1>3. d # db => MonitoringTicket(d, c.n)
  <2>1. ticket.id = c.n /\ ticket.category = "monitoring"
    OBVIOUS
  <2> HIDE DEF ticket
  <2>2. d # db => d = [db EXCEPT !.tickets = @ \cup {ticket},
                                 !.contexts = @ \cup {c.row.context}]
    BY DEF InsertTicketWithContext
  <2>3. d # db => ticket \in d.tickets
    BY <2>2, Tabled DEF Tabled, Watched, AlertTables
  <2>4. QED
    BY <2>1, <2>3 DEF MonitoringTicket
<1>4. /\ {"id", "source", "resource", "status", "ticket"} \subseteq DOMAIN c.row.alert
      /\ c.row.alert.id = c.n
  BY <1>1 DEF AlertInv
<1>5. row.id = c.n /\ row.ticket = c.n /\ DOMAIN row = DOMAIN c.row.alert
  BY <1>4
<1> HIDE DEF d, row
<1>6. CASE d = db
  <2>1. db' = db /\ NoNew(AlertOps)
    BY <1>1, <1>6, StopOnly DEF NoNew
  <2>2. QED
    BY <2>1, AlertsOff
<1>7. CASE d # db
  <2>1. /\ db' = d
        /\ \A e \in calls' : e \in calls \/ (e.n = c.n /\ e.op = "InsertAlert" /\ e.row = row)
    BY <1>1, <1>7, OnOnly DEF Numbered
  <2>2. AlertRow(d, row)
    BY <1>3, <1>4, <1>5, <1>7 DEF AlertRow
  <2>3. Renumbers(AlertMakers)
    BY <1>1, <2>1 DEF Renumbers, AlertMakers
  <2>4. QED
    BY <1>2, <1>5, <2>1, <2>2, <2>3, AlertsLeft
<1>8. QED
  BY <1>6, <1>7

\* The writes: the new row is in order, and the open one of its resource.
LEMMA AlertStored ==
    ASSUME Numbered, serial' = serial, AlertInv, NEW c \in calls, calls' = calls \ {c},
           db'.tickets = db.tickets, NEW a, AlertRow(db, a), Known(AlertMakers, a.id)',
           db'.alerts \subseteq db.alerts \cup {a}, OneOpen(db'.alerts)
    PROVE  AlertInv'
<1>1. Renumbers(AlertMakers)
  BY DEF Renumbers
<1>2. \A id : Known(AlertMakers, id) => Known(AlertMakers, id)'
  BY <1>1, KnownStays
<1>3. \A x : AlertRow(db, x) => AlertRow(db', x)
  BY AlertRowStays
<1>4. \A x \in db'.alerts : AlertRow(db', x) /\ Known(AlertMakers, x.id)'
  BY <1>2, <1>3 DEF AlertInv
<1>5. \A e \in calls' :
          /\ e.op = "UpdateAlert" => AlertRow(db', e.row) /\ Known(AlertMakers, e.row.id)'
          /\ e.op = "InsertAlert" => AlertRow(db', e.row) /\ e.row.id = e.n
          /\ e.op = "TicketForAlert" =>
                /\ {"id", "source", "resource", "status", "ticket"} \subseteq DOMAIN e.row.alert
                /\ e.row.alert.id = e.n
  BY <1>2, <1>3 DEF AlertInv
<1>6. QED
  BY <1>4, <1>5, Zenon DEF AlertInv

LEMMA AlertInsertion ==
    ASSUME NEW d, NEW a, "alerts" \in DOMAIN d
    PROVE  /\ InsertAlert(d, a).tickets = d.tickets
           /\ \/ InsertAlert(d, a) = d
              \/ OpenIsFree(d, a) /\ InsertAlert(d, a).alerts = d.alerts \cup {a}
<1>1. CASE Has(d, "clients", a.client) /\ OpenIsFree(d, a)
  BY <1>1 DEF InsertAlert, Insert
<1>2. CASE ~(Has(d, "clients", a.client) /\ OpenIsFree(d, a))
  BY <1>2 DEF InsertAlert, Insert
<1>3. QED
  BY <1>1, <1>2

LEMMA AlertInserted ==
    ASSUME Numbered, Tabled, AlertInv, NEW c \in calls, c.op = "InsertAlert",
           Write(c, InsertAlert(db, c.row))
    PROVE  AlertInv'
<1>1. db' = InsertAlert(db, c.row) /\ calls' = calls \ {c} /\ serial' = serial
  BY WriteOnly DEF Write, Continue
<1>2. /\ db'.tickets = db.tickets
      /\ \/ db' = db
         \/ OpenIsFree(db, c.row) /\ db'.alerts = db.alerts \cup {c.row}
  <2>1. "alerts" \in DOMAIN db
    BY DEF Tabled, Watched, AlertTables
  <2>2. QED
    BY Zenon, <1>1, <2>1, AlertInsertion
<1>3. AlertRow(db, c.row) /\ c.row.id = c.n
  BY DEF AlertInv
<1>4. Known(AlertMakers, c.row.id)'
  BY <1>1, <1>3 DEF Known, Numbered
<1>5. \A x \in db.alerts : x.id # c.n
  BY DEF AlertInv, Known, AlertMakers
<1>6. OneOpen(db'.alerts)
  <2>1. CASE db' = db
    BY <2>1 DEF AlertInv
  <2>2. CASE OpenIsFree(db, c.row) /\ db'.alerts = db.alerts \cup {c.row}
    <3>1. c.row.status = "open" =>
              \A x \in db.alerts : x.status = "open" =>
                  ~(x.source = c.row.source /\ x.resource = c.row.resource)
      BY <1>3, <1>5, <2>2 DEF OpenIsFree, OpenAlertsFor
    <3>2. QED
      BY <2>2, <3>1 DEF AlertInv, OneOpen
  <2>3. QED
    BY <1>2, <2>1, <2>2
<1>7. QED
  BY <1>1, <1>2, <1>3, <1>4, <1>6, AlertStored

LEMMA AlertUpdated ==
    ASSUME Numbered, Tabled, AlertInv, NEW c \in calls, c.op = "UpdateAlert",
           Write(c, UpdateAlertRow(db, c.row))
    PROVE  AlertInv'
<1>1. db' = UpdateAlertRow(db, c.row) /\ calls' = calls \ {c} /\ serial' = serial
  BY WriteOnly DEF Write, Continue
<1>2. /\ db'.tickets = db.tickets
      /\ \/ db' = db
         \/ OpenIsFree(db, c.row)
            /\ db'.alerts = {IF x.id = c.row.id THEN c.row ELSE x : x \in db.alerts}
  BY <1>1, Tabled DEF UpdateAlertRow, Put, Tabled, Watched, AlertTables
<1>3. AlertRow(db, c.row) /\ Known(AlertMakers, c.row.id)
  BY DEF AlertInv
<1>4. Known(AlertMakers, c.row.id)'
  BY <1>1, <1>3 DEF Known, Numbered
<1>5. db'.alerts \subseteq db.alerts \cup {c.row}
  BY <1>2
<1>6. OneOpen(db'.alerts)
  <2>1. CASE db' = db
    BY <2>1 DEF AlertInv
  <2>2. CASE OpenIsFree(db, c.row)
             /\ db'.alerts = {IF x.id = c.row.id THEN c.row ELSE x : x \in db.alerts}
    <3>1. \A x \in db'.alerts : x = c.row \/ (x \in db.alerts /\ x.id # c.row.id)
      BY <2>2
    <3>2. c.row.status = "open" =>
              \A x \in db.alerts : x.status = "open" /\ x.id # c.row.id =>
                  ~(x.source = c.row.source /\ x.resource = c.row.resource)
      BY <2>2 DEF OpenIsFree, OpenAlertsFor
    <3>3. QED
      BY <3>1, <3>2 DEF AlertInv, OneOpen
  <2>3. QED
    BY <1>2, <2>1, <2>2
<1>7. QED
  BY <1>1, <1>2, <1>3, <1>4, <1>5, <1>6, AlertStored

LEMMA AlertNext ==
    ASSUME Numbered, Tabled, serial' \in {serial, serial + 1}, AlertInv, [Next]_vars
    PROVE  AlertInv'
<1>1. CASE OffAlerts
  BY <1>1, AlertsOff DEF OffAlerts
<1>2. CASE MspCore
  <2>1. CASE Delivered
    BY <2>1, AlertDelivered
  <2>2. ASSUME NEW u \in Users, MspWork(u) PROVE AlertInv'
    BY <2>2, AlertWork
  <2>3. ASSUME NEW c \in calls, MspStatement(c) PROVE AlertInv'
    <3>1. CASE TicketForAlert(c)
      BY <3>1, AlertTicketed DEF TicketForAlert, Continue
    <3>2. CASE c.op = "InsertAlert" /\ Write(c, InsertAlert(db, c.row))
      BY <3>2, AlertInserted
    <3>3. CASE c.op = "UpdateAlert" /\ Write(c, UpdateAlertRow(db, c.row))
      BY <3>3, AlertUpdated
    <3>4. QED
      BY <1>1, <2>3, <3>1, <3>2, <3>3, MspStatementsOff, Zenon DEF DoesSessions, DoesBills
  <2>4. QED
    BY <1>2, <2>1, <2>2, <2>3 DEF MspCore
<1>3. CASE Quiet
  BY <1>1, <1>3, QuietOff DEF Off, OffMsp
<1>4. CASE CxCore \/ ItsmCore
  BY <1>1, <1>4, CxOff, ItsmOff DEF OffMsp
<1>5. QED
  BY <1>2, <1>3, <1>4, Steps

\* A resource of a source has at most one open alert, and that alert leads to a
\* monitoring ticket (Service.IngestAlert and the alerts of msp_repo.go): for any
\* number of deliveries, resolutions and deletions at once.
THEOREM AlertsLead == Spec => []OpenAlertsAreTicketed
<1>1. Init => Numbered /\ Tabled /\ AlertInv
  BY NumberedInit, TabledInit, AlertInit
<1>2. Numbered /\ Tabled /\ AlertInv /\ [Next]_vars => (Numbered /\ Tabled /\ AlertInv)'
  BY NumberedNext, TabledNext, AlertNext
<1>3. AlertInv => OpenAlertsAreTicketed
  BY DEF AlertInv, AlertRow, OneOpen, OpenAlertsAreTicketed, AlertsTicketed
<1>4. QED
  BY <1>1, <1>2, <1>3, PTL DEF Spec

(***************************************************************************)
(* Problems.  A PATCH never undoes the row it was decided on; so what it   *)
(* undoes when it is written is what another one has written since.        *)
(***************************************************************************)
ProblemRow(p) == {"id", "status", "cause", "workaround"} \subseteq DOMAIN p

ProblemInv ==
    /\ \A p, q \in db.problems : p.id = q.id => p = q
    /\ \A p \in db.problems : ProblemRow(p) /\ p.id \in Nat /\ p.id < serial
    /\ \A c \in calls : c.op = "UpdateProblem" =>
          /\ ProblemRow(c.row.row) /\ c.row.row.id \in Nat /\ c.row.row.id < serial
          /\ ~Undoes(c.row.was, c.row.row)

LEMMA ProblemInit == Init => ProblemInv
<1> SUFFICES ASSUME Init PROVE ProblemInv
  OBVIOUS
<1>1. ASSUME NEW p \in Before.problems PROVE ProblemRow(p) /\ p.id \in Nat /\ p.id < FirstId
  <2>1. p \in Problem /\ p.id < FirstId
    BY BeforeAssumption, FirstIdAssumption DEF Holds, ItsmTable
  <2>2. QED
    BY <2>1 DEF Problem, Id, ProblemRow
<1>2. \A p, q \in Before.problems : p.id = q.id => p = q
  BY SoundAssumption DEF Sound
<1>3. QED
  BY <1>1, <1>2 DEF Init, ProblemInv

LEMMA PatchUndoesNothing ==
    ASSUME NEW p, ProblemRow(p), NEW status, NEW cause, NEW workaround,
           NEW q \in Patched(p, status, cause, workaround)
    PROVE  ProblemRow(q) /\ q.id = p.id /\ ~Undoes(p, q)
<1>1. /\ DOMAIN q = DOMAIN p /\ q.id = p.id
      /\ q.status = IF status = "" THEN p.status ELSE status
      /\ q.cause = IF cause = "" THEN p.cause ELSE cause
      /\ q.workaround = IF workaround = "" THEN p.workaround ELSE workaround
  BY DEF Patched, ProblemRow
<1>2. status = "" \/ status \in ProblemTransitions[p.status]
  BY DEF Patched, ProblemCanMoveTo
<1>3. QED
  BY <1>1, <1>2 DEF ProblemRow, Undoes

LEMMA NothingUndone ==
    ASSUME ProblemInv, db'.problems = db.problems
    PROVE  \A p \in db.problems, q \in db'.problems : p.id = q.id => ~Undoes(p, q)
BY DEF ProblemInv, Undoes

OnlyOverlap ==
    \A p \in db.problems, q \in db'.problems :
        p.id = q.id /\ Undoes(p, q) =>
            \E c \in calls \ calls' :
                c.op = "UpdateProblem" /\ c.row.row = q /\ c.row.was # p

LEMMA ProblemsOff ==
    ASSUME Numbered, serial' \in {serial, serial + 1}, ProblemInv, OffProblems
    PROVE  ProblemInv' /\ OnlyOverlap
<1>1. OnlyOverlap
  BY NothingUndone DEF OffProblems, OnlyOverlap
<1>2. ProblemInv'
  BY DEF OffProblems, NoNew, ProblemInv, Numbered
<1>3. QED
  BY <1>1, <1>2

LEMMA MspOffProblems == ASSUME Numbered, MspCore PROVE OffProblems
<1>1. ASSUME NEW u, MspWork(u) PROVE OffProblems
  BY <1>1, MspWorkOff, DeleteClientOff, Zenon DEF DoesAlerts, DoesSessions, DoesBills
<1>2. ASSUME NEW c \in calls, MspStatement(c) PROVE OffProblems
  BY <1>2, MspStatementsOff, Zenon DEF DoesAlerts, DoesSessions, DoesBills
<1>3. QED
  BY <1>1, <1>2, DeliveredOff DEF MspCore, DoesAlerts

LEMMA ProblemCreated ==
    ASSUME Numbered, Tabled, ProblemInv, NEW u, CreateProblem(u) PROVE ProblemInv' /\ OnlyOverlap
<1>1. PICK p : /\ AtOnce("CreateProblem", InsertProblem(db, p))
               /\ ProblemRow(p) /\ p.id = serial
  <2>1. PICK title, cause :
          LET p == NewProblem([id |-> serial, title |-> title, status |-> "", cause |-> cause,
                               workaround |-> ""])
          IN  AtOnce("CreateProblem", InsertProblem(db, p))
    BY Zenon DEF CreateProblem
  <2>2. PICK p : p = NewProblem([id |-> serial, title |-> title, status |-> "",
                                 cause |-> cause, workaround |-> ""])
    OBVIOUS
  <2>3. AtOnce("CreateProblem", InsertProblem(db, p))
    BY <2>1, <2>2, Zenon
  <2>4. ProblemRow(p) /\ p.id = serial
    BY <2>2 DEF NewProblem, ProblemRow
  <2>5. QED
    BY <2>3, <2>4
<1>2. db' = InsertProblem(db, p) /\ calls' = calls /\ serial' = serial + 1
  BY <1>1, AtOnceOnly DEF AtOnce, Arrives
<1>3. db'.problems = db.problems \cup {p}
  BY <1>2, Tabled DEF InsertProblem, Insert, Tabled, Watched
<1>4. \A q \in db.problems : q.id # p.id
  BY <1>1 DEF ProblemInv, Numbered
<1>5. OnlyOverlap
  BY <1>3, <1>4 DEF OnlyOverlap, ProblemInv, Undoes
<1>6. ProblemInv'
  BY <1>1, <1>2, <1>3, <1>4 DEF ProblemInv, Numbered
<1>7. QED
  BY <1>5, <1>6

LEMMA ProblemPatched ==
    ASSUME Numbered, serial' \in {serial, serial + 1}, ProblemInv, NEW u, UpdateProblem(u)
    PROVE  ProblemInv' /\ OnlyOverlap
<1>1. PICK p, status, cause, workaround :
        /\ p \in db.problems
        /\ \E q \in Patched(p, status, cause, workaround) :
              Begin("UpdateProblem", [was |-> p, row |-> q])
  BY Zenon DEF UpdateProblem
<1>2. PICK q \in Patched(p, status, cause, workaround) :
        Begin("UpdateProblem", [was |-> p, row |-> q])
  BY <1>1
<1>3. ProblemRow(q) /\ q.id = p.id /\ ~Undoes(p, q)
  BY <1>1, PatchUndoesNothing DEF ProblemInv
<1>4. PICK row : row = [was |-> p, row |-> q] /\ Begin("UpdateProblem", row)
  BY <1>2, Zenon
<1>5. row.was = p /\ row.row = q
  BY <1>4
<1>6. db' = db /\ \A c \in calls' : c \in calls \/ c.row = row
  BY <1>4, BeginOnly
<1>7. OnlyOverlap
  BY <1>6, NothingUndone DEF OnlyOverlap
<1>8. ProblemInv'
  BY <1>1, <1>3, <1>5, <1>6 DEF ProblemInv, Numbered
<1>9. QED
  BY <1>7, <1>8

LEMMA ProblemWritten ==
    ASSUME Numbered, Tabled, ProblemInv, NEW c \in calls, c.op = "UpdateProblem",
           Write(c, UpdateProblemRow(db, c.row.row))
    PROVE  ProblemInv' /\ OnlyOverlap
<1>1. db' = UpdateProblemRow(db, c.row.row) /\ calls' = calls \ {c} /\ serial' = serial
  BY WriteOnly DEF Write, Continue
<1>2. db'.problems = {IF x.id = c.row.row.id THEN c.row.row ELSE x : x \in db.problems}
  BY <1>1, Tabled DEF UpdateProblemRow, Put, Tabled, Watched
<1>3. \A q \in db'.problems : q = c.row.row \/ (q \in db.problems /\ q.id # c.row.row.id)
  BY <1>2
<1>4. ProblemInv'
  BY <1>1, <1>3 DEF ProblemInv
<1>5. ASSUME NEW p \in db.problems, NEW q \in db'.problems, p.id = q.id, Undoes(p, q)
      PROVE  c \in calls \ calls' /\ c.row.row = q /\ c.row.was # p
  <2>1. p # q
    BY <1>5 DEF Undoes
  <2>2. q = c.row.row
    BY <1>3, <1>5, <2>1 DEF ProblemInv
  <2>3. QED
    BY <1>1, <1>5, <2>2 DEF ProblemInv
<1>6. OnlyOverlap
  BY <1>5 DEF OnlyOverlap
<1>7. QED
  BY <1>4, <1>6

LEMMA ProblemNext ==
    ASSUME Numbered, Tabled, serial' \in {serial, serial + 1}, ProblemInv, [Next]_vars
    PROVE  ProblemInv' /\ OnlyOverlap
<1>1. CASE OffProblems
  BY <1>1, ProblemsOff
<1>2. CASE ItsmCore
  BY <1>2, ProblemCreated, ProblemPatched, ProblemWritten DEF ItsmCore
<1>3. QED
  BY <1>1, <1>2, Steps, QuietOff, MspOffProblems, CxOff DEF Off

\* A PATCH of a problem moves it off its transitions, or empties what was found out
\* about it, only by writing back a row that another one has changed since
\* (UpdateProblem of the ITSM service): for any number of overlapping ones.
THEOREM OnlyStaleUndoes == Spec => OnlyOverlapUndoes
<1>1. Init => Numbered /\ Tabled /\ ProblemInv
  BY NumberedInit, TabledInit, ProblemInit
<1>2. Numbered /\ Tabled /\ ProblemInv /\ [Next]_vars
        => (Numbered /\ Tabled /\ ProblemInv)' /\ OnlyOverlap
  BY NumberedNext, TabledNext, ProblemNext
<1>3. QED
  BY <1>1, <1>2, PTL DEF Spec, OnlyOverlapUndoes, OnlyOverlap

(***************************************************************************)
(* Answers.  The scope of an end user is read with the request and goes    *)
(* along with it; so does the one client or customer that was checked.     *)
(***************************************************************************)
ReadOps == MspReadOps \cup CxReadOps
OwnClient == {"GetClient", "ListContacts", "ListTasks", "ListClientAssets", "ListDiscoveredAssets"}
OwnCustomer == {"GetCustomer", "ListCustomerContacts", "ListMessages"}

Scoped(op, r) ==
    Role[r.by] = "end_user" =>
        /\ ~r.scope.all
        /\ op \in OwnClient => r.client \in r.scope.ids
        /\ op = "ListContracts" => r.client = None \/ r.client \in r.scope.ids
        /\ op \in OwnCustomer => r.customer \in r.scope.ids

ReadInv ==
    /\ AnswersStayScoped
    /\ \A c \in calls : c.op \in ReadOps => Scoped(c.op, c.row)

LEMMA ReadInit == Init => ReadInv
BY DEF Init, ReadInv, AnswersStayScoped

LEMMA OwnApart == OwnClient \cap CxReadOps = {} /\ OwnCustomer \cap MspReadOps = {}
                  /\ "ListContracts" \notin CxReadOps
BY DEF OwnClient, OwnCustomer, MspReadOps, CxReadOps

\* Steps that ask and answer nothing.
LEMMA ReadsLeft ==
    ASSUME ReadInv, page' = page, \A c \in calls' : c \in calls \/ c.op \notin ReadOps
    PROVE  ReadInv'
BY DEF ReadInv, AnswersStayScoped

LEMMA ReadAsked ==
    ASSUME ReadInv, NEW op, NEW row, Begin(op, row), Scoped(op, row)
    PROVE  ReadInv'
<1>1. page' = page /\ \A c \in calls' : c \in calls \/ (c.op = op /\ c.row = row)
  BY BeginOnly DEF Begin, Arrives
<1>2. QED
  BY <1>1 DEF ReadInv, AnswersStayScoped

\* What an end user may see are the clients and the customers they are a contact of.
LEMMA EndUserClients ==
    ASSUME NEW u, Role[u] = "end_user"
    PROVE  ~VisibleClients(db, u).all /\ VisibleClients(db, u).ids = ContactClientIDs(db, u)
<1>1. Role[u] \notin Staff
  BY DEF Staff
<1>2. ~VisibleClients(db, u).all
  BY <1>1 DEF VisibleClients
<1>3. VisibleClients(db, u).ids = ContactClientIDs(db, u)
  BY <1>1 DEF VisibleClients
<1>4. QED
  BY <1>2, <1>3

LEMMA EndUserCustomers ==
    ASSUME NEW u, Role[u] = "end_user"
    PROVE  ~VisibleCustomers(db, u).all /\ VisibleCustomers(db, u).ids = ContactCustomerIDs(db, u)
<1>1. Role[u] \notin Staff
  BY DEF Staff
<1>2. ~VisibleCustomers(db, u).all
  BY <1>1 DEF VisibleCustomers
<1>3. VisibleCustomers(db, u).ids = ContactCustomerIDs(db, u)
  BY <1>1 DEF VisibleCustomers
<1>4. QED
  BY <1>2, <1>3

LEMMA MspAsked ==
    ASSUME ReadInv, NEW u, NEW op \in MspReadOps, NEW k, Ask(u, op, k),
           Role[u] = "end_user" =>
              /\ op \in OwnClient => k \in ContactClientIDs(db, u)
              /\ op = "ListContracts" => k = None \/ k \in ContactClientIDs(db, u)
    PROVE  ReadInv'
<1>1. PICK row : row = [by |-> u, scope |-> VisibleClients(db, u), client |-> k]
  OBVIOUS
<1>2. row.by = u /\ row.client = k /\ row.scope = VisibleClients(db, u)
  BY <1>1
<1>3. Role[u] = "end_user" => ~row.scope.all /\ row.scope.ids = ContactClientIDs(db, u)
  BY <1>2, EndUserClients
<1>4. Scoped(op, row)
  BY <1>2, <1>3, OwnApart DEF Scoped
<1>5. QED
  BY <1>1, <1>4, ReadAsked, Zenon DEF Ask

LEMMA CxAsked ==
    ASSUME ReadInv, NEW u, NEW op \in CxReadOps, NEW k, AskCx(u, op, k),
           Role[u] = "end_user" => (op \in OwnCustomer => k \in ContactCustomerIDs(db, u))
    PROVE  ReadInv'
<1>1. PICK row : row = [by |-> u, scope |-> VisibleCustomers(db, u), customer |-> k]
  OBVIOUS
<1>2. row.by = u /\ row.customer = k /\ row.scope = VisibleCustomers(db, u)
  BY <1>1
<1>3. Role[u] = "end_user" => ~row.scope.all /\ row.scope.ids = ContactCustomerIDs(db, u)
  BY <1>2, EndUserCustomers
<1>4. Scoped(op, row)
  BY <1>2, <1>3, OwnApart DEF Scoped
<1>5. QED
  BY <1>1, <1>4, ReadAsked, Zenon DEF AskCx

LEMMA ClientChecked ==
    \A u, k : CheckClient(db, u, k) /\ Role[u] = "end_user" => k \in ContactClientIDs(db, u)
BY DEF CheckClient, CanAccessClient, Staff

LEMMA CustomerChecked ==
    \A u, k : CheckCustomer(db, u, k) /\ Role[u] = "end_user" => k \in ContactCustomerIDs(db, u)
BY DEF CheckCustomer, CanAccessCustomer, Staff

LEMMA MspReadsScoped == ASSUME ReadInv, NEW u, MspRead(u) PROVE ReadInv'
<1> DEFINE Free == {"ListClients", "GetTicketContext", "ListMSPTickets", "ListInterventions",
                    "ListTimeEntries", "ListExpenses", "ListProjects", "ListBillingDrafts",
                    "Profitability", "ListMonitoringAlerts", "ListRemoteSessions"}
           One == {"GetClient", "ListContacts", "ListClientAssets", "ListDiscoveredAssets"}
<1>1. ASSUME NEW op \in Free, NEW k, Ask(u, op, k) PROVE ReadInv'
  <2>1. op \in MspReadOps /\ op \notin OwnClient /\ op # "ListContracts"
    BY DEF MspReadOps, OwnClient
  <2>2. QED
    BY <1>1, <2>1, MspAsked
<1>2. ASSUME NEW op \in One, NEW k, AskOf(u, op, k) PROVE ReadInv'
  <2>1. op \in MspReadOps /\ op # "ListContracts"
    BY DEF MspReadOps
  <2>2. Ask(u, op, k) /\ CheckClient(db, u, k)
    BY <1>2 DEF AskOf
  <2>3. QED
    BY <2>1, <2>2, ClientChecked, MspAsked
<1>3. CASE ListClients(u) \/ GetTicketContext(u)
  BY <1>1, <1>3, Zenon DEF ListClients, GetTicketContext
<1>4. ASSUME NEW k, GetClient(u, k) \/ ListContacts(u, k) \/ ListClientAssets(u, k)
                    \/ ListDiscoveredAssets(u, k)
      PROVE  ReadInv'
  BY <1>2, <1>4, Zenon DEF GetClient, ListContacts, ListClientAssets, ListDiscoveredAssets
<1>5. ASSUME NEW k, ListMSPTickets(u, k) \/ ListInterventions(u, k)
                    \/ ListTimeEntries(u, k) \/ ListExpenses(u, k)
                    \/ ListProjects(u, k) \/ ListBillingDrafts(u, k) \/ Profitability(u, k)
                    \/ ListMonitoringAlerts(u, k) \/ ListRemoteSessions(u, k)
      PROVE  ReadInv'
  BY <1>1, <1>5, Zenon
  DEF ListMSPTickets, ListInterventions, ListTimeEntries, ListExpenses,
      ListProjects, ListBillingDrafts, Profitability, ListMonitoringAlerts, ListRemoteSessions
<1>6. ASSUME NEW k, ListContracts(u, k) PROVE ReadInv'
  <2>1. Ask(u, "ListContracts", k) /\ (k # None => CheckClient(db, u, k))
    BY <1>6 DEF ListContracts
  <2>2. "ListContracts" \in MspReadOps /\ "ListContracts" \notin OwnClient
    BY DEF MspReadOps, OwnClient
  <2>3. QED
    BY <2>1, <2>2, ClientChecked, MspAsked
<1>7. CASE ListTasks(u)
  <2>1. PICK p \in db.projects :
          /\ CheckClient(db, u, p.client)
          /\ Begin("ListTasks", [by |-> u, scope |-> VisibleClients(db, u),
                                 client |-> p.client, project |-> p.id])
    BY <1>7 DEF ListTasks
  <2>2. PICK row : row = [by |-> u, scope |-> VisibleClients(db, u),
                          client |-> p.client, project |-> p.id]
    OBVIOUS
  <2>3. row.by = u /\ row.client = p.client /\ row.scope = VisibleClients(db, u)
    BY <2>2
  <2>4. Role[u] = "end_user" => ~row.scope.all /\ row.scope.ids = ContactClientIDs(db, u)
    BY <2>3, EndUserClients
  <2>5. Scoped("ListTasks", row)
    BY <2>1, <2>3, <2>4, ClientChecked DEF Scoped, OwnCustomer
  <2>6. QED
    BY <2>1, <2>2, <2>5, ReadAsked, Zenon
<1>8. QED
  BY <1>3, <1>4, <1>5, <1>6, <1>7, Zenon DEF MspRead

LEMMA CxReadsScoped == ASSUME ReadInv, NEW u, CxRead(u) PROVE ReadInv'
<1> DEFINE Free == {"ListCustomers", "GetConversation", "Report", "ListConversations",
                    "ListSurveys"}
           One == {"GetCustomer", "ListCustomerContacts"}
<1>1. ASSUME NEW op \in Free, NEW k, AskCx(u, op, k) PROVE ReadInv'
  <2>1. op \in CxReadOps /\ op \notin OwnCustomer
    BY DEF CxReadOps, OwnCustomer
  <2>2. QED
    BY <1>1, <2>1, CxAsked
<1>2. ASSUME NEW op \in One, NEW k, AskCxOf(u, op, k) PROVE ReadInv'
  <2>1. op \in CxReadOps
    BY DEF CxReadOps
  <2>2. AskCx(u, op, k) /\ CheckCustomer(db, u, k)
    BY <1>2 DEF AskCxOf
  <2>3. QED
    BY <2>1, <2>2, CustomerChecked, CxAsked
<1>3. CASE ListCustomers(u) \/ GetConversation(u) \/ Report(u)
  BY <1>1, <1>3, Zenon DEF ListCustomers, GetConversation, Report
<1>4. ASSUME NEW k, GetCustomer(u, k) \/ ListCustomerContacts(u, k)
                    \/ ListConversations(u, k) \/ ListSurveys(u, k)
      PROVE  ReadInv'
  BY <1>1, <1>2, <1>4, Zenon
  DEF GetCustomer, ListCustomerContacts, ListConversations, ListSurveys
<1>5. CASE ListMessages(u)
  <2>1. PICK v \in db.conversations :
          /\ CheckCustomer(db, u, v.customer)
          /\ Begin("ListMessages", [by |-> u, scope |-> VisibleCustomers(db, u),
                                    customer |-> v.customer, conversation |-> v.id])
    BY <1>5 DEF ListMessages
  <2>2. PICK row : row = [by |-> u, scope |-> VisibleCustomers(db, u),
                          customer |-> v.customer, conversation |-> v.id]
    OBVIOUS
  <2>3. row.by = u /\ row.customer = v.customer /\ row.scope = VisibleCustomers(db, u)
    BY <2>2
  <2>4. Role[u] = "end_user" => ~row.scope.all /\ row.scope.ids = ContactCustomerIDs(db, u)
    BY <2>3, EndUserCustomers
  <2>5. Scoped("ListMessages", row)
    BY <2>1, <2>3, <2>4, CustomerChecked DEF Scoped, OwnClient
  <2>6. QED
    BY <2>1, <2>2, <2>5, ReadAsked, Zenon
<1>6. QED
  BY <1>3, <1>4, <1>5, Zenon DEF CxRead

LEMMA Told ==
    ASSUME ReadInv, NEW c \in calls, NEW ids, NEW shown, NEW internal,
           ReplyAs(c, ids, shown, internal),
           Role[c.row.by] = "end_user" => shown \subseteq ids /\ ~internal
    PROVE  ReadInv'
<1>1. calls' \subseteq calls
  BY DEF ReplyAs
<1>2. /\ page'.by = c.row.by /\ page'.scope = ids /\ page'.shown = shown
      /\ page'.internal = internal
  BY DEF ReplyAs
<1>3. QED
  BY <1>1, <1>2 DEF ReadInv, AnswersStayScoped

\* A query that is limited to the viewer's clients.
LEMMA MspRowsScoped ==
    ASSUME NEW d, NEW s, ~s.all, NEW k
    PROVE  /\ \A x \in TicketsFor(d, s, k) : x.client \in s.ids
           /\ \A x \in InterventionsFor(d, s, k) : x.client \in s.ids
           /\ \A x \in TimeEntriesFor(d, s, k) : x.client \in s.ids
           /\ \A x \in ExpensesFor(d, s, k) : x.client \in s.ids
           /\ \A x \in ProjectsFor(d, s, k) : x.client \in s.ids
           /\ \A x \in BillingDraftsFor(d, s, k) : x.client \in s.ids
           /\ \A x \in ProfitabilityFor(d, s, k, None) : x.client \in s.ids
           /\ \A x \in AlertsFor(d, s, k) : x.client \in s.ids
           /\ \A x \in RemoteSessionsFor(d, s, k) : x.client \in s.ids
<1>1. \A rows : \A x \in Where(rows, "client", s, k) : x.client \in s.ids
  BY DEF Where, InScope
<1>2. \A rows : Named(s, k, rows) \subseteq rows
  BY DEF Named
<1>3. \A x \in ProfitabilityFor(d, s, k, None) : x.client \in s.ids
  BY <1>1, <1>2 DEF ProfitabilityFor, SelectProfitability
<1>4. /\ \A x \in TicketsFor(d, s, k) : x.client \in s.ids
      /\ \A x \in InterventionsFor(d, s, k) : x.client \in s.ids
      /\ \A x \in TimeEntriesFor(d, s, k) : x.client \in s.ids
      /\ \A x \in ExpensesFor(d, s, k) : x.client \in s.ids
  BY <1>1, <1>2
  DEF TicketsFor, SelectTickets, InterventionsFor, SelectInterventions,
      TimeEntriesFor, SelectTimeEntries, ExpensesFor, SelectExpenses
<1>5. /\ \A x \in ProjectsFor(d, s, k) : x.client \in s.ids
      /\ \A x \in BillingDraftsFor(d, s, k) : x.client \in s.ids
      /\ \A x \in AlertsFor(d, s, k) : x.client \in s.ids
      /\ \A x \in RemoteSessionsFor(d, s, k) : x.client \in s.ids
  BY <1>1, <1>2
  DEF ProjectsFor, SelectProjects, BillingDraftsFor, SelectBillingDrafts,
      AlertsFor, SelectAlerts, RemoteSessionsFor, SelectRemoteSessions
<1>6. QED
  BY <1>3, <1>4, <1>5

LEMMA MspAnswerScoped == ASSUME ReadInv, NEW c \in calls, MspAnswer(c) PROVE ReadInv'
<1> DEFINE s == c.row.scope
           k == c.row.client
           user == Role[c.row.by] = "end_user"
<1>1. ASSUME user, c.op \in MspReadOps PROVE ~s.all /\ Scoped(c.op, c.row)
  BY <1>1 DEF ReadInv, ReadOps, Scoped
<1>2. ASSUME NEW rows, ReplyRows(c, rows), user => \A x \in rows : x.client \in s.ids
      PROVE  ReadInv'
  BY <1>2, Told DEF ReplyRows, Reply
<1>3. ASSUME NEW shown, Reply(c, shown), user => shown \subseteq s.ids PROVE ReadInv'
  BY <1>3, Told DEF Reply
<1>4. CASE c.op = "ListClients" /\ Reply(c, {x.id : x \in ClientsFor(db, s)})
  <2>1. c.op \in MspReadOps
    BY <1>4 DEF MspReadOps
  <2>2. user => {x.id : x \in ClientsFor(db, s)} \subseteq s.ids
    BY <1>1, <2>1 DEF ClientsFor, SelectClients, InScope
  <2>3. QED
    BY <1>3, <1>4, <2>2
<1>5. CASE c.op = "GetClient" /\ Reply(c, {x.id : x \in {y \in db.clients : y.id = k}})
  <2>1. c.op \in MspReadOps /\ c.op \in OwnClient
    BY <1>5 DEF MspReadOps, OwnClient
  <2>2. user => {x.id : x \in {y \in db.clients : y.id = k}} \subseteq s.ids
    BY <1>1, <2>1 DEF Scoped
  <2>3. QED
    BY <1>3, <1>5, <2>2
<1>6. ASSUME c.op \in {"ListContacts", "ListClientAssets", "ListDiscoveredAssets"},
             NEW rows, ReplyRows(c, rows), \A x \in rows : x.client = k
      PROVE  ReadInv'
  <2>1. c.op \in MspReadOps /\ c.op \in OwnClient
    BY <1>6 DEF MspReadOps, OwnClient
  <2>2. user => \A x \in rows : x.client \in s.ids
    BY <1>1, <1>6, <2>1 DEF Scoped
  <2>3. QED
    BY <1>2, <1>6, <2>2
<1>7. CASE \/ c.op = "ListContacts" /\ ReplyRows(c, SelectContacts(db, k))
           \/ c.op = "ListClientAssets" /\ ReplyRows(c, SelectClientAssets(db, k))
           \/ c.op = "ListDiscoveredAssets" /\ ReplyRows(c, SelectDiscoveredAssets(db, k))
  <2>1. /\ \A x \in SelectContacts(db, k) : x.client = k
        /\ \A x \in SelectClientAssets(db, k) : x.client = k
        /\ \A x \in SelectDiscoveredAssets(db, k) : x.client = k
    BY DEF SelectContacts, SelectClientAssets, SelectDiscoveredAssets
  <2>2. QED
    BY <1>6, <1>7, <2>1
<1>8. CASE c.op = "ListContracts" /\ ReplyRows(c, ContractsFor(db, s, k))
  <2>1. c.op \in MspReadOps
    BY <1>8 DEF MspReadOps
  <2>2. ASSUME user, NEW x \in ContractsFor(db, s, k) PROVE x.client \in s.ids
    <3>1. ~s.all /\ (k = None \/ k \in s.ids)
      BY <1>1, <1>8, <2>1, <2>2 DEF Scoped
    <3>2. CASE k = None
      BY <3>1, <3>2 DEF ContractsFor
    <3>3. CASE k # None
      BY <3>1, <3>3 DEF ContractsFor, SelectContracts
    <3>4. QED
      BY <3>2, <3>3
  <2>3. QED
    BY <1>2, <1>8, <2>2
<1>9. CASE c.op = "GetTicketContext" /\ CheckClient(db, c.row.by, k)
           /\ ReplyAs(c, VisibleClients(db, c.row.by).ids, {k}, FALSE)
  <2>1. user => {k} \subseteq VisibleClients(db, c.row.by).ids
    BY <1>9, ClientChecked DEF VisibleClients, Staff
  <2>2. QED
    BY <1>9, <2>1, Told
<1>10. CASE c.op = "ListTasks" /\ Reply(c, {k : t \in SelectTasks(db, c.row.project)})
  <2>1. c.op \in MspReadOps /\ c.op \in OwnClient
    BY <1>10 DEF MspReadOps, OwnClient
  <2>2. user => {k : t \in SelectTasks(db, c.row.project)} \subseteq s.ids
    BY <1>1, <2>1 DEF Scoped
  <2>3. QED
    BY <1>3, <1>10, <2>2
<1>11. CASE \/ c.op = "ListMSPTickets" /\ ReplyRows(c, TicketsFor(db, s, k))
            \/ c.op = "ListInterventions" /\ ReplyRows(c, InterventionsFor(db, s, k))
            \/ c.op = "ListTimeEntries" /\ ReplyRows(c, TimeEntriesFor(db, s, k))
            \/ c.op = "ListExpenses" /\ ReplyRows(c, ExpensesFor(db, s, k))
            \/ c.op = "ListProjects" /\ ReplyRows(c, ProjectsFor(db, s, k))
            \/ c.op = "ListBillingDrafts" /\ ReplyRows(c, BillingDraftsFor(db, s, k))
            \/ c.op = "Profitability" /\ ReplyRows(c, ProfitabilityFor(db, s, k, None))
            \/ c.op = "ListMonitoringAlerts" /\ ReplyRows(c, AlertsFor(db, s, k))
            \/ c.op = "ListRemoteSessions" /\ ReplyRows(c, RemoteSessionsFor(db, s, k))
  <2>1. c.op \in MspReadOps
    BY <1>11 DEF MspReadOps
  <2>2. user => ~s.all
    BY <1>1, <2>1
  <2>3. QED
    BY <1>2, <1>11, <2>2, MspRowsScoped
<1>12. QED
  BY <1>4, <1>5, <1>7, <1>8, <1>9, <1>10, <1>11, Zenon DEF MspAnswer

LEMMA CxAnswerScoped == ASSUME ReadInv, NEW c \in calls, CxAnswer(c) PROVE ReadInv'
<1> DEFINE s == c.row.scope
           k == c.row.customer
           user == Role[c.row.by] = "end_user"
<1>1. ASSUME user, c.op \in CxReadOps PROVE ~s.all /\ Scoped(c.op, c.row)
  BY <1>1 DEF ReadInv, ReadOps, Scoped
<1>2. ASSUME NEW rows, TellRows(c, rows), user => \A x \in rows : x.customer \in s.ids
      PROVE  ReadInv'
  BY <1>2, Told DEF TellRows, Tell
<1>3. ASSUME NEW shown, Tell(c, shown), user => shown \subseteq s.ids PROVE ReadInv'
  BY <1>3, Told DEF Tell
<1>4. \A rows : ~s.all =>
        \A x \in Where(rows, "customer", s, k) \cup Where(rows, "customer", s, None) :
          x.customer \in s.ids
  BY DEF Where, InScope
<1>5. CASE c.op = "ListCustomers" /\ Tell(c, {x.id : x \in SelectCustomers(db, s)})
  <2>1. c.op \in CxReadOps
    BY <1>5 DEF CxReadOps
  <2>2. user => {x.id : x \in SelectCustomers(db, s)} \subseteq s.ids
    BY <1>1, <2>1 DEF SelectCustomers, InScope
  <2>3. QED
    BY <1>3, <1>5, <2>2
<1>6. CASE c.op = "GetCustomer" /\ Tell(c, {x.id : x \in {y \in db.customers : y.id = k}})
  <2>1. c.op \in CxReadOps /\ c.op \in OwnCustomer
    BY <1>6 DEF CxReadOps, OwnCustomer
  <2>2. user => {x.id : x \in {y \in db.customers : y.id = k}} \subseteq s.ids
    BY <1>1, <2>1 DEF Scoped
  <2>3. QED
    BY <1>3, <1>6, <2>2
<1>7. CASE c.op = "ListCustomerContacts" /\ TellRows(c, SelectCustomerContacts(db, k))
  <2>1. c.op \in CxReadOps /\ c.op \in OwnCustomer
    BY <1>7 DEF CxReadOps, OwnCustomer
  <2>2. user => \A x \in SelectCustomerContacts(db, k) : x.customer \in s.ids
    BY <1>1, <2>1 DEF Scoped, SelectCustomerContacts
  <2>3. QED
    BY <1>2, <1>7, <2>2
<1>8. CASE \/ c.op = "ListConversations" /\ TellRows(c, ConversationsFor(db, s, k))
           \/ c.op = "ListSurveys" /\ TellRows(c, SelectSurveys(db, s, k))
  <2>1. c.op \in CxReadOps
    BY <1>8 DEF CxReadOps
  <2>2. user => \A x \in ConversationsFor(db, s, k) \cup SelectSurveys(db, s, k) :
                    x.customer \in s.ids
    BY <1>1, <1>4, <2>1 DEF ConversationsFor, SelectConversations, SelectSurveys
  <2>3. QED
    BY <1>2, <1>8, <2>2
<1>9. CASE c.op = "GetConversation" /\ CheckCustomer(db, c.row.by, k)
           /\ ReplyAs(c, VisibleCustomers(db, c.row.by).ids, {k}, FALSE)
  <2>1. user => {k} \subseteq VisibleCustomers(db, c.row.by).ids
    BY <1>9, CustomerChecked DEF VisibleCustomers, Staff
  <2>2. QED
    BY <1>9, <2>1, Told
<1>10. CASE c.op = "ListMessages"
            /\ LET rows == SelectMessages(db, c.row.conversation, Role[c.row.by] \in Staff)
               IN  ReplyAs(c, s.ids, {k : m \in rows}, \E m \in rows : m.internal)
  <2> DEFINE rows == SelectMessages(db, c.row.conversation, Role[c.row.by] \in Staff)
  <2>1. c.op \in CxReadOps /\ c.op \in OwnCustomer
    BY <1>10 DEF CxReadOps, OwnCustomer
  <2>2. user => {k : m \in rows} \subseteq s.ids
    BY <1>1, <2>1 DEF Scoped
  <2>3. user => ~ \E m \in rows : m.internal
    BY DEF SelectMessages, Staff
  <2>4. PICK internal : internal = (\E m \in rows : m.internal)
    OBVIOUS
  <2>5. QED
    BY <1>10, <2>2, <2>3, Told
<1>11. CASE c.op = "Report" /\ Tell(c, SelectReport(db, s))
  <2>1. c.op \in CxReadOps
    BY <1>11 DEF CxReadOps
  <2>2. user => SelectReport(db, s) \subseteq s.ids
    BY <1>1, <1>4, <2>1
    DEF SelectReport, SelectCustomers, SelectConversations, SelectSurveys, InScope
  <2>3. QED
    BY <1>3, <1>11, <2>2
<1>12. QED
  BY <1>5, <1>6, <1>7, <1>8, <1>9, <1>10, <1>11, Zenon DEF CxAnswer

LEMMA ReadNext == ASSUME Numbered, ReadInv, [Next]_vars PROVE ReadInv'
<1>1. CASE Reads \/ Answers
  BY <1>1, MspReadsScoped, CxReadsScoped, MspAnswerScoped, CxAnswerScoped DEF Reads, Answers
<1>2. ASSUME NEW op, NEW row, op \notin ReadOps, Begin(op, row) PROVE ReadInv'
  BY <1>2, BeginOnly, ReadsLeft DEF Begin, Arrives
<1>3. CASE \E op, d : AtOnce(op, d)
  BY <1>3, ReadsLeft DEF AtOnce, Arrives
<1>4. WorkOps \cap ReadOps = {}
  BY ReadsApart DEF WorkOps, ReadOps, MspReadOps, CxReadOps
<1>5. ASSUME NEW c \in calls, NEW d,
             Continue(c, d, {}) \/ \E op \in WorkOps : \E row : Continue(c, d, On(c, op, row))
      PROVE  ReadInv'
  <2>1. page' = page
    BY <1>5 DEF Continue
  <2>2. \A e \in calls' : e \in calls \/ e.op \in WorkOps
    BY <1>5, StopOnly, OnOnly DEF Numbered
  <2>3. QED
    BY <1>4, <2>1, <2>2, ReadsLeft
<1>6. CASE UNCHANGED vars
  BY <1>6, ReadsLeft DEF vars
<1>7. CASE QuietBegin
  BY <1>2, <1>7 DEF QuietBegin, ReadOps
<1>8. CASE QuietAtOnce \/ QuietWrite
  BY <1>3, <1>5, <1>8 DEF QuietAtOnce, QuietWrite, Write
<1>9. CASE CoreTraffic
  BY <1>2, <1>3, <1>4, <1>5, <1>9, Zenon DEF CoreTraffic, Requested
<1>10. QED
  BY <1>1, <1>6, <1>7, <1>8, <1>9, Steps, MspTraffic, CxTraffic, ItsmTraffic DEF Quiet

\* An end user is shown rows of their own clients and customers only, and no note
\* of the staff (visibleClients, checkClient and the lists of the MSP and the CX
\* service): whatever becomes of their contacts between the two statements.
THEOREM AnswersAreScoped == Spec => []AnswersStayScoped
<1>1. Init => Numbered /\ ReadInv
  BY NumberedInit, ReadInit
<1>2. Numbered /\ ReadInv /\ [Next]_vars => (Numbered /\ ReadInv)'
  BY NumberedNext, ReadNext
<1>3. ReadInv => AnswersStayScoped
  BY DEF ReadInv
<1>4. QED
  BY <1>1, <1>2, <1>3, PTL DEF Spec

(***************************************************************************)
(* Billing.  A draft that waits to be stored bills rows of its client that *)
(* no draft billed when it read them; rows and drafts that are still to be *)
(* inserted have numbers that nothing stored names.                        *)
(***************************************************************************)
TimeMakers == {"CreateTimeEntry"}
ExpenseMakers == {"CreateExpense"}
DraftMakers == {"GenerateBillingDraft", "CreateBillingDraft"}

BillRow(e) == {"id", "client", "billed"} \subseteq DOMAIN e

DraftRow(d, x) ==
    /\ {"id", "client", "items", "saw"} \subseteq DOMAIN x
    /\ BillsItsClient(d, x)
    /\ \A i \in x.items :
          /\ i.kind = "time" => Known(TimeMakers, i.of)
          /\ i.kind = "expense" => Known(ExpenseMakers, i.of)
    /\ \A id \in x.saw : Known(DraftMakers, id)

BillCall(c) ==
    /\ c.op \in TimeMakers \cup ExpenseMakers =>
          BillRow(c.row) /\ c.row.id = c.n /\ c.row.billed = FALSE
    /\ c.op \in DraftMakers =>
          /\ DraftRow(db, c.row) /\ c.row.id = c.n
          /\ \A x \in db.drafts : MadeAtOnce(x, c.row)

\* A number is of one client.
OneClient(rows) == \A e, f \in rows : e.id = f.id => e.client = f.client

BillInv ==
    /\ BilledIffDrafted
    /\ OneClient(db.entries) /\ OneClient(db.expenses)
    /\ RebilledOnlyByARace
    /\ \A e \in db.entries : BillRow(e) /\ Known(TimeMakers, e.id)
    /\ \A e \in db.expenses : BillRow(e) /\ Known(ExpenseMakers, e.id)
    /\ \A x \in db.drafts : DraftRow(db, x) /\ Known(DraftMakers, x.id)
    /\ \A c \in calls : BillCall(c)

LEMMA BillInit == Init => BillInv
<1> SUFFICES ASSUME Init PROVE BillInv
  OBVIOUS
<1>1. db = Before /\ calls = {} /\ serial = FirstId
  BY DEF Init
<1>2. \A ops, id : id \in Nat /\ id < FirstId => Known(ops, id)
  BY <1>1 DEF Known
<1>3. ASSUME NEW e \in Before.entries PROVE BillRow(e) /\ Known(TimeMakers, e.id)
  <2>1. e \in TimeEntry /\ e.id < FirstId
    BY BeforeAssumption, FirstIdAssumption DEF Holds, MspTable
  <2>2. QED
    BY <1>2, <2>1 DEF TimeEntry, Id, BillRow
<1>4. ASSUME NEW e \in Before.expenses PROVE BillRow(e) /\ Known(ExpenseMakers, e.id)
  <2>1. e \in Expense /\ e.id < FirstId
    BY BeforeAssumption, FirstIdAssumption DEF Holds, MspTable
  <2>2. QED
    BY <1>2, <2>1 DEF Expense, Id, BillRow
<1>5. ASSUME NEW x \in Before.drafts PROVE DraftRow(db, x) /\ Known(DraftMakers, x.id)
  <2>1. x \in BillingDraft /\ x.id < FirstId
    BY BeforeAssumption, FirstIdAssumption DEF Holds, MspTable
  <2>2. /\ {"id", "client", "items", "saw"} \subseteq DOMAIN x
        /\ x.id \in Nat /\ x.saw \subseteq Nat /\ \A i \in x.items : i.of \in Nat
    BY <2>1 DEF BillingDraft, BillingItem, Id
  <2>3. /\ BillsItsClient(db, x)
        /\ \A id \in x.saw : id < FirstId
        /\ \A i \in x.items : i.of < FirstId
    BY <1>1, SoundAssumption DEF Sound
  <2>4. QED
    BY <1>2, <2>1, <2>2, <2>3 DEF DraftRow
<1>6. BilledIffDrafted /\ RebilledOnlyByARace
  BY <1>1, SoundAssumption DEF Sound, BilledIffDrafted, RebilledOnlyByARace
<1>7. OneClient(db.entries) /\ OneClient(db.expenses)
  BY <1>1, SoundAssumption DEF Sound, OneClient
<1>8. QED
  BY <1>1, <1>3, <1>4, <1>5, <1>6, <1>7 DEF BillInv

SameRow(e, f) ==
    {"id", "client", "billed"} \subseteq DOMAIN e
    /\ f.id = e.id /\ f.client = e.client /\ f.billed = e.billed
SameDraft(x, y) ==
    {"id", "client", "items", "saw"} \subseteq DOMAIN x
    /\ y.id = x.id /\ y.client = x.client /\ y.items = x.items /\ y.saw = x.saw

\* A draft stays in order while rows of known numbers keep their clients.
LEMMA DraftRowStays ==
    ASSUME Numbered, serial' \in {serial, serial + 1},
           Renumbers(TimeMakers), Renumbers(ExpenseMakers), Renumbers(DraftMakers),
           \A e \in db'.entries : Known(TimeMakers, e.id) =>
              \E f \in db.entries : f.id = e.id /\ f.client = e.client,
           \A e \in db'.expenses : Known(ExpenseMakers, e.id) =>
              \E f \in db.expenses : f.id = e.id /\ f.client = e.client,
           NEW x, DraftRow(db, x)
    PROVE  DraftRow(db, x)'
<1>1. /\ \A id : Known(TimeMakers, id) => Known(TimeMakers, id)'
      /\ \A id : Known(ExpenseMakers, id) => Known(ExpenseMakers, id)'
      /\ \A id : Known(DraftMakers, id) => Known(DraftMakers, id)'
  BY KnownStays
<1>2. BillsItsClient(db', x)
  BY DEF DraftRow, BillsItsClient
<1>3. QED
  BY <1>1, <1>2 DEF DraftRow

\* What a step that bills nothing has to show: rows are those of before or gone,
\* a draft is gone with the rows of its client, and new calls are in order.
LEMMA BillsLeft ==
    ASSUME Numbered, serial' \in {serial, serial + 1}, BillInv,
           \A e \in db'.entries : \E f \in db.entries : SameRow(e, f),
           \A e \in db'.expenses : \E f \in db.expenses : SameRow(e, f),
           \A y \in db'.drafts : \E x \in db.drafts : SameDraft(y, x),
           \A x \in db.drafts : \/ \E y \in db'.drafts : SameDraft(y, x)
                                \/ \A e \in db'.entries \cup db'.expenses : e.client # x.client,
           Renumbers(TimeMakers), Renumbers(ExpenseMakers), Renumbers(DraftMakers),
           \A e \in calls' \ calls : BillCall(e)
    PROVE  BillInv'
<1>1. /\ \A id : Known(TimeMakers, id) => Known(TimeMakers, id)'
      /\ \A id : Known(ExpenseMakers, id) => Known(ExpenseMakers, id)'
      /\ \A id : Known(DraftMakers, id) => Known(DraftMakers, id)'
  BY KnownStays
<1>2. \A x : DraftRow(db, x) => DraftRow(db, x)'
  BY DraftRowStays DEF SameRow
<1>3. \A x, y : SameDraft(y, x) /\ DraftRow(db, x)' => DraftRow(db, y)'
  BY DEF SameDraft, DraftRow, BillsItsClient
<1>4. \A y \in db'.drafts : DraftRow(db, y)' /\ Known(DraftMakers, y.id)'
  BY <1>1, <1>2, <1>3 DEF BillInv, SameDraft
<1>5. BillsAgree(db'.entries, "time", db'.drafts)
  <2> SUFFICES ASSUME NEW e \in db'.entries
               PROVE  e.billed <=> \E x \in db'.drafts : \E i \in x.items :
                                       i.kind = "time" /\ i.of = e.id
    BY DEF BillsAgree
  <2>1. PICK f \in db.entries : SameRow(e, f)
    OBVIOUS
  <2>2. f.billed <=> \E x \in db.drafts : \E i \in x.items : i.kind = "time" /\ i.of = e.id
    BY <2>1 DEF BillInv, BilledIffDrafted, BillsAgree, SameRow
  <2>3. ASSUME NEW x \in db.drafts, NEW i \in x.items, i.kind = "time", i.of = e.id
        PROVE  \E y \in db'.drafts : y.items = x.items
    BY <2>1, <2>3 DEF BillInv, DraftRow, BillsItsClient, SameRow, SameDraft
  <2>4. QED
    BY <2>1, <2>2, <2>3 DEF SameRow, SameDraft
<1>6. BillsAgree(db'.expenses, "expense", db'.drafts)
  <2> SUFFICES ASSUME NEW e \in db'.expenses
               PROVE  e.billed <=> \E x \in db'.drafts : \E i \in x.items :
                                       i.kind = "expense" /\ i.of = e.id
    BY DEF BillsAgree
  <2>1. PICK f \in db.expenses : SameRow(e, f)
    OBVIOUS
  <2>2. f.billed <=> \E x \in db.drafts : \E i \in x.items : i.kind = "expense" /\ i.of = e.id
    BY <2>1 DEF BillInv, BilledIffDrafted, BillsAgree, SameRow
  <2>3. ASSUME NEW x \in db.drafts, NEW i \in x.items, i.kind = "expense", i.of = e.id
        PROVE  \E y \in db'.drafts : y.items = x.items
    BY <2>1, <2>3 DEF BillInv, DraftRow, BillsItsClient, SameRow, SameDraft
  <2>4. QED
    BY <2>1, <2>2, <2>3 DEF SameRow, SameDraft
<1>7. \A x, y \in db'.drafts : MadeAtOnce(x, y)
  BY DEF BillInv, RebilledOnlyByARace, MadeAtOnce, SameDraft
<1>8. /\ \A e \in db'.entries : BillRow(e) /\ Known(TimeMakers, e.id)'
      /\ \A e \in db'.expenses : BillRow(e) /\ Known(ExpenseMakers, e.id)'
  BY <1>1 DEF BillInv, BillRow, SameRow
<1>9. ASSUME NEW c \in calls' PROVE BillCall(c)'
  <2>1. BillCall(c)
    BY DEF BillInv
  <2>2. \A y \in db'.drafts : (\A x \in db.drafts : MadeAtOnce(x, c.row)) => MadeAtOnce(y, c.row)
    BY DEF MadeAtOnce, SameDraft
  <2>3. QED
    BY <1>2, <2>1, <2>2 DEF BillCall
<1>10. OneClient(db'.entries) /\ OneClient(db'.expenses)
  BY DEF BillInv, OneClient, SameRow
<1>11. QED
  BY <1>4, <1>5, <1>6, <1>7, <1>8, <1>9, <1>10 DEF BillInv, BilledIffDrafted, RebilledOnlyByARace

LEMMA SameItself ==
    ASSUME BillInv
    PROVE  /\ \A e \in db.entries \cup db.expenses : SameRow(e, e)
           /\ \A x \in db.drafts : SameDraft(x, x)
BY DEF BillInv, BillRow, DraftRow, SameRow, SameDraft

\* Steps that leave the tables as they are.
LEMMA BillsSame ==
    ASSUME Numbered, serial' \in {serial, serial + 1}, BillInv,
           db'.entries = db.entries, db'.expenses = db.expenses, db'.drafts = db.drafts,
           Renumbers(TimeMakers), Renumbers(ExpenseMakers), Renumbers(DraftMakers),
           \A e \in calls' \ calls : BillCall(e)
    PROVE  BillInv'
<1>1. /\ \A e \in db.entries \cup db.expenses : SameRow(e, e)
      /\ \A x \in db.drafts : SameDraft(x, x)
  BY SameItself
<1>2. QED
  BY <1>1, BillsLeft

LEMMA BillsOff ==
    ASSUME Numbered, serial' \in {serial, serial + 1}, BillInv, OffBills PROVE BillInv'
<1>1. /\ Renumbers(TimeMakers) /\ Renumbers(ExpenseMakers) /\ Renumbers(DraftMakers)
      /\ \A e \in calls' \ calls : BillCall(e)
  BY DEF OffBills, NoNew, BillOps, Renumbers, TimeMakers, ExpenseMakers, DraftMakers, BillCall
<1>2. QED
  BY <1>1, BillsSame DEF OffBills

LEMMA BillBegins ==
    ASSUME Numbered, serial' \in {serial, serial + 1}, BillInv,
           NEW op, NEW row, Begin(op, row),
           \A c : c.n = serial /\ c.op = op /\ c.row = row => BillCall(c)
    PROVE  BillInv'
<1>1. db' = db /\ \A e \in calls' : e \in calls \/ (e.n = serial /\ e.op = op /\ e.row = row)
  BY BeginOnly
<1>2. \A ops : Renumbers(ops)
  BY <1>1 DEF Renumbers
<1>3. QED
  BY <1>1, <1>2, BillsSame

LEMMA NewEntry ==
    ASSUME Numbered, serial' \in {serial, serial + 1}, BillInv, NEW u, NEW k,
           CreateTimeEntry(u, k) \/ CreateExpense(u, k)
    PROVE  BillInv'
<1>1. ASSUME CreateTimeEntry(u, k)
      PROVE  \E row : Begin("CreateTimeEntry", row) /\ BillRow(row) /\ row.id = serial
                      /\ row.billed = FALSE
  <2>1. PICK t, ticket, billable, day, intervention, minutes :
          Begin("CreateTimeEntry",
                [id |-> serial, client |-> k, tech |-> t.id, ticket |-> ticket,
                 intervention |-> intervention, minutes |-> minutes,
                 billable |-> billable, billed |-> FALSE, rate |-> t.rate,
                 cost |-> TimeEntryCost(minutes, t.rate), day |-> day])
    BY <1>1, ZenonT(60) DEF CreateTimeEntry
  <2>2. PICK row :
          row = [id |-> serial, client |-> k, tech |-> t.id, ticket |-> ticket,
                 intervention |-> intervention, minutes |-> minutes,
                 billable |-> billable, billed |-> FALSE, rate |-> t.rate,
                 cost |-> TimeEntryCost(minutes, t.rate), day |-> day]
    OBVIOUS
  <2>3. BillRow(row) /\ row.id = serial /\ row.billed = FALSE
    BY <2>2 DEF BillRow
  <2>4. QED
    BY <2>1, <2>2, <2>3, Zenon
<1>2. ASSUME CreateExpense(u, k)
      PROVE  \E row : Begin("CreateExpense", row) /\ BillRow(row) /\ row.id = serial
                      /\ row.billed = FALSE
  <2>1. PICK ticket, project, day :
          Begin("CreateExpense", [id |-> serial, client |-> k, ticket |-> ticket,
                                  project |-> project, amount |-> 7, billed |-> FALSE,
                                  day |-> day])
    BY <1>2, Zenon DEF CreateExpense
  <2>2. PICK row : row = [id |-> serial, client |-> k, ticket |-> ticket, project |-> project,
                          amount |-> 7, billed |-> FALSE, day |-> day]
    OBVIOUS
  <2>3. BillRow(row) /\ row.id = serial /\ row.billed = FALSE
    BY <2>2 DEF BillRow
  <2>4. QED
    BY <2>1, <2>2, <2>3, Zenon
<1>3. ASSUME NEW op \in {"CreateTimeEntry", "CreateExpense"}, NEW row, Begin(op, row),
             BillRow(row), row.id = serial, row.billed = FALSE
      PROVE  BillInv'
  <2>1. \A c : c.n = serial /\ c.op = op /\ c.row = row => BillCall(c)
    BY <1>3 DEF BillCall, DraftMakers
  <2>2. QED
    BY <1>3, <2>1, BillBegins
<1>4. QED
  BY <1>1, <1>2, <1>3

\* What a draft is made of when its time entries are read.
LEMMA DraftRead ==
    ASSUME Numbered, serial' \in {serial, serial + 1}, BillInv, NEW u, NEW k,
           GenerateBillingDraft(u, k)
    PROVE  BillInv'
<1>1. PICK from, to :
        Begin("GenerateBillingDraft",
              [id |-> serial, client |-> k, contract |-> None, from |-> from, to |-> to,
               status |-> "draft", total |-> 0,
               items |-> TimeItems(UnbilledTimeEntries(db, k, from, to)),
               saw |-> {x.id : x \in db.drafts}])
  BY Zenon DEF GenerateBillingDraft
<1>2. PICK row :
        row = [id |-> serial, client |-> k, contract |-> None, from |-> from, to |-> to,
               status |-> "draft", total |-> 0,
               items |-> TimeItems(UnbilledTimeEntries(db, k, from, to)),
               saw |-> {x.id : x \in db.drafts}]
  OBVIOUS
<1>3. /\ {"id", "client", "items", "saw"} \subseteq DOMAIN row
      /\ row.id = serial /\ row.client = k /\ row.saw = {x.id : x \in db.drafts}
      /\ row.items = TimeItems(UnbilledTimeEntries(db, k, from, to))
  BY <1>2
<1>4. \A i \in row.items : /\ i.kind = "time"
                           /\ \E e \in db.entries : i.of = e.id /\ e.client = k /\ ~e.billed
  BY <1>3 DEF TimeItems, UnbilledTimeEntries, Unbilled
<1>5. DraftRow(db, row)
  <2>1. BillsItsClient(db, row)
    BY <1>3, <1>4 DEF BillsItsClient, BillInv, OneClient
  <2>2. QED
    BY <1>3, <1>4, <2>1 DEF DraftRow, BillInv
<1>6. ASSUME NEW x \in db.drafts PROVE MadeAtOnce(x, row)
  <2>1. ASSUME NEW i \in x.items \cap row.items, i.kind = "time" PROVE FALSE
    BY <1>4, <2>1 DEF BillInv, BilledIffDrafted, BillsAgree
  <2>2. QED
    BY <2>1 DEF MadeAtOnce
<1>7. \A c : c.n = serial /\ c.op = "GenerateBillingDraft" /\ c.row = row => BillCall(c)
  BY <1>3, <1>5, <1>6 DEF BillCall, TimeMakers, ExpenseMakers
<1>8. QED
  BY <1>1, <1>2, <1>7, BillBegins

\* And when it is priced: the fee, and the expenses of the client.
LEMMA DraftPriced ==
    ASSUME Numbered, BillInv, NEW c \in calls, PriceDraft(c) PROVE BillInv'
<1> DEFINE d == c.row
<1>1. PICK contract :
        LET items == d.items \cup FeeItems(db, contract)
                     \cup ExpenseItems(UnbilledExpenses(db, d.client, d.from, d.to))
        IN  Continue(c, db, On(c, "CreateBillingDraft",
                               [d EXCEPT !.contract = contract, !.items = items,
                                         !.total = DraftTotal(items)]))
  BY Zenon DEF PriceDraft
<1>2. PICK items : items = d.items \cup FeeItems(db, contract)
                           \cup ExpenseItems(UnbilledExpenses(db, d.client, d.from, d.to))
  OBVIOUS
<1>3. PICK row : row = [d EXCEPT !.contract = contract, !.items = items,
                                 !.total = DraftTotal(items)]
  OBVIOUS
<1>4. Continue(c, db, On(c, "CreateBillingDraft", row))
  BY <1>1, <1>2, <1>3, Zenon
<1>5. c.op = "GenerateBillingDraft"
  BY DEF PriceDraft
<1>6. /\ DraftRow(db, d) /\ d.id = c.n
      /\ \A x \in db.drafts : MadeAtOnce(x, d)
  BY <1>5 DEF BillInv, BillCall, DraftMakers
<1>7. /\ {"id", "client", "items", "saw"} \subseteq DOMAIN row
      /\ row.id = d.id /\ row.client = d.client /\ row.saw = d.saw /\ row.items = items
  BY <1>3, <1>6 DEF DraftRow
<1>8. \A i \in items :
          \/ i \in d.items
          \/ i.kind = "fee"
          \/ i.kind = "expense" /\ \E e \in db.expenses : i.of = e.id /\ e.client = d.client
  BY <1>2 DEF FeeItems, ExpenseItems, UnbilledExpenses, Unbilled
<1>9. DraftRow(db, row)
  <2>1. BillsItsClient(db, row)
    <3>1. ASSUME NEW i \in row.items, i.kind = "time", NEW e \in db.entries, e.id = i.of
          PROVE  e.client = row.client
      BY <1>6, <1>7, <1>8, <3>1 DEF DraftRow, BillsItsClient
    <3>2. ASSUME NEW i \in row.items, i.kind = "expense", NEW e \in db.expenses, e.id = i.of
          PROVE  e.client = row.client
      BY <1>6, <1>7, <1>8, <3>2 DEF DraftRow, BillsItsClient, BillInv, OneClient
    <3>3. QED
      BY <3>1, <3>2 DEF BillsItsClient
  <2>2. QED
    BY <1>6, <1>7, <1>8, <2>1 DEF DraftRow, BillInv
<1>10. \A x \in db.drafts : MadeAtOnce(x, row)
  BY <1>6, <1>7, <1>8 DEF MadeAtOnce
<1>11. /\ db' = db
       /\ \A e \in calls' : \/ e \in calls
                            \/ e.n = c.n /\ e.op = "CreateBillingDraft" /\ e.row = row
  BY <1>4, OnOnly DEF Numbered
<1>12. Renumbers(TimeMakers) /\ Renumbers(ExpenseMakers) /\ Renumbers(DraftMakers)
  BY <1>5, <1>11 DEF Renumbers, TimeMakers, ExpenseMakers, DraftMakers
<1>13. \A e \in calls' \ calls : BillCall(e)
  BY <1>6, <1>7, <1>9, <1>10, <1>11 DEF BillCall, TimeMakers, ExpenseMakers
<1>14. serial' = serial
  BY <1>4 DEF Continue
<1>15. QED
  BY <1>11, <1>12, <1>13, <1>14, BillsSame

LEMMA BillsOfOthers ==
    ASSUME Numbered, Tabled, serial' \in {serial, serial + 1}, BillInv, NEW u, NEW k,
           DeleteClient(u, k)
    PROVE  BillInv'
<1>1. db' = DeleteClientRow(db, k) /\ calls' = calls
  BY DeleteClientOff
<1>2. /\ db'.expenses = {e \in db.expenses : e.client # k}
      /\ db'.drafts = {x \in db.drafts : x.client # k}
  BY <1>1 DEF DeleteClientRow, Tabled, Watched, BillTables
<1>3. \A e \in db'.entries : \E f \in db.entries :
          f.client # k /\ (e = f \/ e = [f EXCEPT !.intervention = None])
  BY <1>1 DEF DeleteClientRow
<1>4. \A e \in db'.entries : \E f \in db.entries : SameRow(e, f) /\ e.client # k
  <2> TAKE e \in db'.entries
  <2>1. PICK f \in db.entries :
            f.client # k /\ (e = f \/ e = [f EXCEPT !.intervention = None])
    BY <1>3
  <2>2. BillRow(f)
    BY DEF BillInv
  <2>3. SameRow(e, f)
    BY <2>1, <2>2 DEF BillRow, SameRow
  <2>4. QED
    BY <2>1, <2>3 DEF SameRow
<1>5. /\ \A e \in db.entries \cup db.expenses : SameRow(e, e)
      /\ \A x \in db.drafts : SameDraft(x, x)
  BY SameItself
<1>6. /\ Renumbers(TimeMakers) /\ Renumbers(ExpenseMakers) /\ Renumbers(DraftMakers)
  BY <1>1 DEF Renumbers
<1>7. QED
  BY <1>1, <1>2, <1>4, <1>5, <1>6, BillsLeft

\* The statements that add a row.  Nothing stored or waiting names its number.
LEMMA EntryStored ==
    ASSUME Numbered, Tabled, BillInv, NEW c \in calls,
           \/ c.op = "CreateTimeEntry" /\ Write(c, InsertTimeEntry(db, c.row))
           \/ c.op = "CreateExpense" /\ Write(c, InsertExpense(db, c.row))
    PROVE  BillInv'
<1>1. calls' = calls \ {c} /\ serial' = serial
  BY DEF Write, Continue
<1>2. /\ db'.drafts = db.drafts
      /\ \/ db'.entries = db.entries
         \/ c.op = "CreateTimeEntry" /\ db'.entries = db.entries \cup {c.row}
      /\ \/ db'.expenses = db.expenses
         \/ c.op = "CreateExpense" /\ db'.expenses = db.expenses \cup {c.row}
  <2>1. CASE c.op = "CreateTimeEntry" /\ Write(c, InsertTimeEntry(db, c.row))
    <3>1. db' = InsertTimeEntry(db, c.row)
      BY <2>1, WriteOnly
    <3>2. QED
      BY <2>1, <3>1, Tabled DEF InsertTimeEntry, Insert, Tabled, Watched, BillTables
  <2>2. CASE c.op = "CreateExpense" /\ Write(c, InsertExpense(db, c.row))
    <3>1. db' = InsertExpense(db, c.row)
      BY <2>2, WriteOnly
    <3>2. QED
      BY <2>2, <3>1, Tabled DEF InsertExpense, Insert, Tabled, Watched, BillTables
  <2>3. QED
    BY <2>1, <2>2
<1>3. BillRow(c.row) /\ c.row.id = c.n /\ c.row.billed = FALSE
  BY DEF BillInv, BillCall, TimeMakers, ExpenseMakers
<1>4. /\ c.op = "CreateTimeEntry" => \A id : Known(TimeMakers, id) => id # c.n
      /\ c.op = "CreateExpense" => \A id : Known(ExpenseMakers, id) => id # c.n
  BY DEF Known, TimeMakers, ExpenseMakers
<1>5. \A ops : Renumbers(ops)
  BY <1>1 DEF Renumbers
<1>6. \A ops, id : Known(ops, id) => Known(ops, id)'
  BY <1>5, <1>1, KnownStays
<1>7. \A x : DraftRow(db, x) => DraftRow(db, x)'
  BY <1>1, <1>2, <1>3, <1>4, <1>5, DraftRowStays
<1>8. \A ops : Known(ops, c.n)'
  BY <1>1 DEF Known, Numbered
<1>9. /\ \A e \in db'.entries : BillRow(e) /\ Known(TimeMakers, e.id)'
      /\ \A e \in db'.expenses : BillRow(e) /\ Known(ExpenseMakers, e.id)'
  BY <1>2, <1>3, <1>6, <1>8 DEF BillInv
<1>10. OneClient(db'.entries) /\ OneClient(db'.expenses)
  BY <1>2, <1>3, <1>4 DEF BillInv, OneClient
<1>11. c.op = "CreateTimeEntry" =>
          \A x \in db.drafts : \A i \in x.items : ~(i.kind = "time" /\ i.of = c.n)
  BY <1>4 DEF BillInv, DraftRow
<1>12. c.op = "CreateExpense" =>
          \A x \in db.drafts : \A i \in x.items : ~(i.kind = "expense" /\ i.of = c.n)
  BY <1>4 DEF BillInv, DraftRow
<1>13. BillsAgree(db'.entries, "time", db'.drafts)
  BY <1>2, <1>3, <1>11 DEF BillInv, BilledIffDrafted, BillsAgree
<1>14. BillsAgree(db'.expenses, "expense", db'.drafts)
  BY <1>2, <1>3, <1>12 DEF BillInv, BilledIffDrafted, BillsAgree
<1>15. /\ \A x \in db'.drafts : DraftRow(db, x)' /\ Known(DraftMakers, x.id)'
       /\ \A x, y \in db'.drafts : MadeAtOnce(x, y)
  BY <1>2, <1>6, <1>7 DEF BillInv, RebilledOnlyByARace
<1>16. \A e \in calls' : BillCall(e)'
  BY <1>1, <1>2, <1>7 DEF BillInv, BillCall
<1>17. QED
  BY <1>9, <1>10, <1>13, <1>14, <1>15, <1>16 DEF BillInv, BilledIffDrafted, RebilledOnlyByARace

\* Every row of the new table is one of the old, marked if it is to be.
Marks(new, old, ids) ==
    \A e \in new : \E f \in old :
        /\ BillRow(e) /\ e.id = f.id /\ e.client = f.client
        /\ e.billed = IF f.id \in ids THEN TRUE ELSE f.billed

LEMMA MarkedRows ==
    ASSUME NEW d, NEW t \in DOMAIN d, NEW ids, \A e \in d[t] : BillRow(e)
    PROVE  Marks(SetField(d, t, ids, "billed", TRUE)[t], d[t], ids)
<1>1. SetField(d, t, ids, "billed", TRUE)[t]
        = {IF x.id \in ids THEN [x EXCEPT !["billed"] = TRUE] ELSE x : x \in d[t]}
  BY DEF SetField
<1>2. ASSUME NEW f \in d[t], NEW e, e = IF f.id \in ids THEN [f EXCEPT !["billed"] = TRUE] ELSE f
      PROVE  /\ BillRow(e) /\ e.id = f.id /\ e.client = f.client
             /\ e.billed = IF f.id \in ids THEN TRUE ELSE f.billed
  BY <1>2 DEF BillRow
<1>3. QED
  BY <1>1, <1>2 DEF Marks

LEMMA DraftInsertion ==
    ASSUME NEW d, NEW x, BillTables \subseteq DOMAIN d,
           \A e \in d.entries \cup d.expenses : BillRow(e),
           NEW after, after = InsertBillingDraft(d, x), after # d
    PROVE  /\ after.drafts = d.drafts \cup {x}
           /\ Marks(after.entries, d.entries, Billed(x, "time"))
           /\ Marks(after.expenses, d.expenses, Billed(x, "expense"))
<1> DEFINE one == SetField(d, "entries", Billed(x, "time"), "billed", TRUE)
           two == SetField(one, "expenses", Billed(x, "expense"), "billed", TRUE)
           new == [two EXCEPT !.drafts = @ \cup {x}]
<1>1. after = new
  BY Zenon DEF InsertBillingDraft
<1>2. {"entries", "expenses", "drafts"} \subseteq DOMAIN d
  BY DEF BillTables
<1>3. DOMAIN one = DOMAIN d /\ one.expenses = d.expenses /\ one.drafts = d.drafts
  BY DEF SetField
<1>4. Marks(one.entries, d.entries, Billed(x, "time"))
  BY <1>2, MarkedRows
<1> HIDE DEF one
<1>5. DOMAIN two = DOMAIN one /\ two.entries = one.entries /\ two.drafts = one.drafts
  BY DEF SetField
<1>6. Marks(two.expenses, d.expenses, Billed(x, "expense"))
  BY <1>2, <1>3, MarkedRows
<1> HIDE DEF two
<1>7. /\ after.drafts = d.drafts \cup {x} /\ after.entries = one.entries
      /\ after.expenses = two.expenses
  BY <1>1, <1>2, <1>3, <1>5
<1>8. QED
  BY <1>4, <1>6, <1>7

LEMMA DraftStored ==
    ASSUME Numbered, Tabled, BillInv, NEW c \in calls, c.op = "CreateBillingDraft",
           Write(c, InsertBillingDraft(db, c.row))
    PROVE  BillInv'
<1>1. db' = InsertBillingDraft(db, c.row) /\ calls' = calls \ {c} /\ serial' = serial
  BY WriteOnly DEF Write, Continue
<1>2. \A ops : Renumbers(ops)
  BY <1>1 DEF Renumbers
<1>3. CASE db' = db
  BY <1>1, <1>2, <1>3, BillsSame
<1>4. CASE db' # db
  <2>1. /\ db'.drafts = db.drafts \cup {c.row}
        /\ Marks(db'.entries, db.entries, Billed(c.row, "time"))
        /\ Marks(db'.expenses, db.expenses, Billed(c.row, "expense"))
    <3>1. BillTables \subseteq DOMAIN db /\ \A e \in db.entries \cup db.expenses : BillRow(e)
      BY DEF Tabled, Watched, BillInv
    <3>2. QED
      BY <1>1, <1>4, <3>1, DraftInsertion
  <2>2. /\ DraftRow(db, c.row) /\ c.row.id = c.n
        /\ \A x \in db.drafts : MadeAtOnce(x, c.row)
    BY DEF BillInv, BillCall, DraftMakers
  <2>3. \A ops, id : Known(ops, id) => Known(ops, id)'
    BY <1>1, <1>2, KnownStays
  <2>4. /\ \A e \in db'.entries : \E f \in db.entries : f.id = e.id /\ f.client = e.client
        /\ \A e \in db'.expenses : \E f \in db.expenses : f.id = e.id /\ f.client = e.client
    BY <2>1 DEF Marks
  <2>5. \A x : DraftRow(db, x) => DraftRow(db, x)'
    BY <1>1, <1>2, <2>4, DraftRowStays
  <2>6. Known(DraftMakers, c.row.id)'
    BY <1>1, <2>2 DEF Known, Numbered
  <2>7. \A x \in db'.drafts : DraftRow(db, x)' /\ Known(DraftMakers, x.id)'
    BY <2>1, <2>2, <2>3, <2>5, <2>6 DEF BillInv
  <2>8. /\ \A e \in db'.entries : BillRow(e) /\ Known(TimeMakers, e.id)'
        /\ \A e \in db'.expenses : BillRow(e) /\ Known(ExpenseMakers, e.id)'
    BY <2>1, <2>3 DEF BillInv, Marks
  <2>9. OneClient(db'.entries) /\ OneClient(db'.expenses)
    BY <2>4 DEF BillInv, OneClient
  <2>10. ASSUME NEW kind, NEW old, NEW new, Marks(new, old, Billed(c.row, kind)),
                BillsAgree(old, kind, db.drafts)
         PROVE  BillsAgree(new, kind, db.drafts \cup {c.row})
    <3> SUFFICES ASSUME NEW e \in new
                 PROVE  e.billed <=> \E x \in db.drafts \cup {c.row} : \E i \in x.items :
                                         i.kind = kind /\ i.of = e.id
      BY DEF BillsAgree
    <3>1. PICK f \in old :
              /\ e.id = f.id
              /\ e.billed = IF f.id \in Billed(c.row, kind) THEN TRUE ELSE f.billed
      BY <2>10 DEF Marks
    <3>2. f.billed <=> \E x \in db.drafts : \E i \in x.items : i.kind = kind /\ i.of = e.id
      BY <2>10, <3>1 DEF BillsAgree
    <3>3. e.id \in Billed(c.row, kind) <=> \E i \in c.row.items : i.kind = kind /\ i.of = e.id
      BY DEF Billed
    <3>4. CASE e.id \in Billed(c.row, kind)
      BY <3>1, <3>3, <3>4
    <3>5. CASE e.id \notin Billed(c.row, kind)
      BY <3>1, <3>2, <3>3, <3>5
    <3>6. QED
      BY <3>4, <3>5
  <2>11. /\ BillsAgree(db'.entries, "time", db'.drafts)
         /\ BillsAgree(db'.expenses, "expense", db'.drafts)
    BY <2>1, <2>10 DEF BillInv, BilledIffDrafted
  <2>12. \A x, y \in db'.drafts : MadeAtOnce(x, y)
    <3>1. \A x : MadeAtOnce(x, c.row) => MadeAtOnce(c.row, x)
      BY DEF MadeAtOnce
    <3>2. MadeAtOnce(c.row, c.row)
      BY DEF MadeAtOnce
    <3>3. QED
      BY <2>1, <2>2, <3>1, <3>2 DEF BillInv, RebilledOnlyByARace
  <2>13. ASSUME NEW e \in calls' PROVE BillCall(e)'
    <3>1. e \in calls /\ e # c /\ BillCall(e)
      BY <1>1 DEF BillInv
    <3>2. ASSUME e.op \in DraftMakers PROVE MadeAtOnce(c.row, e.row)
      <4>1. e.row.id = e.n /\ e.row.id # c.n
        BY <3>1, <3>2 DEF BillCall, Numbered
      <4>2. c.n \notin e.row.saw /\ e.n \notin c.row.saw
        BY <2>2, <3>1, <3>2 DEF BillCall, DraftRow, Known, DraftMakers
      <4>3. QED
        BY <2>2, <4>1, <4>2 DEF MadeAtOnce
    <3>3. QED
      BY <2>1, <2>5, <3>1, <3>2 DEF BillCall
  <2>14. QED
    BY <2>7, <2>8, <2>9, <2>11, <2>12, <2>13 DEF BillInv, BilledIffDrafted, RebilledOnlyByARace
<1>5. QED
  BY <1>3, <1>4

LEMMA DraftMoved ==
    ASSUME Numbered, Tabled, BillInv, NEW c \in calls, c.op = "UpdateBillingDraftStatus",
           Write(c, UpdateBillingDraftRow(db, c.row))
    PROVE  BillInv'
<1>1. db' = UpdateBillingDraftRow(db, c.row) /\ calls' = calls \ {c} /\ serial' = serial
  BY WriteOnly DEF Write, Continue
<1>2. /\ db'.entries = db.entries /\ db'.expenses = db.expenses
      /\ db'.drafts = {IF x.id \in {c.row.id} THEN [x EXCEPT !["status"] = c.row.status] ELSE x
                         : x \in db.drafts}
  BY <1>1 DEF UpdateBillingDraftRow, SetField, Tabled, Watched, BillTables
<1>3. \A x \in db.drafts : \A y :
          y = x \/ y = [x EXCEPT !["status"] = c.row.status] => SameDraft(x, y) /\ SameDraft(y, x)
  BY DEF BillInv, DraftRow, SameDraft
<1>4. /\ \A y \in db'.drafts : \E x \in db.drafts : SameDraft(y, x)
      /\ \A x \in db.drafts : \E y \in db'.drafts : SameDraft(y, x)
  BY <1>2, <1>3
<1>5. \A ops : Renumbers(ops)
  BY <1>1 DEF Renumbers
<1>6. \A e \in db.entries \cup db.expenses : SameRow(e, e)
  BY SameItself
<1>7. QED
  BY <1>1, <1>2, <1>4, <1>5, <1>6, BillsLeft

LEMMA BillNext ==
    ASSUME Numbered, Tabled, serial' \in {serial, serial + 1}, BillInv, [Next]_vars
    PROVE  BillInv'
<1>1. CASE OffBills
  BY <1>1, BillsOff
<1>2. CASE MspCore
  <2>1. CASE Delivered
    BY <1>1, <2>1, DeliveredOff DEF DoesAlerts
  <2>2. ASSUME NEW u, MspWork(u) PROVE BillInv'
    BY <1>1, <2>2, MspWorkOff, NewEntry, DraftRead, BillsOfOthers, Zenon
    DEF DoesAlerts, DoesSessions
  <2>3. ASSUME NEW c \in calls, MspStatement(c) PROVE BillInv'
    BY <1>1, <2>3, MspStatementsOff, DraftPriced, EntryStored, DraftStored, DraftMoved, Zenon
    DEF DoesAlerts, DoesSessions
  <2>4. QED
    BY <1>2, <2>1, <2>2, <2>3 DEF MspCore
<1>3. CASE Quiet
  BY <1>1, <1>3, QuietOff DEF Off, OffMsp
<1>4. CASE CxCore \/ ItsmCore
  BY <1>1, <1>4, CxOff, ItsmOff DEF OffMsp
<1>5. QED
  BY <1>2, <1>3, <1>4, Steps

LEMMA BillsAlways == Spec => []BillInv
<1>1. Init => Numbered /\ Tabled /\ BillInv
  BY NumberedInit, TabledInit, BillInit
<1>2. Numbered /\ Tabled /\ BillInv /\ [Next]_vars => (Numbered /\ Tabled /\ BillInv)'
  BY NumberedNext, TabledNext, BillNext
<1>3. QED
  BY <1>1, <1>2, PTL DEF Spec

\* A row is marked as billed exactly when a draft holds an item for it
\* (GenerateBillingDraft of the MSP service and the transaction of
\* CreateBillingDraft): whatever is entered, billed again or deleted between the
\* statements of a draft.
THEOREM MoneyAgrees == Spec => []BilledIffDrafted
<1>1. BillInv => BilledIffDrafted
  BY DEF BillInv
<1>2. QED
  BY <1>1, BillsAlways, PTL

\* Two drafts bill the same time only if neither was stored when the other read
\* its entries: for any number of drafts, clients and periods.
THEOREM OnlyRacesRebill == Spec => []RebilledOnlyByARace
<1>1. BillInv => RebilledOnlyByARace
  BY DEF BillInv
<1>2. QED
  BY <1>1, BillsAlways, PTL

(***************************************************************************)
(* Customer service.  What is written back of a conversation agrees with   *)
(* the one that is there, while it is there: it has its customer, and a    *)
(* first response that the customer can read.  One that is gone never      *)
(* comes back.                                                             *)
(***************************************************************************)
Openers == {"CreateConversation", "Ingest-sender", "Ingest-thread", "Ingest-open"}

ConversationRow(v) ==
    {"id", "customer", "thread", "status", "answered", "ended"} \subseteq DOMAIN v

Fits(w) ==
    /\ ConversationRow(w) /\ Known(Openers, w.id)
    /\ \A v \in db.conversations : v.id = w.id =>
          v.customer = w.customer /\ (w.answered => HasAnswer(db, w.id))

Earns(s) ==
    /\ Known(Openers, s.conversation)
    /\ \A v \in db.conversations : v.id = s.conversation => v.customer = s.customer /\ v.ended

CareCall(c) ==
    /\ c.op = "CreateConversation" =>
          /\ ConversationRow(c.row) /\ c.row.id = c.n
          /\ c.row.status \notin Over /\ c.row.answered = FALSE
    /\ c.op = "UpdateConversation" => Fits(c.row)
    /\ c.op \in MessageOps => Fits(c.row.was) /\ c.row.message.conversation = c.row.was.id
    /\ c.op = "MoveConversation" /\ c.row.message.sender = "agent" =>
          \A v \in db.conversations : v.id = c.row.was.id => HasAnswer(db, v.id)
    /\ c.op \in {"Ingest-sender", "Ingest-thread"} => "was" \in DOMAIN c.row
    /\ c.op = "Ingest-reopen" => Fits(c.row.was)
    /\ c.op = "CreateSurvey" => Earns(c.row)

CareRows ==
    /\ \A v, w \in db.conversations : v.id = w.id => v = w
    /\ \A v \in db.conversations :
          /\ ConversationRow(v) /\ Known(Openers, v.id)
          /\ v.status \in Over => v.ended
          /\ v.answered => HasAnswer(db, v.id)
    /\ SurveysEarned(db)

CareInv == CareRows /\ \A c \in calls : CareCall(c)

LEMMA CareInit == Init => CareInv
<1> SUFFICES ASSUME Init PROVE CareInv
  OBVIOUS
<1>1. db = Before /\ calls = {} /\ serial = FirstId
  BY DEF Init
<1>2. ASSUME NEW v \in Before.conversations PROVE ConversationRow(v) /\ Known(Openers, v.id)
  <2>1. v \in Conversation /\ v.id < FirstId
    BY BeforeAssumption, FirstIdAssumption DEF Holds, CxTable
  <2>2. QED
    BY <1>1, <2>1 DEF Conversation, Id, ConversationRow, Known
<1>3. QED
  BY <1>1, <1>2, SoundAssumption DEF Sound, CareInv, CareRows

\* A row of a known number was there before, with what matters of it.
Follows ==
    \A w \in db'.conversations : Known(Openers, w.id) =>
        \E v \in db.conversations :
            /\ v.id = w.id /\ v.customer = w.customer
            /\ v.ended => w.ended
            /\ HasAnswer(db, v.id) => HasAnswer(db', v.id)

LEMMA FitsStays ==
    ASSUME Numbered, serial' \in {serial, serial + 1}, Renumbers(Openers), Follows
    PROVE  /\ \A w : Fits(w) => Fits(w)'
           /\ \A s : Earns(s) => Earns(s)'
<1>1. \A id : Known(Openers, id) => Known(Openers, id)'
  BY KnownStays
<1>2. \A w : Fits(w) => Fits(w)'
  BY <1>1 DEF Follows, Fits
<1>3. \A s : Earns(s) => Earns(s)'
  BY <1>1 DEF Follows, Earns
<1>4. QED
  BY <1>2, <1>3

LEMMA CareLeft ==
    ASSUME Numbered, serial' \in {serial, serial + 1}, CareInv, Renumbers(Openers), Follows,
           CareRows', \A e \in calls' \ calls : CareCall(e) \/ CareCall(e)'
    PROVE  CareInv'
<1>1. ASSUME NEW c, CareCall(c) PROVE CareCall(c)'
  <2>1. /\ \A w : Fits(w) => Fits(w)'
        /\ \A s : Earns(s) => Earns(s)'
    BY FitsStays
  <2>2. ASSUME c.op = "MoveConversation", c.row.message.sender = "agent",
               NEW w \in db'.conversations, w.id = c.row.was.id
        PROVE  HasAnswer(db', w.id)
    <3>1. Known(Openers, w.id)
      BY <1>1, <2>2 DEF CareCall, MessageOps, Fits
    <3>2. QED
      BY <1>1, <2>2, <3>1 DEF CareCall, Follows
  <2>3. QED
    BY <1>1, <2>1, <2>2 DEF CareCall
<1>2. QED
  BY <1>1 DEF CareInv

\* Steps that leave conversations and surveys, and may add messages.
LEMMA CareRowsSame ==
    ASSUME Numbered, serial' \in {serial, serial + 1}, CareRows, Renumbers(Openers),
           db'.conversations = db.conversations, db'.surveys = db.surveys,
           db.messages \subseteq db'.messages
    PROVE  Follows /\ CareRows'
<1>1. \A id : Known(Openers, id) => Known(Openers, id)'
  BY KnownStays
<1>2. \A id : HasAnswer(db, id) => HasAnswer(db', id)
  BY DEF HasAnswer
<1>3. Follows
  BY <1>2 DEF Follows
<1>4. SurveysEarned(db')
  BY DEF CareRows, SurveysEarned
<1>5. QED
  BY <1>1, <1>2, <1>3, <1>4 DEF CareRows

LEMMA CareOff ==
    ASSUME Numbered, serial' \in {serial, serial + 1}, CareInv, OffCare PROVE CareInv'
<1>1. Renumbers(Openers)
  BY DEF OffCare, NoNew, Renumbers, Openers, CareOps, Ingesting
<1>2. \A e \in calls' \ calls : CareCall(e)
  BY DEF OffCare, NoNew, CareCall, CareOps, MessageOps, Ingesting
<1>3. QED
  BY <1>1, <1>2, CareLeft, CareRowsSame DEF OffCare, CareInv

LEMMA CareCallBegins ==
    ASSUME Numbered, serial' \in {serial, serial + 1}, CareInv, NEW op, NEW row, Begin(op, row),
           \A c : c.n = serial /\ c.op = op /\ c.row = row => CareCall(c)
    PROVE  CareInv'
<1>1. db' = db /\ \A e \in calls' : e \in calls \/ (e.n = serial /\ e.op = op /\ e.row = row)
  BY BeginOnly
<1>2. Renumbers(Openers)
  BY <1>1 DEF Renumbers
<1>3. QED
  BY <1>1, <1>2, CareLeft, CareRowsSame DEF CareInv

\* A conversation fits as it is read, and as it is changed after that.
LEMMA ReadFits == ASSUME CareInv, NEW v \in db.conversations PROVE Fits(v)
BY DEF CareInv, CareRows, Fits

LEMMA ChangedFits ==
    ASSUME NEW v, Fits(v), NEW w, DOMAIN w = DOMAIN v, w.id = v.id, w.customer = v.customer,
           w.answered => v.answered
    PROVE  Fits(w)
BY DEF Fits, ConversationRow

LEMMA ConversationBegins ==
    ASSUME Numbered, serial' \in {serial, serial + 1}, CareInv, NEW w, Fits(w),
           Begin("UpdateConversation", w)
    PROVE  CareInv'
<1>1. \A c : c.n = serial /\ c.op = "UpdateConversation" /\ c.row = w => CareCall(c)
  BY DEF CareCall, MessageOps
<1>2. QED
  BY <1>1, CareCallBegins

LEMMA MessageBegins ==
    ASSUME Numbered, serial' \in {serial, serial + 1}, CareInv, NEW u, AddMessage(u)
    PROVE  CareInv'
<1>1. PICK v, sender, internal, body :
        /\ v \in db.conversations
        /\ Begin("AddMessage", [message |-> MessageFrom(u, serial, v.id, sender, internal),
                                was |-> v, body |-> body])
  BY Zenon DEF AddMessage
<1>2. MessageFrom(u, serial, v.id, sender, internal).conversation = v.id
  <2>1. PICK from, b :
            /\ from = IF Role[u] \notin Staff THEN "customer"
                      ELSE IF sender = "" THEN "agent" ELSE sender
            /\ b = (internal /\ Role[u] \in Staff)
    OBVIOUS
  <2>2. MessageFrom(u, serial, v.id, sender, internal)
          = [id |-> serial, conversation |-> v.id, external |-> "", sender |-> from,
             internal |-> b]
    BY <2>1, Zenon DEF MessageFrom
  <2>3. PICK m : m = [id |-> serial, conversation |-> v.id, external |-> "", sender |-> from,
                      internal |-> b]
    OBVIOUS
  <2>4. m.conversation = v.id
    BY <2>3
  <2>5. QED
    BY <2>2, <2>3, <2>4, Zenon
<1>3. PICK m : m = MessageFrom(u, serial, v.id, sender, internal)
  OBVIOUS
<1>4. PICK row : row = [message |-> m, was |-> v, body |-> body]
  OBVIOUS
<1>5. row.was = v /\ row.message = m
  BY <1>4
<1>6. Fits(row.was) /\ row.message.conversation = row.was.id
  BY <1>1, <1>2, <1>3, <1>5, ReadFits
<1>7. \A c : c.n = serial /\ c.op = "AddMessage" /\ c.row = row => CareCall(c)
  BY <1>6 DEF CareCall, MessageOps
<1>8. Begin("AddMessage", row)
  BY <1>1, <1>3, <1>4, Zenon
<1>9. QED
  BY <1>7, <1>8, CareCallBegins

LEMMA SurveyBegins ==
    ASSUME Numbered, serial' \in {serial, serial + 1}, CareInv, NEW u, CreateSurvey(u)
    PROVE  CareInv'
<1>1. PICK v, rating :
        /\ v \in db.conversations /\ v.status \in Over
        /\ Begin("CreateSurvey", [id |-> serial, conversation |-> v.id,
                                  customer |-> v.customer, rating |-> rating])
  BY Zenon DEF CreateSurvey, SurveyAccepted
<1>2. PICK row : row = [id |-> serial, conversation |-> v.id, customer |-> v.customer,
                        rating |-> rating]
  OBVIOUS
<1>3. row.conversation = v.id /\ row.customer = v.customer
  BY <1>2
<1>4. Earns(row)
  BY <1>1, <1>3 DEF CareInv, CareRows, Earns
<1>5. \A c : c.n = serial /\ c.op = "CreateSurvey" /\ c.row = row => CareCall(c)
  BY <1>4 DEF CareCall, MessageOps
<1>6. QED
  BY <1>1, <1>2, <1>5, CareCallBegins

LEMMA OpenedRow ==
    ASSUME NEW c, ConversationRow(c), NEW d, NEW o \in Opened(d, c)
    PROVE  /\ DOMAIN o = DOMAIN c /\ o.id = c.id /\ o.answered = c.answered
           /\ o.status \in {c.status, "in_progress"}
<1>1. PICK p : p = ApplySLA(c, d.policies)
  OBVIOUS
<1>2. /\ DOMAIN p = DOMAIN c /\ p.id = c.id /\ p.answered = c.answered /\ p.status = c.status
  BY <1>1 DEF ApplySLA
<1>3. \/ o = p
      \/ \E r : o = [p EXCEPT !.assigned = r.assignee, !.status = "in_progress"]
  BY <1>1 DEF Opened
<1>4. QED
  BY <1>2, <1>3 DEF ConversationRow

LEMMA OpeningBegins ==
    ASSUME Numbered, serial' \in {serial, serial + 1}, CareInv, NEW u, NEW k,
           CreateConversation(u, k)
    PROVE  CareInv'
<1>1. PICK channel, priority, thread :
        \E o \in Opened(db, [id |-> serial, customer |-> k, channel |-> channel, thread |-> thread,
                             status |-> "open", priority |-> priority, assigned |-> None,
                             by |-> u, sla |-> 0, answered |-> FALSE, escalated |-> FALSE,
                             ended |-> FALSE]) :
            Begin("CreateConversation", o)
  BY Zenon DEF CreateConversation
<1>2. PICK new : new = [id |-> serial, customer |-> k, channel |-> channel, thread |-> thread,
                        status |-> "open", priority |-> priority, assigned |-> None,
                        by |-> u, sla |-> 0, answered |-> FALSE, escalated |-> FALSE,
                        ended |-> FALSE]
  OBVIOUS
<1>3. PICK o \in Opened(db, new) : Begin("CreateConversation", o)
  BY <1>1, <1>2, Zenon
<1>4. /\ ConversationRow(new) /\ new.id = serial /\ new.status = "open" /\ new.answered = FALSE
  BY <1>2 DEF ConversationRow
<1>5. /\ ConversationRow(o) /\ o.id = serial /\ o.answered = FALSE
      /\ o.status \in {"open", "in_progress"}
  BY <1>4, OpenedRow DEF ConversationRow
<1>6. \A c : c.n = serial /\ c.op = "CreateConversation" /\ c.row = o => CareCall(c)
  BY <1>5 DEF CareCall, MessageOps, Over
<1>7. QED
  BY <1>3, <1>6, CareCallBegins

LEMMA MailBegins ==
    ASSUME Numbered, serial' \in {serial, serial + 1}, CareInv, NEW mail, Received(mail)
    PROVE  CareInv'
<1>1. PICK row : row = [mail |-> mail, customer |-> None, was |-> None]
  OBVIOUS
<1>2. "was" \in DOMAIN row
  BY <1>1
<1>3. \/ Begin("Ingest-sender", row)
      \/ \E k : Begin("Ingest-thread", [row EXCEPT !.customer = k.id])
  BY <1>1, Zenon DEF Received
<1>4. PICK op, new : /\ op \in {"Ingest-sender", "Ingest-thread"}
                      /\ Begin(op, new) /\ "was" \in DOMAIN new
  <2>1. CASE Begin("Ingest-sender", row)
    BY <1>2, <2>1
  <2>2. ASSUME NEW k, Begin("Ingest-thread", [row EXCEPT !.customer = k.id])
        PROVE  \E new : Begin("Ingest-thread", new) /\ "was" \in DOMAIN new
    <3>1. "was" \in DOMAIN [row EXCEPT !.customer = k.id]
      BY <1>2
    <3>2. QED
      BY <2>2, <3>1, Zenon
  <2>3. QED
    BY <1>3, <2>1, <2>2
<1>5. \A c : c.n = serial /\ c.op = op /\ c.row = new => CareCall(c)
  BY <1>4 DEF CareCall, MessageOps
<1>6. QED
  BY <1>4, <1>5, CareCallBegins

LEMMA CustomerGone ==
    ASSUME Numbered, Tabled, serial' \in {serial, serial + 1}, CareInv, NEW u, NEW k,
           DeleteCustomer(u, k)
    PROVE  CareInv'
<1>1. db' = DeleteCustomerRow(db, k) /\ calls' = calls
  BY AtOnceOnly DEF DeleteCustomer
<1> DEFINE gone == {x.id : x \in {y \in db.conversations : y.customer = k}}
<1>2. /\ db'.conversations = {x \in db.conversations : x.customer # k}
      /\ db'.surveys = {x \in db.surveys : x.customer # k}
      /\ db'.messages = {x \in db.messages : x.conversation \notin gone}
  BY <1>1 DEF DeleteCustomerRow, Remove, Tabled, Watched, CareTables
<1>3. \A v \in db'.conversations : v \in db.conversations /\ v.id \notin gone
  BY <1>2 DEF CareInv, CareRows
<1>4. \A v \in db'.conversations : HasAnswer(db, v.id) => HasAnswer(db', v.id)
  BY <1>2, <1>3 DEF HasAnswer
<1>5. Renumbers(Openers)
  BY <1>1 DEF Renumbers
<1>6. \A id : Known(Openers, id) => Known(Openers, id)'
  BY <1>5, KnownStays
<1>7. SurveysEarned(db')
  BY <1>2 DEF CareInv, CareRows, SurveysEarned
<1>8. CareRows'
  BY <1>3, <1>4, <1>6, <1>7 DEF CareInv, CareRows
<1>9. Follows
  BY <1>3, <1>4 DEF Follows
<1>10. QED
  BY <1>1, <1>5, <1>8, <1>9, CareLeft

LEMMA CareWork ==
    ASSUME Numbered, Tabled, serial' \in {serial, serial + 1}, CareInv, NEW u, CxWork(u)
    PROVE  CareInv'
<1>1. ASSUME UpdateConversationStatus(u) PROVE CareInv'
  <2>1. PICK v, next : /\ v \in db.conversations
                       /\ Begin("UpdateConversation", [v EXCEPT !.status = next])
    BY <1>1, Zenon DEF UpdateConversationStatus
  <2>2. PICK w : w = [v EXCEPT !.status = next]
    OBVIOUS
  <2>3. DOMAIN w = DOMAIN v /\ w.id = v.id /\ w.customer = v.customer /\ w.answered = v.answered
    BY <2>2
  <2>4. Fits(w)
    BY <2>1, <2>3, ReadFits, ChangedFits
  <2>5. QED
    BY <2>1, <2>2, <2>4, ConversationBegins
<1>2. ASSUME EscalateConversation(u) PROVE CareInv'
  <2>1. PICK v \in db.conversations : Begin("UpdateConversation", Escalated(v))
    BY <1>2, Zenon DEF EscalateConversation
  <2>2. PICK w : w = Escalated(v)
    OBVIOUS
  <2>3. DOMAIN w = DOMAIN v /\ w.id = v.id /\ w.customer = v.customer /\ w.answered = v.answered
    BY <2>2 DEF Escalated
  <2>4. Fits(w)
    BY <2>3, ReadFits, ChangedFits
  <2>5. QED
    BY <2>1, <2>2, <2>4, ConversationBegins
<1>3. ASSUME CreateCustomer(u) PROVE CareInv'
  <2>1. PICK x : db' = InsertCustomer(db, x) /\ calls' = calls
    BY <1>3, AtOnceOnly, Zenon DEF CreateCustomer
  <2>2. /\ db'.conversations = db.conversations /\ db'.surveys = db.surveys
        /\ db'.messages = db.messages
    BY <2>1 DEF InsertCustomer, Insert
  <2>3. Renumbers(Openers)
    BY <2>1 DEF Renumbers
  <2>4. QED
    BY <2>1, <2>2, <2>3, CareRowsSame, CareLeft DEF CareInv
<1>4. QED
  BY <1>1, <1>2, <1>3, MessageBegins, SurveyBegins, OpeningBegins, CustomerGone, Zenon DEF CxWork

\* The UPDATE of a conversation with a row that fits.
LEMMA ConversationPut ==
    ASSUME Tabled, CareInv, NEW w, Fits(w), Updates(db, w), db' = UpdateConversationRow(db, w)
    PROVE  /\ db'.surveys = db.surveys /\ db'.messages = db.messages
           /\ \E old \in db.conversations : \E z :
                /\ ConversationRow(z) /\ z.id = w.id /\ z.customer = w.customer
                /\ z.status = w.status /\ z.answered = w.answered
                /\ old.id = w.id /\ (old.ended \/ w.status \in Over => z.ended)
                /\ db'.conversations = {IF x.id = z.id THEN z ELSE x : x \in db.conversations}
<1>1. PICK old : old = Row(db, "conversations", w.id)
  OBVIOUS
<1>2. old \in db.conversations /\ old.id = w.id
  BY <1>1 DEF Updates, Has, Row
<1>3. PICK ended : ended = (old.ended \/ w.status \in Over)
  OBVIOUS
<1>4. PICK z : z = [w EXCEPT !.ended = ended]
  OBVIOUS
<1>5. db' = Put(db, "conversations", z)
  BY <1>1, <1>3, <1>4, Zenon DEF UpdateConversationRow
<1>6. /\ ConversationRow(z) /\ z.id = w.id /\ z.customer = w.customer
      /\ z.status = w.status /\ z.answered = w.answered /\ z.ended = ended
  BY <1>4 DEF Fits, ConversationRow
<1>7. /\ db'.surveys = db.surveys /\ db'.messages = db.messages
      /\ db'.conversations = {IF x.id = z.id THEN z ELSE x : x \in db.conversations}
  BY <1>5 DEF Put, Tabled, Watched, CareTables
<1>8. old.ended \/ w.status \in Over => z.ended
  BY <1>3, <1>6
<1>9. QED
  BY <1>2, <1>6, <1>7, <1>8, Zenon

LEMMA ConversationWritten ==
    ASSUME Numbered, Tabled, serial' \in {serial, serial + 1}, CareInv, NEW w, Fits(w),
           db' = UpdateConversationRow(db, w), Renumbers(Openers),
           \A e \in calls' \ calls : CareCall(e)
    PROVE  CareInv'
<1>1. CASE ~Updates(db, w)
  <2>1. db' = db
    BY <1>1 DEF UpdateConversationRow
  <2>2. QED
    BY <2>1, CareLeft, CareRowsSame DEF CareInv
<1>2. CASE Updates(db, w)
  <2>1. db'.surveys = db.surveys /\ db'.messages = db.messages
    BY <1>2, ConversationPut
  <2>2. PICK old, z :
          /\ old \in db.conversations
          /\ ConversationRow(z) /\ z.id = w.id /\ z.customer = w.customer
          /\ z.status = w.status /\ z.answered = w.answered
          /\ old.id = w.id /\ (old.ended \/ w.status \in Over => z.ended)
          /\ db'.conversations = {IF x.id = z.id THEN z ELSE x : x \in db.conversations}
    BY <1>2, ConversationPut
  <2>3. \A id : HasAnswer(db', id) <=> HasAnswer(db, id)
    BY <2>1 DEF HasAnswer
  <2>4. \A id : Known(Openers, id) => Known(Openers, id)'
    BY KnownStays
  <2>5. \A x \in db'.conversations : x = z \/ (x \in db.conversations /\ x.id # z.id)
    BY <2>2
  <2>6. /\ old.customer = z.customer
        /\ z.answered => HasAnswer(db, z.id)
    BY <2>2 DEF Fits
  <2>7. Follows
    BY <2>2, <2>3, <2>5, <2>6 DEF Follows
  <2>8. SurveysEarned(db')
    <3>1. ASSUME NEW v \in db.conversations, v.ended
          PROVE  \E x \in db'.conversations : x.id = v.id /\ x.customer = v.customer /\ x.ended
      <4>1. CASE v.id = z.id
        <5>1. v = old
          BY <2>2, <4>1 DEF CareInv, CareRows
        <5>2. z \in db'.conversations
          BY <2>2
        <5>3. QED
          BY <2>2, <2>6, <3>1, <5>1, <5>2
      <4>2. CASE v.id # z.id
        BY <2>2, <3>1, <4>2
      <4>3. QED
        BY <4>1, <4>2
    <3>2. QED
      BY <2>1, <3>1 DEF CareInv, CareRows, SurveysEarned
  <2>9. Known(Openers, z.id)
    BY <2>2 DEF Fits
  <2>10. CareRows'
    BY <2>2, <2>3, <2>4, <2>5, <2>6, <2>8, <2>9 DEF CareInv, CareRows
  <2>11. QED
    BY <2>7, <2>10, CareLeft
<1>3. QED
  BY <1>1, <1>2

\* The INSERT of a conversation whose number nothing knows.
LEMMA ConversationOpened ==
    ASSUME Numbered, Tabled, serial' = serial, CareInv, NEW c \in calls, c.op \in Openers,
           NEW v, ConversationRow(v), v.id = c.n, v.status \notin Over, v.answered = FALSE,
           db' = InsertConversation(db, v), Renumbers(Openers),
           \A e \in calls' : e.n = c.n => e.op \notin Openers,
           \A e \in calls' \ calls : CareCall(e)
    PROVE  CareInv'
<1>1. CASE db' = db
  BY <1>1, CareLeft, CareRowsSame DEF CareInv
<1>2. CASE db' # db
  <2>1. /\ db'.conversations = db.conversations \cup {v}
        /\ db'.surveys = db.surveys /\ db'.messages = db.messages
    BY <1>2 DEF InsertConversation, Insert, Tabled, Watched, CareTables
  <2>2. \A id : HasAnswer(db', id) <=> HasAnswer(db, id)
    BY <2>1 DEF HasAnswer
  <2>3. \A id : Known(Openers, id) => Known(Openers, id)' /\ id # c.n
    BY KnownStays DEF Known
  <2>4. Known(Openers, v.id)'
    BY DEF Known, Numbered
  <2>5. \A x \in db.conversations : x.id # v.id
    BY <2>3 DEF CareInv, CareRows
  <2>6. Follows
    BY <2>1, <2>2, <2>3 DEF Follows
  <2>7. SurveysEarned(db')
    BY <2>1 DEF CareInv, CareRows, SurveysEarned
  <2>8. CareRows'
    BY <2>1, <2>2, <2>3, <2>4, <2>5, <2>7 DEF CareInv, CareRows
  <2>9. QED
    BY <2>6, <2>8, CareLeft
<1>3. QED
  BY <1>1, <1>2

LEMMA SurveyStored ==
    ASSUME Numbered, Tabled, CareInv, NEW c \in calls, c.op = "CreateSurvey",
           Write(c, InsertSurvey(db, c.row))
    PROVE  CareInv'
<1>1. db' = InsertSurvey(db, c.row) /\ calls' = calls \ {c} /\ serial' = serial
  BY WriteOnly DEF Write, Continue
<1>2. Renumbers(Openers)
  BY <1>1 DEF Renumbers
<1>3. /\ db'.conversations = db.conversations /\ db'.messages = db.messages
      /\ \/ db'.surveys = db.surveys
         \/ /\ db'.surveys = db.surveys \cup {c.row}
            /\ Has(db, "conversations", c.row.conversation)
            /\ \A x \in db.surveys : x.conversation # c.row.conversation
  BY <1>1 DEF InsertSurvey, Insert, Tabled, Watched, CareTables
<1>4. SurveysEarned(db')
  <2>1. Earns(c.row)
    BY DEF CareInv, CareCall
  <2>2. Has(db, "conversations", c.row.conversation) =>
          \E v \in db.conversations :
              v.id = c.row.conversation /\ v.customer = c.row.customer /\ v.ended
    BY <2>1 DEF Has, Earns
  <2>3. QED
    BY <1>3, <2>2 DEF CareInv, CareRows, SurveysEarned
<1>5. \A id : HasAnswer(db', id) <=> HasAnswer(db, id)
  BY <1>3 DEF HasAnswer
<1>6. \A id : Known(Openers, id) => Known(Openers, id)'
  BY <1>1, <1>2, KnownStays
<1>7. Follows
  BY <1>3, <1>5 DEF Follows
<1>8. CareRows'
  BY <1>3, <1>4, <1>5, <1>6 DEF CareInv, CareRows
<1>9. QED
  BY <1>1, <1>2, <1>7, <1>8, CareLeft

\* What a call leaves that stops, or goes on.
LEMMA CareStops ==
    ASSUME Numbered, NEW c \in calls, NEW d, Continue(c, d, {})
    PROVE  /\ db' = d /\ serial' = serial /\ calls' = calls \ {c} /\ Renumbers(Openers)
           /\ \A e \in calls' : e.n # c.n
BY DEF Continue, Renumbers, Numbered

LEMMA CareGoes ==
    ASSUME Numbered, NEW c \in calls, NEW d, NEW op, NEW row, Continue(c, d, On(c, op, row)),
           op \in Openers => c.op \in Openers
    PROVE  /\ db' = d /\ serial' = serial /\ Renumbers(Openers)
           /\ \A e \in calls' : \/ e \in calls /\ e.n # c.n
                                \/ e.n = c.n /\ e.op = op /\ e.row = row
<1>1. PICK e : On(c, op, row) = {e} /\ e.n = c.n /\ e.op = op /\ e.row = row
  BY OnCall DEF Numbered
<1>2. db' = d /\ serial' = serial /\ calls' = (calls \ {c}) \cup {e}
  BY <1>1 DEF Continue
<1>3. \A x \in calls' : \/ x \in calls /\ x.n # c.n
                        \/ x.n = c.n /\ x.op = op /\ x.row = row
  BY <1>1, <1>2 DEF Numbered
<1>4. QED
  BY <1>2, <1>3 DEF Renumbers

\* Nothing is asked of a message that only waits for its INSERT.
LEMMA Careless == \A c : c.op \in {"AutoReply", "Ingest-message", "Ingest-open"} => CareCall(c)
BY DEF CareCall, MessageOps

LEMMA MessageInserted ==
    ASSUME Tabled, NEW m, db' = InsertMessage(db, m)
    PROVE  /\ db'.conversations = db.conversations /\ db'.surveys = db.surveys
           /\ db.messages \subseteq db'.messages
           /\ db' # db => m \in db'.messages
BY DEF InsertMessage, Insert, Tabled, Watched, CareTables

LEMMA CareStoreMessage ==
    ASSUME Numbered, Tabled, CareInv, NEW c \in calls, StoreMessage(c) PROVE CareInv'
<1> DEFINE m == c.row.message
           was == c.row.was
<1>1. c.op = "AddMessage" /\ Fits(was) /\ m.conversation = was.id
  BY DEF StoreMessage, CareInv, CareCall, MessageOps
<1>2. PICK d : d = InsertMessage(db, m)
  OBVIOUS
<1>3. \/ Continue(c, d, {})
      \/ Continue(c, d, On(c, "AutoReply", c.row))
      \/ d # db /\ ~m.internal /\ Continue(c, d, On(c, "MoveConversation", c.row))
  BY <1>2 DEF StoreMessage, ToAutoReply
<1>4. /\ "AutoReply" \notin Openers /\ "MoveConversation" \notin Openers
  BY DEF Openers
<1>5. /\ db' = d /\ serial' = serial /\ Renumbers(Openers)
      /\ \A e \in calls' \ calls :
            \/ e.op = "AutoReply"
            \/ d # db /\ ~m.internal /\ e.op = "MoveConversation" /\ e.row = c.row
  BY <1>3, <1>4, CareStops, CareGoes
<1>6. /\ db'.conversations = db.conversations /\ db'.surveys = db.surveys
      /\ db.messages \subseteq db'.messages
      /\ db' # db => m \in db'.messages
  BY <1>2, <1>5, MessageInserted
<1>7. Follows /\ CareRows'
  BY <1>5, <1>6, CareRowsSame DEF CareInv
<1>8. Fits(was)'
  BY <1>1, <1>5, <1>7, FitsStays
<1>9. ASSUME NEW e \in calls', e.op = "MoveConversation", e.row = c.row, d # db, ~m.internal
      PROVE  CareCall(e)'
  <2>1. m.sender = "agent" => HasAnswer(db', was.id)
    BY <1>1, <1>5, <1>6, <1>9 DEF HasAnswer
  <2>2. QED
    BY <1>1, <1>8, <1>9, <2>1 DEF CareCall, MessageOps
<1>10. \A e \in calls' \ calls : CareCall(e) \/ CareCall(e)'
  BY <1>5, <1>9, Careless
<1>11. QED
  BY <1>5, <1>7, <1>10, CareLeft

LEMMA MovedFits ==
    ASSUME CareInv, NEW c \in calls, MoveConversation(c)
    PROVE  Fits(AfterMessage(c.row.was, c.row.message))
<1> DEFINE m == c.row.message
           was == c.row.was
<1>1. /\ Fits(was)
      /\ m.sender = "agent" => \A v \in db.conversations : v.id = was.id => HasAnswer(db, v.id)
  BY DEF MoveConversation, CareInv, CareCall, MessageOps
<1>2. PICK w : w = AfterMessage(was, m)
  OBVIOUS
<1>3. PICK answered, status :
        /\ answered = (was.answered \/ m.sender = "agent")
        /\ w = [was EXCEPT !.answered = answered, !.status = status]
  BY <1>2 DEF AfterMessage
<1>4. /\ DOMAIN w = DOMAIN was /\ w.id = was.id /\ w.customer = was.customer
      /\ w.answered = answered
  BY <1>1, <1>3 DEF Fits, ConversationRow
<1>5. Fits(w)
  BY <1>1, <1>3, <1>4 DEF Fits, ConversationRow
<1>6. QED
  BY <1>2, <1>5

LEMMA CareMoveConversation ==
    ASSUME Numbered, Tabled, CareInv, NEW c \in calls, MoveConversation(c) PROVE CareInv'
<1>1. PICK w : w = AfterMessage(c.row.was, c.row.message)
  OBVIOUS
<1>2. Fits(w)
  BY <1>1, MovedFits
<1>3. PICK d : d = UpdateConversationRow(db, w)
  OBVIOUS
<1>4. Continue(c, d, {}) \/ Continue(c, d, On(c, "AutoReply", c.row))
  BY <1>1, <1>3 DEF MoveConversation, ToAutoReply
<1>5. "AutoReply" \notin Openers
  BY DEF Openers
<1>6. /\ db' = d /\ serial' = serial /\ Renumbers(Openers)
      /\ \A e \in calls' \ calls : e.op = "AutoReply"
  BY <1>4, <1>5, CareStops, CareGoes
<1>7. QED
  BY <1>2, <1>3, <1>6, Careless, ConversationWritten

\* The statements that insert a message, or nothing, and end the call.
LEMMA CareMessageOnly ==
    ASSUME Numbered, Tabled, CareInv, NEW c \in calls, AnswerMessage(c) \/ StoreInbound(c)
    PROVE  CareInv'
<1>1. Write(c, db) \/ \E m : Write(c, InsertMessage(db, m))
  BY Zenon DEF AnswerMessage, StoreInbound
<1>2. PICK d : Continue(c, d, {}) /\ (d = db \/ \E m : d = InsertMessage(db, m))
  BY <1>1, Zenon DEF Write
<1>3. db' = d /\ serial' = serial /\ calls' = calls \ {c} /\ Renumbers(Openers)
  BY <1>2, CareStops
<1>4. /\ db'.conversations = db.conversations /\ db'.surveys = db.surveys
      /\ db.messages \subseteq db'.messages
  BY <1>2, <1>3, MessageInserted
<1>5. Follows /\ CareRows'
  BY <1>3, <1>4, CareRowsSame DEF CareInv
<1>6. QED
  BY <1>3, <1>5, CareLeft

LEMMA CareInsertSender ==
    ASSUME Numbered, Tabled, CareInv, NEW c \in calls, InsertSender(c) PROVE CareInv'
<1>1. c.op = "Ingest-sender" /\ "was" \in DOMAIN c.row
  BY DEF InsertSender, CareInv, CareCall
<1>2. PICK d, row : /\ d = InsertCustomer(db, Sender(c.n, c.row.mail))
                    /\ row = [c.row EXCEPT !.customer = c.n]
  OBVIOUS
<1>3. Continue(c, d, {}) \/ Continue(c, d, On(c, "Ingest-thread", row))
  BY <1>2 DEF InsertSender
<1>4. "was" \in DOMAIN row
  BY <1>1, <1>2
<1>5. c.op \in Openers
  BY <1>1 DEF Openers
<1>6. /\ db' = d /\ serial' = serial /\ Renumbers(Openers)
      /\ \A e \in calls' \ calls : e.op = "Ingest-thread" /\ e.row = row
  BY <1>3, <1>5, CareStops, CareGoes
<1>7. /\ db'.conversations = db.conversations /\ db'.surveys = db.surveys
      /\ db'.messages = db.messages
  BY <1>2, <1>6 DEF InsertCustomer, Insert
<1>8. Follows /\ CareRows'
  BY <1>6, <1>7, CareRowsSame DEF CareInv
<1>9. \A e \in calls' \ calls : CareCall(e)
  BY <1>4, <1>6 DEF CareCall, MessageOps
<1>10. QED
  BY <1>6, <1>8, <1>9, CareLeft

\* A thread that is found is a conversation of the customer.
LEMMA ThreadFound ==
    ASSUME NEW c, FindThread(c), "was" \in DOMAIN c.row
    PROVE  \E op, row :
             /\ Continue(c, db, On(c, op, row))
             /\ DOMAIN row = DOMAIN c.row
             /\ row.customer = c.row.customer /\ row.mail = c.row.mail
             /\ \/ op = "Ingest-open"
                \/ /\ op \in {"Ingest-reopen", "Ingest-message"}
                   /\ row.was \in db.conversations
                   /\ row.was.thread = c.row.mail.thread
                   /\ c.row.customer \in {None, row.was.customer}
<1> DEFINE Goes(op, row) ==
             /\ Continue(c, db, On(c, op, row))
             /\ DOMAIN row = DOMAIN c.row
             /\ row.customer = c.row.customer /\ row.mail = c.row.mail
             /\ \/ op = "Ingest-open"
                \/ /\ op \in {"Ingest-reopen", "Ingest-message"}
                   /\ row.was \in db.conversations
                   /\ row.was.thread = c.row.mail.thread
                   /\ c.row.customer \in {None, row.was.customer}
<1>1. PICK found : found = OpenConversationsForThread(db, c.row.customer, c.row.mail.thread)
  OBVIOUS
<1>2. \/ Continue(c, db, On(c, "Ingest-open", c.row))
      \/ \E v \in found, op \in {"Ingest-reopen", "Ingest-message"} :
             Continue(c, db, On(c, op, [c.row EXCEPT !.was = v]))
  BY <1>1, Zenon DEF FindThread
<1>3. \A v \in found : /\ v \in db.conversations /\ v.thread = c.row.mail.thread
                       /\ c.row.customer \in {None, v.customer}
  BY <1>1 DEF OpenConversationsForThread, SelectConversations, Where
<1>4. CASE Continue(c, db, On(c, "Ingest-open", c.row))
  <2>1. Goes("Ingest-open", c.row)
    BY <1>4
  <2>2. QED
    BY <2>1, Zenon
<1>5. ASSUME NEW v \in found, NEW op \in {"Ingest-reopen", "Ingest-message"},
             Continue(c, db, On(c, op, [c.row EXCEPT !.was = v]))
      PROVE  \E row : Goes(op, row)
  <2>1. PICK row : row = [c.row EXCEPT !.was = v]
    OBVIOUS
  <2>2. DOMAIN row = DOMAIN c.row /\ row.was = v
        /\ row.customer = c.row.customer /\ row.mail = c.row.mail
    BY <2>1
  <2>3. Continue(c, db, On(c, op, row))
    BY <1>5, <2>1
  <2>4. Goes(op, row)
    BY <1>3, <2>2, <2>3
  <2>5. QED
    BY <2>4, Zenon
<1>6. QED
  BY <1>2, <1>4, <1>5, Zenon

LEMMA CareFindThread ==
    ASSUME Numbered, Tabled, CareInv, NEW c \in calls, FindThread(c) PROVE CareInv'
<1>1. c.op = "Ingest-thread" /\ "was" \in DOMAIN c.row
  BY DEF FindThread, CareInv, CareCall
<1>2. PICK op, row : /\ Continue(c, db, On(c, op, row))
                     /\ \/ op = "Ingest-open"
                        \/ op \in {"Ingest-reopen", "Ingest-message"}
                           /\ row.was \in db.conversations
  BY <1>1, ThreadFound
<1>3. c.op \in Openers
  BY <1>1 DEF Openers
<1>4. /\ db' = db /\ serial' = serial /\ Renumbers(Openers)
      /\ \A e \in calls' \ calls : e.op = op /\ e.row = row
  BY <1>2, <1>3, CareGoes
<1>5. Follows /\ CareRows'
  BY <1>4, CareRowsSame DEF CareInv
<1>6. op = "Ingest-reopen" => Fits(row.was)
  BY <1>2, ReadFits
<1>7. \A e \in calls' \ calls : CareCall(e)
  BY <1>2, <1>4, <1>6, Careless DEF CareCall, MessageOps
<1>8. QED
  BY <1>4, <1>5, <1>7, CareLeft

\* The conversation that mail opens.
LEMMA InboundRow ==
    ASSUME NEW d, NEW id, NEW k, NEW mail, NEW v, v = Inbound(d, id, k, mail)
    PROVE  /\ ConversationRow(v) /\ v.id = id /\ v.customer = k /\ v.thread = mail.thread
           /\ v.status \notin Over
<1>1. PICK new : new = [id |-> id, customer |-> k, channel |-> mail.channel,
                        thread |-> mail.thread, status |-> "open", priority |-> "medium",
                        assigned |-> None, by |-> None, sla |-> 0, answered |-> FALSE,
                        escalated |-> FALSE, ended |-> FALSE]
  OBVIOUS
<1>2. v = ApplySLA(new, d.policies)
  BY <1>1 DEF Inbound
<1>3. /\ ConversationRow(new) /\ new.id = id /\ new.customer = k /\ new.thread = mail.thread
      /\ new.status = "open"
  BY <1>1 DEF ConversationRow
<1>4. /\ DOMAIN v = DOMAIN new /\ v.id = new.id /\ v.customer = new.customer
      /\ v.thread = new.thread /\ v.status = new.status
  BY <1>2 DEF ApplySLA
<1>5. QED
  BY <1>3, <1>4 DEF ConversationRow, Over

LEMMA InboundUnanswered ==
    ASSUME NEW d, NEW id, NEW k, NEW mail, NEW v, v = Inbound(d, id, k, mail)
    PROVE  v.answered = FALSE
<1>1. PICK new : new = [id |-> id, customer |-> k, channel |-> mail.channel,
                        thread |-> mail.thread, status |-> "open", priority |-> "medium",
                        assigned |-> None, by |-> None, sla |-> 0, answered |-> FALSE,
                        escalated |-> FALSE, ended |-> FALSE]
  OBVIOUS
<1>2. v = ApplySLA(new, d.policies)
  BY <1>1 DEF Inbound
<1>3. new.answered = FALSE
  BY <1>1
<1>4. QED
  BY <1>2, <1>3 DEF ApplySLA

LEMMA CareOpenThread ==
    ASSUME Numbered, Tabled, CareInv, NEW c \in calls, OpenThread(c) PROVE CareInv'
<1>1. c.op = "Ingest-open" /\ c.op \in Openers
  BY DEF OpenThread, Openers
<1>2. PICK v : v = Inbound(db, c.n, c.row.customer, c.row.mail)
  OBVIOUS
<1>3. ConversationRow(v) /\ v.id = c.n /\ v.status \notin Over /\ v.answered = FALSE
  <2>1. ConversationRow(v) /\ v.id = c.n /\ v.status \notin Over
    BY <1>2, InboundRow
  <2>2. v.answered = FALSE
    BY <1>2, InboundUnanswered
  <2>3. QED
    BY <2>1, <2>2
<1>4. PICK d, row : d = InsertConversation(db, v) /\ row = [c.row EXCEPT !.was = v]
  OBVIOUS
<1>5. Continue(c, d, {}) \/ Continue(c, d, On(c, "Ingest-message", row))
  BY <1>2, <1>4 DEF OpenThread
<1>6. "Ingest-message" \notin Openers
  BY DEF Openers
<1>7. /\ db' = d /\ serial' = serial /\ Renumbers(Openers)
      /\ \A e \in calls' : e.n = c.n => e.op \notin Openers
      /\ \A e \in calls' \ calls : e.op = "Ingest-message"
  BY <1>5, <1>6, CareStops, CareGoes
<1>8. \A e \in calls' \ calls : CareCall(e)
  BY <1>7, Careless
<1>9. db' = InsertConversation(db, v)
  BY <1>4, <1>7
<1>10. QED
  BY <1>1, <1>3, <1>7, <1>8, <1>9, ConversationOpened

LEMMA CareReopenThread ==
    ASSUME Numbered, Tabled, CareInv, NEW c \in calls, ReopenThread(c) PROVE CareInv'
<1>1. c.op = "Ingest-reopen" /\ Fits(c.row.was)
  BY DEF ReopenThread, CareInv, CareCall
<1>2. PICK was : was = c.row.was
  OBVIOUS
<1>3. PICK v : v = [was EXCEPT !.status = "in_progress"]
  OBVIOUS
<1>4. DOMAIN v = DOMAIN was /\ v.id = was.id /\ v.customer = was.customer
      /\ v.answered = was.answered
  BY <1>1, <1>2, <1>3 DEF Fits, ConversationRow
<1>5. Fits(v)
  BY <1>1, <1>2, <1>4, ChangedFits
<1>6. PICK d : d = UpdateConversationRow(db, v)
  OBVIOUS
<1>7. Continue(c, d, {}) \/ Continue(c, d, On(c, "Ingest-message", c.row))
  BY <1>2, <1>3, <1>6 DEF ReopenThread
<1>8. "Ingest-message" \notin Openers
  BY DEF Openers
<1>9. /\ db' = d /\ serial' = serial /\ Renumbers(Openers)
      /\ \A e \in calls' \ calls : e.op = "Ingest-message"
  BY <1>7, <1>8, CareStops, CareGoes
<1>10. QED
  BY <1>5, <1>6, <1>9, Careless, ConversationWritten

LEMMA CareCreated ==
    ASSUME Numbered, Tabled, CareInv, NEW c \in calls, c.op = "CreateConversation",
           Write(c, InsertConversation(db, c.row))
    PROVE  CareInv'
<1>1. Continue(c, InsertConversation(db, c.row), {})
  BY DEF Write
<1>2. /\ db' = InsertConversation(db, c.row) /\ serial' = serial /\ Renumbers(Openers)
      /\ calls' = calls \ {c} /\ \A e \in calls' : e.n # c.n
  BY <1>1, CareStops
<1>3. /\ ConversationRow(c.row) /\ c.row.id = c.n /\ c.row.status \notin Over
      /\ c.row.answered = FALSE /\ c.op \in Openers
  BY DEF CareInv, CareCall, Openers
<1>4. QED
  BY <1>2, <1>3, ConversationOpened

\* Take and release write the assignee and the status of the row as it is.
LEMMA UpdatedFits ==
    ASSUME CareInv, NEW c \in calls,
           \/ /\ c.op = "UpdateConversation"
              /\ Write(c, UpdateConversationRow(db, c.row))
           \/ /\ c.op = "AssignConversation"
              /\ Write(c, AssignConversationRow(db, c.row.id, c.row.to, c.row.status))
    PROVE  \/ Continue(c, db, {})
           \/ \E w : Fits(w) /\ Continue(c, UpdateConversationRow(db, w), {})
<1>1. CASE c.op = "UpdateConversation" /\ Write(c, UpdateConversationRow(db, c.row))
  <2>1. Fits(c.row)
    BY <1>1 DEF CareInv, CareCall
  <2>2. QED
    BY <1>1, <2>1 DEF Write
<1>2. CASE /\ c.op = "AssignConversation"
           /\ Write(c, AssignConversationRow(db, c.row.id, c.row.to, c.row.status))
  <2>1. CASE ~Has(db, "conversations", c.row.id)
    BY <1>2, <2>1 DEF Write, AssignConversationRow
  <2>2. CASE Has(db, "conversations", c.row.id)
    <3>1. PICK v : v = Row(db, "conversations", c.row.id)
      OBVIOUS
    <3>2. v \in db.conversations
      BY <2>2, <3>1 DEF Has, Row
    <3>3. PICK w : w = [v EXCEPT !.assigned = c.row.to, !.status = c.row.status]
      OBVIOUS
    <3>4. DOMAIN w = DOMAIN v /\ w.id = v.id /\ w.customer = v.customer
          /\ w.answered = v.answered
      BY <3>3
    <3>5. Fits(w)
      BY <3>2, <3>4, ReadFits, ChangedFits
    <3>6. Continue(c, UpdateConversationRow(db, w), {})
      BY <1>2, <2>2, <3>1, <3>3 DEF Write, AssignConversationRow
    <3>7. QED
      BY <3>5, <3>6
  <2>3. QED
    BY <2>1, <2>2
<1>3. QED
  BY <1>1, <1>2

LEMMA CareUpdated ==
    ASSUME Numbered, Tabled, CareInv, NEW c \in calls,
           \/ /\ c.op = "UpdateConversation"
              /\ Write(c, UpdateConversationRow(db, c.row))
           \/ /\ c.op = "AssignConversation"
              /\ Write(c, AssignConversationRow(db, c.row.id, c.row.to, c.row.status))
    PROVE  CareInv'
<1>1. ASSUME NEW w, Fits(w), Continue(c, UpdateConversationRow(db, w), {}) PROVE CareInv'
  BY <1>1, CareStops, ConversationWritten
<1>2. CASE Continue(c, db, {})
  <2>1. db' = db /\ serial' = serial /\ calls' = calls \ {c} /\ Renumbers(Openers)
    BY <1>2, CareStops
  <2>2. Follows /\ CareRows'
    BY <2>1, CareRowsSame DEF CareInv
  <2>3. QED
    BY <2>1, <2>2, CareLeft
<1>3. QED
  BY <1>1, <1>2, UpdatedFits

LEMMA MspOffCare == ASSUME Numbered, MspCore PROVE OffCare
<1>1. ASSUME NEW u, MspWork(u) PROVE OffCare
  BY <1>1, MspWorkOff, DeleteClientOff, Zenon DEF DoesAlerts, DoesSessions, DoesBills
<1>2. ASSUME NEW c \in calls, MspStatement(c) PROVE OffCare
  BY <1>2, MspStatementsOff, Zenon DEF DoesAlerts, DoesSessions, DoesBills
<1>3. QED
  BY <1>1, <1>2, DeliveredOff DEF MspCore, DoesAlerts

LEMMA CareNext ==
    ASSUME Numbered, Tabled, serial' \in {serial, serial + 1}, CareInv, [Next]_vars
    PROVE  CareInv'
<1>1. CASE OffCare
  BY <1>1, CareOff
<1>2. ASSUME NEW mail, Received(mail) PROVE CareInv'
  BY <1>2, MailBegins
<1>3. ASSUME NEW u, CxWork(u) PROVE CareInv'
  BY <1>3, CareWork
<1>4. ASSUME NEW c \in calls, CxStatement(c) PROVE CareInv'
  BY <1>4, CareStoreMessage, CareMoveConversation, CareMessageOnly, CareInsertSender,
     CareFindThread, CareOpenThread, CareReopenThread, CareCreated, CareUpdated, SurveyStored,
     Zenon
  DEF CxStatement
<1>5. CASE CxCore
  BY <1>2, <1>3, <1>4, <1>5, Zenon DEF CxCore
<1>6. QED
  BY <1>1, <1>5, Steps, QuietOff, MspOffCare, ItsmOff DEF Off

LEMMA CareAlways == Spec => []CareInv
<1>1. Init => Numbered /\ Tabled /\ CareInv
  BY NumberedInit, TabledInit, CareInit
<1>2. Numbered /\ Tabled /\ CareInv /\ [Next]_vars => (Numbered /\ Tabled /\ CareInv)'
  BY NumberedNext, TabledNext, CareNext
<1>3. QED
  BY <1>1, <1>2, PTL DEF Spec

\* A rating is of a conversation that had ended, by its customer, and the only one
\* (CreateSurvey of the CX service and the unique key of the INSERT), whatever is
\* reopened, rated or deleted between the check and the INSERT.
THEOREM RatingsAreEarned == Spec => []SurveysAreEarned
<1>1. CareInv => SurveysAreEarned
  BY DEF CareInv, CareRows, SurveysAreEarned
<1>2. QED
  BY <1>1, CareAlways, PTL

\* A conversation has a first response on record only when there is an answer that
\* its customer can read (AddMessage of the CX service, and every UPDATE that writes
\* back a conversation as it was read).
THEOREM AnswersAreReadable == Spec => []FirstResponseIsReal
<1>1. CareInv => FirstResponseIsReal
  BY DEF CareInv, CareRows, FirstResponseIsReal
<1>2. QED
  BY <1>1, CareAlways, PTL

(***************************************************************************)
(* Mail.  A delivery that has found or made its sender keeps a customer of *)
(* a known number, and one that has its conversation keeps one that is     *)
(* there as long as the customer is.                                       *)
(***************************************************************************)
SenderOps == {"Ingest-sender"}

InThread(row) ==
    (\E k \in db.customers : k.id = row.customer) =>
        \E v \in db.conversations : v.id = row.was.id /\ v.customer = row.customer

MailCall(c) ==
    c.op \in Ingesting =>
        /\ {"mail", "customer", "was"} \subseteq DOMAIN c.row
        /\ c.row.mail \in Mail
        /\ c.op # "Ingest-sender" => c.row.customer # None /\ Known(SenderOps, c.row.customer)
        /\ c.op = "Ingest-reopen" =>
              c.row.was.customer = c.row.customer /\ c.row.was.thread = c.row.mail.thread
        /\ c.op \in {"Ingest-reopen", "Ingest-message"} => InThread(c.row)

MailInv ==
    /\ \A k \in db.customers : k.id # None /\ Known(SenderOps, k.id)
    /\ \A c \in calls : MailCall(c)

LEMMA MailInit == Init => MailInv
<1> SUFFICES ASSUME Init PROVE MailInv
  OBVIOUS
<1>1. db = Before /\ calls = {} /\ serial = FirstId
  BY DEF Init
<1>2. ASSUME NEW k \in Before.customers PROVE k.id # None /\ Known(SenderOps, k.id)
  <2>1. k \in Customer /\ k.id < FirstId
    BY BeforeAssumption, FirstIdAssumption DEF Holds, CxTable
  <2>2. QED
    BY <1>1, <2>1 DEF Customer, Id, Known
<1>3. QED
  BY <1>1, <1>2 DEF MailInv

\* A delivery that is over, and what the property says of it.
Kept(c) ==
    \/ Stored(c, db')
    \/ c.row.customer # None /\ \A k \in db'.customers : k.id # c.row.customer
    \/ Rival(c, db')

AllKept == \A c \in calls : IsOver(c) => Kept(c)

\* A customer of a known number was there before; a conversation that goes takes
\* its customer along.
CustomersKnown ==
    \A k \in db'.customers : Known(SenderOps, k.id) => \E j \in db.customers : j.id = k.id

ThreadsStay ==
    \A v \in db.conversations :
        \/ \E w \in db'.conversations : w.id = v.id /\ w.customer = v.customer
        \/ \A k \in db'.customers : k.id # v.customer

LEMMA MailLeft ==
    ASSUME Numbered, serial' \in {serial, serial + 1}, MailInv, Renumbers(SenderOps),
           CustomersKnown, ThreadsStay,
           \A k \in db'.customers : k.id # None /\ Known(SenderOps, k.id)',
           \A e \in calls' \ calls : MailCall(e)'
    PROVE  MailInv'
<1>1. \A id : Known(SenderOps, id) => Known(SenderOps, id)'
  BY KnownStays
<1>2. ASSUME NEW c \in calls PROVE MailCall(c)'
  <2>1. ASSUME NEW row, Known(SenderOps, row.customer), InThread(row) PROVE InThread(row)'
    BY <2>1 DEF InThread, CustomersKnown, ThreadsStay
  <2>2. MailCall(c)
    BY DEF MailInv
  <2>3. QED
    BY <1>1, <2>1, <2>2 DEF MailCall
<1>3. QED
  BY <1>2 DEF MailInv

\* Steps that no customer comes or goes with, nor a conversation goes.
LEMMA MailSame ==
    ASSUME Numbered, serial' \in {serial, serial + 1}, MailInv, Renumbers(SenderOps),
           Ids(db'.customers) = Ids(db.customers),
           \A v \in db.conversations :
              \E w \in db'.conversations : w.id = v.id /\ w.customer = v.customer,
           \A e \in calls' \ calls : MailCall(e)'
    PROVE  MailInv'
<1>1. \A k \in db'.customers : \E j \in db.customers : j.id = k.id
  BY DEF Ids
<1>2. CustomersKnown
  BY <1>1 DEF CustomersKnown
<1>3. ThreadsStay
  BY DEF ThreadsStay
<1>4. \A id : Known(SenderOps, id) => Known(SenderOps, id)'
  BY KnownStays
<1>5. \A k \in db'.customers : k.id # None /\ Known(SenderOps, k.id)'
  BY <1>1, <1>4 DEF MailInv
<1>6. QED
  BY <1>2, <1>3, <1>5, MailLeft

LEMMA MailOff ==
    ASSUME Numbered, serial' \in {serial, serial + 1}, MailInv, OffCare PROVE MailInv'
<1>1. Renumbers(SenderOps)
  BY DEF OffCare, NoNew, Renumbers, SenderOps, CareOps, Ingesting
<1>2. \A e \in calls' \ calls : MailCall(e)'
  BY DEF OffCare, NoNew, MailCall, CareOps
<1>3. QED
  BY <1>1, <1>2, MailSame DEF OffCare

(***************************************************************************)
(* A delivery is over by a statement of its own.                           *)
(***************************************************************************)
Undisturbed == \A c \in calls : c.op \in Ingesting => c \in calls'

LEMMA UndisturbedKeeps == Undisturbed => AllKept
BY DEF Undisturbed, AllKept, IsOver

LEMMA RequestedUndisturbs == Requested => Undisturbed
BY DEF Requested, Begin, AtOnce, Undisturbed

LEMMA OthersUndisturb ==
    ASSUME NEW c, c.op \notin Ingesting, NEW d, NEW next, Continue(c, d, next) PROVE Undisturbed
BY DEF Continue, Undisturbed

LEMMA MspAnswersUndisturb == ASSUME NEW c \in calls, MspAnswer(c) PROVE Undisturbed
<1>1. c.op \notin Ingesting
  BY DEF MspAnswer, Ingesting
<1>2. QED
  BY <1>1, MspAnswerEnds DEF MspAnswer, Reply, ReplyRows, ReplyAs, Undisturbed

LEMMA CxAnswersUndisturb == ASSUME NEW c \in calls, CxAnswer(c) PROVE Undisturbed
<1>1. c.op \notin Ingesting
  BY DEF CxAnswer, Ingesting
<1>2. QED
  BY <1>1 DEF CxAnswer, Tell, TellRows, ReplyAs, Undisturbed

LEMMA QuietUndisturbs == Quiet => Undisturbed
<1>1. CASE QuietBegin \/ QuietAtOnce
  BY <1>1 DEF QuietBegin, QuietAtOnce, Begin, AtOnce, Undisturbed
<1>2. CASE QuietWrite
  BY <1>2, OthersUndisturb DEF QuietWrite, Write
<1>3. CASE Reads
  <2>1. \E op, row : Begin(op, row)
    BY <1>3, MspReadsBegin, CxReadsBegin DEF Reads
  <2>2. QED
    BY <2>1 DEF Begin, Undisturbed
<1>4. CASE Answers
  BY <1>4, MspAnswersUndisturb, CxAnswersUndisturb DEF Answers
<1>5. CASE UNCHANGED vars
  BY <1>5 DEF vars, Undisturbed
<1>6. QED
  BY <1>1, <1>2, <1>3, <1>4, <1>5 DEF Quiet

LEMMA MspUndisturbs == MspCore => Undisturbed
<1>1. ASSUME NEW c \in calls, MspStatement(c) PROVE Undisturbed
  <2>1. c.op \notin Ingesting
    BY <1>1 DEF MspStatement, PriceDraft, TicketForAlert, Ingesting
  <2>2. \E d, next : Continue(c, d, next)
    <3>1. CASE PriceDraft(c)
      BY <3>1, Zenon DEF PriceDraft
    <3>2. CASE TicketForAlert(c)
      BY <3>2, Zenon DEF TicketForAlert
    <3>3. CASE \E d : Write(c, d)
      BY <3>3 DEF Write
    <3>4. QED
      BY <1>1, <3>1, <3>2, <3>3, Zenon DEF MspStatement
  <2>3. QED
    BY <2>1, <2>2, OthersUndisturb
<1>2. QED
  BY <1>1, MspRequested, RequestedUndisturbs, Zenon DEF MspCore

LEMMA ItsmUndisturbs == ItsmCore => Undisturbed
<1>1. ASSUME NEW u, CreateProblem(u) \/ UpdateProblem(u) PROVE Undisturbed
  <2>1. Requested
    BY <1>1, TheWork, Zenon DEF CreateProblem, UpdateProblem, Requested
  <2>2. QED
    BY <2>1, RequestedUndisturbs
<1>2. ASSUME NEW c \in calls, c.op = "UpdateProblem", NEW d, Write(c, d) PROVE Undisturbed
  BY <1>2, OthersUndisturb DEF Write, Ingesting
<1>3. QED
  BY <1>1, <1>2, Zenon DEF ItsmCore

(***************************************************************************)
(* Requests                                                                *)
(***************************************************************************)
LEMMA MailCallBegins ==
    ASSUME Numbered, serial' \in {serial, serial + 1}, MailInv, NEW op, NEW row, Begin(op, row),
           \A c : c.n = serial /\ c.op = op /\ c.row = row => MailCall(c)
    PROVE  MailInv'
<1>1. db' = db /\ \A e \in calls' : e \in calls \/ (e.n = serial /\ e.op = op /\ e.row = row)
  BY BeginOnly
<1>2. Renumbers(SenderOps)
  BY <1>1 DEF Renumbers
<1>3. \A id : Known(SenderOps, id) => Known(SenderOps, id)'
  BY <1>2, KnownStays
<1>4. \A e \in calls' \ calls : MailCall(e)'
  BY <1>1, <1>3 DEF MailCall, InThread
<1>5. QED
  BY <1>1, <1>2, <1>4, MailSame

LEMMA MailArrives ==
    ASSUME Numbered, serial' \in {serial, serial + 1}, MailInv, NEW mail \in Mail, Received(mail)
    PROVE  MailInv'
<1>1. PICK row : row = [mail |-> mail, customer |-> None, was |-> None]
  OBVIOUS
<1>2. CASE Begin("Ingest-sender", row)
  <2>1. \A c : c.op = "Ingest-sender" /\ c.row = row => MailCall(c)
    BY <1>1 DEF MailCall
  <2>2. QED
    BY <1>2, <2>1, MailCallBegins
<1>3. ASSUME NEW k \in db.customers, Begin("Ingest-thread", [row EXCEPT !.customer = k.id])
      PROVE  MailInv'
  <2>1. PICK found : found = [row EXCEPT !.customer = k.id]
    OBVIOUS
  <2>2. /\ {"mail", "customer", "was"} \subseteq DOMAIN found
        /\ found.mail = mail /\ found.customer = k.id
    BY <1>1, <2>1
  <2>3. found.customer # None /\ Known(SenderOps, found.customer)
    BY <2>2 DEF MailInv
  <2>4. \A c : c.op = "Ingest-thread" /\ c.row = found => MailCall(c)
    BY <2>2, <2>3 DEF MailCall
  <2>5. QED
    BY <1>3, <2>1, <2>4, MailCallBegins
<1>4. SendersKnown(db, mail) \subseteq db.customers
  BY DEF SendersKnown, CustomerByEmail, CustomerByPhone
<1>5. \/ Begin("Ingest-sender", row)
      \/ \E k \in SendersKnown(db, mail) : Begin("Ingest-thread", [row EXCEPT !.customer = k.id])
  BY <1>1, Zenon DEF Received
<1>6. CASE \E k \in SendersKnown(db, mail) :
              Begin("Ingest-thread", [row EXCEPT !.customer = k.id])
  <2>1. PICK k : /\ k \in SendersKnown(db, mail)
                 /\ Begin("Ingest-thread", [row EXCEPT !.customer = k.id])
    BY <1>6
  <2>2. k \in db.customers
    BY <1>4, <2>1
  <2>3. QED
    BY <1>3, <2>1, <2>2
<1>7. QED
  BY <1>2, <1>5, <1>6

LEMMA MailOfCustomers ==
    ASSUME Numbered, Tabled, serial' \in {serial, serial + 1}, MailInv, NEW u,
           CreateCustomer(u) \/ \E k : DeleteCustomer(u, k)
    PROVE  MailInv'
<1>1. CASE CreateCustomer(u)
  <2>1. PICK in, x :
          /\ in \in CustomerInput(serial)
          /\ x = [in EXCEPT !.status = IF @ = "" THEN "active" ELSE @]
          /\ AtOnce("CreateCustomer", InsertCustomer(db, x))
    BY <1>1, Zenon DEF CreateCustomer
  <2>2. x.id = serial
    BY <2>1 DEF CustomerInput
  <2>3. db' = InsertCustomer(db, x) /\ calls' = calls /\ serial' = serial + 1
    BY <2>1 DEF AtOnce, Arrives
  <2>4. /\ db'.customers \subseteq db.customers \cup {x}
        /\ db'.conversations = db.conversations
    BY <2>3 DEF InsertCustomer, Insert, Tabled, Watched, CareTables
  <2>5. Renumbers(SenderOps)
    BY <2>3 DEF Renumbers
  <2>6. CustomersKnown
    BY <2>2, <2>4 DEF CustomersKnown, Known, Numbered
  <2>7. ThreadsStay
    BY <2>4 DEF ThreadsStay
  <2>8. Known(SenderOps, x.id)'
    BY <2>2, <2>3 DEF Known, Numbered
  <2>9. \A k \in db'.customers : k.id # None /\ Known(SenderOps, k.id)'
    BY <2>2, <2>4, <2>5, <2>8, KnownStays DEF MailInv, Numbered
  <2>10. QED
    BY <2>3, <2>5, <2>6, <2>7, <2>9, MailLeft
<1>2. ASSUME NEW k, DeleteCustomer(u, k) PROVE MailInv'
  <2>1. db' = DeleteCustomerRow(db, k) /\ calls' = calls
    BY <1>2, AtOnceOnly DEF DeleteCustomer
  <2>2. /\ db'.customers = {x \in db.customers : x.id # k}
        /\ db'.conversations = {x \in db.conversations : x.customer # k}
    BY <2>1 DEF DeleteCustomerRow, Remove, Tabled, Watched, CareTables
  <2>3. Renumbers(SenderOps)
    BY <2>1 DEF Renumbers
  <2>4. CustomersKnown
    BY <2>2 DEF CustomersKnown
  <2>5. ThreadsStay
    BY <2>2 DEF ThreadsStay
  <2>6. \A x \in db'.customers : x.id # None /\ Known(SenderOps, x.id)'
    BY <2>2, <2>3, KnownStays DEF MailInv
  <2>7. QED
    BY <2>1, <2>3, <2>4, <2>5, <2>6, MailLeft
<1>3. QED
  BY <1>1, <1>2

LEMMA MailWork ==
    ASSUME Numbered, Tabled, serial' \in {serial, serial + 1}, MailInv, NEW u, CxWork(u)
    PROVE  MailInv'
<1>1. CASE \/ UpdateConversationStatus(u) \/ EscalateConversation(u) \/ AddMessage(u)
           \/ CreateSurvey(u) \/ \E k : CreateConversation(u, k)
  <2>1. \E row : \/ Begin("UpdateConversation", row) \/ Begin("AddMessage", row)
                 \/ Begin("CreateSurvey", row) \/ Begin("CreateConversation", row)
    BY <1>1, Zenon
    DEF UpdateConversationStatus, EscalateConversation, AddMessage, CreateSurvey,
        CreateConversation
  <2>2. PICK op, row : Begin(op, row) /\ op \notin Ingesting
    BY <2>1 DEF Ingesting
  <2>3. \A c : c.op = op => MailCall(c)
    BY <2>2 DEF MailCall
  <2>4. QED
    BY <2>2, <2>3, MailCallBegins
<1>2. QED
  BY <1>1, MailOfCustomers, Zenon DEF CxWork

(***************************************************************************)
(* Statements                                                              *)
(***************************************************************************)
\* The UPDATE of a conversation leaves it with its customer.
LEMMA ThreadsStayPut ==
    ASSUME Tabled, CareInv, NEW w, Fits(w), db' = UpdateConversationRow(db, w)
    PROVE  /\ \A v \in db.conversations :
                 \E x \in db'.conversations : x.id = v.id /\ x.customer = v.customer
           /\ db'.customers = db.customers
<1>1. db'.customers = db.customers
  BY DEF UpdateConversationRow, Put
<1>2. CASE ~Updates(db, w)
  <2>1. db' = db
    BY <1>2 DEF UpdateConversationRow
  <2>2. QED
    BY <2>1
<1>3. CASE Updates(db, w)
  <2>1. PICK z : /\ z.id = w.id /\ z.customer = w.customer
                 /\ db'.conversations =
                      {IF x.id = z.id THEN z ELSE x : x \in db.conversations}
    BY <1>3, ConversationPut
  <2>2. ASSUME NEW v \in db.conversations
        PROVE  \E x \in db'.conversations : x.id = v.id /\ x.customer = v.customer
    <3>1. CASE v.id = z.id
      <4>1. v.customer = z.customer
        BY <2>1, <3>1 DEF Fits
      <4>2. z \in db'.conversations
        BY <2>1, <3>1
      <4>3. QED
        BY <3>1, <4>1, <4>2
    <3>2. CASE v.id # z.id
      BY <2>1, <3>2
    <3>3. QED
      BY <3>1, <3>2
  <2>3. QED
    BY <1>1, <2>2
<1>4. QED
  BY <1>2, <1>3

\* A statement of a call that is no delivery.
LEMMA MailApart ==
    ASSUME Numbered, MailInv, NEW c \in calls, c.op \notin Ingesting, NEW d, NEW next,
           Continue(c, d, next),
           next = {} \/ \E op, row : op \notin Ingesting /\ next = On(c, op, row),
           d.customers = db.customers,
           \A v \in db.conversations :
              \E w \in d.conversations : w.id = v.id /\ w.customer = v.customer
    PROVE  MailInv' /\ AllKept
<1>1. db' = d /\ serial' = serial
  BY DEF Continue
<1>2. \A e \in calls' : e \in calls \/ e.op \notin Ingesting
  <2>1. CASE next = {}
    BY <2>1 DEF Continue
  <2>2. CASE \E op, row : op \notin Ingesting /\ next = On(c, op, row)
    BY <2>2, OnOnly DEF Numbered
  <2>3. QED
    BY <2>1, <2>2
<1>3. Renumbers(SenderOps)
  BY <1>2 DEF Renumbers, SenderOps, Ingesting
<1>4. \A e \in calls' \ calls : MailCall(e)'
  BY <1>2 DEF MailCall
<1>5. MailInv'
  BY <1>1, <1>3, <1>4, MailSame
<1>6. QED
  BY <1>5, OthersUndisturb, UndisturbedKeeps

LEMMA MailOthers ==
    ASSUME Numbered, Tabled, CareInv, MailInv, NEW c \in calls,
           \/ StoreMessage(c) \/ MoveConversation(c) \/ AnswerMessage(c)
           \/ c.op = "CreateConversation" /\ Write(c, InsertConversation(db, c.row))
           \/ c.op = "UpdateConversation" /\ Write(c, UpdateConversationRow(db, c.row))
           \/ c.op = "AssignConversation"
              /\ Write(c, AssignConversationRow(db, c.row.id, c.row.to, c.row.status))
           \/ c.op = "CreateSurvey" /\ Write(c, InsertSurvey(db, c.row))
    PROVE  MailInv' /\ AllKept
<1> DEFINE Stay(d) == /\ d.customers = db.customers
                      /\ \A v \in db.conversations :
                            \E w \in d.conversations : w.id = v.id /\ w.customer = v.customer
           Then(next) == next = {} \/ \E op, row : op \notin Ingesting /\ next = On(c, op, row)
<1>1. Stay(db)
  OBVIOUS
<1>2. \A m : Stay(InsertMessage(db, m))
  BY DEF InsertMessage, Insert
<1>3. \A s : Stay(InsertSurvey(db, s))
  BY DEF InsertSurvey, Insert
<1>4. \A v : Stay(InsertConversation(db, v))
  BY DEF InsertConversation, Insert, Tabled, Watched, CareTables
<1>5. /\ Then({})
      /\ \A row : Then(On(c, "AutoReply", row)) /\ Then(On(c, "MoveConversation", row))
  BY DEF Ingesting
<1> HIDE DEF Then
<1>6. CASE StoreMessage(c) \/ AnswerMessage(c)
  <2>1. c.op \notin Ingesting
    BY <1>6 DEF StoreMessage, AnswerMessage, Ingesting
  <2>2. \E d, next : Continue(c, d, next) /\ Stay(d) /\ Then(next)
    <3> HIDE DEF Stay
    <3>1. CASE StoreMessage(c)
      BY <1>2, <1>5, <3>1, Zenon DEF StoreMessage, ToAutoReply
    <3>2. CASE AnswerMessage(c)
      BY <1>1, <1>2, <1>5, <3>2, Zenon DEF AnswerMessage, Write
    <3>3. QED
      BY <1>6, <3>1, <3>2
  <2>3. QED
    BY <2>1, <2>2, MailApart DEF Then
<1>7. ASSUME NEW w, Fits(w), NEW next, Then(next), c.op \notin Ingesting,
             Continue(c, UpdateConversationRow(db, w), next)
      PROVE  MailInv' /\ AllKept
  <2>1. db' = UpdateConversationRow(db, w)
    BY <1>7 DEF Continue
  <2>2. Stay(UpdateConversationRow(db, w))
    BY <1>7, <2>1, ThreadsStayPut
  <2>3. QED
    BY <1>7, <2>2, MailApart DEF Then
<1>8. CASE MoveConversation(c)
  <2>1. c.op \notin Ingesting
    BY <1>8 DEF MoveConversation, Ingesting
  <2>2. PICK w : w = AfterMessage(c.row.was, c.row.message)
    OBVIOUS
  <2>3. Fits(w)
    BY <1>8, <2>2, MovedFits
  <2>4. PICK next : /\ next = {} \/ next = On(c, "AutoReply", c.row)
                    /\ Continue(c, UpdateConversationRow(db, w), next)
    BY <1>8, <2>2 DEF MoveConversation, ToAutoReply
  <2>5. Then(next)
    BY <1>5, <2>4
  <2>6. QED
    BY <1>7, <2>1, <2>3, <2>4, <2>5
<1>9. CASE \/ /\ c.op = "UpdateConversation"
              /\ Write(c, UpdateConversationRow(db, c.row))
           \/ /\ c.op = "AssignConversation"
              /\ Write(c, AssignConversationRow(db, c.row.id, c.row.to, c.row.status))
  <2>1. c.op \notin Ingesting
    BY <1>9 DEF Ingesting
  <2>2. CASE Continue(c, db, {})
    BY <1>1, <1>5, <2>1, <2>2, MailApart
  <2>3. ASSUME NEW w, Fits(w), Continue(c, UpdateConversationRow(db, w), {})
        PROVE  MailInv' /\ AllKept
    BY <1>5, <1>7, <2>1, <2>3
  <2>4. QED
    BY <1>9, <2>2, <2>3, UpdatedFits
<1>10. CASE \/ c.op = "CreateConversation" /\ Write(c, InsertConversation(db, c.row))
            \/ c.op = "CreateSurvey" /\ Write(c, InsertSurvey(db, c.row))
  <2>1. c.op \notin Ingesting
    BY <1>10 DEF Ingesting
  <2>2. PICK d : Continue(c, d, {}) /\ Stay(d)
    BY <1>3, <1>4, <1>10 DEF Write
  <2>3. QED
    BY <1>5, <2>1, <2>2, MailApart
<1>11. QED
  BY <1>6, <1>8, <1>9, <1>10

\* What a delivery leaves that is over, or goes on.
LEMMA DeliveryStops ==
    ASSUME Numbered, NEW c \in calls, NEW d, Continue(c, d, {}), c.op \in Ingesting, Kept(c)
    PROVE  /\ db' = d /\ serial' = serial /\ calls' = calls \ {c} /\ Renumbers(SenderOps)
           /\ AllKept
BY DEF Continue, Renumbers, AllKept, IsOver

LEMMA DeliveryGoesOn ==
    ASSUME Numbered, NEW c \in calls, NEW d, NEW op, NEW row, Continue(c, d, On(c, op, row)),
           op # "Ingest-sender"
    PROVE  /\ db' = d /\ serial' = serial /\ Renumbers(SenderOps)
           /\ \A e \in calls' : \/ e \in calls /\ e.n # c.n
                                \/ e.n = c.n /\ e.op = op /\ e.row = row
           /\ AllKept
<1>1. PICK e : On(c, op, row) = {e} /\ e.n = c.n /\ e.op = op /\ e.row = row
  BY OnCall DEF Numbered
<1>2. db' = d /\ serial' = serial /\ calls' = (calls \ {c}) \cup {e}
  BY <1>1 DEF Continue
<1>3. \A x \in calls' : \/ x \in calls /\ x.n # c.n
                        \/ x.n = c.n /\ x.op = op /\ x.row = row
  BY <1>1, <1>2 DEF Numbered
<1>4. Renumbers(SenderOps)
  BY <1>3 DEF Renumbers, SenderOps
<1>5. AllKept
  BY <1>1, <1>2 DEF AllKept, IsOver
<1>6. QED
  BY <1>2, <1>3, <1>4, <1>5

\* The call that a delivery goes on as.
LEMMA MailGoesOn ==
    ASSUME Numbered, NEW c \in calls, c.op \in Ingesting, MailCall(c), Renumbers(SenderOps),
           serial' = serial,
           NEW e, e.op \in Ingesting, e.op # "Ingest-sender", e.row.customer = c.row.customer,
           c.op # "Ingest-sender", e.row.mail = c.row.mail,
           {"mail", "customer", "was"} \subseteq DOMAIN e.row,
           e.op = "Ingest-reopen" =>
              e.row.was.customer = e.row.customer /\ e.row.was.thread = e.row.mail.thread,
           e.op \in {"Ingest-reopen", "Ingest-message"} => InThread(e.row)'
    PROVE  MailCall(e)'
<1>1. Known(SenderOps, e.row.customer)'
  BY KnownStays DEF MailCall
<1>2. QED
  BY <1>1 DEF MailCall

LEMMA SenderNotInserted ==
    ASSUME MailInv, Tabled, Numbered, NEW c \in calls, c.op = "Ingest-sender",
           InsertCustomer(db, Sender(c.n, c.row.mail)) = db
    PROVE  \E k \in db.customers : Lower(k.email) = Lower(c.row.mail.from)
<1>1. c.row.mail \in Mail
  BY DEF MailInv, MailCall, Ingesting
<1>2. PICK mail \in Mail : mail = c.row.mail
  BY <1>1
<1>3. PICK s : s = Sender(c.n, mail)
  OBVIOUS
<1>4. s.id = c.n /\ s.email \in {Lower(mail.from), ""}
  BY <1>3 DEF Sender
<1>5. \A k \in db.customers : k.id # s.id
  BY <1>4 DEF MailInv, Known, SenderOps
<1>6. s \notin db.customers
  BY <1>5
<1>7. ~EmailIsFree(db, s)
  BY <1>2, <1>3, <1>6 DEF InsertCustomer, Insert, Tabled, Watched, CareTables
<1>8. PICK k \in db.customers : s.email = k.email /\ k.email # ""
  BY <1>7 DEF EmailIsFree
<1>9. k.email = Lower(mail.from)
  BY <1>4, <1>8
<1>10. Lower(k.email) = Lower(mail.from)
  BY <1>9, LowerAssumption
<1>11. QED
  BY <1>2, <1>10

LEMMA MailInsertSender ==
    ASSUME Numbered, Tabled, MailInv, NEW c \in calls, InsertSender(c)
    PROVE  MailInv' /\ AllKept
<1>1. c.op = "Ingest-sender" /\ c.op \in Ingesting
  BY DEF InsertSender, Ingesting
<1>2. /\ {"mail", "customer", "was"} \subseteq DOMAIN c.row
      /\ c.row.mail \in Mail
  BY <1>1 DEF MailInv, MailCall
<1>3. PICK s : s = Sender(c.n, c.row.mail)
  OBVIOUS
<1>4. s.id = c.n
  BY <1>3 DEF Sender
<1>5. PICK d : d = InsertCustomer(db, s)
  OBVIOUS
<1>6. PICK row : row = [c.row EXCEPT !.customer = c.n]
  OBVIOUS
<1>7. \/ d = db /\ Continue(c, d, {})
      \/ Continue(c, d, On(c, "Ingest-thread", row))
  BY <1>3, <1>5, <1>6 DEF InsertSender
<1>8. CASE d = db /\ Continue(c, d, {})
  <2>1. db' = db
    BY <1>8 DEF Continue
  <2>2. \E k \in db.customers : Lower(k.email) = Lower(c.row.mail.from)
    BY <1>1, <1>3, <1>5, <1>8, SenderNotInserted
  <2>3. Kept(c)
    BY <1>1, <2>1, <2>2 DEF Kept, Rival
  <2>4. /\ serial' = serial /\ calls' = calls \ {c} /\ Renumbers(SenderOps)
        /\ AllKept
    BY <1>1, <1>8, <2>3, DeliveryStops
  <2>5. MailInv'
    BY <2>1, <2>4, MailSame
  <2>6. QED
    BY <2>4, <2>5
<1>9. CASE Continue(c, d, On(c, "Ingest-thread", row))
  <2>1. /\ db' = d /\ serial' = serial /\ Renumbers(SenderOps)
        /\ \A e \in calls' : \/ e \in calls /\ e.n # c.n
                             \/ e.n = c.n /\ e.op = "Ingest-thread" /\ e.row = row
        /\ AllKept
    BY <1>9, DeliveryGoesOn
  <2>2. /\ row.customer = c.n /\ row.mail = c.row.mail
        /\ {"mail", "customer", "was"} \subseteq DOMAIN row
    BY <1>2, <1>6
  <2>3. \A e \in calls' : e.n = c.n => e.op # "Ingest-sender"
    BY <2>1
  <2>4. c.n # None /\ Known(SenderOps, s.id)'
    BY <1>4, <2>1, <2>3 DEF Known, Numbered, SenderOps
  <2>5. /\ db'.customers \subseteq db.customers \cup {s}
        /\ db'.conversations = db.conversations
    BY <1>5, <2>1 DEF InsertCustomer, Insert, Tabled, Watched, CareTables
  <2>6. ~Known(SenderOps, s.id)
    BY <1>1, <1>4 DEF Known, SenderOps
  <2>7. CustomersKnown
    BY <2>5, <2>6 DEF CustomersKnown
  <2>8. ThreadsStay
    BY <2>5 DEF ThreadsStay
  <2>9. \A k \in db'.customers : k.id # None /\ Known(SenderOps, k.id)'
    BY <1>4, <2>1, <2>4, <2>5, KnownStays DEF MailInv
  <2>10. ASSUME NEW e \in calls' \ calls PROVE MailCall(e)'
    <3>1. e.op = "Ingest-thread" /\ e.row = row
      BY <2>1
    <3>2. row.customer = s.id
      BY <1>4, <2>2
    <3>3. Known(SenderOps, row.customer)'
      BY <2>4, <3>2
    <3>4. QED
      BY <1>2, <1>4, <2>2, <2>4, <3>1, <3>3 DEF MailCall
  <2>11. MailInv'
    BY <2>1, <2>7, <2>8, <2>9, <2>10, MailLeft
  <2>12. QED
    BY <2>1, <2>11
<1>10. QED
  BY <1>7, <1>8, <1>9

LEMMA MailFindThread ==
    ASSUME Numbered, CareInv, MailInv, NEW c \in calls, FindThread(c)
    PROVE  MailInv' /\ AllKept
<1>1. /\ c.op = "Ingest-thread" /\ c.op \in Ingesting /\ MailCall(c)
      /\ {"mail", "customer", "was"} \subseteq DOMAIN c.row /\ c.row.customer # None
  BY DEF FindThread, MailInv, MailCall, Ingesting
<1>2. PICK op, row :
        /\ Continue(c, db, On(c, op, row))
        /\ DOMAIN row = DOMAIN c.row
        /\ row.customer = c.row.customer /\ row.mail = c.row.mail
        /\ \/ op = "Ingest-open"
           \/ /\ op \in {"Ingest-reopen", "Ingest-message"}
              /\ row.was \in db.conversations
              /\ row.was.thread = c.row.mail.thread
              /\ c.row.customer \in {None, row.was.customer}
  BY <1>1, ThreadFound
<1>3. /\ db' = db /\ serial' = serial /\ Renumbers(SenderOps)
      /\ \A e \in calls' : \/ e \in calls /\ e.n # c.n
                           \/ e.n = c.n /\ e.op = op /\ e.row = row
      /\ AllKept
  BY <1>2, DeliveryGoesOn
<1>4. ASSUME NEW e \in calls' \ calls PROVE MailCall(e)'
  <2>1. e.op = op /\ e.row = row
    BY <1>3
  <2>2. e.op \in Ingesting /\ e.op # "Ingest-sender" /\ c.op # "Ingest-sender"
    BY <1>1, <1>2, <2>1 DEF Ingesting
  <2>3. op # "Ingest-open" => InThread(row)'
    BY <1>1, <1>2, <1>3 DEF InThread
  <2>4. op = "Ingest-reopen" => row.was.customer = row.customer /\ row.was.thread = row.mail.thread
    BY <1>1, <1>2
  <2>5. QED
    BY <1>1, <1>2, <1>3, <2>1, <2>2, <2>3, <2>4, MailGoesOn
<1>5. MailInv'
  BY <1>3, <1>4, MailSame
<1>6. QED
  BY <1>3, <1>5

LEMMA MailOpenThread ==
    ASSUME Numbered, Tabled, CareInv, MailInv, NEW c \in calls, OpenThread(c)
    PROVE  MailInv' /\ AllKept
<1>1. /\ c.op = "Ingest-open" /\ c.op \in Ingesting /\ c.op \in Openers /\ MailCall(c)
      /\ {"mail", "customer", "was"} \subseteq DOMAIN c.row /\ c.row.customer # None
  BY DEF OpenThread, MailInv, MailCall, Ingesting, Openers
<1>2. PICK v : v = Inbound(db, c.n, c.row.customer, c.row.mail)
  OBVIOUS
<1>3. /\ v.id = c.n /\ v.customer = c.row.customer /\ v.thread = c.row.mail.thread
      /\ v.status \notin Over
  BY <1>2, InboundRow
<1>4. PICK d, row : d = InsertConversation(db, v) /\ row = [c.row EXCEPT !.was = v]
  OBVIOUS
<1>5. \/ d = db /\ Continue(c, d, {})
      \/ d # db /\ Continue(c, d, On(c, "Ingest-message", row))
  BY <1>2, <1>4 DEF OpenThread
<1>6. v \notin db.conversations
  BY <1>1, <1>3 DEF CareInv, CareRows, Known
<1>7. CASE d = db /\ Continue(c, d, {})
  <2>1. db' = db
    BY <1>7 DEF Continue
  <2>2. ~Has(db, "customers", v.customer) \/ ~ThreadIsFree(db, v)
    BY <1>4, <1>6, <1>7 DEF InsertConversation, Insert, Tabled, Watched, CareTables
  <2>3. ASSUME ~Has(db, "customers", v.customer) PROVE Kept(c)
    BY <1>1, <1>3, <2>1, <2>3 DEF Kept, Has
  <2>4. ASSUME ~ThreadIsFree(db, v) PROVE Kept(c)
    <3>1. PICK x \in db.conversations :
            /\ x.id # v.id /\ x.status \notin Over
            /\ x.customer = v.customer /\ x.thread = v.thread
      BY <2>4 DEF ThreadIsFree
    <3>2. QED
      BY <1>1, <1>3, <2>1, <3>1 DEF Kept, Rival, Over
  <2>5. /\ serial' = serial /\ calls' = calls \ {c} /\ Renumbers(SenderOps) /\ AllKept
    BY <1>1, <1>7, <2>2, <2>3, <2>4, DeliveryStops
  <2>6. MailInv'
    BY <2>1, <2>5, MailSame
  <2>7. QED
    BY <2>5, <2>6
<1>8. CASE d # db /\ Continue(c, d, On(c, "Ingest-message", row))
  <2>1. /\ db' = d /\ serial' = serial /\ Renumbers(SenderOps)
        /\ \A e \in calls' : \/ e \in calls /\ e.n # c.n
                             \/ e.n = c.n /\ e.op = "Ingest-message" /\ e.row = row
        /\ AllKept
    BY <1>8, DeliveryGoesOn
  <2>2. /\ row.was = v /\ row.customer = c.row.customer /\ row.mail = c.row.mail
        /\ {"mail", "customer", "was"} \subseteq DOMAIN row
    BY <1>1, <1>4
  <2>3. /\ db'.conversations = db.conversations \cup {v}
        /\ db'.customers = db.customers
    BY <1>4, <1>8, <2>1 DEF InsertConversation, Insert, Tabled, Watched, CareTables
  <2>4. InThread(row)'
    BY <1>3, <2>2, <2>3 DEF InThread
  <2>5. ASSUME NEW e \in calls' \ calls PROVE MailCall(e)'
    <3>1. e.op = "Ingest-message" /\ e.row = row
      BY <2>1
    <3>2. e.op \in Ingesting /\ c.op # "Ingest-sender"
      BY <1>1, <3>1 DEF Ingesting
    <3>3. QED
      BY <1>1, <2>1, <2>2, <2>4, <3>1, <3>2, MailGoesOn
  <2>6. MailInv'
    BY <2>1, <2>3, <2>5, MailSame
  <2>7. QED
    BY <2>1, <2>6
<1>9. QED
  BY <1>5, <1>7, <1>8

LEMMA MailReopenThread ==
    ASSUME Numbered, Tabled, CareInv, MailInv, NEW c \in calls, ReopenThread(c)
    PROVE  MailInv' /\ AllKept
<1>1. /\ c.op = "Ingest-reopen" /\ c.op \in Ingesting /\ Fits(c.row.was) /\ MailCall(c)
      /\ {"mail", "customer", "was"} \subseteq DOMAIN c.row /\ c.row.customer # None
      /\ c.row.was.customer = c.row.customer /\ c.row.was.thread = c.row.mail.thread
      /\ InThread(c.row)
  BY DEF ReopenThread, CareInv, CareCall, MailInv, MailCall, Ingesting
<1>2. PICK was : was = c.row.was
  OBVIOUS
<1>3. PICK v : v = [was EXCEPT !.status = "in_progress"]
  OBVIOUS
<1>4. DOMAIN v = DOMAIN was /\ v.id = was.id /\ v.customer = was.customer
      /\ v.thread = was.thread /\ v.answered = was.answered
  BY <1>1, <1>2, <1>3 DEF Fits, ConversationRow
<1>5. Fits(v)
  BY <1>1, <1>2, <1>4, ChangedFits
<1>6. PICK d : d = UpdateConversationRow(db, v)
  OBVIOUS
<1>7. \/ ~Updates(db, v) /\ Continue(c, d, {})
      \/ Continue(c, d, On(c, "Ingest-message", c.row))
  BY <1>2, <1>3, <1>6 DEF ReopenThread
<1>8. CASE ~Updates(db, v) /\ Continue(c, d, {})
  <2>1. db' = db
    BY <1>6, <1>8 DEF Continue, UpdateConversationRow
  <2>2. ASSUME ~Has(db, "conversations", v.id) PROVE Kept(c)
    <3>1. \A k \in db.customers : k.id # c.row.customer
      BY <1>1, <1>2, <1>4, <2>2 DEF InThread, Has
    <3>2. QED
      BY <1>1, <2>1, <3>1 DEF Kept
  <2>3. ASSUME ~ThreadIsFree(db, v) PROVE Kept(c)
    <3>1. PICK x \in db.conversations :
            /\ x.id # v.id /\ x.status \notin Over
            /\ x.customer = v.customer /\ x.thread = v.thread
      BY <2>3 DEF ThreadIsFree
    <3>2. QED
      BY <1>1, <1>2, <1>4, <2>1, <3>1 DEF Kept, Rival, Over
  <2>4. Kept(c)
    BY <1>8, <2>2, <2>3 DEF Updates
  <2>5. /\ serial' = serial /\ calls' = calls \ {c} /\ Renumbers(SenderOps) /\ AllKept
    BY <1>1, <1>8, <2>4, DeliveryStops
  <2>6. MailInv'
    BY <2>1, <2>5, MailSame
  <2>7. QED
    BY <2>5, <2>6
<1>9. CASE Continue(c, d, On(c, "Ingest-message", c.row))
  <2>1. /\ db' = d /\ serial' = serial /\ Renumbers(SenderOps)
        /\ \A e \in calls' : \/ e \in calls /\ e.n # c.n
                             \/ e.n = c.n /\ e.op = "Ingest-message" /\ e.row = c.row
        /\ AllKept
    BY <1>9, DeliveryGoesOn
  <2>2. /\ \A x \in db.conversations :
              \E y \in db'.conversations : y.id = x.id /\ y.customer = x.customer
        /\ db'.customers = db.customers
    BY <1>5, <1>6, <2>1, ThreadsStayPut
  <2>3. InThread(c.row)'
    BY <1>1, <2>2 DEF InThread
  <2>4. ASSUME NEW e \in calls' \ calls PROVE MailCall(e)'
    <3>1. e.op = "Ingest-message" /\ e.row = c.row
      BY <2>1
    <3>2. e.op \in Ingesting /\ c.op # "Ingest-sender"
      BY <1>1, <3>1 DEF Ingesting
    <3>3. QED
      BY <1>1, <2>1, <2>3, <3>1, <3>2, MailGoesOn
  <2>5. MailInv'
    BY <2>1, <2>2, <2>4, MailSame
  <2>6. QED
    BY <2>1, <2>5
<1>10. QED
  BY <1>7, <1>8, <1>9

LEMMA MailStoreInbound ==
    ASSUME Numbered, Tabled, MailInv, NEW c \in calls, StoreInbound(c)
    PROVE  MailInv' /\ AllKept
<1>1. /\ c.op = "Ingest-message" /\ c.op \in Ingesting
      /\ c.row.customer # None /\ InThread(c.row)
  BY DEF StoreInbound, MailInv, MailCall, Ingesting
<1>2. PICK m : m = [id |-> c.n, conversation |-> c.row.was.id, sender |-> "customer",
                    internal |-> FALSE, external |-> c.row.mail.external]
  OBVIOUS
<1>3. m.id = c.n /\ m.conversation = c.row.was.id /\ m.external = c.row.mail.external
  BY <1>2
<1>4. PICK d : d = InsertMessage(db, m)
  OBVIOUS
<1>5. Continue(c, d, {})
  BY <1>2, <1>4 DEF StoreInbound, Write
<1>6. db' = d
  BY <1>5 DEF Continue
<1>7. db'.customers = db.customers /\ db'.conversations = db.conversations
  BY <1>4, <1>6 DEF InsertMessage, Insert, Tabled, Watched, CareTables
<1>8. ASSUME ~Has(db, "conversations", m.conversation) PROVE Kept(c)
  <2>1. \A k \in db.customers : k.id # c.row.customer
    BY <1>1, <1>3, <1>8 DEF InThread, Has
  <2>2. QED
    BY <1>1, <1>7, <2>1 DEF Kept
<1>9. ASSUME m.external # "", MessageExists(db, m.external),
             Has(db, "conversations", m.conversation)
      PROVE  Kept(c)
  <2>1. db' = db
    BY <1>4, <1>6, <1>9 DEF InsertMessage, Insert
  <2>2. QED
    BY <1>3, <1>9, <2>1 DEF Kept, Stored, MessageExists
<1>10. ASSUME Has(db, "conversations", m.conversation),
              m.external # "" => ~MessageExists(db, m.external)
       PROVE  Kept(c)
  <2>1. m \in db'.messages
    BY <1>4, <1>6, <1>10 DEF InsertMessage, Insert, Tabled, Watched, CareTables
  <2>2. QED
    BY <1>3, <2>1 DEF Kept, Stored
<1>11. Kept(c)
  BY <1>8, <1>9, <1>10
<1>12. /\ serial' = serial /\ calls' = calls \ {c} /\ Renumbers(SenderOps) /\ AllKept
  BY <1>1, <1>5, <1>11, DeliveryStops
<1>13. MailInv'
  BY <1>7, <1>12, MailSame
<1>14. QED
  BY <1>12, <1>13

(***************************************************************************)
(* All steps                                                               *)
(***************************************************************************)
LEMMA MailOffCare ==
    ASSUME Numbered, serial' \in {serial, serial + 1}, MailInv, OffCare, Undisturbed
    PROVE  MailInv' /\ AllKept
BY MailOff, UndisturbedKeeps

LEMMA MailStatements ==
    ASSUME Numbered, Tabled, CareInv, MailInv, NEW c \in calls, CxStatement(c)
    PROVE  MailInv' /\ AllKept
BY MailOthers, MailInsertSender, MailFindThread, MailOpenThread, MailReopenThread,
   MailStoreInbound, Zenon
DEF CxStatement

LEMMA MailNext ==
    ASSUME Numbered, Tabled, serial' \in {serial, serial + 1}, CareInv, MailInv, [Next]_vars
    PROVE  MailInv' /\ AllKept
<1>1. CASE Quiet
  BY <1>1, QuietOff, QuietUndisturbs, MailOffCare DEF Off
<1>2. CASE MspCore
  BY <1>2, MspOffCare, MspUndisturbs, MailOffCare
<1>3. CASE ItsmCore
  BY <1>3, ItsmOff, ItsmUndisturbs, MailOffCare
<1>4. ASSUME NEW mail \in Mail, Received(mail) PROVE MailInv' /\ AllKept
  <2>1. Undisturbed
    BY <1>4, Zenon DEF Received, Begin, Undisturbed
  <2>2. QED
    BY <1>4, <2>1, MailArrives, UndisturbedKeeps
<1>5. ASSUME NEW u \in Users, CxWork(u) PROVE MailInv' /\ AllKept
  <2>1. Undisturbed
    BY <1>5, CxRequested, RequestedUndisturbs
  <2>2. QED
    BY <1>5, <2>1, MailWork, UndisturbedKeeps
<1>6. CASE CxCore
  BY <1>4, <1>5, <1>6, MailStatements, Zenon DEF CxCore
<1>7. QED
  BY <1>1, <1>2, <1>3, <1>6, Steps

\* A delivery that is over has its message in the inbox, or its customer was deleted,
\* or a rival came between two of its statements (ingest of the CX service over
\* e-mail and WhatsApp): nothing else loses mail, however many are under way.
THEOREM MailStays == Spec => MailIsKept
<1>1. Init => Numbered /\ Tabled /\ CareInv /\ MailInv
  BY NumberedInit, TabledInit, CareInit, MailInit
<1>2. Numbered /\ Tabled /\ CareInv /\ MailInv /\ [Next]_vars
        => (Numbered /\ Tabled /\ CareInv /\ MailInv)' /\ AllKept
  BY NumberedNext, TabledNext, CareNext, MailNext
<1>3. AllKept => \A c \in calls : IsOver(c) =>
                    \/ Stored(c, db')
                    \/ c.row.customer # None /\ \A k \in db'.customers : k.id # c.row.customer
                    \/ Rival(c, db')
  BY Zenon DEF AllKept, Kept
<1>4. QED
  BY <1>1, <1>2, <1>3, PTL DEF Spec, MailIsKept

(***************************************************************************)
(* References.  What an INSERT checks itself is not all of it: a ticket or *)
(* a contract named by a row is checked before, by another statement, and  *)
(* it can be gone by then; but only with its client, which is never made   *)
(* again under that number, and the INSERT does ask for the client.        *)
(***************************************************************************)
OfClients == {"contacts", "contracts", "contexts", "interventions", "entries", "expenses",
              "projects", "drafts", "linked", "discovered", "alerts", "sessions"}
Ticketed == {"interventions", "entries", "expenses", "alerts", "sessions"}
Contracted == {"contexts", "drafts"}
OfCustomers == {"custcontacts", "conversations"}
OfAssets == {"ticketAssets", "linked"}

Owned == {"contexts", "contracts", "projects"}
Targets == Owned \cup {"clients", "customers", "conversations", "citypes", "assets"}
WrittenBack == {"contracts", "projects", "tasks", "alerts", "sessions"}
RefTables == OfClients \cup OfCustomers \cup OfAssets \cup Targets
             \cup {"tasks", "messages", "relationships"}

\* The columns of rows that are updated later that a reference depends on.
Columns ==
    [interventions |-> {"id", "client", "ticket"}, entries |-> {"id", "client", "ticket"},
     alerts |-> {"id", "client", "ticket"}, sessions |-> {"id", "client", "ticket"},
     expenses |-> {"id", "client", "ticket", "project"},
     drafts |-> {"id", "client", "contract"},
     contracts |-> {"id", "client"}, projects |-> {"id", "client"},
     tasks |-> {"id", "project"}, discovered |-> {"id", "client", "asset", "status"}]

Written(t, x) == t \in DOMAIN Columns => Columns[t] \subseteq DOMAIN x
Alike(t, x, y) == Written(t, y) /\ \A f \in Columns[t] : y[f] = x[f]

\* What a row links to is of its client.
Ties(d, t, x) ==
    /\ t \in Ticketed => OfClient(d.contexts, x.ticket, x.client)
    /\ t \in Contracted => OfClient(d.contracts, x.contract, x.client)
    /\ t = "expenses" => OfClient(d.projects, x.project, x.client)

RowOK(d, t, x) ==
    /\ Written(t, x) /\ Ties(d, t, x)
    /\ t \in OfClients => Has(d, "clients", x.client)
    /\ t = "tasks" => Has(d, "projects", x.project)
    /\ t \in OfCustomers => Has(d, "customers", x.customer)
    /\ t = "messages" => Has(d, "conversations", x.conversation)
    /\ t = "assets" => Has(d, "citypes", x.type)
    /\ t = "relationships" =>
          x.source # x.target /\ Has(d, "assets", x.source) /\ Has(d, "assets", x.target)
    /\ t \in OfAssets => Has(d, "assets", x.id)
    /\ t = "discovered" =>
          (x.asset # None => Has(d, "assets", x.asset)) /\ (x.status = "pending" => x.asset = None)

Refs(d) == RefTables \subseteq DOMAIN d /\ \A t \in RefTables : \A x \in d[t] : RowOK(d, t, x)
NamesUnique(d) == \A a, b \in d.assets : a.name = b.name => a = b

---------------------------------------------------------------------------
\* Requests whose row gets their own number.
Makers == {"CreateContract", "CreateProject", "CreateTask", "InsertAlert", "TicketForAlert",
           "RequestRemoteSession", "ImportDiscoveredAsset"}

\* A row that waits to be inserted links to what is of its client, if the client is still there.
Aimed(t, row) ==
    /\ Written(t, row)
    /\ row.client \in Nat /\ row.client # None /\ row.client < serial
    /\ Has(db, "clients", row.client) => Ties(db, t, row)

\* A row that waits to be written back agrees with those that are there.
Agrees(t, row) ==
    /\ Written(t, row) /\ Known(Makers, row.id)
    /\ \A x \in db[t] : x.id = row.id => Alike(t, x, row)

CallRef(c) ==
    /\ c.op = "CreateIntervention" => Aimed("interventions", c.row)
    /\ c.op = "CreateTimeEntry" => Aimed("entries", c.row)
    /\ c.op = "CreateExpense" => Aimed("expenses", c.row)
    /\ c.op \in DraftMakers => Aimed("drafts", c.row)
    /\ c.op = "InsertAlert" => Aimed("alerts", c.row) /\ c.row.id = c.n
    /\ c.op = "RequestRemoteSession" => Aimed("sessions", c.row) /\ c.row.id = c.n
    /\ c.op = "CreateMSPTicket" => Aimed("contexts", c.row.context)
    /\ c.op = "TicketForAlert" =>
          /\ Aimed("contexts", c.row.context) /\ c.row.context.id = c.n
          /\ Written("alerts", c.row.alert)
          /\ c.row.alert.id = c.n /\ c.row.alert.client = c.row.context.client
    /\ c.op = "CreateContract" => Written("contracts", c.row) /\ c.row.id = c.n
    /\ c.op = "CreateProject" => Written("projects", c.row) /\ c.row.id = c.n
    /\ c.op = "CreateTask" => Written("tasks", c.row) /\ c.row.id = c.n
    /\ c.op = "UpdateProjectStatus" => Agrees("projects", c.row)
    /\ c.op = "UpdateTaskStatus" => Agrees("tasks", c.row)
    /\ c.op = "UpdateAlert" => Agrees("alerts", c.row)
    /\ c.op = "UpdateRemoteSession" => Agrees("sessions", c.row)
    /\ c.op = "CreateDiscoveredAsset" => Written("discovered", c.row) /\ c.row.asset = None
    /\ c.op = "CreateRelationship" => c.row.source # c.row.target
    /\ c.op = "ImportDiscoveredAsset" => c.row.asset.id = c.n

ClientsKnown == \A k \in db.clients : k.id \in Nat /\ k.id # None /\ k.id < serial
RowsKnown ==
    /\ \A a \in db.assets : Known(Makers, a.id)
    /\ \A t \in WrittenBack : \A x \in db[t] :
          Known(Makers, x.id) /\ \A y \in db[t] : y.id = x.id => Alike(t, x, y)

RefInv == Refs(db) /\ NamesUnique(db) /\ ClientsKnown /\ RowsKnown /\ \A c \in calls : CallRef(c)

---------------------------------------------------------------------------
(***************************************************************************)
(* What a table keeps for those that name its rows                         *)
(***************************************************************************)
Grown(d, e) ==
    /\ \A t \in Targets : \A x \in d[t] : \E y \in e[t] : y.id = x.id
    /\ \A t \in Owned : \A x \in d[t] : \E y \in e[t] : y.id = x.id /\ y.client = x.client

LEMMA TableNames ==
    /\ Targets \subseteq RefTables /\ WrittenBack \subseteq RefTables
    /\ OfClients \subseteq RefTables /\ DOMAIN Columns \subseteq RefTables
    /\ Owned \subseteq Targets /\ Ticketed \subseteq OfClients /\ Contracted \subseteq OfClients
    /\ Owned = {"contexts", "contracts", "projects"}
    /\ WrittenBack \subseteq DOMAIN Columns
    /\ {"clients", "customers", "conversations", "citypes", "assets"} \subseteq Targets
BY DEF Targets, Owned, OfClients, OfCustomers, OfAssets, RefTables, WrittenBack, Columns, Ticketed,
       Contracted

LEMMA ColumnNames ==
    /\ \A t \in DOMAIN Columns : "id" \in Columns[t]
    /\ \A t \in DOMAIN Columns \cap OfClients : "client" \in Columns[t]
    /\ \A t \in Ticketed : t \in DOMAIN Columns /\ "ticket" \in Columns[t]
    /\ "contract" \in Columns["drafts"]
    /\ "project" \in Columns["expenses"] /\ "project" \in Columns["tasks"]
    /\ {"asset", "status"} \subseteq Columns["discovered"]
    /\ DOMAIN Columns = {"interventions", "entries", "alerts", "sessions", "expenses", "drafts",
                         "contracts", "projects", "tasks", "discovered"}
BY DEF Columns, OfClients, Ticketed

LEMMA RowStays ==
    ASSUME NEW d, NEW e, Grown(d, e), NEW t, NEW x, RowOK(d, t, x) PROVE RowOK(e, t, x)
<1>1. \A s \in Targets : \A id : Has(d, s, id) => Has(e, s, id)
  BY DEF Grown, Has
<1>2. \A s \in Owned : \A id, k : OfClient(d[s], id, k) => OfClient(e[s], id, k)
  BY DEF Grown, OfClient
<1>3. Ties(e, t, x)
  BY <1>2, TableNames DEF RowOK, Ties
<1>4. QED
  BY <1>1, <1>3, TableNames DEF RowOK

LEMMA RefsGrow ==
    ASSUME NEW d, NEW e, Grown(d, e), RefTables \subseteq DOMAIN e,
           \A t \in RefTables : \A x \in e[t] : RowOK(d, t, x) \/ RowOK(e, t, x)
    PROVE  Refs(e)
BY RowStays DEF Refs

\* A row that agrees with one that is as it should be.
LEMMA AlikeOK ==
    ASSUME NEW d, NEW t \in DOMAIN Columns, NEW x, NEW y, RowOK(d, t, x), Alike(t, x, y)
    PROVE  RowOK(d, t, y)
<1>1. Written(t, y) /\ \A f \in Columns[t] : y[f] = x[f]
  BY DEF Alike
<1>2. t \in OfClients => y.client = x.client
  BY <1>1, ColumnNames
<1>3. t \in Ticketed => y.ticket = x.ticket
  BY <1>1, ColumnNames
<1>4. /\ t = "drafts" => y.contract = x.contract
      /\ t \in {"expenses", "tasks"} => y.project = x.project
      /\ t = "discovered" => y.asset = x.asset /\ y.status = x.status
  BY <1>1, ColumnNames
<1>5. t \in OfClients \cup {"tasks"} /\ t \notin OfAssets \cup OfCustomers \cup
      {"messages", "assets", "relationships", "contexts"}
  BY ColumnNames DEF OfClients, OfAssets, OfCustomers
<1>6. Ties(d, t, y)
  BY <1>2, <1>3, <1>4, <1>5, TableNames DEF RowOK, Ties, Contracted
<1>7. QED
  BY <1>1, <1>2, <1>4, <1>5, <1>6 DEF RowOK

LEMMA AlikeItself == ASSUME NEW t, NEW x, Written(t, x) PROVE Alike(t, x, x)
BY DEF Alike

LEMMA AlikeTwice ==
    ASSUME NEW t, NEW x, NEW y, NEW z, Alike(t, x, y), Alike(t, x, z), Written(t, x)
    PROVE  Alike(t, y, z) /\ Alike(t, y, x)
BY DEF Alike

LEMMA AlikeIds ==
    ASSUME NEW t \in DOMAIN Columns, NEW x, NEW y, Alike(t, x, y)
    PROVE  y.id = x.id /\ (t \in OfClients => y.client = x.client)
BY ColumnNames DEF Alike

(***************************************************************************)
(* Statements that leave the inventory and take nothing away that a row    *)
(* could name                                                              *)
(***************************************************************************)
Tame(d, e) ==
    /\ DOMAIN e = DOMAIN d /\ Refs(e) /\ e.assets = d.assets
    /\ \A k \in e.clients : \E j \in d.clients : j.id = k.id
    /\ \A t \in Owned : \A x \in d[t] : \E y \in e[t] : y.id = x.id /\ y.client = x.client
    /\ \A t \in WrittenBack : \A z \in e[t] : \E y \in d[t] : y.id = z.id /\ Alike(t, y, z)

LEMMA TameSame == ASSUME NEW d, Refs(d) PROVE Tame(d, d)
<1>1. \A t \in WrittenBack : \A z \in d[t] : Alike(t, z, z)
  BY AlikeItself, TableNames DEF Refs, RowOK
<1>2. QED
  BY <1>1 DEF Tame

LEMMA TameTwice ==
    ASSUME NEW d, NEW e, NEW f, Tame(d, e), Tame(e, f), Refs(d) PROVE Tame(d, f)
<1>1. ASSUME NEW t \in WrittenBack, NEW z \in f[t]
      PROVE  \E x \in d[t] : x.id = z.id /\ Alike(t, x, z)
  <2>1. PICK y \in e[t] : y.id = z.id /\ Alike(t, y, z)
    BY <1>1 DEF Tame
  <2>2. PICK x \in d[t] : x.id = y.id /\ Alike(t, x, y)
    BY DEF Tame
  <2>3. Alike(t, x, z)
    BY <2>1, <2>2 DEF Alike
  <2>4. QED
    BY <2>1, <2>2, <2>3
<1>2. \A t \in Owned : \A x \in d[t] : \E y \in f[t] : y.id = x.id /\ y.client = x.client
  BY DEF Tame
<1>3. QED
  BY <1>1, <1>2 DEF Tame

\* A statement on one table.
LEMMA TameTable ==
    ASSUME NEW d, Refs(d), NEW e, DOMAIN e = DOMAIN d, NEW T, T # "assets",
           \A t \in DOMAIN d : t # T => e[t] = d[t],
           T \in RefTables => \A z \in e[T] : RowOK(d, T, z),
           T \in Targets => \A x \in d[T] : \E y \in e[T] :
               y.id = x.id /\ (T \in Owned => y.client = x.client),
           T = "clients" => \A k \in e[T] : \E j \in d[T] : j.id = k.id,
           T \in WrittenBack =>
               \A z \in e[T] : \E y \in d[T] : y.id = z.id /\ Alike(T, y, z)
    PROVE  Tame(d, e)
<1>1. RefTables \subseteq DOMAIN d
  BY DEF Refs
<1>2. Tame(d, d)
  BY TameSame
<1>3. Grown(d, e)
  BY <1>1, TableNames DEF Grown
<1>4. \A t \in RefTables : \A x \in e[t] : RowOK(d, t, x)
  BY <1>1 DEF Refs
<1>5. Refs(e)
  BY <1>1, <1>3, <1>4, RefsGrow
<1>6. e.assets = d.assets
  BY <1>1, TableNames
<1>7. \A k \in e.clients : \E j \in d.clients : j.id = k.id
  BY <1>1, TableNames
<1>8. \A t \in Owned : \A x \in d[t] : \E y \in e[t] : y.id = x.id /\ y.client = x.client
  BY <1>3 DEF Grown
<1>9. \A t \in WrittenBack : \A z \in e[t] : \E y \in d[t] : y.id = z.id /\ Alike(t, y, z)
  BY <1>1, <1>2, TableNames DEF Tame
<1>10. QED
  BY <1>5, <1>6, <1>7, <1>8, <1>9 DEF Tame

\* Tables that no reference is about.
LEMMA TameElsewhere ==
    ASSUME NEW d, Refs(d), NEW T, T \notin RefTables, NEW e, DOMAIN e = DOMAIN d,
           \A t \in DOMAIN d : t # T => e[t] = d[t]
    PROVE  Tame(d, e)
BY TameTable, TableNames

LEMMA TameOthers ==
    ASSUME NEW d, Refs(d), NEW T, T \notin RefTables
    PROVE  /\ \A row, ok : Tame(d, Insert(d, T, row, ok))
           /\ \A row : Tame(d, Put(d, T, row))
           /\ \A ids, field, value : Tame(d, SetField(d, T, ids, field, value))
           /\ \A id : Tame(d, Remove(d, T, id))
<1>1. ASSUME NEW S, NEW e, e = [d EXCEPT ![T] = S] PROVE Tame(d, e)
  <2>1. DOMAIN e = DOMAIN d /\ \A t \in DOMAIN d : t # T => e[t] = d[t]
    BY <1>1
  <2>2. QED
    BY <2>1, TameElsewhere
<1>2. \A row, ok : Tame(d, Insert(d, T, row, ok))
  BY <1>1, TameSame DEF Insert
<1>3. \A row : Tame(d, Put(d, T, row))
  BY <1>1 DEF Put
<1>4. \A ids, field, value : Tame(d, SetField(d, T, ids, field, value))
  BY <1>1 DEF SetField
<1>5. \A id : Tame(d, Remove(d, T, id))
  BY <1>1 DEF Remove
<1>6. QED
  BY <1>2, <1>3, <1>4, <1>5

LEMMA TameInsert ==
    ASSUME NEW d, Refs(d), NEW T \in RefTables \ (WrittenBack \cup {"assets", "clients"}),
           NEW row, NEW ok, ok => RowOK(d, T, row)
    PROVE  Tame(d, Insert(d, T, row, ok))
<1>1. CASE ~ok
  BY <1>1, TameSame DEF Insert
<1>2. CASE ok
  <2>1. Insert(d, T, row, ok) = [d EXCEPT ![T] = @ \cup {row}]
    BY <1>2 DEF Insert
  <2>2. PICK e : e = Insert(d, T, row, ok)
    OBVIOUS
  <2>3. e[T] = d[T] \cup {row} /\ DOMAIN e = DOMAIN d /\ \A t \in DOMAIN d : t # T => e[t] = d[t]
    BY <2>1, <2>2 DEF Refs
  <2>4. \A z \in e[T] : RowOK(d, T, z)
    BY <1>2, <2>3 DEF Refs
  <2>5. QED
    BY <2>2, <2>3, <2>4, TameTable
<1>3. QED
  BY <1>1, <1>2

LEMMA TamePut ==
    ASSUME NEW d, Refs(d), NEW T \in RefTables \ {"assets"}, NEW row,
           \A x \in d[T] : x.id = row.id =>
               /\ RowOK(d, T, row)
               /\ T \in Owned => row.client = x.client
               /\ T \in WrittenBack => Alike(T, x, row)
    PROVE  Tame(d, Put(d, T, row))
<1>1. PICK e : e = Put(d, T, row)
  OBVIOUS
<1>2. /\ e[T] = {IF x.id = row.id THEN row ELSE x : x \in d[T]}
      /\ DOMAIN e = DOMAIN d /\ \A t \in DOMAIN d : t # T => e[t] = d[t]
  BY <1>1 DEF Put, Refs
<1>3. \A z \in e[T] : \E x \in d[T] : z.id = x.id /\ (z = x \/ z = row)
  BY <1>2
<1>4. \A x \in d[T] : \E z \in e[T] : z.id = x.id /\ (z = x \/ z = row)
  BY <1>2
<1>5. \A x \in d[T] : T \in WrittenBack => Alike(T, x, x)
  BY TameSame, AlikeItself DEF Refs, RowOK
<1>6. \A z \in e[T] : RowOK(d, T, z)
  BY <1>3 DEF Refs
<1>7. QED
  BY <1>1, <1>2, <1>3, <1>4, <1>5, <1>6, TameTable

LEMMA TameSetField ==
    ASSUME NEW d, Refs(d), NEW T \in {"interventions", "entries", "expenses", "drafts"},
           NEW ids, NEW field, field \notin Columns[T], NEW value
    PROVE  Tame(d, SetField(d, T, ids, field, value))
<1>1. PICK e : e = SetField(d, T, ids, field, value)
  OBVIOUS
<1>2. /\ T \in RefTables /\ T \in DOMAIN Columns
      /\ T \notin Targets \cup WrittenBack \cup {"assets", "clients"}
  BY TableNames, ColumnNames DEF Targets, Owned, WrittenBack
<1>3. /\ e[T] = {IF x.id \in ids THEN [x EXCEPT ![field] = value] ELSE x : x \in d[T]}
      /\ DOMAIN e = DOMAIN d /\ \A t \in DOMAIN d : t # T => e[t] = d[t]
  BY <1>1, <1>2 DEF SetField, Refs
<1>4. ASSUME NEW x \in d[T], NEW z, z = [x EXCEPT ![field] = value] PROVE RowOK(d, T, z)
  <2>1. RowOK(d, T, x)
    BY <1>2 DEF Refs
  <2>2. Columns[T] \subseteq DOMAIN x
    BY <1>2, <2>1 DEF RowOK, Written
  <2>3. DOMAIN z = DOMAIN x /\ \A f \in DOMAIN x : f # field => z[f] = x[f]
    BY <1>4
  <2>4. Alike(T, x, z)
    BY <1>2, <2>2, <2>3 DEF Alike, Written
  <2>5. QED
    BY <1>2, <2>1, <2>4, AlikeOK
<1>5. \A z \in e[T] : RowOK(d, T, z)
  BY <1>2, <1>3, <1>4 DEF Refs
<1>6. QED
  BY <1>1, <1>2, <1>3, <1>5, TameTable

LEMMA TameSubset ==
    ASSUME NEW d, Refs(d), NEW T \in RefTables \ Targets, NEW S, S \subseteq d[T]
    PROVE  Tame(d, [d EXCEPT ![T] = S])
<1>1. PICK e : e = [d EXCEPT ![T] = S]
  OBVIOUS
<1>2. e[T] = S /\ DOMAIN e = DOMAIN d /\ \A t \in DOMAIN d : t # T => e[t] = d[t]
  BY <1>1 DEF Refs
<1>3. T # "assets" /\ T # "clients"
  BY TableNames
<1>4. \A x \in d[T] : T \in WrittenBack => Alike(T, x, x)
  BY AlikeItself DEF Refs, RowOK
<1>5. \A z \in e[T] : RowOK(d, T, z)
  BY <1>2 DEF Refs
<1>6. QED
  BY <1>1, <1>2, <1>3, <1>4, <1>5, TameTable

LEMMA FreeTables ==
    \A t \in {"technicians", "availability", "sources", "tickets", "emailAccounts",
              "whatsappAccounts", "policies", "rules", "replies", "surveys", "categories",
              "services", "problems", "incidents", "changes", "changeTickets"} :
        t \notin RefTables
BY DEF RefTables, OfClients, OfCustomers, OfAssets, Targets, Owned

LEMMA PlainRows ==
    ASSUME NEW d, NEW t \in {"clients", "customers", "citypes"}, NEW x PROVE RowOK(d, t, x)
BY ColumnNames, TableNames
DEF RowOK, Ties, Written, OfClients, OfCustomers, OfAssets, Ticketed, Contracted

\* Rows that wait to be inserted in a table of clients.
LEMMA AimedOK ==
    ASSUME NEW t \in OfClients \ {"linked", "discovered"}, NEW row, Aimed(t, row),
           Has(db, "clients", row.client)
    PROVE  RowOK(db, t, row)
<1>1. t \notin {"tasks", "messages", "assets", "relationships", "discovered"} \cup OfCustomers
               \cup OfAssets
  BY DEF OfClients, OfCustomers, OfAssets
<1>2. QED
  BY <1>1 DEF Aimed, RowOK

(***************************************************************************)
(* MSP                                                                     *)
(***************************************************************************)
LEMMA MspTame ==
    ASSUME NEW d, Refs(d)
    PROVE  /\ \A c : Tame(d, UpdateClientRow(d, c))
           /\ \A k, id : Tame(d, DeleteContactRow(d, k, id))
           /\ \A x : Tame(d, InsertTechnician(d, x))
           /\ \A x : Tame(d, UpdateTechnicianRow(d, x))
           /\ \A x : Tame(d, InsertAvailability(d, x))
           /\ \A x : Tame(d, DeleteClientAsset(d, x))
           /\ \A x : Tame(d, InsertMonitoringSource(d, x))
           /\ \A id, token : Tame(d, UpdateSourceToken(d, id, token))
           /\ \A x : Tame(d, InsertContact(d, x))
           /\ \A x : Tame(d, UpdateInterventionRow(d, x))
           /\ \A x : Tame(d, UpdateBillingDraftRow(d, x))
           /\ \A x : Tame(d, InsertClientAsset(d, x))
<1>1. ASSUME NEW c PROVE Tame(d, UpdateClientRow(d, c))
  <2>1. Tame(d, Put(d, "clients", c))
    <3>1. "clients" \in RefTables \ {"assets"} /\ "clients" \notin Owned \cup WrittenBack
      BY TableNames DEF WrittenBack
    <3>2. RowOK(d, "clients", c)
      BY PlainRows
    <3>3. QED
      BY <3>1, <3>2, TamePut
  <2>2. QED
    BY <2>1, TameSame DEF UpdateClientRow
<1>2. ASSUME NEW k, NEW id PROVE Tame(d, DeleteContactRow(d, k, id))
  <2>1. "contacts" \in RefTables \ Targets
    BY DEF RefTables, OfClients, Targets, Owned
  <2>2. {x \in d.contacts : x.id # id \/ x.client # k} \subseteq d["contacts"]
    OBVIOUS
  <2>3. QED
    BY <2>1, <2>2, TameSubset DEF DeleteContactRow
<1>3. /\ \A x : Tame(d, InsertTechnician(d, x))
      /\ \A x : Tame(d, InsertAvailability(d, x))
      /\ \A x : Tame(d, InsertMonitoringSource(d, x))
  BY TameOthers, FreeTables DEF InsertTechnician, InsertAvailability, InsertMonitoringSource
<1>4. /\ \A x : Tame(d, UpdateTechnicianRow(d, x))
      /\ \A id, token : Tame(d, UpdateSourceToken(d, id, token))
  BY TameOthers, FreeTables DEF UpdateTechnicianRow, UpdateSourceToken
<1>5. ASSUME NEW x PROVE Tame(d, DeleteClientAsset(d, x))
  <2>1. "linked" \in RefTables \ Targets
    BY DEF RefTables, OfClients, Targets, Owned
  <2>2. d.linked \ {x} \subseteq d["linked"]
    OBVIOUS
  <2>3. QED
    BY <2>1, <2>2, TameSubset DEF DeleteClientAsset
<1>6. ASSUME NEW x PROVE Tame(d, InsertContact(d, x))
  <2>1. "contacts" \in RefTables \ (WrittenBack \cup {"assets", "clients"})
    BY DEF RefTables, OfClients, WrittenBack
  <2>2. Has(d, "clients", x.client) => RowOK(d, "contacts", x)
    BY ColumnNames
    DEF RowOK, Ties, Written, OfClients, OfCustomers, OfAssets, Ticketed, Contracted
  <2>3. QED
    BY <2>1, <2>2, TameInsert DEF InsertContact
<1>7. \A x : Tame(d, UpdateInterventionRow(d, x))
  <2>1. "status" \notin Columns["interventions"]
    BY DEF Columns
  <2>2. QED
    BY <2>1, TameSetField DEF UpdateInterventionRow
<1>8. \A x : Tame(d, UpdateBillingDraftRow(d, x))
  <2>1. "status" \notin Columns["drafts"]
    BY DEF Columns
  <2>2. QED
    BY <2>1, TameSetField DEF UpdateBillingDraftRow
<1>9. ASSUME NEW x PROVE Tame(d, InsertClientAsset(d, x))
  <2>1. "linked" \in RefTables \ (WrittenBack \cup {"assets", "clients"})
    BY DEF RefTables, OfClients, WrittenBack
  <2>2. PICK ok : ok = (Has(d, "clients", x.client) /\ Has(d, "assets", x.id))
    OBVIOUS
  <2>3. ok => RowOK(d, "linked", x)
    BY <2>2, ColumnNames
    DEF RowOK, Ties, Written, OfClients, OfCustomers, OfAssets, Ticketed, Contracted
  <2>4. Tame(d, Insert(d, "linked", x, ok))
    BY <2>1, <2>3, TameInsert
  <2>5. InsertClientAsset(d, x) = Insert(d, "linked", x, ok)
    BY <2>2 DEF InsertClientAsset, Insert
  <2>6. QED
    BY <2>4, <2>5
<1>10. QED
  BY <1>1, <1>2, <1>3, <1>4, <1>5, <1>6, <1>7, <1>8, <1>9

\* What a request checked before, its INSERT can rely on.
LEMMA TameAimed ==
    ASSUME Refs(db), NEW t \in {"interventions", "entries", "expenses"}, NEW row, Aimed(t, row),
           NEW ok, ok => Has(db, "clients", row.client)
    PROVE  Tame(db, Insert(db, t, row, ok))
<1>1. t \in RefTables \ (WrittenBack \cup {"assets", "clients"})
  BY DEF RefTables, OfClients, WrittenBack
<1>2. t \in OfClients \ {"linked", "discovered"}
  BY DEF OfClients
<1>3. QED
  BY <1>1, <1>2, AimedOK, TameInsert

LEMMA TicketTame ==
    ASSUME Refs(db), NEW ticket, NEW context, Aimed("contexts", context)
    PROVE  Tame(db, InsertTicketWithContext(db, ticket, context))
<1>1. PICK ok : ok = (Has(db, "clients", context.client) /\ Keyed(db, "contracts", context.contract))
  OBVIOUS
<1>2. CASE ~ok
  BY <1>1, <1>2, TameSame DEF InsertTicketWithContext
<1>3. CASE ok
  <2>1. PICK e : e = [db EXCEPT !.contexts = @ \cup {context}]
    OBVIOUS
  <2>2. Tame(db, e)
    <3>1. "contexts" \in RefTables \ (WrittenBack \cup {"assets", "clients"})
          /\ "contexts" \in OfClients \ {"linked", "discovered"}
      BY DEF RefTables, OfClients, WrittenBack
    <3>2. RowOK(db, "contexts", context)
      BY <1>1, <1>3, <3>1, AimedOK
    <3>3. Tame(db, Insert(db, "contexts", context, TRUE))
      BY <3>1, <3>2, TameInsert
    <3>4. QED
      BY <2>1, <3>3 DEF Insert
  <2>3. PICK f : f = InsertTicketWithContext(db, ticket, context)
    OBVIOUS
  <2>4. f = [db EXCEPT !.tickets = @ \cup {ticket}, !.contexts = @ \cup {context}]
    BY <1>1, <1>3, <2>3 DEF InsertTicketWithContext
  <2>5. DOMAIN f = DOMAIN e /\ \A t \in DOMAIN e : t # "tickets" => f[t] = e[t]
    BY <2>1, <2>4
  <2>6. Tame(e, f)
    BY <2>2, <2>5, TameElsewhere, FreeTables DEF Tame
  <2>7. QED
    BY <2>2, <2>3, <2>6, TameTwice
<1>4. QED
  BY <1>2, <1>3

LEMMA DraftTame ==
    ASSUME Refs(db), NEW draft, Aimed("drafts", draft)
    PROVE  Tame(db, InsertBillingDraft(db, draft))
<1>1. PICK e : e = SetField(db, "entries", Billed(draft, "time"), "billed", TRUE)
  OBVIOUS
<1>2. PICK f : f = SetField(e, "expenses", Billed(draft, "expense"), "billed", TRUE)
  OBVIOUS
<1>3. Tame(db, e) /\ Tame(e, f)
  <2>1. "billed" \notin Columns["entries"] /\ "billed" \notin Columns["expenses"]
    BY DEF Columns
  <2>2. Tame(db, e)
    BY <1>1, <2>1, TameSetField
  <2>3. Refs(e)
    BY <2>2 DEF Tame
  <2>4. QED
    BY <1>2, <2>1, <2>2, <2>3, TameSetField
<1>4. Tame(db, f) /\ Refs(f)
  <2>1. Tame(db, f)
    BY <1>3, TameTwice
  <2>2. QED
    BY <2>1 DEF Tame
<1>5. PICK g : g = InsertBillingDraft(db, draft)
  OBVIOUS
<1>6. g = db \/ (/\ Has(db, "clients", draft.client)
                 /\ g = [f EXCEPT !.drafts = @ \cup {draft}])
  BY <1>1, <1>2, <1>5 DEF InsertBillingDraft
<1>7. CASE Has(db, "clients", draft.client) /\ g = [f EXCEPT !.drafts = @ \cup {draft}]
  <2>1. "drafts" \in OfClients \ {"linked", "discovered"}
        /\ "drafts" \in RefTables \ (WrittenBack \cup {"assets", "clients"})
    BY DEF RefTables, OfClients, WrittenBack
  <2>2. RowOK(db, "drafts", draft)
    BY <1>7, <2>1, AimedOK
  <2>3. f.clients = db.clients /\ f.contracts = db.contracts
    <3>1. {"clients", "contracts"} \subseteq DOMAIN db
      BY TableNames DEF Refs
    <3>2. e.clients = db.clients /\ e.contracts = db.contracts /\ DOMAIN e = DOMAIN db
      BY <1>1, <3>1 DEF SetField
    <3>3. QED
      BY <1>2, <3>1, <3>2 DEF SetField
  <2>4. RowOK(f, "drafts", draft)
    BY <2>2, <2>3
    DEF RowOK, Ties, Has, OfClients, OfCustomers, OfAssets, Ticketed, Contracted
  <2>5. Tame(f, Insert(f, "drafts", draft, TRUE))
    BY <1>4, <2>1, <2>4, TameInsert
  <2>6. Tame(f, g)
    BY <1>7, <2>5 DEF Insert
  <2>7. QED
    BY <1>4, <1>5, <2>6, TameTwice
<1>8. QED
  BY <1>5, <1>6, <1>7, TameSame

LEMMA WriteBackTame ==
    ASSUME Refs(db), NEW t \in {"projects", "tasks", "alerts", "sessions"}, NEW row, Agrees(t, row)
    PROVE  Tame(db, Put(db, t, row))
<1>1. t \in RefTables \ {"assets"} /\ t \in DOMAIN Columns
  BY TableNames, ColumnNames DEF WrittenBack
<1>2. t \in Owned => t \in OfClients
  BY DEF Owned, OfClients
<1>3. ASSUME NEW x \in db[t], x.id = row.id
      PROVE  RowOK(db, t, row) /\ Alike(t, x, row) /\ (t \in Owned => row.client = x.client)
  <2>1. Alike(t, x, row) /\ RowOK(db, t, x)
    BY <1>1, <1>3 DEF Agrees, Refs
  <2>2. QED
    BY <1>1, <1>2, <2>1, AlikeOK, AlikeIds
<1>4. QED
  BY <1>1, <1>3, TamePut

LEMMA ContractTame ==
    ASSUME RefInv, NEW c, Written("contracts", c) PROVE Tame(db, UpdateContractRow(db, c))
<1>1. Refs(db) /\ "contracts" \in RefTables \ {"assets"} /\ "contracts" \in DOMAIN Columns
      /\ "contracts" \in WrittenBack /\ "contracts" \in OfClients
  BY TableNames, ColumnNames DEF RefInv, WrittenBack, OfClients
<1>2. ASSUME Has(db, "contracts", c.id)
      PROVE  Tame(db, Put(db, "contracts", [c EXCEPT !.client = Row(db, "contracts", c.id).client]))
  <2>1. PICK y : y = Row(db, "contracts", c.id)
    OBVIOUS
  <2>2. y \in db.contracts /\ y.id = c.id
    BY <1>2, <2>1 DEF Row, Has
  <2>3. PICK w : w = [c EXCEPT !.client = y.client]
    OBVIOUS
  <2>4. w.id = y.id /\ w.client = y.client /\ Written("contracts", w)
    BY <2>2, <2>3, ColumnNames DEF Written
  <2>5. Alike("contracts", y, w)
    BY <2>4 DEF Alike, Columns
  <2>6. ASSUME NEW x \in db["contracts"], x.id = w.id
        PROVE  RowOK(db, "contracts", w) /\ Alike("contracts", x, w) /\ w.client = x.client
    <3>1. Alike("contracts", y, x)
      BY <1>1, <2>2, <2>4, <2>6 DEF RefInv, RowsKnown
    <3>2. RowOK(db, "contracts", y)
      BY <1>1, <2>2 DEF Refs
    <3>3. Alike("contracts", x, w)
      BY <2>5, <3>1, <3>2, AlikeTwice DEF RowOK
    <3>4. QED
      BY <1>1, <2>5, <3>2, <3>3, AlikeOK, AlikeIds
  <2>7. Tame(db, Put(db, "contracts", w))
    BY <1>1, <2>6, TamePut
  <2>8. QED
    BY <2>1, <2>3, <2>7
<1>3. QED
  BY <1>1, <1>2, TameSame DEF UpdateContractRow

LEMMA DiscoveredTame ==
    ASSUME Refs(db), NEW a, Written("discovered", a), a.asset = None
    PROVE  Tame(db, InsertDiscoveredAsset(db, a))
<1>1. "discovered" \in RefTables \ (WrittenBack \cup {"assets", "clients"})
  BY DEF RefTables, OfClients, WrittenBack
<1>2. Has(db, "clients", a.client) => RowOK(db, "discovered", a)
  BY DEF RowOK, Ties, OfClients, OfCustomers, OfAssets, Ticketed, Contracted
<1>3. QED
  BY <1>1, <1>2, TameInsert DEF InsertDiscoveredAsset

LEMMA AlertTame ==
    ASSUME Refs(db), NEW row, Agrees("alerts", row) PROVE Tame(db, UpdateAlertRow(db, row))
BY WriteBackTame, TameSame DEF UpdateAlertRow

(***************************************************************************)
(* Customer service                                                        *)
(***************************************************************************)
LEMMA CxRows ==
    ASSUME NEW d, NEW x
    PROVE  /\ \A t \in OfCustomers : Has(d, "customers", x.customer) => RowOK(d, t, x)
           /\ Has(d, "conversations", x.conversation) => RowOK(d, "messages", x)
BY ColumnNames
DEF RowOK, Ties, Written, OfClients, OfCustomers, OfAssets, Ticketed, Contracted

LEMMA DeleteCustomerTame ==
    ASSUME NEW d, Refs(d), NEW k PROVE Tame(d, DeleteCustomerRow(d, k))
<1>1. PICK gone : gone = {x.id : x \in {y \in d.conversations : y.customer = k}}
  OBVIOUS
<1>2. PICK e : e = DeleteCustomerRow(d, k)
  OBVIOUS
<1>3. {"customers", "custcontacts", "conversations", "messages"} \subseteq DOMAIN d
  BY DEF Refs, RefTables, OfCustomers, Targets
<1>4. /\ DOMAIN e = DOMAIN d
      /\ e.customers = {x \in d.customers : x.id # k}
      /\ e.custcontacts = {x \in d.custcontacts : x.customer # k}
      /\ e.conversations = {x \in d.conversations : x.customer # k}
      /\ e.messages = {x \in d.messages : x.conversation \notin gone}
      /\ \A t \in DOMAIN d : t \notin {"customers", "custcontacts", "conversations", "messages",
                                       "surveys"} => e[t] = d[t]
  BY <1>1, <1>2, <1>3 DEF DeleteCustomerRow, Remove
<1>5. \A t \in RefTables : t \in DOMAIN d /\ t # "surveys"
  BY FreeTables DEF Refs
<1>6. Tame(d, d)
  BY TameSame
<1>7. \A t \in Owned \cup WrittenBack \cup {"assets", "clients"} : e[t] = d[t]
  BY <1>4, <1>5, TableNames DEF WrittenBack
<1>8. ASSUME NEW t \in RefTables, NEW x \in e[t] PROVE RowOK(e, t, x)
  <2>1. x \in d[t] /\ RowOK(d, t, x)
    BY <1>4, <1>5 DEF Refs
  <2>2. CASE t \in OfCustomers
    <3>1. Has(e, "customers", x.customer)
      BY <1>4, <2>1, <2>2 DEF RowOK, Has, OfCustomers
    <3>2. QED
      BY <2>2, <3>1, CxRows
  <2>3. CASE t = "messages"
    <3>1. PICK v \in d.conversations : v.id = x.conversation
      BY <2>1, <2>3 DEF RowOK, Has
    <3>2. v.customer # k
      BY <1>1, <1>4, <2>3, <3>1
    <3>3. Has(e, "conversations", x.conversation)
      BY <1>4, <3>1, <3>2 DEF Has
    <3>4. QED
      BY <2>3, <3>3, CxRows
  <2>4. CASE t \notin OfCustomers \cup {"messages"}
    <3>1. /\ e.clients = d.clients /\ e.contexts = d.contexts /\ e.contracts = d.contracts
          /\ e.projects = d.projects /\ e.assets = d.assets /\ e.citypes = d.citypes
      BY <1>4, <1>5 DEF RefTables, Targets, Owned
    <3>2. QED
      BY <2>1, <2>4, <3>1 DEF RowOK, Ties, Has
  <2>5. QED
    BY <2>2, <2>3, <2>4
<1>9. Refs(e)
  BY <1>4, <1>5, <1>8 DEF Refs
<1>10. QED
  BY <1>2, <1>4, <1>6, <1>7, <1>9 DEF Tame

LEMMA CxTame ==
    ASSUME NEW d, Refs(d)
    PROVE  /\ \A x : Tame(d, InsertCustomer(d, x))
           /\ \A x : Tame(d, UpdateCustomerRow(d, x))
           /\ \A x : Tame(d, InsertCustomerContact(d, x))
           /\ \A k, id : Tame(d, DeleteCustomerContactRow(d, k, id))
           /\ \A x : Tame(d, InsertConversation(d, x))
           /\ \A x : Tame(d, InsertMessage(d, x))
           /\ \A x : Tame(d, InsertSurvey(d, x))
           /\ \A x : Tame(d, InsertEmailAccount(d, x))
           /\ \A x : Tame(d, UpdateEmailAccountRow(d, x))
           /\ \A x : Tame(d, InsertWhatsAppAccount(d, x))
           /\ \A x : Tame(d, UpdateWhatsAppAccountRow(d, x))
           /\ \A x : Tame(d, UpsertSLAPolicyRow(d, x))
           /\ \A x : Tame(d, InsertAssignmentRule(d, x))
           /\ \A id : Tame(d, DeleteAssignmentRuleRow(d, id))
           /\ \A x : Tame(d, InsertAutoReply(d, x))
           /\ \A id : Tame(d, DeleteAutoReplyRow(d, id))
<1>1. /\ {"customers", "custcontacts", "conversations", "messages"}
           \subseteq RefTables \ (WrittenBack \cup {"assets", "clients"})
      /\ {"custcontacts", "conversations"} \subseteq OfCustomers
      /\ "customers" \notin Owned \cup WrittenBack
  BY DEF RefTables, OfClients, OfCustomers, Targets, Owned, WrittenBack
<1>2. \A x : RowOK(d, "customers", x)
  BY PlainRows
<1>3. ASSUME NEW x PROVE Tame(d, InsertCustomer(d, x))
  BY <1>1, <1>2, TameInsert DEF InsertCustomer
<1>4. ASSUME NEW x PROVE Tame(d, UpdateCustomerRow(d, x))
  <2>1. Tame(d, Put(d, "customers", x))
    BY <1>1, <1>2, TamePut
  <2>2. QED
    BY <2>1, TameSame DEF UpdateCustomerRow
<1>5. ASSUME NEW x PROVE Tame(d, InsertCustomerContact(d, x))
  BY <1>1, CxRows, TameInsert DEF InsertCustomerContact
<1>6. ASSUME NEW k, NEW id PROVE Tame(d, DeleteCustomerContactRow(d, k, id))
  <2>1. "custcontacts" \in RefTables \ Targets
    BY <1>1 DEF Targets, Owned
  <2>2. {x \in d.custcontacts : x.id # id \/ x.customer # k} \subseteq d["custcontacts"]
    OBVIOUS
  <2>3. QED
    BY <2>1, <2>2, TameSubset DEF DeleteCustomerContactRow
<1>7. ASSUME NEW x PROVE Tame(d, InsertConversation(d, x))
  BY <1>1, CxRows, TameInsert DEF InsertConversation
<1>8. ASSUME NEW x PROVE Tame(d, InsertMessage(d, x))
  BY <1>1, CxRows, TameInsert DEF InsertMessage
<1>9. /\ \A x : Tame(d, InsertSurvey(d, x)) /\ Tame(d, InsertEmailAccount(d, x))
      /\ \A x : Tame(d, InsertWhatsAppAccount(d, x)) /\ Tame(d, InsertAssignmentRule(d, x))
      /\ \A x : Tame(d, InsertAutoReply(d, x))
  BY TameOthers, FreeTables
  DEF InsertSurvey, InsertEmailAccount, InsertWhatsAppAccount, InsertAssignmentRule,
      InsertAutoReply
<1>10. /\ \A x : Tame(d, UpdateEmailAccountRow(d, x)) /\ Tame(d, UpdateWhatsAppAccountRow(d, x))
       /\ \A x : Tame(d, UpsertSLAPolicyRow(d, x))
  BY TameOthers, FreeTables
  DEF UpdateEmailAccountRow, UpdateWhatsAppAccountRow, UpsertSLAPolicyRow
<1>11. /\ \A id : Tame(d, DeleteAssignmentRuleRow(d, id)) /\ Tame(d, DeleteAutoReplyRow(d, id))
  BY TameOthers, FreeTables DEF DeleteAssignmentRuleRow, DeleteAutoReplyRow
<1>12. QED
  BY <1>3, <1>4, <1>5, <1>6, <1>7, <1>8, <1>9, <1>10, <1>11

\* What is written back of a conversation is of the customer it had.
LEMMA ConversationTame ==
    ASSUME Refs(db), NEW w, Fits(w) PROVE Tame(db, UpdateConversationRow(db, w))
<1>1. "conversations" \in RefTables \ {"assets"} /\ "conversations" \in OfCustomers
      /\ "conversations" \notin Owned \cup WrittenBack
  BY DEF RefTables, OfCustomers, Owned, WrittenBack
<1>2. ASSUME NEW z, z.id = w.id, z.customer = w.customer
      PROVE  Tame(db, Put(db, "conversations", z))
  <2>1. ASSUME NEW x \in db["conversations"], x.id = z.id PROVE RowOK(db, "conversations", z)
    <3>1. x.customer = z.customer /\ RowOK(db, "conversations", x)
      BY <1>1, <1>2, <2>1 DEF Fits, Refs
    <3>2. QED
      BY <1>1, <3>1, CxRows DEF RowOK
  <2>2. QED
    BY <1>1, <2>1, TamePut
<1>3. PICK z : z = [w EXCEPT !.ended =
                       Row(db, "conversations", w.id).ended \/ w.status \in Over]
  OBVIOUS
<1>4. z.id = w.id /\ z.customer = w.customer
  BY <1>3 DEF Fits, ConversationRow
<1>5. QED
  BY <1>2, <1>3, <1>4, TameSame DEF UpdateConversationRow

(***************************************************************************)
(* ITSM                                                                    *)
(***************************************************************************)
LEMMA TypeTame == ASSUME NEW d, Refs(d), NEW id PROVE Tame(d, DeleteCITypeRow(d, id))
<1>1. CASE \E a \in d.assets : a.type = id
  BY <1>1, TameSame DEF DeleteCITypeRow
<1>2. CASE \A a \in d.assets : a.type # id
  <2>1. PICK e : e = [d EXCEPT !.citypes = {x \in @ : x.id # id}]
    OBVIOUS
  <2>2. RefTables \subseteq DOMAIN d /\ "citypes" \in DOMAIN d
    BY TableNames DEF Refs
  <2>3. /\ DOMAIN e = DOMAIN d /\ e.citypes = {x \in d.citypes : x.id # id}
        /\ \A t \in DOMAIN d : t # "citypes" => e[t] = d[t]
    BY <2>1, <2>2
  <2>4. Tame(d, d)
    BY TameSame
  <2>5. \A t \in Owned \cup WrittenBack \cup {"assets", "clients"} : e[t] = d[t]
    BY <2>2, <2>3, TableNames DEF WrittenBack
  <2>6. ASSUME NEW t \in RefTables, NEW x \in e[t] PROVE RowOK(e, t, x)
    <3>1. x \in d[t] /\ RowOK(d, t, x)
      BY <2>2, <2>3 DEF Refs
    <3>2. t = "assets" => Has(e, "citypes", x.type)
      BY <1>2, <2>3, <3>1 DEF RowOK, Has
    <3>3. \A s \in Targets : s # "citypes" => e[s] = d[s]
      BY <2>2, <2>3, TableNames
    <3>4. /\ e.clients = d.clients /\ e.contexts = d.contexts /\ e.contracts = d.contracts
          /\ e.projects = d.projects /\ e.assets = d.assets /\ e.customers = d.customers
          /\ e.conversations = d.conversations
      BY <3>3 DEF Targets, Owned
    <3>5. QED
      BY <3>1, <3>2, <3>4 DEF RowOK, Ties, Has
  <2>7. Refs(e)
    BY <2>2, <2>3, <2>6 DEF Refs
  <2>8. Tame(d, e)
    BY <2>3, <2>4, <2>5, <2>7 DEF Tame
  <2>9. QED
    BY <1>2, <2>1, <2>8 DEF DeleteCITypeRow, Remove
<1>3. QED
  BY <1>1, <1>2

LEMMA ItsmTame ==
    ASSUME NEW d, Refs(d)
    PROVE  /\ \A x : Tame(d, InsertCategory(d, x))
           /\ \A x : Tame(d, UpdateCategoryRow(d, x))
           /\ \A id : Tame(d, DeleteCategoryRow(d, id))
           /\ \A x : Tame(d, InsertService(d, x))
           /\ \A x : Tame(d, UpdateServiceRow(d, x))
           /\ \A id : Tame(d, DeleteServiceRow(d, id))
           /\ \A x : Tame(d, InsertCIType(d, x))
           /\ \A id : Tame(d, DeleteRelationshipRow(d, id))
           /\ \A x : Tame(d, InsertTicketAsset(d, x))
           /\ \A x : Tame(d, DeleteTicketAsset(d, x))
           /\ \A x : Tame(d, InsertProblem(d, x))
           /\ \A x : Tame(d, UpdateProblemRow(d, x))
           /\ \A x : Tame(d, InsertIncident(d, x))
           /\ \A x : Tame(d, DeleteIncident(d, x))
           /\ \A x : Tame(d, InsertChange(d, x))
           /\ \A x : Tame(d, InsertChangeTicket(d, x))
           /\ \A x : Tame(d, DeleteChangeTicket(d, x))
<1>1. /\ \A x : Tame(d, InsertCategory(d, x)) /\ Tame(d, InsertService(d, x))
      /\ \A x : Tame(d, InsertProblem(d, x)) /\ Tame(d, InsertIncident(d, x))
      /\ \A x : Tame(d, InsertChange(d, x)) /\ Tame(d, InsertChangeTicket(d, x))
  BY TameOthers, FreeTables
  DEF InsertCategory, InsertService, InsertProblem, InsertIncident, InsertChange,
      InsertChangeTicket
<1>2. \A x : Tame(d, UpdateCategoryRow(d, x)) /\ Tame(d, UpdateServiceRow(d, x))
             /\ Tame(d, UpdateProblemRow(d, x))
  BY TameOthers, TameSame, FreeTables DEF UpdateCategoryRow, UpdateServiceRow, UpdateProblemRow
<1>3. \A id : Tame(d, DeleteServiceRow(d, id))
  BY TameOthers, FreeTables DEF DeleteServiceRow
<1>4. ASSUME NEW id PROVE Tame(d, DeleteCategoryRow(d, id))
  <2>1. PICK e : e = Remove(d, "categories", id)
    OBVIOUS
  <2>2. Tame(d, e)
    BY <2>1, TameOthers, FreeTables
  <2>3. Refs(e)
    BY <2>2 DEF Tame
  <2>4. \A ids : Tame(e, SetField(e, "services", ids, "category", None))
    BY <2>3, TameOthers, FreeTables
  <2>5. \A ids : Tame(d, SetField(e, "services", ids, "category", None))
    BY <2>2, <2>4, TameTwice
  <2>6. QED
    BY <2>1, <2>5 DEF DeleteCategoryRow
<1>5. ASSUME NEW x PROVE Tame(d, InsertCIType(d, x))
  <2>1. "citypes" \in RefTables \ (WrittenBack \cup {"assets", "clients"})
    BY TableNames DEF WrittenBack
  <2>2. RowOK(d, "citypes", x)
    BY PlainRows
  <2>3. QED
    BY <2>1, <2>2, TameInsert DEF InsertCIType
<1>6. ASSUME NEW id PROVE Tame(d, DeleteRelationshipRow(d, id))
  <2>1. "relationships" \in RefTables \ Targets
    BY DEF RefTables, Targets, Owned
  <2>2. {x \in d.relationships : x.id # id} \subseteq d["relationships"]
    OBVIOUS
  <2>3. QED
    BY <2>1, <2>2, TameSubset DEF DeleteRelationshipRow, Remove
<1>7. ASSUME NEW x PROVE Tame(d, DeleteTicketAsset(d, x))
  <2>1. "ticketAssets" \in RefTables \ Targets
    BY DEF RefTables, OfAssets, Targets, Owned
  <2>2. d.ticketAssets \ {x} \subseteq d["ticketAssets"]
    OBVIOUS
  <2>3. QED
    BY <2>1, <2>2, TameSubset DEF DeleteTicketAsset
<1>8. ASSUME NEW x PROVE Tame(d, InsertTicketAsset(d, x))
  <2>1. "ticketAssets" \in RefTables \ (WrittenBack \cup {"assets", "clients"})
    BY DEF RefTables, OfAssets, WrittenBack
  <2>2. Has(d, "assets", x.id) => RowOK(d, "ticketAssets", x)
    BY ColumnNames
    DEF RowOK, Ties, Written, OfClients, OfCustomers, OfAssets, Ticketed, Contracted
  <2>3. QED
    BY <2>1, <2>2, TameInsert DEF InsertTicketAsset
<1>9. ASSUME NEW x, NEW T \in {"incidents", "changeTickets"}
      PROVE  Tame(d, [d EXCEPT ![T] = @ \ {x}])
  <2>1. PICK e : e = [d EXCEPT ![T] = @ \ {x}]
    OBVIOUS
  <2>2. DOMAIN e = DOMAIN d /\ \A t \in DOMAIN d : t # T => e[t] = d[t]
    BY <2>1
  <2>3. T \notin RefTables
    BY <1>9, FreeTables
  <2>4. Tame(d, e)
    BY <2>2, <2>3, TameElsewhere
  <2>5. QED
    BY <2>1, <2>4
<1>10. \A x : Tame(d, DeleteIncident(d, x)) /\ Tame(d, DeleteChangeTicket(d, x))
  BY <1>9 DEF DeleteIncident, DeleteChangeTicket
<1>11. QED
  BY <1>1, <1>2, <1>3, <1>4, <1>5, <1>6, <1>7, <1>8, <1>10

LEMMA RelationshipTame ==
    ASSUME NEW d, Refs(d), NEW r, r.source # r.target PROVE Tame(d, InsertRelationship(d, r))
<1>1. "relationships" \in RefTables \ (WrittenBack \cup {"assets", "clients"})
  BY DEF RefTables, WrittenBack
<1>2. BothEnds(d, r) => RowOK(d, "relationships", r)
  BY ColumnNames
  DEF BothEnds, RowOK, Ties, Written, OfClients, OfCustomers, OfAssets, Ticketed, Contracted
<1>3. QED
  BY <1>1, <1>2, TameInsert DEF InsertRelationship

(***************************************************************************)
(* What a step has to leave                                                *)
(***************************************************************************)
NewClients ==
    \A k \in db'.clients :
        (\E j \in db.clients : j.id = k.id) \/ (k.id = serial /\ serial' = serial + 1)

\* What a client owns goes with the client only.
OwnedStay ==
    \A t \in Owned : \A x \in db[t] : Has(db', "clients", x.client) =>
        \E y \in db'[t] : y.id = x.id /\ y.client = x.client

\* A row was there, with what matters of it, or is the one a call has just made.
Made(t, z) ==
    /\ ~Known(Makers, z.id) /\ Known(Makers, z.id)'
    /\ Written(t, z) /\ \A w \in db'[t] : w.id = z.id => w = z

RowsFollow ==
    /\ \A t \in WrittenBack : \A z \in db'[t] :
          (\E y \in db[t] : y.id = z.id /\ Alike(t, y, z)) \/ Made(t, z)
    /\ \A a \in db'.assets : (\E b \in db.assets : b.id = a.id) \/ Known(Makers, a.id)'

LEMMA AimedStays ==
    ASSUME Numbered, serial' \in {serial, serial + 1}, NewClients, OwnedStay,
           NEW t, NEW row, Aimed(t, row)
    PROVE  Aimed(t, row)'
<1>1. Written(t, row) /\ row.client \in Nat /\ row.client # None /\ row.client < serial'
  BY DEF Aimed, Numbered
<1>2. ASSUME Has(db', "clients", row.client) PROVE Ties(db', t, row)
  <2>1. Has(db, "clients", row.client)
    BY <1>2 DEF Has, NewClients, Aimed, Numbered
  <2>2. Ties(db, t, row)
    BY <2>1 DEF Aimed
  <2>3. \A s \in Owned : \A id : OfClient(db[s], id, row.client) => OfClient(db'[s], id, row.client)
    BY <1>2 DEF OwnedStay, OfClient
  <2>4. QED
    BY <2>2, <2>3, TableNames DEF Ties
<1>3. QED
  BY <1>1, <1>2 DEF Aimed

LEMMA AgreesStays ==
    ASSUME Numbered, serial' \in {serial, serial + 1}, RefInv, Renumbers(Makers), RowsFollow,
           NEW t \in WrittenBack, NEW row, Agrees(t, row)
    PROVE  Agrees(t, row)'
<1>1. Known(Makers, row.id)'
  BY KnownStays DEF Agrees
<1>2. ASSUME NEW x \in db'[t], x.id = row.id PROVE Alike(t, x, row)
  <2>1. PICK y \in db[t] : y.id = x.id /\ Alike(t, y, x)
    BY <1>2 DEF RowsFollow, Made, Agrees
  <2>2. Alike(t, y, row)
    BY <1>2, <2>1 DEF Agrees
  <2>3. Written(t, y)
    BY TableNames DEF RefInv, Refs, RowOK
  <2>4. QED
    BY <2>1, <2>2, <2>3, AlikeTwice
<1>3. QED
  BY <1>1, <1>2 DEF Agrees

LEMMA CallStays ==
    ASSUME Numbered, serial' \in {serial, serial + 1}, RefInv, Renumbers(Makers), RowsFollow,
           NewClients, OwnedStay, NEW c, CallRef(c)
    PROVE  CallRef(c)'
<1>1. \A t, row : Aimed(t, row) => Aimed(t, row)'
  BY AimedStays
<1>2. \A t \in {"projects", "tasks", "alerts", "sessions"} : \A row :
          Agrees(t, row) => Agrees(t, row)'
  BY AgreesStays DEF WrittenBack
<1>3. QED
  BY <1>1, <1>2 DEF CallRef

LEMMA RowsStayKnown ==
    ASSUME Numbered, serial' \in {serial, serial + 1}, RefInv, Renumbers(Makers), RowsFollow
    PROVE  RowsKnown'
<1>1. \A id : Known(Makers, id) => Known(Makers, id)'
  BY KnownStays
<1>2. \A a \in db'.assets : Known(Makers, a.id)'
  BY <1>1 DEF RowsFollow, RefInv, RowsKnown
<1>3. ASSUME NEW t \in WrittenBack, NEW z \in db'[t]
      PROVE  Known(Makers, z.id)' /\ \A w \in db'[t] : w.id = z.id => Alike(t, z, w)
  <2>1. CASE Made(t, z)
    BY <2>1, AlikeItself DEF Made
  <2>2. CASE ~Made(t, z)
    <3>1. PICK y \in db[t] : y.id = z.id /\ Alike(t, y, z)
      BY <2>2 DEF RowsFollow
    <3>2. Known(Makers, z.id) /\ Written(t, y)
      BY <3>1, TableNames DEF RefInv, RowsKnown, Refs, RowOK
    <3>3. ASSUME NEW w \in db'[t], w.id = z.id PROVE Alike(t, z, w)
      <4>1. PICK v \in db[t] : v.id = w.id /\ Alike(t, v, w)
        BY <3>2, <3>3 DEF RowsFollow, Made
      <4>2. Alike(t, y, v)
        BY <3>1, <3>3, <4>1 DEF RefInv, RowsKnown
      <4>3. Alike(t, y, w)
        BY <4>1, <4>2 DEF Alike
      <4>4. QED
        BY <3>1, <3>2, <4>3, AlikeTwice
    <3>4. QED
      BY <1>1, <3>2, <3>3
  <2>3. QED
    BY <2>1, <2>2
<1>4. QED
  BY <1>2, <1>3 DEF RowsKnown

LEMMA RefLeft ==
    ASSUME Numbered, serial' \in {serial, serial + 1}, RefInv, Renumbers(Makers), RowsFollow,
           NewClients, OwnedStay, Refs(db'), NamesUnique(db'),
           \A e \in calls' \ calls : CallRef(e) \/ CallRef(e)'
    PROVE  RefInv'
<1>1. \A c : CallRef(c) => CallRef(c)'
  BY CallStays
<1>2. RowsKnown'
  BY RowsStayKnown
<1>3. ClientsKnown'
  BY DEF NewClients, RefInv, ClientsKnown, Numbered
<1>4. QED
  BY <1>1, <1>2, <1>3 DEF RefInv

\* A step that does nothing else than a tame statement.
LEMMA TameStep ==
    ASSUME Numbered, serial' \in {serial, serial + 1}, RefInv, Renumbers(Makers),
           Tame(db, db'), \A e \in calls' \ calls : CallRef(e) \/ CallRef(e)'
    PROVE  RefInv'
<1>1. RowsFollow /\ NewClients /\ OwnedStay
  BY DEF Tame, RowsFollow, NewClients, OwnedStay
<1>2. Refs(db') /\ NamesUnique(db')
  BY DEF Tame, RefInv, NamesUnique
<1>3. QED
  BY <1>1, <1>2, RefLeft

(***************************************************************************)
(* The steps of a request                                                  *)
(***************************************************************************)
RefOps == Makers \cup DraftMakers
          \cup {"CreateIntervention", "CreateTimeEntry", "CreateExpense", "CreateMSPTicket",
                "UpdateProjectStatus", "UpdateTaskStatus", "UpdateAlert", "UpdateRemoteSession",
                "CreateDiscoveredAsset", "CreateRelationship"}

LEMMA FreeOps ==
    /\ \A op \in MspReadOps \cup CxReadOps \cup CareOps \cup CareGoesOn
                 \cup {"UpdateInterventionStatus", "UpdateBillingDraftStatus", "CreateContact",
                       "LinkClientAsset", "AssignConversation", "LinkTicketAsset",
                       "UpdateProblem"} :
          op \notin RefOps
    /\ \A c : c.op \notin RefOps => CallRef(c)
<1>1. \A c : c.op \notin RefOps => CallRef(c)
  BY DEF RefOps, Makers, CallRef
<1>2. \A op \in MspReadOps \cup CxReadOps : op \notin RefOps
  BY DEF RefOps, Makers, DraftMakers, MspReadOps, CxReadOps
<1>3. \A op \in CareOps \cup CareGoesOn \cup
                {"UpdateInterventionStatus", "UpdateBillingDraftStatus", "CreateContact",
                 "LinkClientAsset", "AssignConversation", "LinkTicketAsset", "UpdateProblem"} :
          op \notin RefOps
  BY DEF RefOps, Makers, DraftMakers, CareOps, CareGoesOn, MessageOps, Ingesting
<1>4. QED
  BY <1>1, <1>2, <1>3

LEMMA RefBegins ==
    ASSUME Numbered, serial' \in {serial, serial + 1}, RefInv, NEW op, NEW row, Begin(op, row),
           \A c : c.n = serial /\ c.op = op /\ c.row = row => CallRef(c)
    PROVE  RefInv'
<1>1. db' = db /\ \A e \in calls' : e \in calls \/ (e.n = serial /\ e.op = op /\ e.row = row)
  BY BeginOnly
<1>2. Renumbers(Makers)
  BY <1>1 DEF Renumbers
<1>3. Tame(db, db')
  BY <1>1, TameSame DEF RefInv
<1>4. QED
  BY <1>1, <1>2, <1>3, TameStep

LEMMA RefIdle ==
    ASSUME Numbered, serial' \in {serial, serial + 1}, RefInv, NEW op, NEW row, Begin(op, row),
           op \notin RefOps
    PROVE  RefInv'
BY RefBegins, FreeOps

LEMMA RefAtOnce ==
    ASSUME Numbered, serial' \in {serial, serial + 1}, RefInv, NEW op, NEW d, AtOnce(op, d),
           Tame(db, d)
    PROVE  RefInv'
BY AtOnceOnly, TameStep DEF Renumbers

LEMMA RefStops ==
    ASSUME Numbered, RefInv, NEW c \in calls, NEW d, Continue(c, d, {}), Tame(db, d)
    PROVE  RefInv'
<1>1. db' = d /\ calls' = calls \ {c} /\ serial' = serial
  BY DEF Continue
<1>2. QED
  BY <1>1, TameStep DEF Renumbers

LEMMA RefGoesOn ==
    ASSUME Numbered, RefInv, NEW c \in calls, NEW d, NEW op, NEW row,
           Continue(c, d, On(c, op, row)), Tame(db, d), op \in Makers => c.op \in Makers,
           \A e : e.n = c.n /\ e.op = op /\ e.row = row => CallRef(e) \/ CallRef(e)'
    PROVE  RefInv'
<1>1. /\ db' = d /\ serial' = serial
      /\ \A e \in calls' : e \in calls \/ (e.n = c.n /\ e.op = op /\ e.row = row)
  BY OnOnly DEF Numbered, Continue
<1>2. Renumbers(Makers)
  BY <1>1 DEF Renumbers
<1>3. QED
  BY <1>1, <1>2, TameStep

(***************************************************************************)
(* Requests to MSP                                                         *)
(***************************************************************************)
LEMMA ClientIs ==
    ASSUME RefInv, NEW k \in Clients
    PROVE  k \in Nat /\ k # None /\ k < serial /\ Has(db, "clients", k)
BY DEF RefInv, ClientsKnown, Clients, Has

LEMMA ContractIs ==
    ASSUME NEW k, k # None
    PROVE  /\ \A c \in ActiveContracts(db, k, Today) : OfClient(db.contracts, c.id, k)
           /\ \A named : \A id \in ContractsForTicket(db, k, named) : OfClient(db.contracts, id, k)
<1>1. \A c \in SelectContracts(db, k) : c \in db.contracts /\ c.client = k
  BY DEF SelectContracts
<1>2. \A c \in ActiveContracts(db, k, Today) : c \in SelectContracts(db, k)
  BY DEF ActiveContracts
<1>3. \A c \in SelectContracts(db, k) : OfClient(db.contracts, c.id, k)
  BY <1>1 DEF OfClient
<1>4. OfClient(db.contracts, None, k)
  BY DEF OfClient
<1>5. ASSUME NEW named, NEW id \in ContractsForTicket(db, k, named)
      PROVE  id = None \/ \E c \in SelectContracts(db, k) : id = c.id
  BY <1>2 DEF ContractsForTicket
<1>6. QED
  BY <1>2, <1>3, <1>4, <1>5

\* A row is written back as it was read, but for what no reference depends on.
LEMMA ReadAgrees ==
    ASSUME RefInv, NEW t \in {"projects", "tasks", "alerts", "sessions"}, NEW x \in db[t],
           NEW row, DOMAIN row = DOMAIN x,
           \A f \in DOMAIN x : f \notin {"status", "by", "started", "ended"} => row[f] = x[f]
    PROVE  Agrees(t, row)
<1>1. t \in WrittenBack /\ t \in DOMAIN Columns
      /\ Columns[t] \cap {"status", "by", "started", "ended"} = {}
  BY DEF WrittenBack, Columns
<1>2. Columns[t] \subseteq DOMAIN x
  BY <1>1, TableNames DEF RefInv, Refs, RowOK, Written
<1>3. Alike(t, x, row)
  BY <1>1, <1>2 DEF Alike, Written
<1>4. row.id = x.id
  BY <1>1, <1>3, ColumnNames DEF Alike
<1>5. Known(Makers, row.id)
  BY <1>1, <1>4 DEF RefInv, RowsKnown
<1>6. ASSUME NEW y \in db[t], y.id = row.id PROVE Alike(t, y, row)
  <2>1. Alike(t, x, y)
    BY <1>1, <1>4, <1>6 DEF RefInv, RowsKnown
  <2>2. QED
    BY <1>2, <1>3, <2>1, AlikeTwice DEF Written
<1>7. QED
  BY <1>1, <1>3, <1>5, <1>6 DEF Agrees, Alike

\* A request that will write back a row it has read.
LEMMA RefRereads ==
    ASSUME Numbered, serial' \in {serial, serial + 1}, RefInv, NEW op, NEW row, Begin(op, row),
           \/ op = "UpdateProjectStatus" /\ Agrees("projects", row)
           \/ op = "UpdateTaskStatus" /\ Agrees("tasks", row)
           \/ op = "UpdateAlert" /\ Agrees("alerts", row)
           \/ op = "UpdateRemoteSession" /\ Agrees("sessions", row)
    PROVE  RefInv'
<1>1. \A c : c.n = serial /\ c.op = op /\ c.row = row => CallRef(c)
  BY DEF CallRef, DraftMakers
<1>2. QED
  BY <1>1, RefBegins

LEMMA RefUpdates ==
    ASSUME Numbered, serial' \in {serial, serial + 1}, RefInv, NEW u,
           \/ UpdateProjectStatus(u) \/ UpdateTaskStatus(u) \/ ResolveMonitoringAlert(u)
           \/ AuthorizeRemoteSession(u) \/ StartRemoteSession(u) \/ EndRemoteSession(u)
    PROVE  RefInv'
<1>1. ASSUME NEW t \in {"projects", "tasks", "alerts"}, NEW x \in db[t], NEW value
      PROVE  Agrees(t, [x EXCEPT !.status = value])
  <2>1. PICK row : row = [x EXCEPT !.status = value]
    OBVIOUS
  <2>2. DOMAIN row = DOMAIN x /\ \A f \in DOMAIN x : f # "status" => row[f] = x[f]
    BY <2>1
  <2>3. Agrees(t, row)
    BY <2>2, ReadAgrees
  <2>4. QED
    BY <2>1, <2>3
<1>2. CASE UpdateProjectStatus(u)
  <2>1. PICK p, next : /\ p \in db.projects
                       /\ Begin("UpdateProjectStatus", [p EXCEPT !.status = next])
    BY <1>2, Zenon DEF UpdateProjectStatus
  <2>2. Agrees("projects", [p EXCEPT !.status = next])
    BY <1>1, <2>1
  <2>3. QED
    BY <2>1, <2>2, RefRereads
<1>3. CASE UpdateTaskStatus(u)
  <2>1. PICK t, next : /\ t \in db.tasks
                       /\ Begin("UpdateTaskStatus", [t EXCEPT !.status = next])
    BY <1>3, Zenon DEF UpdateTaskStatus
  <2>2. Agrees("tasks", [t EXCEPT !.status = next])
    BY <1>1, <2>1
  <2>3. QED
    BY <2>1, <2>2, RefRereads
<1>4. CASE ResolveMonitoringAlert(u)
  <2>1. PICK a \in db.alerts : Begin("UpdateAlert", [a EXCEPT !.status = "resolved"])
    BY <1>4, Zenon DEF ResolveMonitoringAlert
  <2>2. Agrees("alerts", [a EXCEPT !.status = "resolved"])
    BY <1>1
  <2>3. QED
    BY <2>1, <2>2, RefRereads
<1>5. CASE AuthorizeRemoteSession(u) \/ StartRemoteSession(u) \/ EndRemoteSession(u)
  <2>1. PICK s, row :
          /\ s \in db.sessions /\ Begin("UpdateRemoteSession", row)
          /\ (\E grant : row = Authorized(s, u, grant)) \/ row = Started(s) \/ row = Ended(s)
    BY <1>5, Zenon DEF AuthorizeRemoteSession, StartRemoteSession, EndRemoteSession
  <2>2. /\ DOMAIN row = DOMAIN s
        /\ \A f \in DOMAIN s : f \notin {"status", "by", "started", "ended"} => row[f] = s[f]
    <3>1. CASE \E grant : row = Authorized(s, u, grant)
      BY <3>1 DEF Authorized
    <3>2. CASE row = Started(s)
      BY <3>2 DEF Started
    <3>3. CASE row = Ended(s)
      BY <3>3 DEF Ended
    <3>4. QED
      BY <2>1, <3>1, <3>2, <3>3
  <2>3. Agrees("sessions", row)
    BY <2>1, <2>2, ReadAgrees
  <2>4. QED
    BY <2>1, <2>3, RefRereads
<1>6. QED
  BY <1>2, <1>3, <1>4, <1>5

\* A request that will insert a row of a client.
LEMMA RefAims ==
    ASSUME Numbered, serial' \in {serial, serial + 1}, RefInv, NEW op, NEW row, Begin(op, row),
           \/ op = "CreateIntervention" /\ Aimed("interventions", row)
           \/ op = "CreateTimeEntry" /\ Aimed("entries", row)
           \/ op = "CreateExpense" /\ Aimed("expenses", row)
           \/ op = "GenerateBillingDraft" /\ Aimed("drafts", row)
           \/ op = "CreateMSPTicket" /\ Aimed("contexts", row.context)
           \/ op = "InsertAlert" /\ Aimed("alerts", row) /\ row.id = serial
           \/ op = "RequestRemoteSession" /\ Aimed("sessions", row) /\ row.id = serial
           \/ op = "CreateContract" /\ Written("contracts", row) /\ row.id = serial
           \/ op = "CreateProject" /\ Written("projects", row) /\ row.id = serial
           \/ op = "CreateTask" /\ Written("tasks", row) /\ row.id = serial
           \/ op = "CreateDiscoveredAsset" /\ Written("discovered", row) /\ row.asset = None
           \/ op = "CreateRelationship" /\ row.source # row.target
           \/ op = "ImportDiscoveredAsset" /\ row.asset.id = serial
    PROVE  RefInv'
<1>1. \A c : c.n = serial /\ c.op = op /\ c.row = row => CallRef(c)
  BY DEF CallRef, DraftMakers
<1>2. QED
  BY <1>1, RefBegins

LEMMA TimeAimed ==
    ASSUME Numbered, serial' \in {serial, serial + 1}, RefInv, NEW u, NEW k \in Clients,
           CreateIntervention(u, k) \/ CreateTimeEntry(u, k) \/ CreateExpense(u, k)
    PROVE  RefInv'
<1>1. k \in Nat /\ k # None /\ k < serial
  BY ClientIs
<1>2. CASE CreateIntervention(u, k)
  <2>1. PICK row : /\ Begin("CreateIntervention", row) /\ TicketOfClient(db, row.ticket, row.client)
                   /\ {"id", "client", "ticket"} \subseteq DOMAIN row /\ row.client = k
    <3>1. PICK t, ticket, starts, ends, row :
            /\ Begin("CreateIntervention", row) /\ InterventionAccepted(db, row)
            /\ row = [id |-> serial, client |-> k, tech |-> t.id, ticket |-> ticket,
                      starts |-> starts, ends |-> ends, status |-> "scheduled"]
      BY <1>2, ZenonT(60) DEF CreateIntervention
    <3>2. TicketOfClient(db, row.ticket, row.client)
      BY <3>1 DEF InterventionAccepted
    <3>3. QED
      BY <3>1, <3>2
  <2>2. Aimed("interventions", row)
    BY <1>1, <2>1
    DEF Aimed, Written, Columns, Ties, Ticketed, Contracted, TicketOfClient, OfClient
  <2>3. QED
    BY <2>1, <2>2, RefAims
<1>3. CASE CreateTimeEntry(u, k)
  <2>1. PICK row : /\ Begin("CreateTimeEntry", row) /\ TicketOfClient(db, row.ticket, row.client)
                   /\ {"id", "client", "ticket"} \subseteq DOMAIN row /\ row.client = k
    <3>1. PICK t, ticket, billable, day, intervention, minutes, row :
            /\ Begin("CreateTimeEntry", row) /\ TimeEntryAccepted(db, row)
            /\ row = [id |-> serial, client |-> k, tech |-> t.id, ticket |-> ticket,
                      intervention |-> intervention, minutes |-> minutes,
                      billable |-> billable, billed |-> FALSE, rate |-> t.rate,
                      cost |-> TimeEntryCost(minutes, t.rate), day |-> day]
      BY <1>3, ZenonT(60) DEF CreateTimeEntry
    <3>2. TicketOfClient(db, row.ticket, row.client)
      BY <3>1, Zenon DEF TimeEntryAccepted
    <3>3. {"id", "client", "ticket"} \subseteq DOMAIN row /\ row.client = k
      BY <3>1
    <3>4. QED
      BY <3>1, <3>2, <3>3, Zenon
  <2>2. Aimed("entries", row)
    BY <1>1, <2>1
    DEF Aimed, Written, Columns, Ties, Ticketed, Contracted, TicketOfClient, OfClient
  <2>3. QED
    BY <2>1, <2>2, RefAims
<1>4. CASE CreateExpense(u, k)
  <2>1. PICK row : /\ Begin("CreateExpense", row) /\ ExpenseAccepted(db, row)
                   /\ {"id", "client", "ticket", "project"} \subseteq DOMAIN row /\ row.client = k
    <3>1. PICK ticket, project, day, row :
            /\ Begin("CreateExpense", row) /\ ExpenseAccepted(db, row)
            /\ row = [id |-> serial, client |-> k, ticket |-> ticket, project |-> project,
                      amount |-> 7, billed |-> FALSE, day |-> day]
      BY <1>4, ZenonT(60) DEF CreateExpense
    <3>2. {"id", "client", "ticket", "project"} \subseteq DOMAIN row /\ row.client = k
      BY <3>1
    <3>3. QED
      BY <3>1, <3>2, Zenon
  <2>2. /\ OfClient(db.contexts, row.ticket, row.client)
        /\ OfClient(db.projects, row.project, row.client)
    BY <2>1 DEF ExpenseAccepted, TicketOfClient, OfClient
  <2>3. Aimed("expenses", row)
    BY <1>1, <2>1, <2>2 DEF Aimed, Written, Columns, Ties, Contracted
  <2>4. QED
    BY <2>1, <2>3, RefAims
<1>5. QED
  BY <1>2, <1>3, <1>4

LEMMA TicketAimed ==
    ASSUME Numbered, serial' \in {serial, serial + 1}, RefInv, NEW u, NEW k \in Clients,
           CreateMSPTicket(u, k) \/ GenerateBillingDraft(u, k) \/ RequestRemoteSession(u, k)
    PROVE  RefInv'
<1>1. k \in Nat /\ k # None /\ k < serial
  BY ClientIs
<1>2. CASE CreateMSPTicket(u, k)
  <2>1. PICK named, priority, contract, ticket, row :
          /\ Begin("CreateMSPTicket", row) /\ contract \in ContractsForTicket(db, k, named)
          /\ row = [ticket |-> ticket,
                    context |-> [id |-> serial, client |-> k, contract |-> contract,
                                 minutes |-> Minutes(db, contract, priority)]]
    BY <1>2, ZenonT(60) DEF CreateMSPTicket
  <2>2. row.context.client = k /\ row.context.contract = contract
    BY <2>1
  <2>3. OfClient(db.contracts, contract, k)
    BY <1>1, <2>1, ContractIs
  <2>4. Aimed("contexts", row.context)
    BY <1>1, <2>2, <2>3 DEF Aimed, Written, Columns, Ties, Ticketed
  <2>5. QED
    BY <2>1, <2>4, RefAims
<1>3. CASE GenerateBillingDraft(u, k)
  <2>1. PICK from, to, row :
          /\ Begin("GenerateBillingDraft", row)
          /\ row = [id |-> serial, client |-> k, contract |-> None, from |-> from, to |-> to,
                    status |-> "draft", total |-> 0,
                    items |-> TimeItems(UnbilledTimeEntries(db, k, from, to)),
                    saw |-> {x.id : x \in db.drafts}]
    BY <1>3, ZenonT(60) DEF GenerateBillingDraft
  <2>2. {"id", "client", "contract"} \subseteq DOMAIN row /\ row.client = k /\ row.contract = None
    BY <2>1
  <2>3. Aimed("drafts", row)
    BY <1>1, <2>2 DEF Aimed, Written, Columns, Ties, Ticketed, OfClient
  <2>4. QED
    BY <2>1, <2>3, RefAims
<1>4. CASE RequestRemoteSession(u, k)
  <2>1. PICK t, ticket, row :
          /\ Begin("RequestRemoteSession", row) /\ SessionAccepted(db, u, row)
          /\ row = [id |-> serial, client |-> k, ticket |-> ticket, tech |-> t.id,
                    status |-> "requested", by |-> None, started |-> FALSE, ended |-> FALSE]
    BY <1>4, ZenonT(60) DEF RequestRemoteSession
  <2>2. TicketOfClient(db, row.ticket, row.client)
    BY <2>1, Zenon DEF SessionAccepted
  <2>3. {"id", "client", "ticket"} \subseteq DOMAIN row /\ row.client = k /\ row.id = serial
    BY <2>1
  <2>4. Aimed("sessions", row)
    BY <1>1, <2>2, <2>3
    DEF Aimed, Written, Columns, Ties, Ticketed, Contracted, TicketOfClient, OfClient
  <2>5. QED
    BY <2>1, <2>3, <2>4, RefAims
<1>5. QED
  BY <1>2, <1>3, <1>4

LEMMA OwnedBegins ==
    ASSUME Numbered, serial' \in {serial, serial + 1}, RefInv, NEW u,
           \/ CreateTask(u)
           \/ \E k : \/ CreateContract(u, k) \/ CreateProject(u, k)
                     \/ CreateDiscoveredAsset(u, k) \/ ImportDiscoveredAsset(u, k)
    PROVE  RefInv'
<1>1. CASE CreateTask(u)
  <2>1. PICK p, tech, row : /\ Begin("CreateTask", row)
                            /\ row = [id |-> serial, project |-> p.id, tech |-> tech,
                                      status |-> "todo"]
    BY <1>1, ZenonT(60) DEF CreateTask
  <2>2. Written("tasks", row) /\ row.id = serial
    BY <2>1 DEF Written, Columns
  <2>3. QED
    BY <2>1, <2>2, RefAims
<1>2. ASSUME NEW k, CreateContract(u, k) PROVE RefInv'
  <2>1. PICK row \in ContractInput(serial, k) : Begin("CreateContract", row)
    BY <1>2, Zenon DEF CreateContract
  <2>2. Written("contracts", row) /\ row.id = serial
    BY <2>1 DEF Written, Columns, ContractInput
  <2>3. QED
    BY <2>1, <2>2, RefAims
<1>3. ASSUME NEW k, CreateProject(u, k) PROVE RefInv'
  <2>1. PICK row : /\ Begin("CreateProject", row)
                   /\ row = [id |-> serial, client |-> k, status |-> "planned"]
    BY <1>3, ZenonT(60) DEF CreateProject
  <2>2. Written("projects", row) /\ row.id = serial
    BY <2>1 DEF Written, Columns
  <2>3. QED
    BY <2>1, <2>2, RefAims
<1>4. ASSUME NEW k, CreateDiscoveredAsset(u, k) PROVE RefInv'
  <2>1. PICK external, row : /\ Begin("CreateDiscoveredAsset", row)
                             /\ row = [id |-> serial, client |-> k, external |-> external,
                                       status |-> "pending", asset |-> None]
    BY <1>4, ZenonT(60) DEF CreateDiscoveredAsset
  <2>2. Written("discovered", row) /\ row.asset = None
    BY <2>1 DEF Written, Columns
  <2>3. QED
    BY <2>1, <2>2, RefAims
<1>5. ASSUME NEW k, ImportDiscoveredAsset(u, k) PROVE RefInv'
  <2>1. PICK a, t, name, row :
          /\ Begin("ImportDiscoveredAsset", row)
          /\ row = [client |-> k, of |-> a.id,
                    asset |-> [id |-> serial, type |-> t.id, name |-> name,
                               status |-> "active"]]
    BY <1>5, ZenonT(60) DEF ImportDiscoveredAsset
  <2>2. row.asset.id = serial
    BY <2>1
  <2>3. QED
    BY <2>1, <2>2, RefAims
<1>6. QED
  BY <1>1, <1>2, <1>3, <1>4, <1>5

\* A delivery: its client is one that is there.
LEMMA AlertAimed ==
    ASSUME Numbered, serial' \in {serial, serial + 1}, RefInv, NEW s, NEW k \in Clients,
           NEW resource, NEW status, Delivery(s, k, resource, status)
    PROVE  RefInv'
<1>1. k \in Nat /\ k # None /\ k < serial
  BY ClientIs
<1>2. PICK alert : alert = [id |-> serial, source |-> s.id, client |-> k,
                            resource |-> resource, status |-> status, ticket |-> None]
  OBVIOUS
<1>3. /\ Written("alerts", alert) /\ alert.id = serial
      /\ alert.client = k /\ alert.ticket = None
  BY <1>2 DEF Written, Columns
<1>4. \/ \E a \in OpenAlertsFor(db, s.id, resource) : Begin("UpdateAlert", AlertOnFile(a, status))
      \/ Begin("InsertAlert", alert)
      \/ \E contract \in ContractsForTicket(db, k, None) : \E context, row :
            /\ Begin("TicketForAlert", row) /\ row = [alert |-> alert, context |-> context]
            /\ context = [id |-> serial, client |-> k, contract |-> contract,
                          minutes |-> Minutes(db, contract, "high")]
  BY <1>2, ZenonT(60) DEF Delivery
<1>5. ASSUME NEW a \in OpenAlertsFor(db, s.id, resource), Begin("UpdateAlert", AlertOnFile(a, status))
      PROVE  RefInv'
  <2>1. a \in db.alerts
    BY DEF OpenAlertsFor
  <2>2. PICK row : row = AlertOnFile(a, status)
    OBVIOUS
  <2>3. DOMAIN row = DOMAIN a /\ \A f \in DOMAIN a : f # "status" => row[f] = a[f]
    BY <2>2 DEF AlertOnFile
  <2>4. Agrees("alerts", row)
    BY <2>1, <2>3, ReadAgrees
  <2>5. QED
    BY <1>5, <2>2, <2>4, RefRereads
<1>6. CASE Begin("InsertAlert", alert)
  <2>1. Aimed("alerts", alert)
    BY <1>1, <1>3 DEF Aimed, Ties, Contracted, OfClient
  <2>2. QED
    BY <1>3, <1>6, <2>1, RefAims
<1>7. ASSUME NEW contract \in ContractsForTicket(db, k, None), NEW context, NEW row,
             Begin("TicketForAlert", row), row = [alert |-> alert, context |-> context],
             context = [id |-> serial, client |-> k, contract |-> contract,
                        minutes |-> Minutes(db, contract, "high")]
      PROVE  RefInv'
  <2>1. /\ row.alert = alert /\ row.context = context
        /\ context.id = serial /\ context.client = k /\ context.contract = contract
    BY <1>7
  <2>2. OfClient(db.contracts, contract, k)
    BY <1>1, ContractIs
  <2>3. Aimed("contexts", context)
    BY <1>1, <2>1, <2>2 DEF Aimed, Written, Columns, Ties, Ticketed
  <2>4. \A c : c.n = serial /\ c.op = "TicketForAlert" /\ c.row = row => CallRef(c)
    BY <1>3, <2>1, <2>3 DEF CallRef, DraftMakers
  <2>5. QED
    BY <1>7, <2>4, RefBegins
<1>8. QED
  BY <1>4, <1>5, <1>6, <1>7

LEMMA ClientCreated ==
    ASSUME Numbered, serial' \in {serial, serial + 1}, RefInv, NEW u, CreateClient(u)
    PROVE  RefInv'
<1>1. PICK c : c.id = serial /\ AtOnce("CreateClient", InsertClient(db, c))
  <2>1. PICK name, domain, status, c :
          /\ AtOnce("CreateClient", InsertClient(db, c))
          /\ c = [id |-> serial, name |-> name, domain |-> domain,
                  status |-> IF status = "" THEN "active" ELSE status]
    BY ZenonT(60) DEF CreateClient
  <2>2. QED
    BY <2>1
<1>2. db' = InsertClient(db, c) /\ calls' = calls /\ serial' = serial + 1
  BY <1>1 DEF AtOnce, Arrives
<1>3. CASE db' = db
  BY <1>1, <1>2, <1>3, TameSame, RefAtOnce DEF RefInv
<1>4. CASE db' = [db EXCEPT !.clients = @ \cup {c}]
  <2>1. Refs(db) /\ RefTables \subseteq DOMAIN db
    BY DEF RefInv, Refs
  <2>2. /\ DOMAIN db' = DOMAIN db /\ db'.clients = db.clients \cup {c}
        /\ \A t \in RefTables : t # "clients" => db'[t] = db[t]
    BY <1>4, <2>1, TableNames
  <2>3. Grown(db, db')
    BY <2>2, TableNames DEF Grown
  <2>4. \A t \in RefTables : \A x \in db'[t] : RowOK(db, t, x)
    BY <2>1, <2>2, PlainRows DEF Refs
  <2>5. Refs(db')
    BY <2>1, <2>2, <2>3, <2>4, RefsGrow
  <2>6. NewClients
    BY <1>1, <1>2, <2>2 DEF NewClients
  <2>7. \A t \in Owned \cup WrittenBack \cup {"assets"} : db'[t] = db[t]
    BY <2>2, TableNames DEF WrittenBack
  <2>8. RowsFollow /\ OwnedStay /\ NamesUnique(db')
    <3>1. \A t \in WrittenBack : \A z \in db[t] : Alike(t, z, z)
      BY <2>1, TableNames, AlikeItself DEF Refs, RowOK
    <3>2. QED
      BY <2>7, <3>1 DEF RowsFollow, OwnedStay, NamesUnique, RefInv
  <2>9. QED
    BY <1>2, <2>5, <2>6, <2>8, RefLeft DEF Renumbers
<1>5. QED
  BY <1>2, <1>3, <1>4 DEF InsertClient, Insert

\* ON DELETE CASCADE leaves nothing of the client, and all of the others.
LEMMA ClientCascade ==
    ASSUME NEW d, Refs(d), NEW k, NEW e, e = DeleteClientRow(d, k)
    PROVE  /\ Refs(e) /\ DOMAIN e = DOMAIN d /\ e.assets = d.assets
           /\ e.clients = {x \in d.clients : x.id # k}
           /\ \A t \in {"contacts", "contracts", "contexts", "interventions", "expenses",
                        "projects", "drafts", "linked", "discovered", "alerts", "sessions"} :
                 e[t] = {x \in d[t] : x.client # k}
           /\ e.tasks \subseteq d.tasks
<1>1. RefTables \subseteq DOMAIN d
  BY DEF Refs
<1>2. {"clients", "assets", "tasks", "entries"} \cup OfClients \subseteq DOMAIN d
  BY <1>1 DEF RefTables, Targets, OfClients
<1>3. DOMAIN e = DOMAIN d
  BY DEF DeleteClientRow
<1>4. /\ e.clients = {x \in d.clients : x.id # k}
      /\ \A t \in {"contacts", "contracts", "contexts", "interventions", "expenses",
                   "projects", "drafts", "linked", "discovered", "alerts", "sessions"} :
            e[t] = {x \in d[t] : x.client # k}
  BY <1>2 DEF DeleteClientRow, OfClients
<1>5. /\ e.tasks = {t \in d.tasks : \E x \in d["projects"] : x.id = t.project /\ x.client # k}
      /\ \A z \in e.entries : \E x \in d.entries :
            x.client # k /\ (z = x \/ z = [x EXCEPT !.intervention = None])
  BY <1>2 DEF DeleteClientRow, OfClients
<1>6. \A t \in RefTables \ (OfClients \cup {"clients", "tasks"}) : e[t] = d[t]
  BY <1>1 DEF DeleteClientRow, OfClients
<1>7. \A id : id # k /\ Has(d, "clients", id) => Has(e, "clients", id)
  BY <1>4 DEF Has
<1>8. \A t \in Owned : \A id, j : j # k /\ OfClient(d[t], id, j) => OfClient(e[t], id, j)
  BY <1>4 DEF Owned, OfClient
<1>9. \A t \in Targets \ (Owned \cup {"clients"}) : e[t] = d[t]
  BY <1>6, TableNames DEF Targets, OfClients
<1>10. /\ e.customers = d.customers /\ e.conversations = d.conversations
       /\ e.citypes = d.citypes /\ e.assets = d.assets
  BY <1>9 DEF Targets, Owned
<1>11. ASSUME NEW t \in OfClients, NEW x, RowOK(d, t, x), x.client # k PROVE RowOK(e, t, x)
  <2>1. Ties(e, t, x)
    BY <1>8, <1>11 DEF RowOK, Ties, Owned
  <2>2. t \notin {"tasks", "messages", "assets", "relationships"} \cup OfCustomers
    BY <1>11 DEF OfClients, OfCustomers
  <2>3. QED
    BY <1>7, <1>10, <1>11, <2>1, <2>2 DEF RowOK, Has
<1>12. ASSUME NEW t \in OfClients, NEW z \in e[t] PROVE RowOK(e, t, z)
  <2>1. CASE t # "entries"
    <3>1. z \in d[t] /\ z.client # k
      BY <1>4, <1>12, <2>1 DEF OfClients
    <3>2. RowOK(d, t, z)
      BY <3>1, TableNames DEF Refs
    <3>3. QED
      BY <1>11, <3>1, <3>2
  <2>2. CASE t = "entries"
    <3>1. PICK x \in d.entries : x.client # k /\ (z = x \/ z = [x EXCEPT !.intervention = None])
      BY <1>5, <2>2
    <3>2. RowOK(d, "entries", x)
      BY <2>2, TableNames DEF Refs
    <3>3. RowOK(e, "entries", x)
      BY <1>11, <2>2, <3>1, <3>2
    <3>4. "entries" \in DOMAIN Columns /\ "intervention" \notin Columns["entries"]
      BY DEF Columns
    <3>5. Columns["entries"] \subseteq DOMAIN x
      BY <3>2, <3>4 DEF RowOK, Written
    <3>6. DOMAIN z = DOMAIN x /\ \A f \in DOMAIN x : f # "intervention" => z[f] = x[f]
      BY <3>1
    <3>7. Alike("entries", x, z)
      BY <3>4, <3>5, <3>6 DEF Alike, Written
    <3>8. QED
      BY <2>2, <3>3, <3>4, <3>7, AlikeOK
  <2>3. QED
    BY <2>1, <2>2
<1>13. ASSUME NEW t \in RefTables \ OfClients, NEW z \in e[t] PROVE RowOK(e, t, z)
  <2>1. CASE t = "clients"
    BY <2>1, PlainRows
  <2>2. CASE t = "tasks"
    <3>1. z \in d.tasks /\ \E x \in d["projects"] : x.id = z.project /\ x.client # k
      BY <1>5, <2>2
    <3>2. RowOK(d, "tasks", z)
      BY <2>2, <3>1 DEF Refs
    <3>3. Has(e, "projects", z.project)
      BY <1>4, <3>1 DEF Has
    <3>4. QED
      BY <2>2, <3>2, <3>3
      DEF RowOK, Ties, OfClients, OfCustomers, OfAssets, Ticketed, Contracted
  <2>3. CASE t \notin {"clients", "tasks"}
    <3>1. z \in d[t] /\ RowOK(d, t, z)
      BY <1>6, <1>13, <2>3 DEF Refs
    <3>2. t \notin OfClients /\ t \notin Ticketed /\ t \notin Contracted /\ t # "expenses"
          /\ t # "discovered"
      BY <1>13, TableNames DEF OfClients
    <3>3. QED
      BY <1>10, <2>3, <3>1, <3>2 DEF RowOK, Ties, Has
  <2>4. QED
    BY <2>1, <2>2, <2>3
<1>14. Refs(e)
  BY <1>1, <1>3, <1>12, <1>13 DEF Refs
<1>15. QED
  BY <1>3, <1>4, <1>5, <1>10, <1>14

LEMMA ClientDeleted ==
    ASSUME Numbered, serial' \in {serial, serial + 1}, RefInv, NEW u, NEW k, DeleteClient(u, k)
    PROVE  RefInv'
<1>1. db' = DeleteClientRow(db, k) /\ calls' = calls
  BY AtOnceOnly DEF DeleteClient
<1>2. Refs(db)
  BY DEF RefInv
<1>3. /\ Refs(db') /\ db'.assets = db.assets
      /\ db'.clients = {x \in db.clients : x.id # k}
      /\ \A t \in {"contacts", "contracts", "contexts", "interventions", "expenses",
                   "projects", "drafts", "linked", "discovered", "alerts", "sessions"} :
            db'[t] = {x \in db[t] : x.client # k}
      /\ db'.tasks \subseteq db.tasks
  BY <1>1, <1>2, ClientCascade
<1>4. OwnedStay
  BY <1>3 DEF OwnedStay, Owned, Has
<1>5. RowsFollow
  <2>1. \A t \in WrittenBack : db'[t] \subseteq db[t]
    BY <1>3 DEF WrittenBack
  <2>2. \A t \in WrittenBack : \A z \in db[t] : Alike(t, z, z)
    BY <1>2, TableNames, AlikeItself DEF Refs, RowOK
  <2>3. QED
    BY <1>3, <2>1, <2>2 DEF RowsFollow
<1>6. NewClients /\ NamesUnique(db')
  BY <1>3 DEF NewClients, NamesUnique, RefInv
<1>7. QED
  BY <1>1, <1>3, <1>4, <1>5, <1>6, RefLeft DEF Renumbers

LEMMA MspChanges ==
    ASSUME Numbered, serial' \in {serial, serial + 1}, RefInv, NEW u, MspChange(u)
    PROVE  RefInv'
<1>1. Refs(db)
  BY DEF RefInv
<1>2. \A op, d : Tame(db, d) /\ AtOnce(op, d) => RefInv'
  BY RefAtOnce
<1>3. \A op, row : op \notin RefOps /\ Begin(op, row) => RefInv'
  BY RefIdle
<1>4. ASSUME NEW x, UpdateClient(u, x) \/ DeleteContact(u, x) PROVE RefInv'
  BY <1>1, <1>2, <1>4, MspTame, Zenon DEF UpdateClient, DeleteContact
<1>5. ASSUME NEW x, UpdateContract(u, x) PROVE RefInv'
  <2>1. PICK c \in ContractInput(x.id, x.client) :
            AtOnce("UpdateContract", UpdateContractRow(db, c))
    BY <1>5, Zenon DEF UpdateContract
  <2>2. Written("contracts", c)
    BY DEF ContractInput, Written, Columns
  <2>3. QED
    BY <1>2, <2>1, <2>2, ContractTame
<1>6. CASE CreateTechnician(u) \/ UpdateTechnician(u) \/ CreateAvailability(u)
  <2>1. CASE CreateTechnician(u)
    <3>1. \E op, c : AtOnce(op, InsertTechnician(db, c))
      BY <2>1 DEF CreateTechnician, ByStaff, ValidTechnician
    <3>2. QED
      BY <1>1, <1>2, <3>1, MspTame
  <2>2. CASE UpdateTechnician(u)
    BY <1>1, <1>2, <2>2, MspTame, Zenon DEF UpdateTechnician
  <2>3. CASE CreateAvailability(u)
    BY <1>1, <1>2, <2>3, MspTame, Zenon DEF CreateAvailability
  <2>4. QED
    BY <1>6, <2>1, <2>2, <2>3
<1>7. CASE UnlinkClientAsset(u) \/ CreateMonitoringSource(u) \/ RotateSourceToken(u)
  BY <1>1, <1>2, <1>7, MspTame, Zenon
  DEF UnlinkClientAsset, CreateMonitoringSource, RotateSourceToken
<1>8. ASSUME NEW k, CreateContact(u, k) \/ LinkClientAsset(u, k) PROVE RefInv'
  BY <1>3, <1>8, FreeOps, Zenon DEF CreateContact, LinkClientAsset
<1>9. CASE UpdateInterventionStatus(u) \/ UpdateBillingDraftStatus(u)
  BY <1>3, <1>9, FreeOps, Zenon DEF UpdateInterventionStatus, UpdateBillingDraftStatus
<1>10. QED
  BY <1>4, <1>5, <1>6, <1>7, <1>8, <1>9, ClientCreated, ClientDeleted, OwnedBegins, RefUpdates,
     TimeAimed, TicketAimed, Zenon
  DEF MspChange

(***************************************************************************)
(* The statements of MSP                                                   *)
(***************************************************************************)
\* A row that is inserted under the number of its call.
LEMMA RefMade ==
    ASSUME Numbered, RefInv, NEW c \in calls, c.op \in Makers, NEW t \in WrittenBack,
           NEW row, row.id = c.n, NEW ok, ok => RowOK(db, t, row),
           Write(c, Insert(db, t, row, ok))
    PROVE  RefInv'
<1>1. db' = Insert(db, t, row, ok) /\ calls' = calls \ {c} /\ serial' = serial
  BY DEF Write, Continue
<1>2. Renumbers(Makers)
  BY <1>1 DEF Renumbers
<1>3. CASE ~ok
  <2>1. Tame(db, db')
    BY <1>1, <1>3, TameSame DEF Insert, RefInv
  <2>2. QED
    BY <1>1, <1>2, <2>1, TameStep
<1>4. CASE ok
  <2>1. Refs(db) /\ RefTables \subseteq DOMAIN db /\ t \in RefTables
    BY TableNames DEF RefInv, Refs
  <2>2. /\ DOMAIN db' = DOMAIN db /\ db'[t] = db[t] \cup {row}
        /\ \A s \in RefTables : s # t => db'[s] = db[s]
    BY <1>1, <1>4, <2>1 DEF Insert
  <2>3. Grown(db, db')
    BY <2>2, TableNames DEF Grown
  <2>4. \A s \in RefTables : \A x \in db'[s] : RowOK(db, s, x)
    BY <1>4, <2>1, <2>2 DEF Refs
  <2>5. Refs(db')
    BY <2>1, <2>2, <2>3, <2>4, RefsGrow
  <2>6. db'.clients = db.clients /\ db'.assets = db.assets
    BY <2>1, <2>2, TableNames DEF WrittenBack
  <2>7. \A s \in WrittenBack : \A z \in db[s] : Alike(s, z, z)
    BY <2>1, TableNames, AlikeItself DEF Refs, RowOK
  <2>8. Made(t, row)
    <3>1. ~Known(Makers, row.id)
      BY DEF Known
    <3>2. Known(Makers, row.id)'
      BY <1>1 DEF Known, Numbered
    <3>3. \A w \in db[t] : w.id # row.id
      BY <3>1 DEF RefInv, RowsKnown
    <3>4. QED
      BY <1>4, <2>2, <3>1, <3>2, <3>3 DEF Made, RowOK
  <2>9. RowsFollow
    BY <2>2, <2>6, <2>7, <2>8, TableNames DEF RowsFollow
  <2>10. NewClients /\ OwnedStay /\ NamesUnique(db')
    <3>1. NewClients /\ NamesUnique(db')
      BY <2>6 DEF NewClients, NamesUnique, RefInv
    <3>2. OwnedStay
      BY <2>3 DEF OwnedStay, Grown
    <3>3. QED
      BY <3>1, <3>2
  <2>11. QED
    BY <1>1, <1>2, <2>5, <2>9, <2>10, RefLeft
<1>5. QED
  BY <1>3, <1>4

LEMMA MakersStored ==
    ASSUME Numbered, RefInv, NEW c \in calls,
           \/ c.op = "CreateContract" /\ Write(c, InsertContract(db, c.row))
           \/ c.op = "CreateProject" /\ Write(c, InsertProject(db, c.row))
           \/ c.op = "CreateTask" /\ Write(c, InsertTask(db, c.row))
           \/ c.op = "InsertAlert" /\ Write(c, InsertAlert(db, c.row))
           \/ c.op = "RequestRemoteSession" /\ Write(c, InsertRemoteSession(db, c.row))
    PROVE  RefInv'
<1>1. CallRef(c)
  BY DEF RefInv
<1>2. CASE c.op \in {"CreateContract", "CreateProject"}
  <2>1. \A t \in {"contracts", "projects"} :
            Written(t, c.row) /\ Has(db, "clients", c.row.client) => RowOK(db, t, c.row)
    BY DEF RowOK, Ties, OfClients, OfCustomers, OfAssets, Ticketed, Contracted
  <2>2. c.row.id = c.n /\ c.op \in Makers
    BY <1>1, <1>2 DEF CallRef, Makers
  <2>3. CASE c.op = "CreateContract"
    <3>1. Written("contracts", c.row) /\ "contracts" \in WrittenBack
      BY <1>1, <2>3 DEF CallRef, WrittenBack
    <3>2. Write(c, Insert(db, "contracts", c.row, Has(db, "clients", c.row.client)))
      BY <2>3 DEF InsertContract
    <3>3. QED
      BY <2>1, <2>2, <3>1, <3>2, RefMade
  <2>4. CASE c.op = "CreateProject"
    <3>1. Written("projects", c.row) /\ "projects" \in WrittenBack
      BY <1>1, <2>4 DEF CallRef, WrittenBack
    <3>2. Write(c, Insert(db, "projects", c.row, Has(db, "clients", c.row.client)))
      BY <2>4 DEF InsertProject
    <3>3. QED
      BY <2>1, <2>2, <3>1, <3>2, RefMade
  <2>5. QED
    BY <1>2, <2>3, <2>4
<1>3. CASE c.op = "CreateTask"
  <2>1. Written("tasks", c.row) /\ c.row.id = c.n /\ c.op \in Makers /\ "tasks" \in WrittenBack
    BY <1>1, <1>3 DEF CallRef, Makers, WrittenBack
  <2>2. Has(db, "projects", c.row.project) => RowOK(db, "tasks", c.row)
    BY <2>1 DEF RowOK, Ties, OfClients, OfCustomers, OfAssets, Ticketed, Contracted
  <2>3. Write(c, Insert(db, "tasks", c.row, Has(db, "projects", c.row.project)))
    BY <1>3 DEF InsertTask
  <2>4. QED
    BY <2>1, <2>2, <2>3, RefMade
<1>4. CASE c.op = "InsertAlert"
  <2>1. Aimed("alerts", c.row) /\ c.row.id = c.n /\ c.op \in Makers /\ "alerts" \in WrittenBack
    BY <1>1, <1>4 DEF CallRef, Makers, WrittenBack
  <2>2. PICK ok : ok = (Has(db, "clients", c.row.client) /\ OpenIsFree(db, c.row))
    OBVIOUS
  <2>3. "alerts" \in OfClients \ {"linked", "discovered"}
    BY DEF OfClients
  <2>4. ok => RowOK(db, "alerts", c.row)
    BY <2>1, <2>2, <2>3, AimedOK
  <2>5. Write(c, Insert(db, "alerts", c.row, ok))
    BY <1>4, <2>2 DEF InsertAlert
  <2>6. QED
    BY <2>1, <2>4, <2>5, RefMade
<1>5. CASE c.op = "RequestRemoteSession"
  <2>1. Aimed("sessions", c.row) /\ c.row.id = c.n /\ c.op \in Makers
        /\ "sessions" \in WrittenBack
    BY <1>1, <1>5 DEF CallRef, Makers, WrittenBack
  <2>2. "sessions" \in OfClients \ {"linked", "discovered"}
    BY DEF OfClients
  <2>3. Has(db, "clients", c.row.client) => RowOK(db, "sessions", c.row)
    BY <2>1, <2>2, AimedOK
  <2>4. Write(c, Insert(db, "sessions", c.row, Has(db, "clients", c.row.client)))
    BY <1>5 DEF InsertRemoteSession
  <2>5. QED
    BY <2>1, <2>3, <2>4, RefMade
<1>6. QED
  BY <1>2, <1>3, <1>4, <1>5

\* The ticket of an alert is of the client of the alert.
LEMMA RefTicketed ==
    ASSUME Numbered, RefInv, NEW c \in calls, TicketForAlert(c) PROVE RefInv'
<1>1. PICK ticket, d : /\ d = InsertTicketWithContext(db, ticket, c.row.context)
                       /\ Continue(c, d, IF d = db THEN {}
                               ELSE On(c, "InsertAlert", [c.row.alert EXCEPT !.ticket = c.n]))
  BY Zenon DEF TicketForAlert
<1>2. PICK context, alert, row : /\ context = c.row.context /\ alert = c.row.alert
                                 /\ row = [alert EXCEPT !.ticket = c.n]
  OBVIOUS
<1>3. c.op = "TicketForAlert" /\ CallRef(c)
  BY DEF TicketForAlert, RefInv
<1>4. /\ Aimed("contexts", context) /\ context.id = c.n
      /\ Written("alerts", alert) /\ alert.id = c.n /\ alert.client = context.client
  BY <1>2, <1>3 DEF CallRef
<1>5. Tame(db, d)
  BY <1>1, <1>2, <1>4, TicketTame DEF RefInv
<1>6. CASE d = db
  <2>1. Continue(c, d, {})
    BY <1>1, <1>6
  <2>2. QED
    BY <1>5, <2>1, RefStops
<1>7. CASE d # db
  <2>1. Continue(c, d, On(c, "InsertAlert", row))
    BY <1>1, <1>2, <1>7
  <2>2. context \in d.contexts
    <3>1. d = [db EXCEPT !.tickets = @ \cup {ticket}, !.contexts = @ \cup {context}]
      BY <1>1, <1>2, <1>7 DEF InsertTicketWithContext
    <3>2. "contexts" \in DOMAIN db
      BY TableNames DEF RefInv, Refs
    <3>3. QED
      BY <3>1, <3>2
  <2>3. /\ Written("alerts", row) /\ row.id = c.n /\ row.ticket = c.n
        /\ row.client = context.client
    <3>1. {"id", "client", "ticket"} \subseteq DOMAIN alert
      BY <1>4 DEF Written, Columns
    <3>2. DOMAIN row = DOMAIN alert /\ row.id = alert.id /\ row.ticket = c.n
          /\ row.client = alert.client
      BY <1>2, <3>1
    <3>3. QED
      BY <1>4, <3>2 DEF Written
  <2>4. db' = d /\ serial' = serial
    BY <2>1 DEF Continue
  <2>5. Ties(db', "alerts", row)
    BY <1>4, <2>2, <2>3, <2>4 DEF Ties, OfClient, Contracted
  <2>6. Aimed("alerts", row)'
    BY <1>4, <2>3, <2>4, <2>5 DEF Aimed
  <2>7. \A e : e.n = c.n /\ e.op = "InsertAlert" /\ e.row = row => CallRef(e)'
    BY <2>3, <2>6 DEF CallRef, DraftMakers
  <2>8. c.op \in Makers
    BY <1>3 DEF Makers
  <2>9. QED
    BY <1>5, <2>1, <2>7, <2>8, RefGoesOn
<1>8. QED
  BY <1>6, <1>7

\* The contract of a draft is one that its client has now.
LEMMA RefPriced ==
    ASSUME Numbered, RefInv, NEW c \in calls, PriceDraft(c) PROVE RefInv'
<1>1. PICK draft : draft = c.row
  OBVIOUS
<1>2. PICK active : active = ActiveContracts(db, draft.client, Today)
  OBVIOUS
<1>3. PICK contract, items, total, row :
        /\ contract \in IF active = {} THEN {None} ELSE {x.id : x \in active}
        /\ row = [draft EXCEPT !.contract = contract, !.items = items, !.total = total]
        /\ Continue(c, db, On(c, "CreateBillingDraft", row))
  BY <1>1, <1>2, ZenonT(60) DEF PriceDraft
<1>4. c.op = "GenerateBillingDraft" /\ Aimed("drafts", draft)
  BY <1>1 DEF PriceDraft, RefInv, CallRef, DraftMakers
<1>5. {"id", "client", "contract"} \subseteq DOMAIN draft /\ draft.client # None
  BY <1>4 DEF Aimed, Written, Columns
<1>6. OfClient(db.contracts, contract, draft.client)
  <2>1. OfClient(db.contracts, None, draft.client)
    BY DEF OfClient
  <2>2. \A x \in active : OfClient(db.contracts, x.id, draft.client)
    BY <1>2, <1>5, ContractIs
  <2>3. QED
    BY <1>3, <2>1, <2>2
<1>7. /\ DOMAIN row = DOMAIN draft /\ row.contract = contract /\ row.client = draft.client
  BY <1>3, <1>5
<1>8. Aimed("drafts", row)
  BY <1>4, <1>5, <1>6, <1>7 DEF Aimed, Written, Ties, Ticketed
<1>9. \A e : e.n = c.n /\ e.op = "CreateBillingDraft" /\ e.row = row => CallRef(e)
  BY <1>8 DEF CallRef, DraftMakers
<1>10. "CreateBillingDraft" \notin Makers
  BY DEF Makers
<1>11. Tame(db, db)
  BY TameSame DEF RefInv
<1>12. QED
  BY <1>3, <1>9, <1>10, <1>11, RefGoesOn

\* An asset that is imported has a name nobody has, and its number is new.
LEMMA RefImported ==
    ASSUME Numbered, RefInv, NEW c \in calls, c.op = "ImportDiscoveredAsset",
           Write(c, ImportDiscovered(db, c.row.client, c.row.of, c.row.asset))
    PROVE  RefInv'
<1>1. PICK k, asset, found, e :
        /\ k = c.row.client /\ asset = c.row.asset
        /\ found = {x \in db.discovered :
                       x.id = c.row.of /\ x.client = k /\ x.status = "pending"}
        /\ e = ImportDiscovered(db, k, c.row.of, asset)
  OBVIOUS
<1>2. db' = e /\ calls' = calls \ {c} /\ serial' = serial
  BY <1>1, WriteOnly DEF Write, Continue
<1>3. Renumbers(Makers)
  BY <1>2 DEF Renumbers
<1>4. asset.id = c.n /\ c.op \in Makers
  BY <1>1 DEF RefInv, CallRef, Makers
<1>5. PICK link, imported : /\ link = [id |-> asset.id, client |-> k]
                            /\ imported = {[x EXCEPT !.status = "imported", !.asset = asset.id]
                                              : x \in found}
  OBVIOUS
<1>6. \/ e = db
      \/ /\ AssetKeys(db, asset) /\ Has(db, "clients", k)
         /\ e = [db EXCEPT !.assets = @ \cup {asset}, !.linked = @ \cup {link},
                           !.discovered = (@ \ found) \cup imported]
  BY <1>1, <1>5 DEF ImportDiscovered
<1>7. CASE e = db
  <2>1. Tame(db, db')
    BY <1>2, <1>7, TameSame DEF RefInv
  <2>2. QED
    BY <1>2, <1>3, <2>1, TameStep
<1>8. ASSUME AssetKeys(db, asset), Has(db, "clients", k),
             e = [db EXCEPT !.assets = @ \cup {asset}, !.linked = @ \cup {link},
                            !.discovered = (@ \ found) \cup imported]
      PROVE  RefInv'
  <2>1. Refs(db) /\ RefTables \subseteq DOMAIN db
    BY DEF RefInv, Refs
  <2>2. {"assets", "linked", "discovered"} \subseteq DOMAIN db
    BY <2>1 DEF RefTables, OfClients, Targets
  <2>3. /\ DOMAIN e = DOMAIN db
        /\ e.assets = db.assets \cup {asset} /\ e.linked = db.linked \cup {link}
        /\ e.discovered = (db.discovered \ found) \cup imported
        /\ \A t \in DOMAIN db : t \notin {"assets", "linked", "discovered"} => e[t] = db[t]
    BY <1>8, <2>2
  <2>4. \A t \in Targets \ {"assets"} : e[t] = db[t]
    BY <2>1, <2>3, TableNames DEF Targets, Owned
  <2>5. Grown(db, e)
    BY <2>3, <2>4, TableNames DEF Grown
  <2>6. Has(e, "assets", asset.id) /\ Has(e, "clients", k)
    BY <1>8, <2>3, <2>4, TableNames DEF Has
  <2>7. RowOK(db, "assets", asset)
    BY <1>8, ColumnNames
    DEF AssetKeys, RowOK, Ties, Written, OfClients, OfCustomers, OfAssets, Ticketed, Contracted
  <2>8. RowOK(e, "linked", link)
    <3>1. link.id = asset.id /\ link.client = k
      BY <1>5
    <3>2. QED
      BY <2>6, <3>1, ColumnNames
      DEF RowOK, Ties, Written, OfClients, OfCustomers, OfAssets, Ticketed, Contracted
  <2>9. ASSUME NEW z \in imported PROVE RowOK(e, "discovered", z)
    <3>1. PICK x \in found : z = [x EXCEPT !.status = "imported", !.asset = asset.id]
      BY <1>5
    <3>2. RowOK(db, "discovered", x) /\ x.client = k
      BY <1>1, <2>1 DEF Refs, RefTables, OfClients
    <3>3. {"id", "client", "asset", "status"} \subseteq DOMAIN x
      BY <3>2 DEF RowOK, Written, Columns
    <3>4. /\ DOMAIN z = DOMAIN x /\ z.client = k /\ z.asset = asset.id
          /\ z.status = "imported"
      BY <3>1, <3>2, <3>3
    <3>5. Written("discovered", z)
      BY <3>3, <3>4 DEF Written, Columns
    <3>6. QED
      BY <2>6, <3>4, <3>5 DEF RowOK, Ties, OfClients, OfCustomers, OfAssets, Ticketed, Contracted
  <2>10. \A t \in RefTables : \A x \in e[t] : RowOK(db, t, x) \/ RowOK(e, t, x)
    <3>1. ASSUME NEW t \in RefTables, NEW x \in e[t] PROVE x \in db[t] \/ RowOK(db, t, x) \/ RowOK(e, t, x)
      BY <2>1, <2>3, <2>7, <2>8, <2>9
    <3>2. \A t \in RefTables : \A x \in db[t] : RowOK(db, t, x)
      BY <2>1 DEF Refs
    <3>3. QED
      BY <3>1, <3>2
  <2>11. Refs(e)
    BY <2>1, <2>3, <2>5, <2>10, RefsGrow
  <2>12. ~Known(Makers, asset.id) /\ Known(Makers, asset.id)'
    BY <1>2, <1>4 DEF Known, Numbered
  <2>13. NamesUnique(e)
    <3>1. \A x \in db.assets : x.id # asset.id
      BY <2>12 DEF RefInv, RowsKnown
    <3>2. \A x \in db.assets : x.name # asset.name
      BY <1>8, <3>1 DEF AssetKeys, NameIsFree
    <3>3. QED
      BY <2>3, <3>2 DEF NamesUnique, RefInv
  <2>14. e.clients = db.clients /\ \A t \in Owned \cup WrittenBack : e[t] = db[t]
    BY <2>1, <2>3, TableNames DEF WrittenBack
  <2>15. NewClients /\ OwnedStay
    BY <1>2, <2>14 DEF NewClients, OwnedStay
  <2>16. RowsFollow
    <3>1. \A t \in WrittenBack : \A z \in db[t] : Alike(t, z, z)
      BY <2>1, TableNames, AlikeItself DEF Refs, RowOK
    <3>2. QED
      BY <1>2, <2>3, <2>12, <2>14, <3>1 DEF RowsFollow
  <2>17. QED
    BY <1>2, <1>3, <2>11, <2>13, <2>15, <2>16, RefLeft
<1>9. QED
  BY <1>6, <1>7, <1>8

LEMMA MspStatements ==
    ASSUME Numbered, serial' \in {serial, serial + 1}, RefInv, NEW c \in calls, MspFinish(c)
    PROVE  RefInv'
<1>1. Refs(db) /\ CallRef(c)
  BY DEF RefInv
<1>2. \A d : Tame(db, d) /\ Write(c, d) => RefInv'
  BY RefStops DEF Write
<1>3. CASE MspAnswer(c)
  <2>1. db' = db /\ calls' \subseteq calls
    BY <1>3, AnswersOnly DEF Answers
  <2>2. Tame(db, db') /\ Renumbers(Makers)
    BY <1>1, <2>1, TameSame DEF Renumbers
  <2>3. QED
    BY <2>1, <2>2, TameStep
<1>4. CASE \/ c.op = "CreateContact" /\ Write(c, InsertContact(db, c.row))
           \/ c.op = "LinkClientAsset" /\ Write(c, InsertClientAsset(db, c.row))
           \/ c.op = "UpdateInterventionStatus" /\ Write(c, UpdateInterventionRow(db, c.row))
           \/ c.op = "UpdateBillingDraftStatus" /\ Write(c, UpdateBillingDraftRow(db, c.row))
  BY <1>1, <1>2, <1>4, MspTame
<1>5. CASE c.op = "CreateMSPTicket"
           /\ Write(c, InsertTicketWithContext(db, c.row.ticket, c.row.context))
  <2>1. Aimed("contexts", c.row.context)
    BY <1>1, <1>5 DEF CallRef
  <2>2. QED
    BY <1>1, <1>2, <1>5, <2>1, TicketTame
<1>6. CASE c.op = "CreateIntervention" /\ Write(c, InsertIntervention(db, c.row))
  <2>1. Aimed("interventions", c.row)
    BY <1>1, <1>6 DEF CallRef
  <2>2. Tame(db, InsertIntervention(db, c.row))
    BY <1>1, <2>1, TameAimed DEF InsertIntervention
  <2>3. QED
    BY <1>2, <1>6, <2>2
<1>7. CASE c.op = "CreateTimeEntry" /\ Write(c, InsertTimeEntry(db, c.row))
  <2>1. Aimed("entries", c.row)
    BY <1>1, <1>7 DEF CallRef
  <2>2. Tame(db, InsertTimeEntry(db, c.row))
    BY <1>1, <2>1, TameAimed DEF InsertTimeEntry
  <2>3. QED
    BY <1>2, <1>7, <2>2
<1>8. CASE c.op = "CreateExpense" /\ Write(c, InsertExpense(db, c.row))
  <2>1. Aimed("expenses", c.row)
    BY <1>1, <1>8 DEF CallRef
  <2>2. Tame(db, InsertExpense(db, c.row))
    BY <1>1, <2>1, TameAimed DEF InsertExpense
  <2>3. QED
    BY <1>2, <1>8, <2>2
<1>9. CASE c.op = "CreateBillingDraft" /\ Write(c, InsertBillingDraft(db, c.row))
  <2>1. Aimed("drafts", c.row)
    BY <1>1, <1>9 DEF CallRef, DraftMakers
  <2>2. QED
    BY <1>1, <1>2, <1>9, <2>1, DraftTame
<1>10. CASE c.op = "CreateDiscoveredAsset" /\ Write(c, InsertDiscoveredAsset(db, c.row))
  <2>1. Written("discovered", c.row) /\ c.row.asset = None
    BY <1>1, <1>10 DEF CallRef
  <2>2. QED
    BY <1>1, <1>2, <1>10, <2>1, DiscoveredTame
<1>11. CASE \/ c.op = "UpdateProjectStatus" /\ Write(c, UpdateProjectRow(db, c.row))
            \/ c.op = "UpdateTaskStatus" /\ Write(c, UpdateTaskRow(db, c.row))
            \/ c.op = "UpdateAlert" /\ Write(c, UpdateAlertRow(db, c.row))
            \/ c.op = "UpdateRemoteSession" /\ Write(c, UpdateRemoteSessionRow(db, c.row))
  <2>1. /\ c.op = "UpdateProjectStatus" => Agrees("projects", c.row)
        /\ c.op = "UpdateTaskStatus" => Agrees("tasks", c.row)
        /\ c.op = "UpdateAlert" => Agrees("alerts", c.row)
        /\ c.op = "UpdateRemoteSession" => Agrees("sessions", c.row)
    BY <1>1 DEF CallRef
  <2>2. /\ c.op = "UpdateProjectStatus" => Tame(db, UpdateProjectRow(db, c.row))
        /\ c.op = "UpdateTaskStatus" => Tame(db, UpdateTaskRow(db, c.row))
        /\ c.op = "UpdateAlert" => Tame(db, UpdateAlertRow(db, c.row))
        /\ c.op = "UpdateRemoteSession" => Tame(db, UpdateRemoteSessionRow(db, c.row))
    BY <1>1, <2>1, WriteBackTame, AlertTame
    DEF UpdateProjectRow, UpdateTaskRow, UpdateRemoteSessionRow
  <2>3. QED
    BY <1>2, <1>11, <2>2
<1>12. QED
  BY <1>3, <1>4, <1>5, <1>6, <1>7, <1>8, <1>9, <1>10, <1>11, RefTicketed, RefPriced,
     MakersStored, RefImported, Zenon
  DEF MspFinish

LEMMA RefMsp ==
    ASSUME Numbered, serial' \in {serial, serial + 1}, RefInv, MspNext PROVE RefInv'
<1>1. CASE Webhook
  <2>1. PICK k, s, resource, status : k \in Clients /\ Delivery(s, k, resource, status)
    BY <1>1 DEF Webhook
  <2>2. QED
    BY <2>1, AlertAimed
<1>2. ASSUME NEW u, MspRead(u) PROVE RefInv'
  BY <1>2, MspReadsBegin, FreeOps, RefIdle
<1>3. QED
  BY <1>1, <1>2, MspChanges, MspStatements DEF MspNext

(***************************************************************************)
(* Requests and statements of customer service                             *)
(***************************************************************************)
LEMMA TheCare ==
    \A op \in {"AddMessage", "MoveConversation", "AutoReply", "CreateConversation",
               "UpdateConversation", "AssignConversation", "CreateSurvey", "Ingest-sender",
               "Ingest-thread", "Ingest-open", "Ingest-reopen", "Ingest-message"} :
        op \notin RefOps
BY FreeOps DEF CareOps, CareGoesOn, MessageOps, Ingesting

LEMMA RefCare ==
    ASSUME Numbered, RefInv, NEW c \in calls, NEW d, Tame(db, d),
           \/ Continue(c, d, {})
           \/ \E op, row : op \notin RefOps /\ Continue(c, d, On(c, op, row))
    PROVE  RefInv'
<1>1. CASE Continue(c, d, {})
  BY <1>1, RefStops
<1>2. ASSUME NEW op, NEW row, op \notin RefOps, Continue(c, d, On(c, op, row)) PROVE RefInv'
  <2>1. \A e : e.n = c.n /\ e.op = op /\ e.row = row => CallRef(e)
    BY <1>2, FreeOps
  <2>2. op \notin Makers
    BY <1>2 DEF RefOps
  <2>3. QED
    BY <1>2, <2>1, <2>2, RefGoesOn
<1>3. QED
  BY <1>1, <1>2

LEMMA CxStatements ==
    ASSUME Numbered, serial' \in {serial, serial + 1}, CareInv, RefInv,
           NEW c \in calls, CxFinish(c)
    PROVE  RefInv'
<1>1. Refs(db)
  BY DEF RefInv
<1>2. \A d : Tame(db, d) /\ Write(c, d) => RefInv'
  BY RefStops DEF Write
<1>3. \A d : Tame(db, d) /\ Continue(c, d, {}) => RefInv'
  BY RefStops
<1>4. \A d, op, row : Tame(db, d) /\ op \notin RefOps /\ Continue(c, d, On(c, op, row)) => RefInv'
  BY RefCare
<1>5. CASE CxAnswer(c)
  <2>1. db' = db /\ calls' \subseteq calls
    BY <1>5, AnswersOnly DEF Answers
  <2>2. Tame(db, db') /\ Renumbers(Makers)
    BY <1>1, <2>1, TameSame DEF Renumbers
  <2>3. QED
    BY <2>1, <2>2, TameStep
<1>6. CASE StoreMessage(c)
  <2>1. PICK d : d = InsertMessage(db, c.row.message)
    OBVIOUS
  <2>2. \/ Continue(c, d, {}) \/ Continue(c, d, On(c, "AutoReply", c.row))
        \/ Continue(c, d, On(c, "MoveConversation", c.row))
    BY <1>6, <2>1 DEF StoreMessage, ToAutoReply
  <2>3. Tame(db, d)
    BY <1>1, <2>1, CxTame
  <2>4. QED
    BY <1>3, <1>4, <2>2, <2>3, TheCare
<1>7. CASE MoveConversation(c)
  <2>1. PICK w, d : /\ w = AfterMessage(c.row.was, c.row.message)
                    /\ d = UpdateConversationRow(db, w)
    OBVIOUS
  <2>2. Continue(c, d, {}) \/ Continue(c, d, On(c, "AutoReply", c.row))
    BY <1>7, <2>1 DEF MoveConversation, ToAutoReply
  <2>3. Tame(db, d)
    BY <1>1, <1>7, <2>1, MovedFits, ConversationTame
  <2>4. QED
    BY <1>3, <1>4, <2>2, <2>3, TheCare
<1>8. CASE AnswerMessage(c) \/ StoreInbound(c)
  <2>1. Write(c, db) \/ \E m : Write(c, InsertMessage(db, m))
    BY <1>8, Zenon DEF AnswerMessage, StoreInbound
  <2>2. Tame(db, db) /\ \A m : Tame(db, InsertMessage(db, m))
    BY <1>1, TameSame, CxTame
  <2>3. QED
    BY <1>2, <2>1, <2>2
<1>9. CASE InsertSender(c)
  <2>1. PICK d, row : /\ d = InsertCustomer(db, Sender(c.n, c.row.mail))
                      /\ row = [c.row EXCEPT !.customer = c.n]
    OBVIOUS
  <2>2. Continue(c, d, {}) \/ Continue(c, d, On(c, "Ingest-thread", row))
    BY <1>9, <2>1 DEF InsertSender
  <2>3. Tame(db, d)
    BY <1>1, <2>1, CxTame
  <2>4. QED
    BY <1>3, <1>4, <2>2, <2>3, TheCare
<1>10. CASE FindThread(c)
  <2>1. "was" \in DOMAIN c.row
    BY <1>10 DEF FindThread, CareInv, CareCall
  <2>2. \E op \in {"Ingest-open", "Ingest-reopen", "Ingest-message"} : \E row :
            Continue(c, db, On(c, op, row))
    BY <1>10, <2>1, ThreadFound
  <2>3. QED
    BY <1>1, <1>4, <2>2, TheCare, TameSame
<1>11. CASE OpenThread(c)
  <2>1. PICK v, d, row : /\ v = Inbound(db, c.n, c.row.customer, c.row.mail)
                         /\ d = InsertConversation(db, v) /\ row = [c.row EXCEPT !.was = v]
    OBVIOUS
  <2>2. Continue(c, d, {}) \/ Continue(c, d, On(c, "Ingest-message", row))
    BY <1>11, <2>1 DEF OpenThread
  <2>3. Tame(db, d)
    BY <1>1, <2>1, CxTame
  <2>4. QED
    BY <1>3, <1>4, <2>2, <2>3, TheCare
<1>12. CASE ReopenThread(c)
  <2>1. PICK was, v, d : /\ was = c.row.was /\ v = [was EXCEPT !.status = "in_progress"]
                         /\ d = UpdateConversationRow(db, v)
    OBVIOUS
  <2>2. Fits(was)
    BY <1>12, <2>1 DEF ReopenThread, CareInv, CareCall
  <2>3. DOMAIN v = DOMAIN was /\ v.id = was.id /\ v.customer = was.customer
        /\ v.answered = was.answered
    BY <2>1, <2>2 DEF Fits, ConversationRow
  <2>4. Tame(db, d)
    BY <1>1, <2>1, <2>2, <2>3, ChangedFits, ConversationTame
  <2>5. Continue(c, d, {}) \/ Continue(c, d, On(c, "Ingest-message", c.row))
    BY <1>12, <2>1 DEF ReopenThread
  <2>6. QED
    BY <1>3, <1>4, <2>4, <2>5, TheCare
<1>13. CASE \/ c.op = "CreateConversation" /\ Write(c, InsertConversation(db, c.row))
            \/ c.op = "CreateSurvey" /\ Write(c, InsertSurvey(db, c.row))
  BY <1>1, <1>2, <1>13, CxTame
<1>14. CASE \/ c.op = "UpdateConversation" /\ Write(c, UpdateConversationRow(db, c.row))
            \/ /\ c.op = "AssignConversation"
               /\ Write(c, AssignConversationRow(db, c.row.id, c.row.to, c.row.status))
  BY <1>1, <1>3, <1>14, UpdatedFits, ConversationTame, TameSame
<1>15. QED
  BY <1>5, <1>6, <1>7, <1>8, <1>9, <1>10, <1>11, <1>12, <1>13, <1>14, Zenon DEF CxFinish

LEMMA CxChanges ==
    ASSUME Numbered, serial' \in {serial, serial + 1}, RefInv, NEW u, CxChange(u)
    PROVE  RefInv'
<1>1. Refs(db)
  BY DEF RefInv
<1>2. \A op, d : Tame(db, d) /\ AtOnce(op, d) => RefInv'
  BY RefAtOnce
<1>3. \A op, row : op \notin RefOps /\ Begin(op, row) => RefInv'
  BY RefIdle
<1>4. CASE CreateCustomer(u)
  BY <1>1, <1>2, <1>4, CxTame, Zenon DEF CreateCustomer
<1>5. CASE UpdateConversationStatus(u) \/ EscalateConversation(u) \/ CreateSurvey(u)
  BY <1>3, <1>5, TheCare, Zenon DEF UpdateConversationStatus, EscalateConversation, CreateSurvey
<1>6. CASE TakeConversation(u) \/ ReleaseConversation(u)
  BY <1>3, <1>6, TheCare, Zenon DEF TakeConversation, ReleaseConversation
<1>7. CASE AddMessage(u)
  BY <1>3, <1>7, TheCare, Zenon DEF AddMessage
<1>8. CASE IngestEmail(u)
  BY <1>3, <1>8, TheCare, Zenon DEF IngestEmail, Received
<1>9. CASE CreateEmailAccount(u) \/ UpdateEmailAccount(u)
  <2>1. CASE CreateEmailAccount(u)
    <3>1. \E op, x : AtOnce(op, InsertEmailAccount(db, x))
      BY <2>1 DEF CreateEmailAccount, ByStaff
    <3>2. QED
      BY <1>1, <1>2, <3>1, CxTame
  <2>2. CASE UpdateEmailAccount(u)
    BY <1>1, <1>2, <2>2, CxTame, Zenon DEF UpdateEmailAccount
  <2>3. QED
    BY <1>9, <2>1, <2>2
<1>10. CASE CreateWhatsAppAccount(u) \/ UpdateWhatsAppAccount(u) \/ UpsertSLAPolicy(u)
  BY <1>1, <1>2, <1>10, CxTame, Zenon
  DEF CreateWhatsAppAccount, UpdateWhatsAppAccount, UpsertSLAPolicy
<1>11. CASE \/ CreateAssignmentRule(u) \/ DeleteAssignmentRule(u)
            \/ CreateAutoReply(u) \/ DeleteAutoReply(u)
  BY <1>1, <1>2, <1>11, CxTame, Zenon
  DEF CreateAssignmentRule, DeleteAssignmentRule, CreateAutoReply, DeleteAutoReply
<1>12. ASSUME NEW k, UpdateCustomer(u, k) \/ CreateCustomerContact(u, k)
                     \/ DeleteCustomerContact(u, k)
       PROVE  RefInv'
  BY <1>1, <1>2, <1>12, CxTame, Zenon
  DEF UpdateCustomer, CreateCustomerContact, DeleteCustomerContact
<1>13. ASSUME NEW k, DeleteCustomer(u, k) \/ CreateConversation(u, k) PROVE RefInv'
  BY <1>1, <1>2, <1>3, <1>13, DeleteCustomerTame, TheCare, Zenon
  DEF DeleteCustomer, CreateConversation
<1>14. QED
  BY <1>4, <1>5, <1>6, <1>7, <1>8, <1>9, <1>10, <1>11, <1>12, <1>13, Zenon DEF CxChange

LEMMA RefCx ==
    ASSUME Numbered, serial' \in {serial, serial + 1}, CareInv, RefInv, CxNext PROVE RefInv'
<1>1. CASE WhatsAppWebhookIngest
  <2>1. \A op, row : op \notin RefOps /\ Begin(op, row) => RefInv'
    BY RefIdle
  <2>2. QED
    BY <1>1, <2>1, TheCare, Zenon DEF WhatsAppWebhookIngest, Received
<1>2. ASSUME NEW u, CxRead(u) PROVE RefInv'
  BY <1>2, CxReadsBegin, FreeOps, RefIdle
<1>3. QED
  BY <1>1, <1>2, CxChanges, CxStatements DEF CxNext

(***************************************************************************)
(* Requests and statements of ITSM                                         *)
(***************************************************************************)
LEMMA AssetsLeft ==
    ASSUME Numbered, serial' \in {serial, serial + 1}, RefInv, calls' = calls,
           Refs(db'), NamesUnique(db'), db'.clients = db.clients,
           \A t \in Owned \cup WrittenBack : db'[t] = db[t],
           \A a \in db'.assets :
               (\E b \in db.assets : b.id = a.id) \/ (a.id = serial /\ serial' = serial + 1)
    PROVE  RefInv'
<1>1. ASSUME serial' = serial + 1, NEW id, id = serial PROVE Known(Makers, id)'
  BY <1>1 DEF Known, Numbered
<1>2. \A t \in WrittenBack : \A z \in db[t] : Alike(t, z, z)
  BY TableNames, AlikeItself DEF RefInv, Refs, RowOK
<1>3. RowsFollow
  <2>1. \A a \in db'.assets : (\E b \in db.assets : b.id = a.id) \/ Known(Makers, a.id)'
    BY <1>1
  <2>2. \A t \in WrittenBack : \A z \in db'[t] : \E y \in db[t] : y.id = z.id /\ Alike(t, y, z)
    BY <1>2
  <2>3. QED
    BY <2>1, <2>2 DEF RowsFollow
<1>4. NewClients /\ OwnedStay /\ Renumbers(Makers)
  BY DEF NewClients, OwnedStay, Renumbers
<1>5. QED
  BY <1>3, <1>4, RefLeft

LEMMA AssetRows ==
    ASSUME NEW d, NEW a, Has(d, "citypes", a.type) PROVE RowOK(d, "assets", a)
BY ColumnNames
DEF RowOK, Ties, Written, OfClients, OfCustomers, OfAssets, Ticketed, Contracted

\* A statement that writes the assets and nothing else.
LEMMA AssetsOnly ==
    ASSUME Numbered, serial' \in {serial, serial + 1}, RefInv, calls' = calls, NEW rows,
           db' = [db EXCEPT !.assets = rows], NamesUnique(db'),
           \A a \in rows : Has(db, "citypes", a.type),
           \A b \in db.assets : \E a \in rows : a.id = b.id,
           \A a \in rows :
               (\E b \in db.assets : b.id = a.id) \/ (a.id = serial /\ serial' = serial + 1)
    PROVE  RefInv'
<1>1. Refs(db) /\ RefTables \subseteq DOMAIN db
  BY DEF RefInv, Refs
<1>2. /\ DOMAIN db' = DOMAIN db /\ db'.assets = rows
      /\ \A t \in RefTables : t # "assets" => db'[t] = db[t]
  BY <1>1, TableNames
<1>3. Grown(db, db')
  BY <1>2, TableNames DEF Grown
<1>4. \A t \in RefTables : \A x \in db'[t] : RowOK(db, t, x)
  BY <1>1, <1>2, AssetRows DEF Refs
<1>5. Refs(db')
  BY <1>1, <1>2, <1>3, <1>4, RefsGrow
<1>6. db'.clients = db.clients /\ \A t \in Owned \cup WrittenBack : db'[t] = db[t]
  BY <1>2, TableNames DEF WrittenBack
<1>7. QED
  BY <1>2, <1>5, <1>6, AssetsLeft

LEMMA AssetCreated ==
    ASSUME Numbered, serial' \in {serial, serial + 1}, RefInv, NEW u, CreateAsset(u)
    PROVE  RefInv'
<1>1. PICK in \in AssetInput(serial) : AtOnce("CreateAsset", InsertAsset(db, NewAsset(in)))
  BY Zenon DEF CreateAsset
<1>2. PICK a : a = NewAsset(in)
  OBVIOUS
<1>3. a.id = serial
  BY <1>1, <1>2 DEF AssetInput, NewAsset
<1>4. db' = InsertAsset(db, a) /\ calls' = calls /\ serial' = serial + 1
  BY <1>1, <1>2 DEF AtOnce, Arrives
<1>5. CASE ~AssetKeys(db, a)
  <2>1. Tame(db, db')
    BY <1>4, <1>5, TameSame DEF InsertAsset, Insert, RefInv
  <2>2. QED
    BY <1>4, <2>1, TameStep DEF Renumbers
<1>6. CASE AssetKeys(db, a)
  <2>1. db' = [db EXCEPT !.assets = db.assets \cup {a}]
    BY <1>4, <1>6 DEF InsertAsset, Insert
  <2>2. "assets" \in DOMAIN db
    BY TableNames DEF RefInv, Refs
  <2>3. \A x \in db.assets : x.id # a.id
    BY <1>3 DEF RefInv, RowsKnown, Known, Numbered
  <2>4. NamesUnique(db')
    BY <1>6, <2>1, <2>2, <2>3 DEF AssetKeys, NameIsFree, NamesUnique, RefInv
  <2>5. \A x \in db.assets \cup {a} : Has(db, "citypes", x.type)
    BY <1>6, TableNames DEF AssetKeys, RefInv, Refs, RowOK
  <2>6. QED
    BY <1>3, <1>4, <2>1, <2>4, <2>5, AssetsOnly
<1>7. QED
  BY <1>5, <1>6

LEMMA AssetUpdated ==
    ASSUME Numbered, serial' \in {serial, serial + 1}, RefInv, NEW u, UpdateAsset(u)
    PROVE  RefInv'
<1>1. PICK a : AtOnce("UpdateAsset", UpdateAssetRow(db, a))
  BY Zenon DEF UpdateAsset
<1>2. db' = UpdateAssetRow(db, a) /\ calls' = calls
  BY <1>1, AtOnceOnly
<1>3. CASE ~AssetKeys(db, a)
  <2>1. Tame(db, db')
    BY <1>2, <1>3, TameSame DEF UpdateAssetRow, RefInv
  <2>2. QED
    BY <1>2, <2>1, TameStep DEF Renumbers
<1>4. CASE AssetKeys(db, a)
  <2>1. PICK rows : rows = {IF x.id = a.id THEN a ELSE x : x \in db.assets}
    OBVIOUS
  <2>2. db' = [db EXCEPT !.assets = rows]
    BY <1>2, <1>4, <2>1 DEF UpdateAssetRow, Put
  <2>3. "assets" \in DOMAIN db
    BY TableNames DEF RefInv, Refs
  <2>4. /\ \A z \in rows : z = a \/ (z \in db.assets /\ z.id # a.id)
        /\ \A z \in rows : \E x \in db.assets : x.id = z.id
        /\ \A x \in db.assets : \E z \in rows : z.id = x.id
    BY <2>1
  <2>5. NamesUnique(db')
    BY <1>4, <2>2, <2>3, <2>4 DEF AssetKeys, NameIsFree, NamesUnique, RefInv
  <2>6. \A x \in rows : Has(db, "citypes", x.type)
    BY <1>4, <2>4, TableNames DEF AssetKeys, RefInv, Refs, RowOK
  <2>7. QED
    BY <1>2, <2>2, <2>4, <2>5, <2>6, AssetsOnly
<1>5. QED
  BY <1>3, <1>4

\* Nothing is left that names an asset that was deleted.
LEMMA AssetCascade ==
    ASSUME NEW d, Refs(d), NEW id, NEW e, e = DeleteAssetRow(d, id)
    PROVE  /\ Refs(e) /\ e.assets \subseteq d.assets /\ e.clients = d.clients
           /\ \A t \in Owned \cup WrittenBack : e[t] = d[t]
<1>1. RefTables \subseteq DOMAIN d
  BY DEF Refs
<1>2. {"assets", "relationships", "ticketAssets", "linked", "discovered"} \subseteq DOMAIN d
  BY <1>1 DEF RefTables, OfClients, OfAssets, Targets
<1>3. PICK gone : gone = {x.id : x \in {y \in d.discovered : y.asset = id}}
  OBVIOUS
<1>4. PICK f : f = [Remove(d, "assets", id) EXCEPT
                       !.relationships = {r \in @ : id \notin {r.source, r.target}},
                       !.ticketAssets = {l \in @ : l.id # id},
                       !.linked = {l \in @ : l.id # id}]
  OBVIOUS
<1>5. /\ DOMAIN f = DOMAIN d
      /\ f.assets = {x \in d.assets : x.id # id}
      /\ f.relationships = {r \in d.relationships : id \notin {r.source, r.target}}
      /\ f.ticketAssets = {l \in d.ticketAssets : l.id # id}
      /\ f.linked = {l \in d.linked : l.id # id}
      /\ \A t \in DOMAIN d : t \notin {"assets", "relationships", "ticketAssets", "linked"} =>
            f[t] = d[t]
  BY <1>2, <1>4 DEF Remove
<1>6. e = SetField(f, "discovered", gone, "asset", None)
  BY <1>3, <1>4 DEF DeleteAssetRow
<1>7. /\ DOMAIN e = DOMAIN d
      /\ e.discovered = {IF x.id \in gone THEN [x EXCEPT !.asset = None] ELSE x : x \in d.discovered}
      /\ \A t \in DOMAIN d : t # "discovered" => e[t] = f[t]
  BY <1>2, <1>5, <1>6 DEF SetField
<1>8. \A a : a # id /\ Has(d, "assets", a) => Has(e, "assets", a)
  BY <1>2, <1>5, <1>7 DEF Has
<1>9. \A t \in (Targets \cup WrittenBack) \ {"assets"} : e[t] = d[t]
  BY <1>1, <1>5, <1>7, TableNames DEF Targets, Owned, WrittenBack
<1>10. /\ e.clients = d.clients /\ e.contexts = d.contexts /\ e.contracts = d.contracts
       /\ e.projects = d.projects /\ e.citypes = d.citypes /\ e.customers = d.customers
       /\ e.conversations = d.conversations
  BY <1>9 DEF Targets, Owned
<1>11. ASSUME NEW t \in RefTables, NEW z \in e[t] PROVE RowOK(e, t, z)
  <2>1. CASE t = "discovered"
    <3>1. PICK x \in d.discovered : z = IF x.id \in gone THEN [x EXCEPT !.asset = None] ELSE x
      BY <1>7, <1>11, <2>1
    <3>2. RowOK(d, "discovered", x)
      BY <2>1, <3>1 DEF Refs
    <3>3. {"id", "client", "asset", "status"} \subseteq DOMAIN x
      BY <3>2 DEF RowOK, Written, Columns
    <3>4. DOMAIN z = DOMAIN x /\ z.client = x.client /\ z.status = x.status
          /\ (z.asset = None \/ (z.asset = x.asset /\ x.asset # id))
      BY <1>3, <3>1, <3>3
    <3>5. Written("discovered", z)
      BY <3>3, <3>4 DEF Written, Columns
    <3>6. Has(e, "clients", z.client) /\ (z.asset # None => Has(e, "assets", z.asset))
          /\ (z.status = "pending" => z.asset = None)
      <4>1. Has(d, "clients", x.client) /\ (x.asset # None => Has(d, "assets", x.asset))
            /\ (x.status = "pending" => x.asset = None)
        BY <3>2 DEF RowOK, OfClients
      <4>2. QED
        BY <1>8, <1>10, <3>4, <4>1 DEF Has
    <3>7. QED
      BY <2>1, <3>5, <3>6 DEF RowOK, Ties, OfClients, OfCustomers, OfAssets, Ticketed, Contracted
  <2>2. CASE t # "discovered"
    <3>1. z \in d[t] /\ z \in f[t]
      BY <1>1, <1>5, <1>7, <1>11, <2>2
    <3>2. RowOK(d, t, z)
      BY <3>1 DEF Refs
    <3>3. t = "relationships" => z.source # id /\ z.target # id
      BY <1>5, <3>1
    <3>4. t \in OfAssets => z.id # id
      BY <1>5, <3>1 DEF OfAssets
    <3>5. QED
      BY <1>8, <1>10, <2>2, <3>2, <3>3, <3>4 DEF RowOK, Ties, Has
  <2>3. QED
    BY <2>1, <2>2
<1>12. Refs(e)
  BY <1>1, <1>7, <1>11 DEF Refs
<1>13. e.assets \subseteq d.assets
  BY <1>2, <1>5, <1>7
<1>14. QED
  BY <1>9, <1>10, <1>12, <1>13, TableNames DEF WrittenBack

LEMMA AssetDeleted ==
    ASSUME Numbered, serial' \in {serial, serial + 1}, RefInv, NEW u, DeleteAsset(u)
    PROVE  RefInv'
<1>1. PICK id : AtOnce("DeleteAsset", DeleteAssetRow(db, id))
  BY Zenon DEF DeleteAsset
<1>2. db' = DeleteAssetRow(db, id) /\ calls' = calls
  BY <1>1, AtOnceOnly
<1>3. /\ Refs(db') /\ db'.assets \subseteq db.assets /\ db'.clients = db.clients
      /\ \A t \in Owned \cup WrittenBack : db'[t] = db[t]
  BY <1>2, AssetCascade DEF RefInv
<1>4. NamesUnique(db')
  BY <1>3 DEF NamesUnique, RefInv
<1>5. QED
  BY <1>2, <1>3, <1>4, AssetsLeft

LEMMA RefItsm ==
    ASSUME Numbered, serial' \in {serial, serial + 1}, RefInv, ItsmNext PROVE RefInv'
<1>1. Refs(db)
  BY DEF RefInv
<1>2. \A op, d : Tame(db, d) /\ AtOnce(op, d) => RefInv'
  BY RefAtOnce
<1>3. \A op, row : op \notin RefOps /\ Begin(op, row) => RefInv'
  BY RefIdle
<1>4. ASSUME NEW c \in calls, ItsmFinish(c) PROVE RefInv'
  <2>1. \A d : Tame(db, d) /\ Write(c, d) => RefInv'
    BY RefStops DEF Write
  <2>2. c.op = "CreateRelationship" => c.row.source # c.row.target
    BY DEF RefInv, CallRef
  <2>3. QED
    BY <1>1, <1>4, <2>1, <2>2, ItsmTame, RelationshipTame DEF ItsmFinish
<1>5. ASSUME NEW u, \/ CreateCategory(u) \/ UpdateCategory(u) \/ DeleteCategory(u)
                    \/ CreateService(u) \/ UpdateService(u) \/ DeleteService(u)
      PROVE  RefInv'
  BY <1>1, <1>2, <1>5, ItsmTame, Zenon
  DEF CreateCategory, UpdateCategory, DeleteCategory, CreateService, UpdateService, DeleteService
<1>6. ASSUME NEW u, \/ CreateCIType(u) \/ DeleteCIType(u) \/ DeleteRelationship(u)
                    \/ UnlinkTicketAsset(u)
      PROVE  RefInv'
  BY <1>1, <1>2, <1>6, ItsmTame, TypeTame, Zenon
  DEF CreateCIType, DeleteCIType, DeleteRelationship, UnlinkTicketAsset
<1>7. ASSUME NEW u, \/ LinkIncident(u) \/ UnlinkIncident(u) \/ CreateChange(u)
                    \/ LinkChangeTicket(u) \/ UnlinkChangeTicket(u)
      PROVE  RefInv'
  BY <1>1, <1>2, <1>7, ItsmTame, Zenon
  DEF LinkIncident, UnlinkIncident, CreateChange, LinkChangeTicket, UnlinkChangeTicket
<1>8. ASSUME NEW u, CreateProblem(u) PROVE RefInv'
  BY <1>1, <1>2, <1>8, ItsmTame, Zenon DEF CreateProblem
<1>9. ASSUME NEW u, UpdateProblem(u) \/ LinkTicketAsset(u) PROVE RefInv'
  BY <1>3, <1>9, FreeOps, Zenon DEF UpdateProblem, LinkTicketAsset
<1>10. ASSUME NEW u, CreateRelationship(u) PROVE RefInv'
  <2>1. PICK r : ValidRelationship(r) /\ Begin("CreateRelationship", r)
    BY <1>10, Zenon DEF CreateRelationship
  <2>2. r.source # r.target
    BY <2>1 DEF ValidRelationship
  <2>3. QED
    BY <2>1, <2>2, RefAims
<1>11. QED
  BY <1>4, <1>5, <1>6, <1>7, <1>8, <1>9, <1>10, AssetCreated, AssetUpdated, AssetDeleted, Zenon
  DEF ItsmNext, ItsmRequest

(***************************************************************************)
(* Every step and the first state                                          *)
(***************************************************************************)
LEMMA BeforeWritten ==
    ASSUME NEW t \in DOMAIN Columns, NEW x \in Before[t] PROVE Written(t, x)
<1>1. x \in MspTable[t]
  BY BeforeAssumption, ColumnNames DEF Holds, MspTable
<1>2. CASE t \in {"interventions", "entries", "alerts", "sessions"}
  <2>1. CASE t = "interventions"
    BY <1>1, <2>1 DEF MspTable, Intervention, Written, Columns
  <2>2. CASE t = "entries"
    BY <1>1, <2>2 DEF MspTable, TimeEntry, Written, Columns
  <2>3. CASE t = "alerts"
    BY <1>1, <2>3 DEF MspTable, MonitoringAlert, Written, Columns
  <2>4. CASE t = "sessions"
    BY <1>1, <2>4 DEF MspTable, RemoteSession, Written, Columns
  <2>5. QED
    BY <1>2, <2>1, <2>2, <2>3, <2>4
<1>3. CASE t = "expenses"
  BY <1>1, <1>3 DEF MspTable, Expense, Written, Columns
<1>4. CASE t = "drafts"
  BY <1>1, <1>4 DEF MspTable, BillingDraft, Written, Columns
<1>5. CASE t = "contracts"
  BY <1>1, <1>5 DEF MspTable, Contract, Written, Columns
<1>6. CASE t = "projects"
  BY <1>1, <1>6 DEF MspTable, Project, Written, Columns
<1>7. CASE t = "tasks"
  BY <1>1, <1>7 DEF MspTable, ProjectTask, Written, Columns
<1>8. CASE t = "discovered"
  BY <1>1, <1>8 DEF MspTable, DiscoveredAsset, Written, Columns
<1>9. QED
  BY <1>2, <1>3, <1>4, <1>5, <1>6, <1>7, <1>8, ColumnNames

LEMMA BeforeRefs == Refs(Before)
<1>1. RefTables \subseteq DOMAIN Before
  BY BeforeAssumption
  DEF RefTables, OfClients, OfCustomers, OfAssets, Targets, Owned, MspTable, CxTable, ItsmTable
<1>2. ASSUME NEW t \in RefTables, NEW x \in Before[t] PROVE RowOK(Before, t, x)
  <2>1. Written(t, x)
    BY <1>2, BeforeWritten DEF Written
  <2>2. OneClientThroughout(Before) /\ InventoryIsWhole(Before)
    BY SoundAssumption DEF Sound
  <2>3. Ties(Before, t, x)
    BY <2>2 DEF Ties, Ticketed, Contracted, OneClientThroughout
  <2>4. /\ t \in OfClients => Has(Before, "clients", x.client)
        /\ t = "tasks" => Has(Before, "projects", x.project)
        /\ t \in OfCustomers => Has(Before, "customers", x.customer)
        /\ t = "messages" => Has(Before, "conversations", x.conversation)
    BY <2>2 DEF Has, OfClients, OfCustomers, OneClientThroughout
  <2>5. /\ t = "assets" => Has(Before, "citypes", x.type)
        /\ t = "relationships" => /\ x.source # x.target
                                  /\ Has(Before, "assets", x.source)
                                  /\ Has(Before, "assets", x.target)
        /\ t \in OfAssets => Has(Before, "assets", x.id)
        /\ t = "discovered" => /\ x.asset # None => Has(Before, "assets", x.asset)
                               /\ x.status = "pending" => x.asset = None
    BY <2>2 DEF Has, OfAssets, InventoryIsWhole
  <2>6. QED
    BY <2>1, <2>3, <2>4, <2>5 DEF RowOK
<1>3. QED
  BY <1>1, <1>2 DEF Refs

LEMMA RefInit == Init => RefInv
<1> SUFFICES ASSUME Init PROVE RefInv
  OBVIOUS
<1>1. db = Before /\ calls = {} /\ serial = FirstId
  BY DEF Init
<1>2. NamesUnique(Before)
  BY SoundAssumption DEF Sound, InventoryIsWhole, NamesUnique
<1>3. \A t \in WrittenBack \cup {"clients", "assets"} : \A x \in Before[t] :
          x.id \in Nat /\ x.id # None /\ x.id < FirstId
  <2>1. WrittenBack \cup {"clients", "assets"} \subseteq DOMAIN Before
    BY BeforeAssumption DEF WrittenBack, MspTable, ItsmTable
  <2>2. ASSUME NEW t \in WrittenBack \cup {"clients"}, NEW x \in Before[t] PROVE x.id \in Id
    <3>1. x \in MspTable[t]
      BY <2>2, BeforeAssumption DEF Holds, MspTable, WrittenBack
    <3>2. CASE t = "clients"
      BY <3>1, <3>2 DEF MspTable, Client
    <3>3. CASE t = "contracts"
      BY <3>1, <3>3 DEF MspTable, Contract
    <3>4. CASE t = "projects"
      BY <3>1, <3>4 DEF MspTable, Project
    <3>5. CASE t = "tasks"
      BY <3>1, <3>5 DEF MspTable, ProjectTask
    <3>6. CASE t = "alerts"
      BY <3>1, <3>6 DEF MspTable, MonitoringAlert
    <3>7. CASE t = "sessions"
      BY <3>1, <3>7 DEF MspTable, RemoteSession
    <3>8. QED
      BY <2>2, <3>2, <3>3, <3>4, <3>5, <3>6, <3>7 DEF WrittenBack
  <2>3. ASSUME NEW x \in Before.assets PROVE x.id \in Id
    BY BeforeAssumption DEF Holds, ItsmTable, Asset
  <2>4. QED
    BY <2>1, <2>2, <2>3, FirstIdAssumption DEF Id
<1>4. ClientsKnown
  BY <1>1, <1>3 DEF ClientsKnown
<1>5. RowsKnown
  <2>1. ASSUME NEW t \in WrittenBack, NEW x \in Before[t], NEW y \in Before[t], y.id = x.id
        PROVE  Alike(t, x, y)
    <3>1. y = x
      BY <2>1, SoundAssumption DEF Sound, WrittenBack
    <3>2. Written(t, x)
      BY BeforeWritten, TableNames
    <3>3. QED
      BY <3>1, <3>2, AlikeItself
  <2>2. QED
    BY <1>1, <1>3, <2>1 DEF RowsKnown, Known
<1>6. QED
  BY <1>1, <1>2, <1>4, <1>5, BeforeRefs DEF RefInv

LEMMA RefNext ==
    ASSUME Numbered, serial' \in {serial, serial + 1}, CareInv, RefInv, [Next]_vars
    PROVE  RefInv'
<1>1. CASE UNCHANGED vars
  <2>1. Renumbers(Makers)
    BY <1>1 DEF vars, Renumbers
  <2>2. Tame(db, db') /\ calls' = calls
    BY <1>1, TameSame DEF vars, RefInv
  <2>3. QED
    BY <2>1, <2>2, TameStep
<1>2. QED
  BY <1>1, RefMsp, RefCx, RefItsm DEF Next

\* What the rows refer to and the ratings that were earned are all of it.
LEMMA RefsHold == CareInv /\ RefInv => ReferencesHold
<1> SUFFICES ASSUME CareInv, RefInv PROVE ReferencesHold
  OBVIOUS
<1>1. \A t \in RefTables : \A x \in db[t] : RowOK(db, t, x)
  BY DEF RefInv, Refs
<1>2. ASSUME NEW t \in OfClients, NEW x \in db[t] PROVE \E k \in db.clients : k.id = x.client
  BY <1>1, TableNames DEF RowOK, Has
<1>3. ASSUME NEW t \in Ticketed \cup Contracted \cup {"expenses"}, NEW x \in db[t]
      PROVE  Ties(db, t, x)
  BY <1>1, TableNames DEF RowOK, OfClients
<1>4. ASSUME NEW t \in OfCustomers, NEW x \in db[t] PROVE \E k \in db.customers : k.id = x.customer
  BY <1>1 DEF RefTables, RowOK, Has
<1>5. ASSUME NEW s \in db.surveys PROVE \E k \in db.customers : k.id = s.customer
  <2>1. PICK v \in db.conversations : v.customer = s.customer
    BY DEF CareInv, CareRows, SurveysEarned
  <2>2. QED
    BY <1>4, <2>1 DEF OfCustomers
<1>6. \A x \in db.tasks : \E p \in db.projects : p.id = x.project
  BY <1>1 DEF RefTables, RowOK, Has
<1>7. \A m \in db.messages : \E v \in db.conversations : v.id = m.conversation
  BY <1>1 DEF RefTables, RowOK, Has
<1>8. OneClientThroughout(db)
  <2>1. /\ \A t \in Ticketed : \A x \in db[t] : OfClient(db.contexts, x.ticket, x.client)
        /\ \A t \in Contracted : \A x \in db[t] : OfClient(db.contracts, x.contract, x.client)
        /\ \A x \in db.expenses : OfClient(db.projects, x.project, x.client)
    BY <1>3 DEF Ties
  <2>2. QED
    BY <1>2, <1>4, <1>5, <1>6, <1>7, <2>1
    DEF OneClientThroughout, OfClients, OfCustomers, Ticketed, Contracted
<1>9. InventoryIsWhole(db)
  <2>1. \A a \in db.assets : \E t \in db.citypes : t.id = a.type
    BY <1>1 DEF RefTables, Targets, RowOK, Has
  <2>2. \A a, b \in db.assets : b.name = a.name => b = a
    BY DEF RefInv, NamesUnique
  <2>3. \A r \in db.relationships : /\ r.source # r.target
                                    /\ \E a \in db.assets : a.id = r.source
                                    /\ \E a \in db.assets : a.id = r.target
    BY <1>1 DEF RefTables, RowOK, Has
  <2>4. \A l \in db.ticketAssets \cup db.linked : \E a \in db.assets : a.id = l.id
    BY <1>1 DEF RefTables, OfAssets, RowOK, Has
  <2>5. \A x \in db.discovered : /\ x.asset # None => \E a \in db.assets : a.id = x.asset
                                 /\ x.status = "pending" => x.asset = None
    BY <1>1 DEF RefTables, OfClients, RowOK, Has
  <2>6. QED
    BY <2>1, <2>2, <2>3, <2>4, <2>5 DEF InventoryIsWhole
<1>10. QED
  BY <1>8, <1>9 DEF ReferencesHold

\* Whatever one request has checked before its INSERT, and whatever others delete,
\* import or link in between, a row names a client, customer, asset, ticket, contract
\* or project that is there, all of one client (the foreign keys of the MSP, CX and
\* ITSM repositories, and the checks of the services that no key repeats).
THEOREM ReferencesAlwaysHold == Spec => []ReferencesHold
<1>1. Init => Numbered /\ Tabled /\ CareInv /\ RefInv
  BY NumberedInit, TabledInit, CareInit, RefInit
<1>2. Numbered /\ Tabled /\ CareInv /\ RefInv /\ [Next]_vars
      => (Numbered /\ Tabled /\ CareInv /\ RefInv)'
  BY NumberedNext, TabledNext, CareNext, RefNext
<1>3. QED
  BY <1>1, <1>2, RefsHold, PTL DEF Spec
============================================================================
