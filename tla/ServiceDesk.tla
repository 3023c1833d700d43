---------------------------- MODULE ServiceDesk ----------------------------
(***************************************************************************)
(* Three areas that share a tenant, its users and the server: MSP (clients,*)
(* contracts, time, billing, monitoring, remote sessions), customer        *)
(* service (conversations, inbound mail, surveys) and ITSM (catalogue,     *)
(* inventory, problems).  Every request of any may come between two        *)
(* statements of another one; MSP and ITSM write the same inventory and    *)
(* link the same tickets.                                                  *)
(***************************************************************************)
EXTENDS Msp, Cx, Itsm

Next == MspNext \/ CxNext \/ ItsmNext

Spec == Init /\ [][Next]_vars

---------------------------------------------------------------------------
(* The tables *)

MspTable ==
    [clients |-> Client, contacts |-> Contact, contracts |-> Contract,
     tickets |-> Ticket, contexts |-> TicketContext, technicians |-> Technician,
     availability |-> Availability, interventions |-> Intervention,
     entries |-> TimeEntry, expenses |-> Expense, projects |-> Project,
     tasks |-> ProjectTask, drafts |-> BillingDraft, linked |-> ClientAsset,
     discovered |-> DiscoveredAsset, sources |-> MonitoringSource,
     alerts |-> MonitoringAlert, sessions |-> RemoteSession]

CxTable ==
    [customers |-> Customer, custcontacts |-> CustomerContact,
     conversations |-> Conversation, messages |-> Message,
     emailAccounts |-> EmailAccount, whatsappAccounts |-> WhatsAppAccount,
     policies |-> SLAPolicy, rules |-> AssignmentRule, replies |-> AutoReply,
     surveys |-> Survey]

ItsmTable ==
    [categories |-> CatalogCategory, services |-> CatalogService, citypes |-> CIType,
     assets |-> Asset, relationships |-> CIRelationship, ticketAssets |-> TicketAsset,
     problems |-> Problem, incidents |-> ProblemIncident, changes |-> Change,
     changeTickets |-> ChangeTicket]

Holds(tables) == \A t \in DOMAIN tables : \A x \in Before[t] : x \in tables[t]

\* The rows before the first request are rows of their tables.
ASSUME BeforeAssumption ==
    /\ DOMAIN Before = UNION {DOMAIN MspTable, DOMAIN CxTable, DOMAIN ItsmTable}
    /\ Holds(MspTable) /\ Holds(CxTable) /\ Holds(ItsmTable)

---------------------------------------------------------------------------
(* What is said below of the tables at any time *)

\* Whatever names a client or a customer names one that is there, and what it
\* links to is of the same one: the ticket and the contract of a context, the
\* ticket and the project of an expense, the contract of a draft, the ticket of
\* an alert.  Deletions race with every insert that has checked its client.
OfClient(rows, id, k) == id = None \/ \E x \in rows : x.id = id /\ x.client = k

OneClientThroughout(d) ==
    /\ \A t \in {"contacts", "contracts", "contexts", "interventions", "entries",
                 "expenses", "projects", "drafts", "linked", "discovered", "alerts",
                 "sessions"} :
          \A x \in d[t] : \E k \in d.clients : k.id = x.client
    /\ \A t \in {"interventions", "entries", "expenses", "alerts", "sessions"} :
          \A x \in d[t] : OfClient(d.contexts, x.ticket, x.client)
    /\ \A t \in {"contexts", "drafts"} :
          \A x \in d[t] : OfClient(d.contracts, x.contract, x.client)
    /\ \A x \in d.expenses : OfClient(d.projects, x.project, x.client)
    /\ \A x \in d.tasks : \E p \in d.projects : p.id = x.project
    /\ \A t \in {"custcontacts", "conversations", "surveys"} :
          \A x \in d[t] : \E k \in d.customers : k.id = x.customer
    /\ \A m \in d.messages : \E v \in d.conversations : v.id = m.conversation

\* The inventory holds together although MSP and ITSM write it at once: an asset
\* has its type, and a relationship, a link to a ticket or a client, and what a
\* discovery became are of assets that are there.
InventoryIsWhole(d) ==
    LET IsAsset(id) == \E a \in d.assets : a.id = id
    IN  /\ \A a \in d.assets :
              /\ \E t \in d.citypes : t.id = a.type
              /\ \A b \in d.assets : b.name = a.name => b = a
        /\ \A r \in d.relationships :
              r.source # r.target /\ IsAsset(r.source) /\ IsAsset(r.target)
        /\ \A l \in d.ticketAssets \cup d.linked : IsAsset(l.id)
        /\ \A x \in d.discovered :
              (x.asset # None => IsAsset(x.asset)) /\ (x.status = "pending" => x.asset = None)

BillsAgree(rows, kind, drafts) ==
    \A e \in rows : e.billed <=>
        \E x \in drafts : \E i \in x.items : i.kind = kind /\ i.of = e.id

\* If they bill the same time, neither draft saw the other.
MadeAtOnce(x, y) ==
    (x.id # y.id /\ \E i \in x.items \cap y.items : i.kind = "time") =>
        x.id \notin y.saw /\ y.id \notin x.saw

\* What a draft bills is of its client.
BillsItsClient(d, x) ==
    \A i \in x.items :
        /\ i.kind = "time" => \A e \in d.entries : e.id = i.of => e.client = x.client
        /\ i.kind = "expense" => \A e \in d.expenses : e.id = i.of => e.client = x.client

MonitoringTicket(d, id) == \E x \in d.tickets : x.id = id /\ x.category = "monitoring"

AlertsTicketed(d) ==
    \A a \in d.alerts : a.status = "open" =>
        /\ \A b \in d.alerts \ {a} :
              b.status = "open" => <<b.source, b.resource>> # <<a.source, a.resource>>
        /\ MonitoringTicket(d, a.ticket)

Consented(s) ==
    /\ s.status \in {"authorized", "active", "ended"} =>
          s.by \in Users /\ Role[s.by] \in {"admin", "agent"}
    /\ s.status \in {"active", "ended"} => s.started

SurveysEarned(d) ==
    \A s \in d.surveys :
        /\ \E v \in d.conversations :
              v.id = s.conversation /\ v.customer = s.customer /\ v.ended
        /\ \A o \in d.surveys \ {s} : o.conversation # s.conversation

HasAnswer(d, id) ==
    \E m \in d.messages : m.conversation = id /\ m.sender = "agent" /\ ~m.internal

---------------------------------------------------------------------------
(* What the rows before the first request are like: the program made them. *)

Sound ==
    /\ OneClientThroughout(Before) /\ InventoryIsWhole(Before)
    /\ \A t \in {"contracts", "projects", "tasks", "entries", "expenses", "alerts", "sessions",
                 "conversations", "problems"} :
          \A x, y \in Before[t] : x.id = y.id => x = y
    /\ AlertsTicketed(Before)
    /\ \A s \in Before.sessions : Consented(s)
    /\ BillsAgree(Before.entries, "time", Before.drafts)
    /\ BillsAgree(Before.expenses, "expense", Before.drafts)
    /\ \A x, y \in Before.drafts : MadeAtOnce(x, y)
    /\ \A x \in Before.drafts :
          /\ BillsItsClient(Before, x)
          /\ \A id \in x.saw : id < FirstId
          /\ \A i \in x.items : i.of < FirstId
    /\ \A v \in Before.conversations :
          (v.status \in Over => v.ended) /\ (v.answered => HasAnswer(Before, v.id))
    /\ SurveysEarned(Before)

ASSUME SoundAssumption == Sound

---------------------------------------------------------------------------
(* Correctness *)

\* What one request links to is there and is of the client it says, whatever other
\* requests delete, import or link between its checks and its INSERT.
ReferencesHold == OneClientThroughout(db) /\ InventoryIsWhole(db)

\* An end user is shown rows of the clients and customers they were a contact of
\* when they asked, and of no other, by every list and every record; and no note
\* that staff wrote for each other.
AnswersStayScoped ==
    Role[page.by] = "end_user" => page.shown \subseteq page.scope /\ ~page.internal

\* Billed marks and drafts agree: a row is marked as billed exactly when a draft
\* holds an item for it, so nothing is marked that no draft shows and nothing stays
\* open that a draft shows.  A void draft counts: its rows stay marked.
BilledIffDrafted ==
    BillsAgree(db.entries, "time", db.drafts) /\ BillsAgree(db.expenses, "expense", db.drafts)

\* Two drafts that bill the same minutes were being made at the same time:
\* neither had the other before it when it read the entries.
RebilledOnlyByARace == \A x, y \in db.drafts : MadeAtOnce(x, y)

\* A resource of a source has at most one open alert, and that alert leads to a
\* monitoring ticket, however deliveries, resolutions and stale updates mix.
OpenAlertsAreTicketed == AlertsTicketed(db)

\* Nobody works in a remote session that no staff member decided on, and one that
\* ended had begun, although any two updates may overwrite each other.
NoSessionWithoutConsent == \A s \in db.sessions : Consented(s)

\* A rating is of a conversation that had been brought to an end, by the customer
\* of that conversation, and it is the only one, although the conversation may be
\* reopened, rated or deleted between the check and the INSERT.
SurveysAreEarned == SurveysEarned(db)

\* A first response is only on record where the customer can read one: writing
\* back stale rows loses first responses and never invents one.
FirstResponseIsReal == \A v \in db.conversations : v.answered => HasAnswer(db, v.id)

---------------------------------------------------------------------------
(* A problem goes along its transitions and keeps what was found out about it, *)
(* unless a PATCH writes back a row that another one has changed since.        *)

Undoes(p, q) ==
    \/ q.status # p.status /\ q.status \notin ProblemTransitions[p.status]
    \/ p.cause # "" /\ q.cause = ""
    \/ p.workaround # "" /\ q.workaround = ""

OnlyOverlapUndoes ==
    [][\A p \in db.problems, q \in db'.problems :
          p.id = q.id /\ Undoes(p, q) =>
              \E c \in calls \ calls' :
                  c.op = "UpdateProblem" /\ c.row.row = q /\ c.row.was # p]_vars

---------------------------------------------------------------------------
(* Mail from outside.  A delivery that is over has left no call behind. *)

Ingesting == {"Ingest-sender", "Ingest-thread", "Ingest-open", "Ingest-reopen",
              "Ingest-message"}

IsOver(c) == c \in calls /\ c.op \in Ingesting /\ \A x \in calls' : x.n # c.n

Stored(c, d) ==
    \E m \in d.messages :
        \/ m.id = c.n
        \/ m.external = c.row.mail.external /\ m.external # ""

\* A rival of a delivery: a customer with the sender's address, or a conversation
\* of its thread that is not over, that the delivery did not find when it looked.
Rival(c, d) ==
    \/ c.op = "Ingest-sender" /\ \E k \in d.customers : Lower(k.email) = Lower(c.row.mail.from)
    \/ c.op \in {"Ingest-open", "Ingest-reopen"} /\ \E v \in d.conversations :
          /\ v.status \notin {"resolved", "closed"}
          /\ v.id # IF c.op = "Ingest-open" THEN c.n ELSE c.row.was.id
          /\ <<v.customer, v.thread>> = <<c.row.customer, c.row.mail.thread>>

\* When a delivery is over its message is there; or its customer is gone; or a
\* rival came between two of its statements.  Nothing else loses mail.
MailIsKept ==
    [][\A c \in calls : IsOver(c) =>
          \/ Stored(c, db')
          \/ c.row.customer # None /\ \A k \in db'.customers : k.id # c.row.customer
          \/ Rival(c, db')]_vars

\* What the handler of the webhook says of a conflict: "duplicate delivery,
\* already ingested".  A message is acknowledged only if it is in the inbox.  A
\* delivery that an error other than a conflict ends is over too, though nothing
\* was acknowledged; no violation needs one.
AcknowledgedIsStored ==
    [][\A c \in calls : IsOver(c) /\ c.row.mail.channel = "whatsapp" =>
          Stored(c, db')]_vars
=============================================================================
