--------------------------------- MODULE Cx ---------------------------------
(***************************************************************************)
(* Customer service at work: the routes under /cx and the WhatsApp webhook *)
(* (interfaces/http).  See Requests for how a handler becomes actions.     *)
(***************************************************************************)
EXTENDS CxService, Requests

CONSTANTS
    Addresses,   \* bound: e-mail addresses customers are given
    Threads,     \* bound: the external threads that a caller opens a conversation for
    Mail         \* bound: the messages from outside, each with its sender, its
                 \* thread and its external id; any may be delivered again

\* LOWER of what LOWER returned is that again.
ASSUME LowerAssumption == \A mail \in Mail : Lower(Lower(mail.from)) = Lower(mail.from)

---------------------------------------------------------------------------
(* Reading.  An answer shows the customers its rows belong to. *)

AskCx(u, op, k) ==
    Begin(op, [by |-> u, scope |-> VisibleCustomers(db, u), customer |-> k])
AskCxOf(u, op, k) == CheckCustomer(db, u, k) /\ AskCx(u, op, k)

ListCustomers(u) == AskCx(u, "ListCustomers", None)
GetCustomer(u, k) == AskCxOf(u, "GetCustomer", k)
ListCustomerContacts(u, k) == AskCxOf(u, "ListCustomerContacts", k)
ListConversations(u, k) == AskCx(u, "ListConversations", k)
\* The row comes first and the check with the answer.
GetConversation(u) == \E v \in db.conversations : AskCx(u, "GetConversation", v.customer)
ListMessages(u) ==
    \E v \in db.conversations :
        /\ CheckCustomer(db, u, v.customer)
        /\ Begin("ListMessages", [by |-> u, scope |-> VisibleCustomers(db, u),
                                  customer |-> v.customer, conversation |-> v.id])
ListSurveys(u, k) == AskCx(u, "ListSurveys", k)
Report(u) == AskCx(u, "Report", None)

Tell(c, shown) == ReplyAs(c, c.row.scope.ids, shown, FALSE)
TellRows(c, rows) == Tell(c, {x.customer : x \in rows})

CxAnswer(c) ==
    LET s == c.row.scope
        k == c.row.customer
        u == c.row.by
    IN  \/ c.op = "ListCustomers" /\ Tell(c, {x.id : x \in SelectCustomers(db, s)})
        \/ c.op = "GetCustomer" /\ Tell(c, {x.id : x \in {y \in db.customers : y.id = k}})
        \/ c.op = "ListCustomerContacts" /\ TellRows(c, SelectCustomerContacts(db, k))
        \/ c.op = "ListConversations" /\ TellRows(c, ConversationsFor(db, s, k))
        \/ c.op = "GetConversation" /\ CheckCustomer(db, u, k)
           /\ ReplyAs(c, VisibleCustomers(db, u).ids, {k}, FALSE)
        \/ c.op = "ListMessages"
           /\ LET rows == SelectMessages(db, c.row.conversation, Role[u] \in Staff)
              IN  ReplyAs(c, s.ids, {k : m \in rows}, \E m \in rows : m.internal)
        \/ c.op = "ListSurveys" /\ TellRows(c, SelectSurveys(db, s, k))
        \/ c.op = "Report" /\ Tell(c, SelectReport(db, s))

---------------------------------------------------------------------------
(* Customers and contacts *)

Customers == {x.id : x \in db.customers}

CustomerInput(id) ==
    [id : {id}, name : {"", "n1"}, email : Addresses \cup {""}, phone : {""},
     status : {"", "inactive"}]

CreateCustomer(u) ==
    \E in \in CustomerInput(serial) :
        LET c == [in EXCEPT !.status = IF @ = "" THEN "active" ELSE @]
        IN  ByStaff(u) /\ ValidCustomer(c) /\ AtOnce("CreateCustomer", InsertCustomer(db, c))

UpdateCustomer(u, k) ==
    \E c \in CustomerInput(k) :
        ByStaff(u) /\ ValidCustomer(c) /\ AtOnce("UpdateCustomer", UpdateCustomerRow(db, c))

DeleteCustomer(u, k) == ByStaff(u) /\ AtOnce("DeleteCustomer", DeleteCustomerRow(db, k))

\* Users are never deleted: nothing comes between the check of the user and the
\* INSERT, and it is the INSERT that asks for the customer.
CreateCustomerContact(u, k) ==
    \E user \in Nobody, email \in Names \cup {""} :
        LET c == [id |-> serial, customer |-> k, user |-> user, email |-> email]
        IN  /\ ByStaff(u) /\ ValidCustomerContact(c)
            /\ AtOnce("CreateCustomerContact", InsertCustomerContact(db, c))

DeleteCustomerContact(u, k) ==
    \E x \in db.custcontacts :
        ByStaff(u) /\ AtOnce("DeleteCustomerContact", DeleteCustomerContactRow(db, k, x.id))

---------------------------------------------------------------------------
(* Conversations.  Every change of one writes back the row it was read as,  *)
(* except take and release, which write the assignee and the status.        *)

CreateConversation(u, k) ==
    \E channel \in {"portal", "fax"}, priority \in {"medium", "critical"}, thread \in Threads :
        LET c == [id |-> serial, customer |-> k, channel |-> channel, thread |-> thread,
                  status |-> "open", priority |-> priority, assigned |-> None, by |-> u,
                  sla |-> 0, answered |-> FALSE, escalated |-> FALSE, ended |-> FALSE]
        IN  /\ CheckCustomer(db, u, k) /\ ValidConversation(c)
            /\ \E o \in Opened(db, c) : Begin("CreateConversation", o)

UpdateConversationStatus(u) ==
    \E v \in db.conversations, next \in DOMAIN ConversationTransitions :
        /\ ByStaff(u) /\ ConversationCanMoveTo(v, next)
        /\ Begin("UpdateConversation", [v EXCEPT !.status = next])

EscalateConversation(u) ==
    \E v \in db.conversations : ByStaff(u) /\ Begin("UpdateConversation", Escalated(v))

TakeConversation(u) ==
    \E v \in db.conversations :
        /\ ByStaff(u) /\ CanTakeConversation(v, u)
        /\ Begin("AssignConversation", [id |-> v.id, to |-> u, status |-> Taken(v)])

ReleaseConversation(u) ==
    \E v \in db.conversations :
        /\ ByStaff(u) /\ MayRelease(v, u)
        /\ Begin("AssignConversation", [id |-> v.id, to |-> None, status |-> "open"])

---------------------------------------------------------------------------
(* A message: the INSERT, what it makes of the conversation, the automatic  *)
(* answer, each on whatever the database is by then.                        *)

AddMessage(u) ==
    \E v \in db.conversations, sender \in Senders \cup {""}, internal \in BOOLEAN,
       body \in Names \cup {""} :
        LET m == MessageFrom(u, serial, v.id, sender, internal)
        IN  /\ CheckCustomer(db, u, v.customer) /\ v.status # "closed"
            /\ ValidMessage(m, body)
            /\ Begin("AddMessage", [message |-> m, was |-> v, body |-> body])

\* A customer's message goes on to the automatic answers.
ToAutoReply(c) == IF c.row.message.sender = "customer" THEN On(c, "AutoReply", c.row) ELSE {}

\* Variant: a note for the staff counts as a message to the customer.
StoreMessage_NotesCount(c) ==
    LET d == InsertMessage(db, c.row.message)
    IN  /\ c.op = "AddMessage"
        /\ Continue(c, d, IF d = db THEN {} ELSE On(c, "MoveConversation", c.row))

\* The INSERT; a note for the staff changes nothing else.
StoreMessage(c) ==
    LET m == c.row.message
        d == InsertMessage(db, m)
    IN  /\ c.op = "AddMessage"
        /\ Continue(c, d,
              IF d = db \/ m.internal THEN {}
              ELSE IF AfterMessage(c.row.was, m) = c.row.was THEN ToAutoReply(c)
              ELSE On(c, "MoveConversation", c.row))

MoveConversation(c) ==
    LET moved == AfterMessage(c.row.was, c.row.message)
    IN  /\ c.op = "MoveConversation"
        /\ Continue(c, UpdateConversationRow(db, moved),
                    IF Updates(db, moved) THEN ToAutoReply(c) ELSE {})

AnswerMessage(c) ==
    /\ c.op = "AutoReply"
    /\ Write(c, IF MatchAutoReply(db.replies, c.row.was.channel, c.row.body)
                THEN InsertMessage(db, [c.row.message EXCEPT !.sender = "system"])
                ELSE db)

---------------------------------------------------------------------------
(* Mail from outside: e-mail that staff hand in, WhatsApp from the signed   *)
(* webhook.  Duplicates are turned away, the sender is looked up or         *)
(* created, the thread is found, reopened or opened, the message stored.    *)

Received(mail) ==
    /\ mail.external # "" => ~MessageExists(db, mail.external)
    /\ LET row == [mail |-> mail, customer |-> None, was |-> None]
       IN  IF SendersKnown(db, mail) = {} THEN Begin("Ingest-sender", row)
           ELSE \E k \in SendersKnown(db, mail) :
                   Begin("Ingest-thread", [row EXCEPT !.customer = k.id])

IngestEmail(u) ==
    \E mail \in Mail : ByStaff(u) /\ mail.channel = "email" /\ Received(mail)
WhatsAppWebhookIngest == \E mail \in Mail : mail.channel = "whatsapp" /\ Received(mail)

InsertSender(c) ==
    LET d == InsertCustomer(db, Sender(c.n, c.row.mail))
    IN  /\ c.op = "Ingest-sender"
        /\ Continue(c, d, IF d = db THEN {}
                          ELSE On(c, "Ingest-thread", [c.row EXCEPT !.customer = c.n]))

FindThread(c) ==
    LET thread == c.row.mail.thread
        found == IF thread = "" THEN {}
                 ELSE OpenConversationsForThread(db, c.row.customer, thread)
        Step(v) == IF v.status = "resolved" THEN "Ingest-reopen" ELSE "Ingest-message"
    IN  /\ c.op = "Ingest-thread"
        /\ \/ found = {} /\ Continue(c, db, On(c, "Ingest-open", c.row))
           \/ \E v \in found : Continue(c, db, On(c, Step(v), [c.row EXCEPT !.was = v]))

OpenThread(c) ==
    LET v == Inbound(db, c.n, c.row.customer, c.row.mail)
        d == InsertConversation(db, v)
    IN  /\ c.op = "Ingest-open"
        /\ Continue(c, d, IF d = db THEN {}
                          ELSE On(c, "Ingest-message", [c.row EXCEPT !.was = v]))

\* Variant: a conversation that was reopened is all there is to do.
ReopenThread_Returns(c) ==
    /\ c.op = "Ingest-reopen"
    /\ Write(c, UpdateConversationRow(db, [c.row.was EXCEPT !.status = "in_progress"]))

\* A resolved thread is put back in progress, or the delivery fails.
ReopenThread(c) ==
    LET v == [c.row.was EXCEPT !.status = "in_progress"]
    IN  /\ c.op = "Ingest-reopen"
        /\ Continue(c, UpdateConversationRow(db, v),
                    IF Updates(db, v) THEN On(c, "Ingest-message", c.row) ELSE {})

StoreInbound(c) ==
    /\ c.op = "Ingest-message"
    /\ Write(c, InsertMessage(db, [id |-> c.n, conversation |-> c.row.was.id,
                                   sender |-> "customer", internal |-> FALSE,
                                   external |-> c.row.mail.external]))

---------------------------------------------------------------------------
(* Channels, policies, rules and automatic answers *)

EmailAccountInput(id) == [id : {id}, name : {"", "n1"}, port : {0, 25, 70000}]

\* No port is the default one when an account is created, and 0 afterwards.
CreateEmailAccount(u) ==
    \E in \in EmailAccountInput(serial) :
        LET a == [in EXCEPT !.port = IF @ = 0 THEN 587 ELSE @]
        IN  /\ ByStaff(u) /\ ValidEmailAccount(a)
            /\ AtOnce("CreateEmailAccount", InsertEmailAccount(db, a))

UpdateEmailAccount(u) ==
    \E x \in db.emailAccounts : \E a \in EmailAccountInput(x.id) :
        /\ ByStaff(u) /\ ValidEmailAccount(a)
        /\ AtOnce("UpdateEmailAccount", UpdateEmailAccountRow(db, a))

WhatsAppInput(id) == [id : {id}, name : {"", "n1"}, token : {"", "t1"}, active : BOOLEAN]

CreateWhatsAppAccount(u) ==
    \E a \in WhatsAppInput(serial) :
        /\ ByStaff(u) /\ ValidWhatsAppAccount(a)
        /\ AtOnce("CreateWhatsAppAccount", InsertWhatsAppAccount(db, a))

UpdateWhatsAppAccount(u) ==
    \E x \in db.whatsappAccounts : \E a \in WhatsAppInput(x.id) :
        /\ ByStaff(u) /\ ValidWhatsAppAccount(a)
        /\ AtOnce("UpdateWhatsAppAccount", UpdateWhatsAppAccountRow(db, a))

UpsertSLAPolicy(u) ==
    \E channel \in {"portal", "fax"}, minutes \in {-1, 8, 40} :
        LET p == [id |-> serial, channel |-> channel, priority |-> "critical",
                  minutes |-> minutes]
        IN  /\ ByStaff(u) /\ ValidSLAPolicy(p)
            /\ AtOnce("UpsertSLAPolicy", UpsertSLAPolicyRow(db, p))

\* Any user of the tenant may be named as the assignee.
CreateAssignmentRule(u) ==
    \E channel \in {"", "email"}, assignee \in Users, position \in 0..1 :
        LET r == [id |-> serial, channel |-> channel, priority |-> "", assignee |-> assignee,
                  position |-> position, active |-> TRUE]
        IN  ByStaff(u) /\ AtOnce("CreateAssignmentRule", InsertAssignmentRule(db, r))
DeleteAssignmentRule(u) ==
    \E r \in db.rules :
        ByStaff(u) /\ AtOnce("DeleteAssignmentRule", DeleteAssignmentRuleRow(db, r.id))

CreateAutoReply(u) ==
    \E kind \in {"keyword", "channel"}, word \in {"", "n1"}, channel \in {"", "portal"} :
        LET r == [id |-> serial, kind |-> kind, keyword |-> word, channel |-> channel,
                  active |-> TRUE]
        IN  /\ ByStaff(u) /\ ValidAutoReply(r)
            /\ AtOnce("CreateAutoReply", InsertAutoReply(db, r))
DeleteAutoReply(u) ==
    \E r \in db.replies : ByStaff(u) /\ AtOnce("DeleteAutoReply", DeleteAutoReplyRow(db, r.id))

CreateSurvey(u) ==
    \E v \in db.conversations, rating \in {0, 5} :
        LET s == [id |-> serial, conversation |-> v.id, customer |-> v.customer,
                  rating |-> rating]
        IN  SurveyAccepted(db, u, v, s) /\ Begin("CreateSurvey", s)

---------------------------------------------------------------------------
(* The further statements of a call and the next-state relation *)

CxFinish(c) ==
    \/ CxAnswer(c)
    \/ StoreMessage(c) \/ MoveConversation(c) \/ AnswerMessage(c)
    \/ InsertSender(c) \/ FindThread(c) \/ OpenThread(c) \/ ReopenThread(c)
    \/ StoreInbound(c)
    \/ c.op = "CreateConversation" /\ Write(c, InsertConversation(db, c.row))
    \/ c.op = "UpdateConversation" /\ Write(c, UpdateConversationRow(db, c.row))
    \/ c.op = "AssignConversation"
       /\ Write(c, AssignConversationRow(db, c.row.id, c.row.to, c.row.status))
    \/ c.op = "CreateSurvey" /\ Write(c, InsertSurvey(db, c.row))

CxRead(u) ==
    \/ ListCustomers(u) \/ GetConversation(u) \/ ListMessages(u) \/ Report(u)
    \/ \E k \in Customers : GetCustomer(u, k) \/ ListCustomerContacts(u, k)
    \/ \E k \in OrNone(Customers) : ListConversations(u, k) \/ ListSurveys(u, k)

CxChange(u) ==
    \/ CreateCustomer(u) \/ UpdateConversationStatus(u) \/ EscalateConversation(u)
    \/ TakeConversation(u) \/ ReleaseConversation(u) \/ AddMessage(u) \/ IngestEmail(u)
    \/ CreateEmailAccount(u) \/ UpdateEmailAccount(u)
    \/ CreateWhatsAppAccount(u) \/ UpdateWhatsAppAccount(u)
    \/ UpsertSLAPolicy(u) \/ CreateAssignmentRule(u) \/ DeleteAssignmentRule(u)
    \/ CreateAutoReply(u) \/ DeleteAutoReply(u) \/ CreateSurvey(u)
    \/ \E k \in Customers :
        \/ UpdateCustomer(u, k) \/ DeleteCustomer(u, k)
        \/ CreateCustomerContact(u, k) \/ DeleteCustomerContact(u, k)
        \/ CreateConversation(u, k)

CxNext ==
    \/ MoreRequests /\ (WhatsAppWebhookIngest \/ \E u \in Users : CxRead(u) \/ CxChange(u))
    \/ \E c \in calls : CxFinish(c)
=============================================================================
