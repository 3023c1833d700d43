------------------------------- MODULE CxStore -------------------------------
(***************************************************************************)
(* The customer-service tables of one tenant and the statements that touch *)
(* them (infrastructure/postgres/cx_repo.go over migration 000016).  Each  *)
(* operator is one statement and returns the database afterwards.          *)
(***************************************************************************)
EXTENDS CxDomain

CONSTANT Lower(_)   \* LOWER of an e-mail address

Nobody == OrNone(Users)

Customer == [id : Id, name : STRING, email : STRING, phone : STRING,
             status : CustomerStatus]
CustomerContact == [id : Id, customer : Id, user : Nobody, email : STRING]

\* "ended" is a history field: the conversation was resolved or closed once.
Conversation == [id : Id, customer : Id, channel : Channels, thread : STRING,
                 status : DOMAIN ConversationTransitions, priority : Priorities,
                 assigned : Nobody, by : Nobody, sla : Nat, answered : BOOLEAN,
                 escalated : BOOLEAN, ended : BOOLEAN]

\* An automatic answer has the number of the message it answers.
Message == [id : Id, conversation : Id, sender : Senders, internal : BOOLEAN,
            external : STRING]

EmailAccount == [id : Id, name : STRING, port : 0..65535]
WhatsAppAccount == [id : Id, name : STRING, token : STRING, active : BOOLEAN]
SLAPolicy == [id : Id, channel : Channels, priority : Priorities, minutes : Nat]
AssignmentRule == [id : Id, channel : Channels \cup {""}, priority : Priorities \cup {""},
                   assignee : Users, position : Nat, active : BOOLEAN]
AutoReply == [id : Id, kind : {"keyword", "channel"}, keyword : STRING,
              channel : Channels \cup {""}, active : BOOLEAN]
Survey == [id : Id, conversation : Id, customer : Id, rating : 1..5]

---------------------------------------------------------------------------
(* Customers and contacts *)

ContactCustomerIDs(d, u) == {c.customer : c \in {x \in d.custcontacts : x.user = u}}

SelectCustomers(d, scope) == {x \in d.customers : InScope(scope, x.id)}
\* These two take the oldest, and ids do not tell which one that is.
CustomerByEmail(d, email) == {x \in d.customers : Lower(x.email) = email}
CustomerByPhone(d, phone) == {x \in d.customers : x.phone = phone}

\* Addresses are unique among the customers that have one, numbers are not.
EmailIsFree(d, c) == \A x \in d.customers : x.id = c.id \/ c.email \notin {x.email} \ {""}

InsertCustomer(d, c) == Insert(d, "customers", c, EmailIsFree(d, c))
UpdateCustomerRow(d, c) ==
    IF EmailIsFree(d, c) /\ c.status \in CustomerStatus THEN Put(d, "customers", c) ELSE d

\* ON DELETE CASCADE.
DeleteCustomerRow(d, k) ==
    LET gone == {x.id : x \in {y \in d.conversations : y.customer = k}}
    IN  [Remove(d, "customers", k) EXCEPT
            !.custcontacts = {x \in @ : x.customer # k},
            !.conversations = {x \in @ : x.customer # k},
            !.messages = {x \in @ : x.conversation \notin gone},
            !.surveys = {x \in @ : x.customer # k}]

SelectCustomerContacts(d, k) == {x \in d.custcontacts : x.customer = k}
InsertCustomerContact(d, c) ==
    Insert(d, "custcontacts", c,
           /\ Has(d, "customers", c.customer)
           /\ \A x \in SelectCustomerContacts(d, c.customer) : x.email # c.email)
DeleteCustomerContactRow(d, k, id) ==
    [d EXCEPT !.custcontacts = {x \in @ : x.id # id \/ x.customer # k}]

---------------------------------------------------------------------------
(* Conversations and messages *)

SelectConversations(d, scope, k) == Where(d.conversations, "customer", scope, k)

\* What a new message of a thread may join: resolved ones too, closed ones not.
OpenConversationsForThread(d, k, thread) ==
    {x \in SelectConversations(d, [all |-> TRUE], k) :
        x.thread = thread /\ x.status # "closed"}

Over == {"resolved", "closed"}

\* The partial unique index: one conversation of a thread that is not over.
ThreadIsFree(d, c) ==
    \/ c.thread = "" \/ c.status \in Over
    \/ \A x \in d.conversations :
          x.id = c.id \/ x.status \in Over \/ <<x.customer, x.thread>> # <<c.customer, c.thread>>

InsertConversation(d, c) ==
    Insert(d, "conversations", c, Has(d, "customers", c.customer) /\ ThreadIsFree(d, c))

\* Whether an UPDATE of the conversation finds its row and breaks no index.
Updates(d, c) == Has(d, "conversations", c.id) /\ ThreadIsFree(d, c)

\* Every column that can change, whatever it is by now.
UpdateConversationRow(d, c) ==
    IF Updates(d, c)
    THEN Put(d, "conversations",
             [c EXCEPT !.ended = Row(d, "conversations", c.id).ended \/ c.status \in Over])
    ELSE d

\* The assignee and the status only.
AssignConversationRow(d, id, who, status) ==
    IF Has(d, "conversations", id)
    THEN UpdateConversationRow(d, [Row(d, "conversations", id) EXCEPT !.assigned = who,
                                                                      !.status = status])
    ELSE d

SelectMessages(d, v, includeInternal) ==
    {m \in d.messages : m.conversation = v /\ (m.internal => includeInternal)}
MessageExists(d, external) == \E m \in d.messages : m.external = external
InsertMessage(d, m) ==
    Insert(d, "messages", m,
           /\ Has(d, "conversations", m.conversation)
           /\ m.external # "" => ~MessageExists(d, m.external))

---------------------------------------------------------------------------
(* Configuration and surveys *)

InsertEmailAccount(d, a) == Insert(d, "emailAccounts", a, TRUE)
UpdateEmailAccountRow(d, a) == Put(d, "emailAccounts", a)
InsertWhatsAppAccount(d, a) == Insert(d, "whatsappAccounts", a, TRUE)
\* The hash of the token is not among the columns written.
UpdateWhatsAppAccountRow(d, a) ==
    Put(d, "whatsappAccounts", [a EXCEPT !.token = Row(d, "whatsappAccounts", a.id).token])

\* ON CONFLICT DO UPDATE: one policy for a channel and priority.
UpsertSLAPolicyRow(d, p) ==
    LET same == {x \in d.policies : <<x.channel, x.priority>> = <<p.channel, p.priority>>}
    IN  IF same = {} THEN Insert(d, "policies", p, TRUE)
        ELSE SetField(d, "policies", {x.id : x \in same}, "minutes", p.minutes)

InsertAssignmentRule(d, r) == Insert(d, "rules", r, TRUE)
\* ORDER BY position, created_at: rules are inserted in the order of their ids.
FirstRule(d, channel, priority) ==
    LET fit == {r \in d.rules : Matches(r, channel, priority)}
    IN  {r \in fit : \A o \in fit : r.position < o.position
                                    \/ (r.position = o.position /\ r.id <= o.id)}
DeleteAssignmentRuleRow(d, id) == Remove(d, "rules", id)
InsertAutoReply(d, r) == Insert(d, "replies", r, TRUE)
DeleteAutoReplyRow(d, id) == Remove(d, "replies", id)

InsertSurvey(d, s) ==
    Insert(d, "surveys", s,
           /\ Has(d, "conversations", s.conversation)
           /\ \A x \in d.surveys : x.conversation # s.conversation)
SelectSurveys(d, scope, k) == Where(d.surveys, "customer", scope, k)

\* The rows the figures of the report count.
SelectReport(d, scope) ==
    {x.id : x \in SelectCustomers(d, scope)}
    \cup {x.customer : x \in SelectConversations(d, scope, None) \cup SelectSurveys(d, scope, None)}
=============================================================================
