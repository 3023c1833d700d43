------------------------------ MODULE CxService ------------------------------
(***************************************************************************)
(* What the customer-service application decides on the rows it has read   *)
(* (application/cx/service.go), and the rows it will write.                *)
(***************************************************************************)
EXTENDS CxStore

VisibleCustomers(d, u) ==
    [all |-> Role[u] \in Staff,
     ids |-> IF Role[u] \in Staff THEN {} ELSE ContactCustomerIDs(d, u)]

CheckCustomer(d, u, k) == CanAccessCustomer(Role[u], ContactCustomerIDs(d, u), k)

\* A viewer who filters by a customer they may not see is shown nothing.
ConversationsFor(d, scope, k) ==
    IF k # None /\ ~InScope(scope, k) THEN {} ELSE SelectConversations(d, scope, k)

---------------------------------------------------------------------------
(* Conversations *)

\* A conversation as it is opened: its SLA, and whom the first matching rule
\* assigns it to, which also puts it in progress.
Opened(d, c) ==
    LET priced == ApplySLA(c, d.policies)
        rules == FirstRule(d, c.channel, c.priority)
    IN  IF rules = {} THEN {priced}
        ELSE {[priced EXCEPT !.assigned = r.assignee, !.status = "in_progress"] : r \in rules}

Taken(c) == IF c.status = "open" THEN "in_progress" ELSE c.status

MayRelease(c, u) == Role[u] = "admin" \/ c.assigned = u

Escalated(c) == [c EXCEPT !.priority = NextPriority[@], !.escalated = TRUE]

---------------------------------------------------------------------------
(* Messages *)

\* Who a message is from: an end user writes as the customer and never a note,
\* staff as an agent unless they say otherwise.
MessageFrom(u, id, v, sender, internal) ==
    [id |-> id, conversation |-> v, external |-> "",
     sender |-> IF Role[u] \notin Staff THEN "customer"
                ELSE IF sender = "" THEN "agent" ELSE sender,
     internal |-> internal /\ Role[u] \in Staff]

\* What a message that is no note makes of the conversation it was read with.
AfterMessage(c, m) ==
    [c EXCEPT !.answered = @ \/ m.sender = "agent",
              !.status = IF \/ m.sender = "agent" /\ @ = "waiting_customer"
                            \/ MessageReopens(@, m.sender)
                         THEN "in_progress" ELSE @]

\* A conversation that inbound mail opens: no rule applies, nobody opened it.
Inbound(d, id, k, mail) ==
    ApplySLA([id |-> id, customer |-> k, channel |-> mail.channel, thread |-> mail.thread,
              status |-> "open", priority |-> "medium", assigned |-> None, by |-> None,
              sla |-> 0, answered |-> FALSE, escalated |-> FALSE, ended |-> FALSE],
             d.policies)

\* A sender nobody knows becomes a customer.
Sender(id, mail) ==
    [id |-> id, name |-> mail.from, status |-> "active",
     email |-> IF mail.channel = "email" THEN Lower(mail.from) ELSE "",
     phone |-> IF mail.channel = "whatsapp" THEN mail.from ELSE ""]

SendersKnown(d, mail) ==
    IF mail.channel = "email" THEN CustomerByEmail(d, Lower(mail.from))
    ELSE CustomerByPhone(d, mail.from)

---------------------------------------------------------------------------
(* Surveys *)

\* Variant: a conversation may be rated at any time.
SurveyAccepted_Anytime(d, u, c, s) == CheckCustomer(d, u, c.customer) /\ ValidSurvey(s)

\* By whoever may see the conversation, once it is over.
SurveyAccepted(d, u, c, s) ==
    CheckCustomer(d, u, c.customer) /\ c.status \in Over /\ ValidSurvey(s)
=============================================================================
