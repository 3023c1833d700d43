------------------------------ MODULE CxDomain ------------------------------
(***************************************************************************)
(* The rules of customer service (domain/cx/cx.go): which moves a          *)
(* conversation has, which SLA it gets, who may take it, what a message    *)
(* and a rule do to it.  Pure operators, no state.  One number, the        *)
(* minutes to the first response, stands for the SLA, and one word for the *)
(* text of a message.                                                      *)
(***************************************************************************)
EXTENDS Tables, FiniteSetsExt

Channels == {"email", "portal", "chat", "whatsapp"}
Priorities == {"low", "medium", "high", "critical"}
Senders == {"customer", "agent", "system"}
CustomerStatus == {"active", "inactive"}

ConversationTransitions ==
    [open             |-> {"in_progress", "waiting_customer", "resolved", "closed"},
     in_progress      |-> {"waiting_customer", "resolved", "closed"},
     waiting_customer |-> {"in_progress", "resolved", "closed"},
     resolved         |-> {"in_progress", "closed"},
     closed           |-> {"in_progress"}]

NextPriority ==
    [low |-> "medium", medium |-> "high", high |-> "critical", critical |-> "critical"]

---------------------------------------------------------------------------
(* Customers *)

ValidCustomer(c) == c.name # "" /\ c.status \in CustomerStatus \cup {""}
ValidCustomerContact(c) == c.email # ""

\* Staff see every customer, a contact only its own; no list is "all".
CanAccessCustomer(role, customerIds, k) == role \in Staff \/ k \in customerIds

---------------------------------------------------------------------------
(* Conversations *)

ConversationCanMoveTo(c, next) == next \in ConversationTransitions[c.status]

ValidConversation(c) ==
    /\ c.channel \in Channels
    /\ c.priority \in Priorities
    /\ c.status \in DOMAIN ConversationTransitions

CanTakeConversation(c, u) == c.assigned \in {None, u}

DefaultSLA == [chat |-> 15, whatsapp |-> 60, portal |-> 120, email |-> 240]

\* A policy of the channel and priority wins; critical halves the minutes.
ApplySLA(c, policies) ==
    LET found == {p.minutes : p \in {x \in policies : /\ x.channel = c.channel
                                                      /\ x.priority = c.priority}}
        minutes == IF found = {} THEN DefaultSLA[c.channel] ELSE Max(found)
    IN  [c EXCEPT !.sla = IF c.priority = "critical" THEN Max({minutes \div 2, 15})
                          ELSE minutes]

---------------------------------------------------------------------------
(* Messages *)

ValidMessage(m, body) == body # "" /\ m.sender \in Senders

MessageReopens(status, sender) == status = "resolved" /\ sender = "customer"

---------------------------------------------------------------------------
(* Configuration and surveys *)

ValidEmailAccount(a) == a.name # "" /\ a.port \in 0..65535
ValidWhatsAppAccount(a) == a.name # ""
ValidSLAPolicy(p) == p.channel \in Channels /\ p.priority \in Priorities /\ p.minutes >= 0

\* An empty channel or priority of a rule matches any.
Matches(rule, channel, priority) ==
    rule.active /\ rule.channel \in {"", channel} /\ rule.priority \in {"", priority}

ValidAutoReply(r) ==
    \/ r.kind = "keyword" /\ r.keyword # ""
    \/ r.kind = "channel" /\ r.channel \in Channels

\* Whether any active rule answers; the texts of the answers are left out.
MatchAutoReply(replies, channel, body) ==
    \E r \in replies :
        /\ r.active
        /\ \/ r.kind = "keyword" /\ r.keyword = body
           \/ r.kind = "channel" /\ r.channel = channel

ValidSurvey(s) == s.rating \in 1..5
=============================================================================
