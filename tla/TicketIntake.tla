---------------------------- MODULE TicketIntake ----------------------------
(***************************************************************************)
(* How a ticket gets created (packages/workspace offline.ts, tickets.tsx,  *)
(* api.ts; application/ticket, infrastructure/postgres): browser tabs that *)
(* share a session cookie and a store of drafts post tickets with an       *)
(* idempotency key; requests and answers are lost or late, the page gives  *)
(* up and tries again, and the server reserves the key and creates the     *)
(* ticket in one transaction.                                              *)
(*                                                                         *)
(* Each tab shows the form of one new ticket.  Its key is made with the    *)
(* page; saving it as a draft makes another.                               *)
(***************************************************************************)
EXTENDS Naturals, Sequences

CONSTANTS
    Tabs,       \* pages with a form; they also list and synchronise drafts
    People,     \* a user in a tenant
    Payloads,   \* what the form says
    Requests,   \* bound: requests at the server at once
    NoOne,      \* nobody is signed in
    Nothing,    \* no draft, no request
    Scenarios   \* bound: the tabs, sessions and payloads a behaviour uses, and
                \* how many tickets it creates

ASSUME ConstantsAssumption ==
    /\ NoOne \notin People
    /\ Nothing \notin Tabs \cup Requests
    /\ \A x \in Scenarios : /\ x.tabs \subseteq Tabs /\ x.people \subseteq People \cup {NoOne}
                            /\ x.payloads \subseteq Payloads /\ x.tickets \in Nat

\* A draft has an owner, the data and a lease; a ticket its user, key and data.
\* A request is "sent", "reserved" or "answered" and carries the cookie of the
\* moment it was sent; its answer is the number of a ticket, and 0 is the 409 of
\* a key used for something else.
Keys == Tabs \X {"form", "draft"}
Draft == [owner : People, data : Payloads, leased : BOOLEAN]
Ticket == [by : People, key : Keys, data : Payloads]
Request == [pc : {"sent", "reserved"}, by : People, key : Keys, data : Payloads]
           \cup [pc : {"answered"}, by : People, key : Keys, data : Payloads, answer : Nat]

ASSUME NothingAssumption == Nothing \notin Draft \cup Request

VARIABLES
    session,  \* whom the cookie of the browser identifies
    page,     \* per tab: the user it was rendered for, and whether its form is open
    draft,    \* IndexedDB: the draft that each form was saved as
    tab,      \* per tab: the call it is in the middle of
    req,      \* requests on the way, in their transaction, and answered
    tickets,  \* rows of tickets, with their ticket_idempotency rows
    fate,     \* history per draft: none, saved, or discarded by the user
    scenario  \* the member of Scenarios this behaviour follows

vars == <<session, page, draft, tab, req, tickets, fate, scenario>>

FormKey(t) == <<t, "form">>
DraftKey(t) == <<t, "draft">>

\* A tab is idle, waits for the answer to its "form", or has "checked", "claimed" or
\* "posted" a draft.
Idle == [pc |-> "idle"]

(***************************************************************************)
(* The browser                                                             *)
(***************************************************************************)
\* Somebody signs in or out in any tab; the others keep showing what they show.
SwitchUser(p) ==
    /\ session' = p
    /\ UNCHANGED <<page, draft, tab, req, tickets, fate>>

Reload(t) ==
    /\ tab[t] = Idle
    /\ session # NoOne
    /\ page' = [page EXCEPT ![t].user = session]
    /\ UNCHANGED <<session, draft, tab, req, tickets, fate>>

\* api(): the request leaves with the present cookie, or is refused for want of
\* one, or gets lost.
Post(t, key, data, call) ==
    \/ \E r \in Requests :
         /\ session # NoOne
         /\ req[r] = Nothing
         /\ req' = [req EXCEPT ![r] = [pc |-> "sent", by |-> session, key |-> key, data |-> data]]
         /\ tab' = [tab EXCEPT ![t] = [call EXCEPT !.req = r]]
    \/ /\ tab' = [tab EXCEPT ![t] = call]
       /\ UNCHANGED req

\* "Crear solicitud": the same key however often, and whatever it says now.
SubmitForm(t, data) ==
    /\ page[t].open
    /\ tab[t] = Idle
    /\ Post(t, FormKey(t), data, [pc |-> "form", req |-> Nothing])
    /\ UNCHANGED <<session, page, draft, tickets, fate>>

\* "Guardar borrador local".
SaveDraft(t, data) ==
    /\ page[t].open
    /\ tab[t] = Idle
    /\ draft' = [draft EXCEPT ![t] = [owner |-> page[t].user, data |-> data, leased |-> FALSE]]
    /\ page' = [page EXCEPT ![t].open = FALSE]
    /\ fate' = [fate EXCEPT ![t] = "saved"]
    /\ UNCHANGED <<session, tab, req, tickets>>

ownsDraft(d, p) == draft[d] # Nothing /\ draft[d].owner = p

DeleteDraft(t, d) ==
    /\ tab[t] = Idle
    /\ ownsDraft(d, page[t].user)
    /\ draft' = [draft EXCEPT ![d] = Nothing]
    /\ fate' = [fate EXCEPT ![d] = "discarded"]
    /\ UNCHANGED <<session, page, tab, req, tickets>>

\* syncDraft: GET /auth/me answers with the user of the cookie ...
CheckIdentity(t, d) ==
    /\ tab[t] = Idle
    /\ ownsDraft(d, page[t].user)
    /\ session = page[t].user
    /\ tab' = [tab EXCEPT ![t] = [pc |-> "checked", of |-> d]]
    /\ UNCHANGED <<session, page, draft, req, tickets, fate>>

\* Variant: the draft leaves the store for as long as it is being sent.
Lease_TakesOut(d) == draft' = [draft EXCEPT ![d] = Nothing]

Lease(d) == draft' = [draft EXCEPT ![d].leased = TRUE]

\* ... the draft is claimed unless it is gone or leased ...
ClaimDraft(t) ==
    /\ tab[t].pc = "checked"
    /\ LET d == tab[t].of IN
         IF ownsDraft(d, page[t].user) /\ ~draft[d].leased
         THEN /\ Lease(d)
              /\ tab' = [tab EXCEPT ![t] = [pc |-> "claimed", of |-> d, copy |-> draft[d]]]
         ELSE /\ tab' = [tab EXCEPT ![t] = Idle]
              /\ UNCHANGED draft
    /\ UNCHANGED <<session, page, req, tickets, fate>>

\* ... and posted.
PostDraft(t) ==
    /\ tab[t].pc = "claimed"
    /\ Post(t, DraftKey(tab[t].of), tab[t].copy.data,
            [pc |-> "posted", of |-> tab[t].of, copy |-> tab[t].copy, req |-> Nothing])
    /\ UNCHANGED <<session, page, draft, tickets, fate>>

LeaseEnds(d) ==
    /\ draft[d] # Nothing
    /\ draft[d].leased
    /\ draft' = [draft EXCEPT ![d].leased = FALSE]
    /\ UNCHANGED <<session, page, tab, req, tickets, fate>>

Awaits(t) == tab[t].pc \in {"form", "posted"}

Answered(t) ==
    /\ Awaits(t)
    /\ tab[t].req # Nothing
    /\ req[tab[t].req].pc = "answered"

\* An answer with a ticket; a 409 throws.
Confirmed(t) == Answered(t) /\ req[tab[t].req].answer # 0

\* The ticket is shown: the form closes, or the draft is deleted.
TakeConfirmation(t) ==
    /\ Confirmed(t)
    /\ tab' = [tab EXCEPT ![t] = Idle]
    /\ req' = [req EXCEPT ![tab[t].req] = Nothing]
    /\ IF tab[t].pc = "form"
       THEN page' = [page EXCEPT ![t].open = FALSE] /\ UNCHANGED draft
       ELSE /\ draft' = [draft EXCEPT ![tab[t].of] =
                           IF ownsDraft(tab[t].of, page[t].user) THEN Nothing ELSE @]
            /\ UNCHANGED page
    /\ UNCHANGED <<session, tickets, fate>>

\* A 409, an error or the timeout, while the request may still be under way.
\* syncDraft puts its copy of the draft back, whether it still exists or not.
GiveUp(t) ==
    /\ Awaits(t)
    /\ ~Confirmed(t)
    /\ tab' = [tab EXCEPT ![t] = Idle]
    /\ IF tab[t].pc = "posted"
       THEN draft' = [draft EXCEPT ![tab[t].of] = [tab[t].copy EXCEPT !.leased = FALSE]]
       ELSE UNCHANGED draft
    /\ req' = IF Answered(t) THEN [req EXCEPT ![tab[t].req] = Nothing] ELSE req
    /\ UNCHANGED <<session, page, tickets, fate>>

\* The tab is killed, and opened again on the drafts: the key of the form is gone.
Abandon(t) ==
    /\ tab[t] # Idle
    /\ tab' = [tab EXCEPT ![t] = Idle]
    /\ page' = [page EXCEPT ![t].open = FALSE]
    /\ UNCHANGED <<session, draft, req, tickets, fate>>

(***************************************************************************)
(* The server                                                              *)
(***************************************************************************)
SameKey(a, b) == a.by = b.by /\ a.key = b.key

\* Variant: a transaction that has not committed is not waited for.
KeyHeld_Committed(r) == FALSE

\* The unique index makes the INSERT wait for an uncommitted one.
KeyHeld(r) ==
    \E s \in Requests : /\ req[s] # Nothing
                        /\ req[s].pc = "reserved"
                        /\ SameKey(req[s], req[r])

Stored(r) == {n \in DOMAIN tickets : SameKey(tickets[n], req[r])}

\* Variant: the digests are not compared.
SamePayload_Any(r, n) == TRUE

SamePayload(r, n) == tickets[n].data = req[r].data

AnswerWith(r, n) ==
    req' = [req EXCEPT ![r] = [pc |-> "answered", by |-> req[r].by, key |-> req[r].key,
                               data |-> req[r].data, answer |-> n]]

\* INSERT ... ON CONFLICT DO NOTHING inserts the row of the key ...
ReserveKey(r) ==
    /\ req[r] # Nothing
    /\ req[r].pc = "sent"
    /\ ~KeyHeld(r)
    /\ Stored(r) = {}
    /\ Len(tickets) < scenario.tickets
    /\ req' = [req EXCEPT ![r].pc = "reserved"]
    /\ UNCHANGED <<session, page, draft, tab, tickets, fate>>

\* ... or finds that of an earlier request, and answers with its ticket.
AnswerAgain(r) ==
    /\ req[r] # Nothing
    /\ req[r].pc = "sent"
    /\ ~KeyHeld(r)
    /\ \E n \in Stored(r) : AnswerWith(r, IF SamePayload(r, n) THEN n ELSE 0)
    /\ UNCHANGED <<session, page, draft, tab, tickets, fate>>

\* Ticket, notification, email and key commit together.
CommitTicket(r) ==
    /\ req[r] # Nothing
    /\ req[r].pc = "reserved"
    /\ tickets' = Append(tickets, [by |-> req[r].by, key |-> req[r].key, data |-> req[r].data])
    /\ AnswerWith(r, Len(tickets) + 1)
    /\ UNCHANGED <<session, page, draft, tab, fate>>

\* Rolled back, refused, lost on its way in or on its way out.
LoseRequest(r) ==
    /\ req[r] # Nothing
    /\ req' = [req EXCEPT ![r] = Nothing]
    /\ tab' = [t \in Tabs |-> IF Awaits(t) /\ tab[t].req = r
                              THEN [tab[t] EXCEPT !.req = Nothing] ELSE tab[t]]
    /\ UNCHANGED <<session, page, draft, tickets, fate>>

Init ==
    /\ scenario \in Scenarios
    /\ session \in scenario.people \ {NoOne}
    /\ page = [t \in Tabs |-> [user |-> session, open |-> TRUE]]
    /\ draft = [t \in Tabs |-> Nothing]
    /\ tab = [t \in Tabs |-> Idle]
    /\ req = [r \in Requests |-> Nothing]
    /\ tickets = <<>>
    /\ fate = [t \in Tabs |-> "none"]

Step ==
    \/ \E p \in scenario.people : SwitchUser(p)
    \/ \E t \in scenario.tabs :
         \/ Reload(t) \/ ClaimDraft(t) \/ PostDraft(t)
         \/ TakeConfirmation(t) \/ GiveUp(t) \/ Abandon(t) \/ LeaseEnds(t)
         \/ \E data \in scenario.payloads : SubmitForm(t, data) \/ SaveDraft(t, data)
         \/ \E d \in scenario.tabs : DeleteDraft(t, d) \/ CheckIdentity(t, d)
    \/ \E r \in Requests : ReserveKey(r) \/ AnswerAgain(r) \/ CommitTicket(r) \/ LoseRequest(r)

Next == Step /\ UNCHANGED scenario

Spec == Init /\ [][Next]_vars

(***************************************************************************)
(* Properties                                                              *)
(***************************************************************************)
\* A key of a user makes one ticket, however many requests carry it, late, twice
\* or at once.
OneTicketPerKey ==
    \A m, n \in DOMAIN tickets : SameKey(tickets[m], tickets[n]) => m = n

\* Whoever gets a ticket for an answer gets the one made from what was sent.
AnswersMatch ==
    \A r \in Requests :
        /\ req[r] # Nothing
        /\ req[r].pc = "answered"
        /\ req[r].answer # 0
        => tickets[req[r].answer] = [by |-> req[r].by, key |-> req[r].key, data |-> req[r].data]

\* A draft that its user has not deleted is in the store or has become a ticket.
NoDraftLost ==
    \A d \in Tabs :
        fate[d] = "saved" /\ draft[d] = Nothing
            => \E n \in DOMAIN tickets : tickets[n].key = DraftKey(d)
=============================================================================
