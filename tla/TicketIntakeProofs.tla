------------------------- MODULE TicketIntakeProofs -------------------------
(***************************************************************************)
(* Proofs about TicketIntake, for any tabs, people and payloads, any       *)
(* number of requests at once and every scenario.                          *)
(***************************************************************************)
EXTENDS TicketIntake, TLAPS

Call == {Idle} \cup [pc : {"form"}, req : Requests \cup {Nothing}]
        \cup [pc : {"checked"}, of : Tabs]
        \cup [pc : {"claimed"}, of : Tabs, copy : Draft]
        \cup [pc : {"posted"}, of : Tabs, copy : Draft, req : Requests \cup {Nothing}]

TypeOK ==
    /\ scenario \in Scenarios
    /\ session \in People \cup {NoOne}
    /\ page \in [Tabs -> [user : People, open : BOOLEAN]]
    /\ draft \in [Tabs -> Draft \cup {Nothing}]
    /\ tab \in [Tabs -> Call]
    /\ req \in [Requests -> Request \cup {Nothing}]
    /\ tickets \in Seq(Ticket)
    /\ fate \in [Tabs -> {"none", "saved", "discarded"}]

(***************************************************************************)
(* The strengthening.  A key that a transaction has reserved is reserved   *)
(* by nobody else and has no ticket; an answer names the ticket of its     *)
(* request; a tab that waits for a request waits alone for one that        *)
(* carries the key of what the tab has sent.                               *)
(***************************************************************************)
Reserved(r) == req[r] # Nothing /\ req[r].pc = "reserved"

KeysReservedOnce ==
    /\ \A r, s \in Requests : Reserved(r) /\ Reserved(s) /\ SameKey(req[r], req[s]) => r = s
    /\ \A r \in Requests : Reserved(r) => Stored(r) = {}

AnswerNames(r) ==
    req[r] # Nothing /\ req[r].pc = "answered" /\ req[r].answer # 0 =>
        /\ req[r].answer \in DOMAIN tickets
        /\ tickets[req[r].answer] = [by |-> req[r].by, key |-> req[r].key, data |-> req[r].data]

Waiting(t) == Awaits(t) /\ tab[t].req # Nothing

SentKey(t) == IF tab[t].pc = "form" THEN FormKey(t) ELSE DraftKey(tab[t].of)

WaitsForItsOwn(t) ==
    Waiting(t) =>
        /\ req[tab[t].req] # Nothing
        /\ req[tab[t].req].key = SentKey(t)
        /\ \A u \in Tabs : Waiting(u) /\ tab[u].req = tab[t].req => u = t

Inv ==
    /\ TypeOK
    /\ OneTicketPerKey
    /\ KeysReservedOnce
    /\ \A r \in Requests : AnswerNames(r)
    /\ \A t \in Tabs : WaitsForItsOwn(t)
    /\ NoDraftLost

LEMMA InitInv == Init => Inv
<1> SUFFICES ASSUME Init PROVE Inv
  OBVIOUS
<1>1. /\ tab = [t \in Tabs |-> Idle] /\ req = [r \in Requests |-> Nothing]
      /\ draft = [t \in Tabs |-> Nothing] /\ tickets = <<>>
      /\ fate = [t \in Tabs |-> "none"]
      /\ page = [t \in Tabs |-> [user |-> session, open |-> TRUE]]
      /\ scenario \in Scenarios /\ session \in scenario.people \ {NoOne}
  BY DEF Init
<1>2. session \in People
  BY <1>1, ConstantsAssumption
<1>3. TypeOK
  BY <1>1, <1>2 DEF TypeOK, Call
<1>4. \A t \in Tabs : tab[t].pc = "idle"
  BY <1>1 DEF Idle
<1>5. OneTicketPerKey /\ NoDraftLost
  BY <1>1 DEF OneTicketPerKey, NoDraftLost
<1>6. KeysReservedOnce /\ \A r \in Requests : AnswerNames(r)
  BY <1>1 DEF KeysReservedOnce, Reserved, AnswerNames
<1>7. \A t \in Tabs : WaitsForItsOwn(t)
  BY <1>4 DEF WaitsForItsOwn, Waiting, Awaits
<1>8. QED
  BY <1>3, <1>5, <1>6, <1>7 DEF Inv

(***************************************************************************)
(* Types                                                                   *)
(***************************************************************************)
LEMMA ScenarioTypes ==
    ASSUME TypeOK
    PROVE  /\ scenario.tabs \subseteq Tabs
           /\ scenario.people \subseteq People \cup {NoOne}
           /\ scenario.payloads \subseteq Payloads
BY ConstantsAssumption DEF TypeOK

LEMMA DraftType ==
    ASSUME TypeOK, NEW d \in Tabs, draft[d] # Nothing
    PROVE  draft[d] \in Draft
BY DEF TypeOK

LEMMA RequestType ==
    ASSUME TypeOK, NEW r \in Requests, req[r] # Nothing
    PROVE  req[r] \in Request /\ req[r].by \in People /\ req[r].key \in Keys
           /\ req[r].data \in Payloads
BY DEF TypeOK, Request

LEMMA CallType ==
    ASSUME TypeOK, NEW t \in Tabs
    PROVE  /\ tab[t].pc \in {"checked", "claimed", "posted"} => tab[t].of \in Tabs
           /\ tab[t].pc \in {"claimed", "posted"} => tab[t].copy \in Draft
           /\ Awaits(t) => tab[t].req \in Requests \cup {Nothing}
<1>1. tab[t] \in Call
  BY DEF TypeOK
<1>2. CASE tab[t] = Idle
  BY <1>2 DEF Idle, Awaits
<1>3. CASE tab[t] # Idle
  BY <1>1, <1>3 DEF Call, Awaits
<1>4. QED
  BY <1>2, <1>3

LEMMA IdleCall == Idle \in Call
BY DEF Call

LEMMA PostTypes ==
    ASSUME TypeOK, NEW t \in Tabs, NEW key \in Keys, NEW data \in Payloads, NEW call,
           \A q \in Requests \cup {Nothing} : [call EXCEPT !.req = q] \in Call,
           call \in Call, Post(t, key, data, call)
    PROVE  tab' \in [Tabs -> Call] /\ req' \in [Requests -> Request \cup {Nothing}]
<1>1. CASE tab' = [tab EXCEPT ![t] = call] /\ UNCHANGED req
  BY <1>1 DEF TypeOK
<1>2. ASSUME NEW r \in Requests, session # NoOne,
             req' = [req EXCEPT ![r] = [pc |-> "sent", by |-> session, key |-> key,
                                        data |-> data]],
             tab' = [tab EXCEPT ![t] = [call EXCEPT !.req = r]]
      PROVE  tab' \in [Tabs -> Call] /\ req' \in [Requests -> Request \cup {Nothing}]
  <2>1. [pc |-> "sent", by |-> session, key |-> key, data |-> data] \in Request
    BY <1>2 DEF TypeOK, Request
  <2>2. QED
    BY <1>2, <2>1 DEF TypeOK
<1>3. QED
  BY <1>1, <1>2 DEF Post

LEMMA KeyTypes == \A t \in Tabs : FormKey(t) \in Keys /\ DraftKey(t) \in Keys
BY DEF FormKey, DraftKey, Keys

LEMMA AnswerTypes ==
    ASSUME TypeOK, NEW r \in Requests, req[r] # Nothing, NEW n \in Nat, AnswerWith(r, n)
    PROVE  req' \in [Requests -> Request \cup {Nothing}]
<1>1. [pc |-> "answered", by |-> req[r].by, key |-> req[r].key, data |-> req[r].data,
       answer |-> n] \in Request
  BY RequestType DEF Request
<1>2. QED
  BY <1>1 DEF AnswerWith, TypeOK

LEMMA TypeNext == TypeOK /\ [Next]_vars => TypeOK'
<1> SUFFICES ASSUME TypeOK, [Next]_vars PROVE TypeOK'
  OBVIOUS
<1>1. CASE UNCHANGED vars
  BY <1>1 DEF vars, TypeOK
<1>2. CASE Next
  <2> USE <1>2 DEF Next
  <2>1. ASSUME NEW p \in scenario.people, SwitchUser(p) PROVE TypeOK'
    BY <2>1, ScenarioTypes DEF SwitchUser, TypeOK
  <2>2. ASSUME NEW t \in scenario.tabs, Reload(t) PROVE TypeOK'
    BY <2>2, ScenarioTypes DEF Reload, TypeOK
  <2>3. ASSUME NEW t \in scenario.tabs, NEW data \in scenario.payloads, SubmitForm(t, data)
        PROVE  TypeOK'
    <3> DEFINE call == [pc |-> "form", req |-> Nothing]
    <3>1. t \in Tabs /\ data \in Payloads
      BY ScenarioTypes
    <3>2. call \in Call /\ \A q \in Requests \cup {Nothing} : [call EXCEPT !.req = q] \in Call
      BY DEF Call
    <3>3. Post(t, FormKey(t), data, call) /\ UNCHANGED <<session, page, draft, tickets, fate>>
      BY <2>3 DEF SubmitForm
    <3>4. tab' \in [Tabs -> Call] /\ req' \in [Requests -> Request \cup {Nothing}]
      BY <3>1, <3>2, <3>3, KeyTypes, PostTypes
    <3>5. QED
      BY <3>3, <3>4 DEF TypeOK
  <2>4. ASSUME NEW t \in scenario.tabs, NEW data \in scenario.payloads, SaveDraft(t, data)
        PROVE  TypeOK'
    <3>1. t \in Tabs /\ data \in Payloads
      BY ScenarioTypes
    <3>2. [owner |-> page[t].user, data |-> data, leased |-> FALSE] \in Draft
      BY <3>1 DEF TypeOK, Draft
    <3>3. QED
      BY <2>4, <3>1, <3>2 DEF SaveDraft, TypeOK
  <2>5. ASSUME NEW t \in scenario.tabs, NEW d \in scenario.tabs, DeleteDraft(t, d)
        PROVE  TypeOK'
    BY <2>5, ScenarioTypes DEF DeleteDraft, TypeOK
  <2>6. ASSUME NEW t \in scenario.tabs, NEW d \in scenario.tabs, CheckIdentity(t, d)
        PROVE  TypeOK'
    <3>1. t \in Tabs /\ [pc |-> "checked", of |-> d] \in Call
      BY ScenarioTypes DEF Call
    <3>2. QED
      BY <2>6, <3>1 DEF CheckIdentity, TypeOK
  <2>7. ASSUME NEW t \in scenario.tabs, ClaimDraft(t) PROVE TypeOK'
    <3>1. t \in Tabs /\ tab[t].of \in Tabs
      BY <2>7, ScenarioTypes, CallType DEF ClaimDraft
    <3>2. PICK d \in Tabs : d = tab[t].of
      BY <3>1
    <3>3. CASE ownsDraft(d, page[t].user) /\ ~draft[d].leased
      <4>1. draft[d] \in Draft
        BY <3>3, DraftType DEF ownsDraft
      <4>2. [draft[d] EXCEPT !.leased = TRUE] \in Draft
        BY <4>1 DEF Draft
      <4>3. [pc |-> "claimed", of |-> d, copy |-> draft[d]] \in Call
        BY <4>1 DEF Call
      <4>4. draft' = [draft EXCEPT ![d] = [draft[d] EXCEPT !.leased = TRUE]]
        BY <2>7, <3>2, <3>3 DEF ClaimDraft, Lease, TypeOK
      <4>5. QED
        BY <2>7, <3>1, <3>2, <3>3, <4>2, <4>3, <4>4 DEF ClaimDraft, TypeOK
    <3>4. CASE ~(ownsDraft(d, page[t].user) /\ ~draft[d].leased)
      BY <2>7, <3>1, <3>2, <3>4, IdleCall DEF ClaimDraft, TypeOK
    <3>5. QED
      BY <3>3, <3>4
  <2>8. ASSUME NEW t \in scenario.tabs, PostDraft(t) PROVE TypeOK'
    <3> DEFINE call == [pc |-> "posted", of |-> tab[t].of, copy |-> tab[t].copy,
                        req |-> Nothing]
    <3>1. t \in Tabs /\ tab[t].of \in Tabs /\ tab[t].copy \in Draft
      BY <2>8, ScenarioTypes, CallType DEF PostDraft
    <3>2. call \in Call /\ \A q \in Requests \cup {Nothing} : [call EXCEPT !.req = q] \in Call
      BY <3>1 DEF Call
    <3>3. /\ Post(t, DraftKey(tab[t].of), tab[t].copy.data, call)
          /\ UNCHANGED <<session, page, draft, tickets, fate>>
      BY <2>8 DEF PostDraft
    <3>4. tab[t].copy.data \in Payloads
      BY <3>1 DEF Draft
    <3> HIDE DEF call
    <3>5. tab' \in [Tabs -> Call] /\ req' \in [Requests -> Request \cup {Nothing}]
      BY <3>1, <3>2, <3>3, <3>4, KeyTypes, PostTypes
    <3>6. QED
      BY <3>3, <3>5 DEF TypeOK
  <2>9. ASSUME NEW t \in scenario.tabs, TakeConfirmation(t) PROVE TypeOK'
    <3>1. t \in Tabs
      BY ScenarioTypes
    <3>2. tab' \in [Tabs -> Call] /\ req' \in [Requests -> Request \cup {Nothing}]
      BY <2>9, <3>1, IdleCall DEF TakeConfirmation, TypeOK
    <3>3. page' \in [Tabs -> [user : People, open : BOOLEAN]]
      <4>1. page' = [page EXCEPT ![t].open = FALSE] \/ UNCHANGED page
        BY <2>9 DEF TakeConfirmation
      <4>2. page[t] \in [user : People, open : BOOLEAN]
        BY <3>1 DEF TypeOK
      <4>3. [page[t] EXCEPT !.open = FALSE] \in [user : People, open : BOOLEAN]
        BY <4>2
      <4>4. QED
        BY <3>1, <4>1, <4>3 DEF TypeOK
    <3>4. draft' \in [Tabs -> Draft \cup {Nothing}]
      BY <2>9, <3>1 DEF TakeConfirmation, TypeOK
    <3>5. QED
      BY <2>9, <3>2, <3>3, <3>4 DEF TakeConfirmation, TypeOK
  <2>10. ASSUME NEW t \in scenario.tabs, GiveUp(t) PROVE TypeOK'
    <3>1. t \in Tabs
      BY ScenarioTypes
    <3>2. tab' \in [Tabs -> Call] /\ req' \in [Requests -> Request \cup {Nothing}]
      BY <2>10, <3>1, IdleCall DEF GiveUp, TypeOK
    <3>3. draft' \in [Tabs -> Draft \cup {Nothing}]
      <4>1. CASE tab[t].pc = "posted"
        <5>1. tab[t].copy \in Draft
          BY <3>1, <4>1, CallType
        <5>2. [tab[t].copy EXCEPT !.leased = FALSE] \in Draft
          BY <5>1 DEF Draft
        <5>3. QED
          BY <2>10, <4>1, <5>2 DEF GiveUp, TypeOK
      <4>2. CASE tab[t].pc # "posted"
        BY <2>10, <4>2 DEF GiveUp, TypeOK
      <4>3. QED
        BY <4>1, <4>2
    <3>4. QED
      BY <2>10, <3>2, <3>3 DEF GiveUp, TypeOK
  <2>11. ASSUME NEW t \in scenario.tabs, Abandon(t) PROVE TypeOK'
    BY <2>11, ScenarioTypes, IdleCall DEF Abandon, TypeOK
  <2>12. ASSUME NEW d \in scenario.tabs, LeaseEnds(d) PROVE TypeOK'
    <3>1. d \in Tabs /\ draft[d] \in Draft
      BY <2>12, ScenarioTypes, DraftType DEF LeaseEnds
    <3>2. [draft[d] EXCEPT !.leased = FALSE] \in Draft
      BY <3>1 DEF Draft
    <3>3. draft' = [draft EXCEPT ![d] = [draft[d] EXCEPT !.leased = FALSE]]
      BY <2>12, <3>1 DEF LeaseEnds, TypeOK
    <3>4. QED
      BY <2>12, <3>1, <3>2, <3>3 DEF LeaseEnds, TypeOK
  <2>13. ASSUME NEW r \in Requests, ReserveKey(r) PROVE TypeOK'
    <3>1. req[r] \in [pc : {"sent", "reserved"}, by : People, key : Keys, data : Payloads]
      BY <2>13 DEF ReserveKey, TypeOK, Request
    <3>2. [req[r] EXCEPT !.pc = "reserved"] \in Request
      BY <3>1 DEF Request
    <3>3. req' = [req EXCEPT ![r] = [req[r] EXCEPT !.pc = "reserved"]]
      BY <2>13 DEF ReserveKey, TypeOK
    <3>4. QED
      BY <2>13, <3>2, <3>3 DEF ReserveKey, TypeOK
  <2>14. ASSUME NEW r \in Requests, AnswerAgain(r) PROVE TypeOK'
    <3>1. PICK n \in Stored(r) : AnswerWith(r, IF SamePayload(r, n) THEN n ELSE 0)
      BY <2>14 DEF AnswerAgain
    <3>2. (IF SamePayload(r, n) THEN n ELSE 0) \in Nat
      BY DEF Stored, TypeOK
    <3>3. req' \in [Requests -> Request \cup {Nothing}]
      BY <2>14, <3>1, <3>2, AnswerTypes DEF AnswerAgain
    <3>4. QED
      BY <2>14, <3>3 DEF AnswerAgain, TypeOK
  <2>15. ASSUME NEW r \in Requests, CommitTicket(r) PROVE TypeOK'
    <3>1. Len(tickets) + 1 \in Nat
      BY DEF TypeOK
    <3>2. [by |-> req[r].by, key |-> req[r].key, data |-> req[r].data] \in Ticket
      BY <2>15, RequestType DEF CommitTicket, Ticket
    <3>3. tickets' \in Seq(Ticket)
      BY <2>15, <3>2 DEF CommitTicket, TypeOK
    <3>4. req' \in [Requests -> Request \cup {Nothing}]
      BY <2>15, <3>1, AnswerTypes DEF CommitTicket
    <3>5. QED
      BY <2>15, <3>3, <3>4 DEF CommitTicket, TypeOK
  <2>16. ASSUME NEW r \in Requests, LoseRequest(r) PROVE TypeOK'
    <3>1. ASSUME NEW t \in Tabs
          PROVE  (IF Awaits(t) /\ tab[t].req = r THEN [tab[t] EXCEPT !.req = Nothing]
                  ELSE tab[t]) \in Call
      <4>1. tab[t] \in Call
        BY DEF TypeOK
      <4>2. CASE Awaits(t)
        <5>1. [tab[t] EXCEPT !.req = Nothing] \in Call
          BY <4>1, <4>2 DEF Call, Awaits, Idle
        <5>2. QED
          BY <4>1, <5>1
      <4>3. QED
        BY <4>1, <4>2
    <3>2. tab' \in [Tabs -> Call]
      BY <2>16, <3>1 DEF LoseRequest
    <3>3. QED
      BY <2>16, <3>2 DEF LoseRequest, TypeOK
  <2>17. QED
    BY <2>1, <2>2, <2>3, <2>4, <2>5, <2>6, <2>7, <2>8, <2>9, <2>10, <2>11, <2>12, <2>13,
       <2>14, <2>15, <2>16 DEF Step
<1>3. QED
  BY <1>1, <1>2

(***************************************************************************)
(* The server: keys, tickets and answers.                                  *)
(***************************************************************************)
Keyed == OneTicketPerKey /\ KeysReservedOnce /\ \A r \in Requests : AnswerNames(r)

\* Requests arrive and go; the rest of them stay as they are.
Traffic ==
    /\ UNCHANGED tickets
    /\ \A r \in Requests : \/ req'[r] = req[r]
                           \/ req'[r] = Nothing
                           \/ req'[r] # Nothing /\ req'[r].pc = "sent"

LEMMA TrafficKeeps ==
    ASSUME Keyed, Traffic
    PROVE  Keyed'
<1>1. OneTicketPerKey'
  BY DEF Keyed, OneTicketPerKey, Traffic
<1>2. \A r \in Requests : Reserved(r)' => Reserved(r) /\ req'[r] = req[r]
  BY DEF Traffic, Reserved
<1>3. \A r \in Requests : req'[r] = req[r] => Stored(r)' = Stored(r)
  BY DEF Stored, Traffic
<1>4. KeysReservedOnce'
  BY <1>2, <1>3 DEF Keyed, KeysReservedOnce
<1>5. \A r \in Requests : AnswerNames(r)'
  BY DEF Keyed, AnswerNames, Traffic
<1>6. QED
  BY <1>1, <1>4, <1>5 DEF Keyed

LEMMA ReserveKeyKeeps ==
    ASSUME TypeOK, Keyed, NEW r \in Requests, ReserveKey(r)
    PROVE  Keyed'
<1>1. /\ req[r] # Nothing /\ req[r].pc = "sent" /\ Stored(r) = {} /\ UNCHANGED tickets
      /\ \A s \in Requests : Reserved(s) => ~SameKey(req[s], req[r])
      /\ req[r] \in Request
  BY RequestType DEF ReserveKey, KeyHeld, Reserved
<1>2. /\ req'[r].by = req[r].by /\ req'[r].key = req[r].key /\ req'[r].pc = "reserved"
      /\ \A s \in Requests : s # r => req'[s] = req[s]
  BY <1>1 DEF ReserveKey, TypeOK, Request
<1>3. OneTicketPerKey'
  BY <1>1 DEF Keyed, OneTicketPerKey
<1>4. \A s \in Requests : Stored(s)' = Stored(s)
  BY <1>1, <1>2 DEF Stored, SameKey
<1>5. \A s \in Requests : s # r => (Reserved(s)' <=> Reserved(s))
  BY <1>2 DEF Reserved
<1>6. \A s, u \in Requests : SameKey(req[s], req[u])' <=> SameKey(req[s], req[u])
  BY <1>2 DEF SameKey
<1>7. KeysReservedOnce'
  <2>1. \A s, u \in Requests : Reserved(s)' /\ Reserved(u)' /\ SameKey(req[s], req[u])' => s = u
    <3>1. \A s \in Requests : SameKey(req[s], req[r]) <=> SameKey(req[r], req[s])
      BY DEF SameKey
    <3>2. QED
      BY <1>1, <1>5, <1>6, <3>1 DEF Keyed, KeysReservedOnce
  <2>2. \A s \in Requests : Reserved(s)' => Stored(s)' = {}
    BY <1>1, <1>4, <1>5 DEF Keyed, KeysReservedOnce
  <2>3. QED
    BY <2>1, <2>2 DEF KeysReservedOnce
<1>8. \A s \in Requests : AnswerNames(s)'
  BY <1>1, <1>2 DEF Keyed, AnswerNames
<1>9. QED
  BY <1>3, <1>7, <1>8 DEF Keyed

\* What an answer leaves of the request it is for.
LEMMA Answer ==
    ASSUME TypeOK, NEW r \in Requests, req[r] # Nothing, NEW n, AnswerWith(r, n)
    PROVE  /\ req'[r].pc = "answered" /\ req'[r].answer = n
           /\ req'[r].by = req[r].by /\ req'[r].key = req[r].key /\ req'[r].data = req[r].data
           /\ \A s \in Requests : s # r => req'[s] = req[s]
BY DEF AnswerWith, TypeOK

LEMMA AnswerAgainKeeps ==
    ASSUME TypeOK, Keyed, NEW r \in Requests, AnswerAgain(r)
    PROVE  Keyed'
<1>1. req[r] # Nothing /\ req[r].pc = "sent" /\ UNCHANGED tickets
  BY DEF AnswerAgain
<1>2. PICK n \in Stored(r) : AnswerWith(r, IF SamePayload(r, n) THEN n ELSE 0)
  BY DEF AnswerAgain
<1>3. PICK a : a = IF SamePayload(r, n) THEN n ELSE 0
  OBVIOUS
<1>4. /\ req'[r].pc = "answered" /\ req'[r].answer = a
      /\ req'[r].by = req[r].by /\ req'[r].key = req[r].key /\ req'[r].data = req[r].data
      /\ \A s \in Requests : s # r => req'[s] = req[s]
  BY <1>1, <1>2, <1>3, Answer
<1>5. OneTicketPerKey'
  BY <1>1 DEF Keyed, OneTicketPerKey
<1>6. \A s \in Requests : Stored(s)' = Stored(s)
  BY <1>1, <1>4 DEF Stored, SameKey
<1>7. \A s \in Requests : Reserved(s)' => s # r /\ Reserved(s) /\ req'[s] = req[s]
  BY <1>4 DEF Reserved
<1>8. KeysReservedOnce'
  BY <1>6, <1>7 DEF Keyed, KeysReservedOnce
<1>9. AnswerNames(r)'
  <2>1. CASE a = 0
    BY <1>4, <2>1 DEF AnswerNames
  <2>2. CASE a # 0
    <3>1. a = n /\ tickets[n].data = req[r].data
      BY <1>3, <2>2 DEF SamePayload
    <3>2. n \in DOMAIN tickets /\ tickets[n].by = req[r].by /\ tickets[n].key = req[r].key
      BY DEF Stored, SameKey
    <3>3. tickets[n] \in Ticket
      BY <3>2 DEF TypeOK
    <3>4. tickets[n] = [by |-> req[r].by, key |-> req[r].key, data |-> req[r].data]
      BY <3>1, <3>2, <3>3 DEF Ticket
    <3>5. QED
      BY <1>1, <1>4, <3>1, <3>2, <3>4 DEF AnswerNames
  <2>3. QED
    BY <2>1, <2>2
<1>10. \A s \in Requests : AnswerNames(s)'
  BY <1>1, <1>4, <1>9 DEF Keyed, AnswerNames
<1>11. QED
  BY <1>5, <1>8, <1>10 DEF Keyed

LEMMA CommitTicketKeeps ==
    ASSUME TypeOK, Keyed, NEW r \in Requests, CommitTicket(r)
    PROVE  Keyed'
<1> DEFINE row == [by |-> req[r].by, key |-> req[r].key, data |-> req[r].data]
<1>1. PICK m : m = Len(tickets)
  OBVIOUS
<1>2. /\ req[r] # Nothing /\ Reserved(r) /\ Stored(r) = {}
      /\ tickets' = Append(tickets, row) /\ AnswerWith(r, m + 1)
  BY <1>1 DEF CommitTicket, Reserved, Keyed, KeysReservedOnce
<1>3. /\ m \in Nat /\ DOMAIN tickets = 1..m /\ DOMAIN tickets' = 1..(m + 1)
      /\ tickets'[m + 1] = row /\ \A n \in 1..m : tickets'[n] = tickets[n]
  BY <1>1, <1>2 DEF TypeOK
<1>4. /\ req'[r].pc = "answered" /\ req'[r].answer = m + 1
      /\ req'[r].by = req[r].by /\ req'[r].key = req[r].key /\ req'[r].data = req[r].data
      /\ \A s \in Requests : s # r => req'[s] = req[s]
  BY <1>2, Answer
<1>5. \A n \in 1..(m + 1) : n \in 1..m \/ n = m + 1
  BY <1>3
<1>6. \A n \in 1..m : ~SameKey(tickets[n], req[r])
  BY <1>2, <1>3 DEF Stored
<1>7. OneTicketPerKey'
  <2>1. \A n \in 1..m : ~SameKey(tickets'[n], tickets'[m + 1])
                     /\ ~SameKey(tickets'[m + 1], tickets'[n])
    BY <1>3, <1>6 DEF SameKey
  <2>2. \A n, k \in 1..m : SameKey(tickets'[n], tickets'[k]) => n = k
    BY <1>3 DEF Keyed, OneTicketPerKey
  <2>3. \A n, k \in 1..(m + 1) : SameKey(tickets'[n], tickets'[k]) => n = k
    BY <1>5, <2>1, <2>2
  <2>4. QED
    BY <1>3, <2>3 DEF OneTicketPerKey, SameKey
<1>8. \A s \in Requests : Reserved(s)' => s # r /\ Reserved(s) /\ req'[s] = req[s]
  BY <1>4 DEF Reserved
<1>9. KeysReservedOnce'
  <2>1. ASSUME NEW s \in Requests, Reserved(s)'
        PROVE  Stored(s)' = {}
    <3>1. s # r /\ Reserved(s) /\ req'[s] = req[s]
      BY <1>8, <2>1
    <3>2. ~SameKey(row, req[s])
      BY <1>2, <3>1 DEF Keyed, KeysReservedOnce, SameKey
    <3>3. \A n \in 1..m : ~SameKey(tickets[n], req[s])
      BY <1>3, <3>1 DEF Keyed, KeysReservedOnce, Stored
    <3>4. \A n \in 1..(m + 1) : ~SameKey(tickets'[n], req'[s])
      BY <1>3, <1>5, <3>1, <3>2, <3>3
    <3>5. QED
      BY <1>3, <3>4 DEF Stored, SameKey
  <2>2. QED
    BY <1>8, <2>1 DEF Keyed, KeysReservedOnce, SameKey
<1>10. ASSUME NEW s \in Requests PROVE AnswerNames(s)'
  <2>1. CASE s = r
    <3>1. m + 1 \in 1..(m + 1)
      BY <1>3
    <3>2. QED
      BY <1>3, <1>4, <2>1, <3>1 DEF AnswerNames
  <2>2. CASE s # r
    <3>1. AnswerNames(s) /\ req'[s] = req[s]
      BY <1>4, <2>2 DEF Keyed
    <3>2. \A n \in 1..m : n \in 1..(m + 1)
      BY <1>3
    <3>3. QED
      BY <1>3, <3>1, <3>2 DEF AnswerNames
  <2>3. QED
    BY <2>1, <2>2
<1>11. QED
  BY <1>7, <1>9, <1>10 DEF Keyed

LEMMA KeyedNext == TypeOK /\ Keyed /\ [Next]_vars => Keyed'
<1> SUFFICES ASSUME TypeOK, Keyed, [Next]_vars PROVE Keyed'
  OBVIOUS
<1>1. ASSUME NEW t, NEW key, NEW data, NEW call, Post(t, key, data, call)
      PROVE  \A r \in Requests : \/ req'[r] = req[r] \/ req'[r] = Nothing
                                 \/ req'[r] # Nothing /\ req'[r].pc = "sent"
  <2>1. CASE UNCHANGED req
    BY <2>1
  <2>2. ASSUME NEW r \in Requests,
               req' = [req EXCEPT ![r] = [pc |-> "sent", by |-> session, key |-> key,
                                          data |-> data]]
        PROVE  \A s \in Requests : req'[s] = req[s] \/ req'[s].pc = "sent"
    BY <2>2 DEF TypeOK
  <2>3. QED
    BY <1>1, <2>1, <2>2 DEF Post
<1>2. CASE Traffic
  BY <1>2, TrafficKeeps
<1>3. ASSUME NEW t \in scenario.tabs, NEW data \in scenario.payloads, SubmitForm(t, data)
      PROVE  Traffic
  BY <1>1, <1>3 DEF SubmitForm, Traffic
<1>4. ASSUME NEW t \in scenario.tabs, PostDraft(t) PROVE Traffic
  BY <1>1, <1>4 DEF PostDraft, Traffic
<1>5. ASSUME NEW t \in scenario.tabs, TakeConfirmation(t) \/ GiveUp(t) PROVE Traffic
  BY <1>5 DEF TakeConfirmation, GiveUp, Traffic, TypeOK
<1>6. ASSUME NEW r \in Requests, LoseRequest(r) PROVE Traffic
  BY <1>6 DEF LoseRequest, Traffic, TypeOK
<1>7. CASE UNCHANGED <<req, tickets>>
  BY <1>2, <1>7 DEF Traffic
<1>8. QED
  BY <1>2, <1>3, <1>4, <1>5, <1>6, <1>7, ReserveKeyKeeps, AnswerAgainKeeps, CommitTicketKeeps
  DEF Next, Step, vars, SwitchUser, Reload, SaveDraft, DeleteDraft, CheckIdentity, ClaimDraft,
      Abandon, LeaseEnds

(***************************************************************************)
(* The tabs: whoever waits for a request waits alone.                      *)
(***************************************************************************)
Owned == \A t \in Tabs : WaitsForItsOwn(t)

\* A step that leaves what tabs wait for alone, or ends some of it.
LEMMA WaitingEnds ==
    ASSUME Owned,
           \A t \in Tabs : Waiting(t)' =>
             /\ Waiting(t)
             /\ tab'[t].req = tab[t].req
             /\ SentKey(t)' = SentKey(t)
             /\ req'[tab[t].req] # Nothing
             /\ req'[tab[t].req].key = req[tab[t].req].key
    PROVE  Owned'
BY DEF Owned, WaitsForItsOwn

\* A tab that is not waiting for a request after the step, while requests and the
\* other tabs stay as they are.
LEMMA OneTabMoves ==
    ASSUME Owned, NEW t \in Tabs, ~Waiting(t)',
           \A u \in Tabs : u # t => tab'[u] = tab[u],
           \A u \in Tabs : u # t /\ Waiting(u) =>
             /\ req'[tab[u].req] # Nothing
             /\ req'[tab[u].req].key = req[tab[u].req].key
    PROVE  Owned'
BY WaitingEnds DEF Waiting, Awaits, SentKey

LEMMA IdleWaitsNot == \A t \in Tabs : tab'[t] = Idle => ~Waiting(t)'
BY DEF Idle, Waiting, Awaits

\* A post: the tab is the only one that waits for the request, which is new.
LEMMA PostOwned ==
    ASSUME TypeOK, Owned, NEW t \in Tabs, NEW key \in Keys, NEW data \in Payloads, NEW call,
           Post(t, key, data, call),
           call \in Call, call.pc \in {"form", "posted"}, call.req = Nothing,
           key = IF call.pc = "form" THEN FormKey(t) ELSE DraftKey(call.of)
    PROVE  Owned'
<1>1. CASE tab' = [tab EXCEPT ![t] = call] /\ UNCHANGED req
  <2>1. tab'[t] = call /\ \A u \in Tabs : u # t => tab'[u] = tab[u]
    BY <1>1 DEF TypeOK
  <2>2. ~Waiting(t)'
    BY <2>1 DEF Waiting
  <2>3. \A u \in Tabs : Waiting(u) => req[tab[u].req] # Nothing
    BY DEF Owned, WaitsForItsOwn
  <2>4. QED
    BY <1>1, <2>1, <2>2, <2>3, OneTabMoves
<1>2. ASSUME NEW r \in Requests, session # NoOne, req[r] = Nothing,
             req' = [req EXCEPT ![r] = [pc |-> "sent", by |-> session, key |-> key,
                                        data |-> data]],
             tab' = [tab EXCEPT ![t] = [call EXCEPT !.req = r]]
      PROVE  Owned'
  <2> DEFINE new == [call EXCEPT !.req = r]
             sent == [pc |-> "sent", by |-> session, key |-> key, data |-> data]
  <2>1. new.req = r /\ new.pc = call.pc /\ (call.pc = "posted" => new.of = call.of)
    BY DEF Call, Idle
  <2>2. tab'[t] = new /\ \A u \in Tabs : u # t => tab'[u] = tab[u]
    BY <1>2 DEF TypeOK
  <2>3. req'[r] = sent /\ \A s \in Requests : s # r => req'[s] = req[s]
    BY <1>2 DEF TypeOK
  <2>4. sent.key = key /\ req'[r] # Nothing
    <3>1. sent \in Request
      BY <1>2 DEF TypeOK, Request
    <3>2. QED
      BY <2>3, <3>1, NothingAssumption
  <2> HIDE DEF new, sent
  <2>5. \A u \in Tabs : Waiting(u) => req[tab[u].req] # Nothing /\ tab[u].req # r
                                   /\ tab[u].req \in Requests
    BY <1>2, CallType DEF Owned, WaitsForItsOwn, Waiting
  <2>6. \A u \in Tabs : u # t => (Waiting(u)' <=> Waiting(u)) /\ SentKey(u)' = SentKey(u)
    BY <2>2 DEF Waiting, Awaits, SentKey
  <2>7. ASSUME NEW u \in Tabs, Waiting(u)'
        PROVE  /\ req'[tab'[u].req] # Nothing
               /\ req'[tab'[u].req].key = SentKey(u)'
               /\ \A w \in Tabs : Waiting(w)' /\ tab'[w].req = tab'[u].req => w = u
    <3>1. CASE u = t
      <4>1. tab'[u].req = r /\ SentKey(u)' = key
        BY <2>1, <2>2, <3>1 DEF SentKey
      <4>2. \A w \in Tabs : Waiting(w)' /\ w # t => tab'[w].req # r
        BY <2>2, <2>5, <2>6
      <4>3. QED
        BY <2>3, <2>4, <3>1, <4>1, <4>2
    <3>2. CASE u # t
      <4>1. Waiting(u) /\ tab'[u] = tab[u] /\ tab[u].req # r /\ tab[u].req \in Requests
        BY <2>2, <2>5, <2>6, <2>7, <3>2
      <4>2. req'[tab[u].req] = req[tab[u].req]
        BY <2>3, <4>1
      <4>3. /\ req[tab[u].req] # Nothing /\ req[tab[u].req].key = SentKey(u)
            /\ \A w \in Tabs : Waiting(w) /\ tab[w].req = tab[u].req => w = u
        BY <4>1 DEF Owned, WaitsForItsOwn
      <4>4. tab'[t].req = r
        BY <2>1, <2>2
      <4>5. \A w \in Tabs : Waiting(w)' /\ tab'[w].req = tab'[u].req => w = u
        BY <2>2, <2>6, <4>1, <4>3, <4>4
      <4>6. QED
        BY <2>6, <3>2, <4>1, <4>2, <4>3, <4>5
    <3>3. QED
      BY <3>1, <3>2
  <2>8. QED
    BY <2>7 DEF Owned, WaitsForItsOwn
<1>3. QED
  BY <1>1, <1>2 DEF Post

LEMMA OwnedNext == TypeOK /\ Owned /\ [Next]_vars => Owned'
<1> SUFFICES ASSUME TypeOK, Owned, [Next]_vars PROVE Owned'
  OBVIOUS
<1>1. \A t \in Tabs : Waiting(t) =>
         /\ tab[t].req \in Requests /\ req[tab[t].req] # Nothing
         /\ \A u \in Tabs : Waiting(u) /\ tab[u].req = tab[t].req => u = t
  BY CallType DEF Owned, WaitsForItsOwn, Waiting
<1>2. CASE UNCHANGED <<tab, req>>
  BY <1>2 DEF Owned, WaitsForItsOwn, Waiting, Awaits, SentKey
<1>3. ASSUME NEW t \in scenario.tabs, NEW data \in scenario.payloads, SubmitForm(t, data)
      PROVE  Owned'
  <2>1. t \in Tabs /\ data \in Payloads
    BY ScenarioTypes
  <2>2. PICK call : call = [pc |-> "form", req |-> Nothing]
    OBVIOUS
  <2>3. call \in Call /\ call.pc = "form" /\ call.req = Nothing
    BY <2>2 DEF Call
  <2>4. Post(t, FormKey(t), data, call)
    BY <1>3, <2>2 DEF SubmitForm
  <2>5. QED
    BY <2>1, <2>3, <2>4, KeyTypes, PostOwned
<1>4. ASSUME NEW t \in scenario.tabs, PostDraft(t) PROVE Owned'
  <2>1. t \in Tabs /\ tab[t].of \in Tabs /\ tab[t].copy \in Draft
    BY <1>4, ScenarioTypes, CallType DEF PostDraft
  <2>2. PICK call : call = [pc |-> "posted", of |-> tab[t].of, copy |-> tab[t].copy,
                            req |-> Nothing]
    OBVIOUS
  <2>3. /\ call \in Call /\ call.pc = "posted" /\ call.req = Nothing
        /\ DraftKey(tab[t].of) = DraftKey(call.of)
    BY <2>1, <2>2 DEF Call
  <2>4. Post(t, DraftKey(tab[t].of), tab[t].copy.data, call)
    BY <1>4, <2>2 DEF PostDraft
  <2>5. DraftKey(tab[t].of) \in Keys /\ tab[t].copy.data \in Payloads
    BY <2>1, KeyTypes DEF Draft
  <2>6. QED
    BY <2>1, <2>3, <2>4, <2>5, PostOwned
<1>5. ASSUME NEW t \in scenario.tabs, tab' = [tab EXCEPT ![t] = Idle],
             \/ UNCHANGED req
             \/ Waiting(t) /\ req' = [req EXCEPT ![tab[t].req] = Nothing]
      PROVE  Owned'
  <2>1. t \in Tabs
    BY ScenarioTypes
  <2>2. tab'[t] = Idle /\ \A u \in Tabs : u # t => tab'[u] = tab[u]
    BY <1>5, <2>1 DEF TypeOK
  <2>3. ~Waiting(t)'
    BY <2>1, <2>2, IdleWaitsNot
  <2>4. ASSUME NEW u \in Tabs, u # t, Waiting(u)
        PROVE  req'[tab[u].req] = req[tab[u].req]
    <3>1. tab[u].req \in Requests /\ (Waiting(t) => tab[u].req # tab[t].req)
      BY <1>1, <2>1, <2>4
    <3>2. QED
      BY <1>5, <3>1 DEF TypeOK
  <2>5. QED
    BY <1>1, <2>1, <2>2, <2>3, <2>4, OneTabMoves
<1>6. ASSUME NEW t \in scenario.tabs, NEW d \in scenario.tabs, CheckIdentity(t, d)
      PROVE  Owned'
  <2>1. t \in Tabs
    BY ScenarioTypes
  <2>2. tab'[t].pc = "checked" /\ (\A u \in Tabs : u # t => tab'[u] = tab[u]) /\ UNCHANGED req
    BY <1>6, <2>1 DEF CheckIdentity, TypeOK
  <2>3. ~Waiting(t)'
    BY <2>2 DEF Waiting, Awaits
  <2>4. QED
    BY <1>1, <2>1, <2>2, <2>3, OneTabMoves
<1>7. ASSUME NEW t \in scenario.tabs, ClaimDraft(t) PROVE Owned'
  <2>1. t \in Tabs
    BY ScenarioTypes
  <2>2. CASE tab' = [tab EXCEPT ![t] = Idle]
    BY <1>5, <1>7, <2>2 DEF ClaimDraft
  <2>3. CASE tab' = [tab EXCEPT ![t] = [pc |-> "claimed", of |-> tab[t].of,
                                        copy |-> draft[tab[t].of]]]
    <3>1. /\ tab'[t].pc = "claimed" /\ (\A u \in Tabs : u # t => tab'[u] = tab[u])
          /\ UNCHANGED req
      BY <1>7, <2>1, <2>3 DEF ClaimDraft, TypeOK
    <3>2. ~Waiting(t)'
      BY <3>1 DEF Waiting, Awaits
    <3>3. QED
      BY <1>1, <2>1, <3>1, <3>2, OneTabMoves
  <2>4. QED
    BY <1>7, <2>2, <2>3 DEF ClaimDraft
<1>8. ASSUME NEW t \in scenario.tabs, TakeConfirmation(t) PROVE Owned'
  <2>1. Waiting(t)
    BY <1>8 DEF TakeConfirmation, Confirmed, Answered, Waiting
  <2>2. QED
    BY <1>5, <1>8, <2>1 DEF TakeConfirmation
<1>9. ASSUME NEW t \in scenario.tabs, GiveUp(t) PROVE Owned'
  <2>1. UNCHANGED req \/ (Waiting(t) /\ req' = [req EXCEPT ![tab[t].req] = Nothing])
    BY <1>9 DEF GiveUp, Answered, Waiting
  <2>2. QED
    BY <1>5, <1>9, <2>1 DEF GiveUp
<1>10. ASSUME NEW t \in scenario.tabs, Abandon(t) PROVE Owned'
  BY <1>5, <1>10 DEF Abandon
<1>11. ASSUME NEW r \in Requests, LoseRequest(r) PROVE Owned'
  <2>1. /\ \A q \in Requests : q # r => req'[q] = req[q]
        /\ \A t \in Tabs : tab'[t] = IF Awaits(t) /\ tab[t].req = r
                                     THEN [tab[t] EXCEPT !.req = Nothing] ELSE tab[t]
    BY <1>11 DEF LoseRequest, TypeOK
  <2>2. ASSUME NEW t \in Tabs, Waiting(t)'
        PROVE  /\ Waiting(t) /\ tab'[t] = tab[t] /\ tab[t].req # r
    <3>1. CASE Awaits(t) /\ tab[t].req = r
      <4>1. tab[t] \in Call /\ tab[t] # Idle
        BY <3>1 DEF TypeOK, Awaits, Idle
      <4>2. tab'[t].req = Nothing
        BY <2>1, <3>1, <4>1 DEF Call, Awaits
      <4>3. QED
        BY <2>2, <4>2 DEF Waiting
    <3>2. CASE ~(Awaits(t) /\ tab[t].req = r)
      BY <2>1, <2>2, <3>2 DEF Waiting, Awaits
    <3>3. QED
      BY <3>1, <3>2
  <2>3. \A t \in Tabs : tab'[t] = tab[t] => SentKey(t)' = SentKey(t)
    BY DEF SentKey
  <2>4. QED
    BY <1>1, <2>1, <2>2, <2>3, WaitingEnds
<1>12. ASSUME UNCHANGED tab,
              \A r \in Requests : req[r] # Nothing =>
                /\ req'[r] # Nothing /\ req'[r].key = req[r].key
       PROVE  Owned'
  <2>1. \A t \in Tabs : (Waiting(t)' <=> Waiting(t)) /\ SentKey(t)' = SentKey(t)
    BY <1>12 DEF Waiting, Awaits, SentKey
  <2>2. QED
    BY <1>1, <1>12, <2>1, WaitingEnds
<1>13. ASSUME NEW r \in Requests, ReserveKey(r) PROVE Owned'
  <2>1. req[r] \in Request /\ req[r].pc = "sent" /\ UNCHANGED tab
    BY <1>13, RequestType DEF ReserveKey
  <2>2. /\ req'[r] = [req[r] EXCEPT !.pc = "reserved"]
        /\ \A q \in Requests : q # r => req'[q] = req[q]
    BY <1>13 DEF ReserveKey, TypeOK
  <2>3. req'[r] \in Request /\ req'[r].key = req[r].key
    BY <2>1, <2>2 DEF Request
  <2>4. req'[r] # Nothing
    BY <2>3, NothingAssumption
  <2>5. QED
    BY <1>12, <2>1, <2>2, <2>3, <2>4
<1>14. ASSUME NEW r \in Requests, NEW n \in Nat, req[r] # Nothing, AnswerWith(r, n),
              UNCHANGED tab
       PROVE  Owned'
  <2>1. req' \in [Requests -> Request \cup {Nothing}]
    BY <1>14, AnswerTypes
  <2>2. [pc |-> "answered", by |-> req[r].by, key |-> req[r].key, data |-> req[r].data,
         answer |-> n] \in Request
    BY <1>14, RequestType DEF Request
  <2>3. req'[r] # Nothing
    BY <1>14, <2>2, NothingAssumption DEF AnswerWith, TypeOK
  <2>4. req'[r].key = req[r].key /\ \A q \in Requests : q # r => req'[q] = req[q]
    BY <1>14, Answer
  <2>5. QED
    BY <1>12, <1>14, <2>3, <2>4
<1>15. ASSUME NEW r \in Requests, AnswerAgain(r) PROVE Owned'
  <2>1. PICK n \in Stored(r) : AnswerWith(r, IF SamePayload(r, n) THEN n ELSE 0)
    BY <1>15 DEF AnswerAgain
  <2>2. PICK a : a = IF SamePayload(r, n) THEN n ELSE 0
    OBVIOUS
  <2>3. a \in Nat
    BY <2>2 DEF Stored, TypeOK
  <2>4. QED
    BY <1>14, <1>15, <2>1, <2>2, <2>3 DEF AnswerAgain
<1>16. ASSUME NEW r \in Requests, CommitTicket(r) PROVE Owned'
  <2>1. PICK a : a = Len(tickets) + 1
    OBVIOUS
  <2>2. a \in Nat
    BY <2>1 DEF TypeOK
  <2>3. QED
    BY <1>14, <1>16, <2>1, <2>2 DEF CommitTicket
<1>17. QED
  BY <1>2, <1>3, <1>4, <1>6, <1>7, <1>8, <1>9, <1>10, <1>11, <1>13, <1>15, <1>16
  DEF Next, Step, vars, SwitchUser, Reload, SaveDraft, DeleteDraft, LeaseEnds

(***************************************************************************)
(* The drafts.                                                             *)
(***************************************************************************)
\* A draft that is missing after the step was missing before, or is a ticket.
LEMMA DraftsKept ==
    ASSUME TypeOK, NoDraftLost, UNCHANGED tickets,
           \A d \in Tabs : fate'[d] = "saved" /\ draft'[d] = Nothing =>
             \/ fate[d] = "saved" /\ draft[d] = Nothing
             \/ \E n \in DOMAIN tickets : tickets[n].key = DraftKey(d)
    PROVE  NoDraftLost'
BY DEF NoDraftLost

\* One draft is written; the written one is not missing.
LEMMA DraftWritten ==
    ASSUME TypeOK, NoDraftLost, UNCHANGED tickets, NEW d \in Tabs, NEW value \in Draft,
           draft' = [draft EXCEPT ![d] = value],
           \A e \in Tabs : e # d => fate'[e] = fate[e]
    PROVE  NoDraftLost'
<1>1. draft'[d] # Nothing /\ \A e \in Tabs : e # d => draft'[e] = draft[e]
  BY NothingAssumption DEF TypeOK
<1>2. QED
  BY <1>1, DraftsKept

LEMMA DraftsNext ==
    ASSUME Inv, [Next]_vars
    PROVE  NoDraftLost'
<1> USE DEF Inv
<1>1. CASE UNCHANGED <<draft, fate, tickets>>
  BY <1>1 DEF NoDraftLost
<1>2. ASSUME NEW t \in scenario.tabs, NEW data \in scenario.payloads, SaveDraft(t, data)
      PROVE  NoDraftLost'
  <2>1. t \in Tabs /\ data \in Payloads
    BY ScenarioTypes
  <2>2. [owner |-> page[t].user, data |-> data, leased |-> FALSE] \in Draft
    BY <2>1 DEF TypeOK, Draft
  <2>3. UNCHANGED tickets /\ \A e \in Tabs : e # t => fate'[e] = fate[e]
    BY <1>2 DEF SaveDraft, TypeOK
  <2>4. QED
    BY <1>2, <2>1, <2>2, <2>3, DraftWritten DEF SaveDraft
<1>3. ASSUME NEW t \in scenario.tabs, NEW d \in scenario.tabs, DeleteDraft(t, d)
      PROVE  NoDraftLost'
  <2>1. d \in Tabs
    BY ScenarioTypes
  <2>2. /\ fate'[d] = "discarded" /\ UNCHANGED tickets
        /\ \A e \in Tabs : e # d => draft'[e] = draft[e] /\ fate'[e] = fate[e]
    BY <1>3, <2>1 DEF DeleteDraft, TypeOK
  <2>3. QED
    BY <2>2, DraftsKept
<1>4. ASSUME NEW t \in scenario.tabs, ClaimDraft(t) PROVE NoDraftLost'
  <2>1. tab[t].of \in Tabs
    BY <1>4, ScenarioTypes, CallType DEF ClaimDraft
  <2>2. PICK d \in Tabs : d = tab[t].of
    BY <2>1
  <2>3. CASE ownsDraft(d, page[t].user) /\ ~draft[d].leased
    <3>1. [draft[d] EXCEPT !.leased = TRUE] \in Draft
      BY <2>3, DraftType DEF ownsDraft, Draft
    <3>2. draft' = [draft EXCEPT ![d] = [draft[d] EXCEPT !.leased = TRUE]]
      BY <1>4, <2>2, <2>3 DEF ClaimDraft, Lease, TypeOK
    <3>3. UNCHANGED <<tickets, fate>>
      BY <1>4 DEF ClaimDraft
    <3>4. QED
      BY <3>1, <3>2, <3>3, DraftWritten
  <2>4. CASE ~(ownsDraft(d, page[t].user) /\ ~draft[d].leased)
    BY <1>1, <1>4, <2>2, <2>4 DEF ClaimDraft
  <2>5. QED
    BY <2>3, <2>4
<1>5. ASSUME NEW d \in scenario.tabs, LeaseEnds(d) PROVE NoDraftLost'
  <2>1. d \in Tabs /\ draft[d] \in Draft
    BY <1>5, ScenarioTypes, DraftType DEF LeaseEnds
  <2>2. [draft[d] EXCEPT !.leased = FALSE] \in Draft
    BY <2>1 DEF Draft
  <2>3. draft' = [draft EXCEPT ![d] = [draft[d] EXCEPT !.leased = FALSE]]
    BY <1>5, <2>1 DEF LeaseEnds, TypeOK
  <2>4. UNCHANGED <<tickets, fate>>
    BY <1>5 DEF LeaseEnds
  <2>5. QED
    BY <2>1, <2>2, <2>3, <2>4, DraftWritten
<1>6. ASSUME NEW t \in scenario.tabs, GiveUp(t) PROVE NoDraftLost'
  <2>1. UNCHANGED <<tickets, fate>> /\ t \in Tabs
    BY <1>6, ScenarioTypes DEF GiveUp
  <2>2. CASE tab[t].pc = "posted"
    <3>1. tab[t].of \in Tabs /\ tab[t].copy \in Draft
      BY <2>1, <2>2, CallType
    <3>2. [tab[t].copy EXCEPT !.leased = FALSE] \in Draft
      BY <3>1 DEF Draft
    <3>3. draft' = [draft EXCEPT ![tab[t].of] = [tab[t].copy EXCEPT !.leased = FALSE]]
      BY <1>6, <2>2 DEF GiveUp
    <3>4. QED
      BY <2>1, <3>1, <3>2, <3>3, DraftWritten
  <2>3. CASE tab[t].pc # "posted"
    BY <1>1, <1>6, <2>1, <2>3 DEF GiveUp
  <2>4. QED
    BY <2>2, <2>3
\* The draft that a confirmation deletes is the ticket of the answer.
<1>7. ASSUME NEW t \in scenario.tabs, TakeConfirmation(t) PROVE NoDraftLost'
  <2>1. UNCHANGED <<tickets, fate>> /\ t \in Tabs
    BY <1>7, ScenarioTypes DEF TakeConfirmation
  <2>2. CASE tab[t].pc = "form"
    BY <1>1, <1>7, <2>1, <2>2 DEF TakeConfirmation
  <2>3. CASE tab[t].pc # "form"
    <3>1. /\ Waiting(t) /\ tab[t].pc = "posted"
          /\ req[tab[t].req].pc = "answered" /\ req[tab[t].req].answer # 0
      BY <1>7, <2>3 DEF TakeConfirmation, Confirmed, Answered, Awaits, Waiting
    <3>2. PICK r \in Requests : r = tab[t].req
      BY <2>1, <3>1, CallType DEF Waiting
    <3>3. req[r] # Nothing /\ req[r].key = DraftKey(tab[t].of)
      BY <2>1, <3>1, <3>2 DEF WaitsForItsOwn, SentKey
    <3>4. /\ req[r].answer \in DOMAIN tickets
          /\ tickets[req[r].answer].key = DraftKey(tab[t].of)
      <4>1. AnswerNames(r)
        BY DEF Inv
      <4>2. req[r].pc = "answered" /\ req[r].answer # 0
        BY <3>1, <3>2
      <4>3. /\ req[r].answer \in DOMAIN tickets
            /\ tickets[req[r].answer].key = req[r].key
        BY <3>3, <4>1, <4>2 DEF AnswerNames
      <4>4. QED
        BY <3>3, <4>3
    <3>5. PICK d \in Tabs : d = tab[t].of
      BY <2>1, <3>1, CallType
    <3>6. \A e \in Tabs : e # d => draft'[e] = draft[e]
      BY <1>7, <2>3, <3>5 DEF TakeConfirmation, TypeOK
    <3>7. QED
      BY <2>1, <3>4, <3>5, <3>6, DraftsKept
  <2>4. QED
    BY <2>2, <2>3
<1>8. ASSUME NEW r \in Requests, CommitTicket(r) PROVE NoDraftLost'
  <2>1. UNCHANGED <<draft, fate>>
    BY <1>8 DEF CommitTicket
  <2>2. \A n \in DOMAIN tickets : n \in DOMAIN tickets' /\ tickets'[n] = tickets[n]
    BY <1>8 DEF CommitTicket, TypeOK
  <2>3. QED
    BY <2>1, <2>2 DEF NoDraftLost
<1>9. QED
  BY <1>1, <1>2, <1>3, <1>4, <1>5, <1>6, <1>7, <1>8
  DEF Next, Step, vars, SwitchUser, Reload, SubmitForm, CheckIdentity, PostDraft, Abandon,
      ReserveKey, AnswerAgain, LoseRequest

LEMMA InvNext == Inv /\ [Next]_vars => Inv'
BY TypeNext, KeyedNext, OwnedNext, DraftsNext DEF Inv, Keyed, Owned

LEMMA Invariant == Spec => []Inv
<1>1. QED
  BY InitInv, InvNext, PTL DEF Spec

(***************************************************************************)
(* The theorems                                                            *)
(***************************************************************************)
\* However many requests carry a key of a user, at once, late or twice, and
\* whatever was lost in between: it makes one ticket.
THEOREM KeysMakeOneTicket == Spec => []OneTicketPerKey
<1>1. Inv => OneTicketPerKey
  BY DEF Inv
<1>2. QED
  BY <1>1, Invariant, PTL

\* An answer with a ticket names the one made from what the request sent.
THEOREM AnswersAreRight == Spec => []AnswersMatch
<1>1. Inv => AnswersMatch
  BY DEF Inv, AnswerNames, AnswersMatch
<1>2. QED
  BY <1>1, Invariant, PTL

\* A draft leaves the store only by its user's hand or as a ticket, whatever
\* tabs claim, post, give up and retry at once.
THEOREM DraftsSurvive == Spec => []NoDraftLost
<1>1. Inv => NoDraftLost
  BY DEF Inv
<1>2. QED
  BY <1>1, Invariant, PTL
=============================================================================
