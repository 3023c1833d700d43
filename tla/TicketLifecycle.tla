-------------------------- MODULE TicketLifecycle --------------------------
(***************************************************************************)
(* The life of one ticket after its creation (application/ticket,          *)
(* domain/ticket, application/automation, infrastructure/postgres):        *)
(* users change its status from a screen that may be out of date, staff    *)
(* assign it, the worker flags it, and each event starts an evaluation of  *)
(* the automation rules, which changes the same row later.                 *)
(*                                                                         *)
(* A status change is decided outside the transaction that makes it: the   *)
(* service reads the ticket, checks role, expected version and transition, *)
(* and the repository compares the version it read under the row lock.     *)
(* The other writers compare nothing: their transactions begin, and later  *)
(* lock the row and change it as it is then.                               *)
(***************************************************************************)
EXTENDS Naturals, Sequences, FiniteSets

CONSTANTS
    Users,       \* who sends requests
    Staff,       \* the users with role agent or admin
    Creator,     \* who created the ticket
    System,      \* the user of the worker and of the automation
    NoOne,       \* no assignee
    Priorities, InitialPriority,
    Keep,        \* a field that a rule does not set
    Rules,       \* the tenant's active rules, in the order of the list
    Jobs,        \* bound: evaluations in flight at once
    MaxChanges,  \* bound: changes made by users
    MaxWork,     \* bound: those changes and the evaluations in flight, together
    Lag          \* bound: changes committed between a transaction's BEGIN and its write

Status == {"open", "in_progress", "waiting_client", "resolved", "closed"}
Active == {"open", "in_progress", "waiting_client"}

\* A rule: its trigger, its conditions on the new value of the event and on the
\* status of the snapshot, and the fields its actions set.
Rule == [trigger : {"status_changed", "sla_breach"}, newValue : SUBSET (Status \cup {"true"}),
         status : SUBSET Status, setStatus : Status \cup {Keep},
         setPriority : Priorities \cup {Keep}, assignTo : Users \cup {Keep}]

ASSUME ConstantsAssumption ==
    /\ Staff \subseteq Users
    /\ Creator \in Users
    /\ System \notin Users
    /\ NoOne \notin Users
    /\ InitialPriority \in Priorities
    /\ Keep \notin Status \cup Priorities \cup Users
    /\ Rules \in Seq(Rule)
    /\ MaxChanges \in Nat
    /\ MaxWork \in Nat
    /\ Lag \in Nat

VARIABLES
    ticket,   \* the row and its history
    screen,   \* per user: the row as last loaded, the status it now displays
    req,      \* per user: a status change between the service's read and its end
    job,      \* evaluations of the automation rules
    booted    \* the version the ticket had when the server last started

vars == <<ticket, screen, req, job, booted>>

Value == Status \cup Priorities \cup Users \cup {NoOne, "false", "true"}

Fields == {"status", "priority", "assigned_to", "sla_breached"}

\* An entry keeps the BEGIN of its transaction: at is the version the ticket had
\* then.  Nothing else orders the entries; that the sequence has them as they
\* were committed is a fact of the model and not of the table.
Entry == [field : Fields, old : Value, new : Value, by : Users \cup {System}, at : Nat]

Ticket == [status : Status, priority : Priorities, assignee : Staff \cup {NoOne},
           resolvedAt : Nat, flagged : BOOLEAN, version : Nat, history : Seq(Entry)]

Row == [status : Status, priority : Priorities, assignee : Staff \cup {NoOne},
        resolvedAt : Nat, flagged : BOOLEAN, version : Nat]

RowOf(t) == [status |-> t.status, priority |-> t.priority, assignee |-> t.assignee,
             resolvedAt |-> t.resolvedAt, flagged |-> t.flagged, version |-> t.version]

\* resolvedAt names the change whose transaction stamped it, by the version it
\* made; 0 is NULL.
InitialTicket ==
    [status |-> "open", priority |-> InitialPriority, assignee |-> NoOne,
     resolvedAt |-> 0, flagged |-> FALSE, version |-> 1, history |-> <<>>]

NoRequest == [pc |-> "idle"]
Request == {NoRequest} \cup
    [pc : {"decided"}, to : Status, versioned : BOOLEAN, read : Row]

NoJob == [pc |-> "free"]
Event == [trigger : {"status_changed", "sla_breach"}, newValue : Status \cup {"true"}]
Job == {NoJob} \cup [pc : {"spawned"}, event : Event]
       \cup [pc : {"rules"}, event : Event, snapshot : Status, next : Nat \ {0}, since : Nat]

\* Types; the assignee is always one of the staff.
TypeOK ==
    /\ ticket \in Ticket
    /\ screen \in [Users -> [loaded : Row, status : Status]]
    /\ req \in [Users -> Request]
    /\ job \in [Jobs -> Job]
    /\ booted \in Nat

(***************************************************************************)
(* Writing the ticket: row and history in one transaction                  *)
(***************************************************************************)
\* validTransitions.
Transitions ==
    [s \in Status |->
       CASE s = "open"           -> {"in_progress", "waiting_client", "resolved", "closed"}
         [] s = "in_progress"    -> {"waiting_client", "resolved", "closed"}
         [] s = "waiting_client" -> {"in_progress", "resolved", "closed"}
         [] s = "resolved"       -> {"closed", "in_progress"}
         [] s = "closed"         -> {}]

CanTransitionTo(s, to) == to \in Transitions[s]

\* When a transaction that commits now may have begun: not before the given
\* version, and with at most Lag changes since.
Began(since) == {v \in since..ticket.version : v + Lag >= ticket.version}

\* Every change of a versioned column takes a version and leaves an entry.
Log(t, field, old, new, by, at) ==
    [t EXCEPT !.version = @ + 1,
              !.history = Append(@, [field |-> field, old |-> old, new |-> new,
                                     by |-> by, at |-> at])]

\* Variant: a ticket that is reopened keeps its stamp.
ResolvedAt_Sticky(t, to) == IF to = "resolved" THEN t.version + 1 ELSE t.resolvedAt

\* The CASE of UpdateStatus.
ResolvedAt(t, to) ==
    CASE to = "resolved"  -> t.version + 1
      [] to \in Active    -> 0
      [] to = "closed"    -> t.resolvedAt

StatusAllowed(t, to) == t.status = to \/ CanTransitionTo(t.status, to)

SetStatus(t, to, by, at) ==
    IF t.status = to THEN t
    ELSE Log([t EXCEPT !.status = to, !.resolvedAt = ResolvedAt(t, to)],
             "status", t.status, to, by, at)

SetAssignee(t, user, by, at) ==
    IF t.assignee = user THEN t
    ELSE Log([t EXCEPT !.assignee = user], "assigned_to", t.assignee, user, by, at)

SetPriority(t, priority, by, at) ==
    IF t.priority = priority THEN t
    ELSE Log([t EXCEPT !.priority = priority], "priority", t.priority, priority, by, at)

(***************************************************************************)
(* Users                                                                   *)
(***************************************************************************)
UserChanges == Cardinality({i \in DOMAIN ticket.history : ticket.history[i].by # System})

InFlight == Cardinality({j \in Jobs : job[j] # NoJob})

WithinBound == UserChanges < MaxChanges /\ UserChanges + InFlight < MaxWork

CanStatusBeChangedBy(u, to) == u \in Staff \/ (u = Creator /\ to = "closed")

\* The page is loaded again; while a request of the page runs its form is busy.
Load(u) ==
    /\ req[u] = NoRequest
    /\ screen' = [screen EXCEPT ![u] = [loaded |-> RowOf(ticket), status |-> ticket.status]]
    /\ UNCHANGED <<ticket, req, job, booted>>

ExpectedVersion(u, versioned) == versioned => screen[u].loaded.version = ticket.version

\* PATCH status, up to the transaction.  A refused request changes nothing, and
\* neither does one for the status the ticket already has.
ReadTicket(u, to, versioned) ==
    /\ req[u] = NoRequest
    /\ WithinBound
    /\ CanStatusBeChangedBy(u, to)
    /\ ExpectedVersion(u, versioned)
    /\ CanTransitionTo(ticket.status, to)
    /\ req' = [req EXCEPT ![u] = [pc |-> "decided", to |-> to, versioned |-> versioned,
                                  read |-> RowOf(ticket)]]
    /\ UNCHANGED <<ticket, screen, job, booted>>

\* Variant: the status is compared instead of the version.
StillAsRead_SameStatus(u) == ticket.status = req[u].read.status

StillAsRead(u) == ticket.version = req[u].read.version

Spawn(event) ==
    /\ UserChanges' + InFlight < MaxWork
    /\ \E j \in Jobs : /\ job[j] = NoJob
                       /\ job' = [job EXCEPT ![j] = [pc |-> "spawned", event |-> event]]

\* The transaction, which began after the read, and after it the goroutine that
\* evaluates the rules.
UpdateStatus(u) ==
    /\ req[u].pc = "decided"
    /\ StillAsRead(u)
    /\ StatusAllowed(ticket, req[u].to)
    /\ \E at \in Began(req[u].read.version) : ticket' = SetStatus(ticket, req[u].to, u, at)
    /\ Spawn([trigger |-> "status_changed", newValue |-> req[u].to])
    /\ screen' = [screen EXCEPT ![u].status = req[u].to]
    /\ req' = [req EXCEPT ![u] = NoRequest]
    /\ UNCHANGED booted

\* 409, or any error of the transaction, its notifications included.
ChangeRefused(u) ==
    /\ req[u].pc = "decided"
    /\ req' = [req EXCEPT ![u] = NoRequest]
    /\ UNCHANGED <<ticket, screen, job, booted>>

Assign(u, user) ==
    /\ u \in Staff
    /\ user \in Staff \cup {NoOne}
    /\ WithinBound
    /\ \E at \in Began(booted) : ticket' = SetAssignee(ticket, user, u, at)
    /\ UNCHANGED <<screen, req, job, booted>>

(***************************************************************************)
(* The worker and the automation engine                                    *)
(***************************************************************************)
FlagBreach ==
    /\ ~ticket.flagged
    /\ ticket.status \in Active
    /\ \E at \in Began(booted) :
         ticket' = Log([ticket EXCEPT !.flagged = TRUE],
                       "sla_breached", "false", "true", System, at)
    /\ Spawn([trigger |-> "sla_breach", newValue |-> "true"])
    /\ UNCHANGED <<screen, req, booted>>

Matches(rule, j) ==
    /\ rule.trigger = job[j].event.trigger
    /\ job[j].event.newValue \in rule.newValue
    /\ job[j].snapshot \in rule.status

\* Evaluate takes one snapshot for the conditions of all the rules.
TakeSnapshot(j) ==
    /\ job[j].pc = "spawned"
    /\ job' = [job EXCEPT ![j] = [pc |-> "rules", event |-> job[j].event,
                                  snapshot |-> ticket.status, next |-> 1,
                                  since |-> ticket.version]]
    /\ UNCHANGED <<ticket, screen, req, booted>>

\* One action that fails rolls back the actions of its rule.
Applicable(rule, t) ==
    /\ rule.setStatus = Keep \/ StatusAllowed(t, rule.setStatus)
    /\ rule.assignTo \in Staff \cup {Keep}

Applied(rule, t, at) ==
    LET t1 == IF rule.setStatus = Keep THEN t ELSE SetStatus(t, rule.setStatus, System, at)
        t2 == IF rule.setPriority = Keep THEN t1
              ELSE SetPriority(t1, rule.setPriority, System, at)
    IN  IF rule.assignTo = Keep THEN t2 ELSE SetAssignee(t2, rule.assignTo, System, at)

\* The actions of a rule share one transaction, which begins after the rule
\* before it.  They write the row as it is now, whatever the snapshot showed,
\* and start no evaluation of their own.
RunRule(j) ==
    /\ job[j].pc = "rules"
    /\ job[j].next <= Len(Rules)
    /\ LET rule == Rules[job[j].next] IN
         IF Matches(rule, j) /\ Applicable(rule, ticket)
         THEN \E at \in Began(job[j].since) : ticket' = Applied(rule, ticket, at)
         ELSE UNCHANGED ticket
    /\ job' = [job EXCEPT ![j].next = @ + 1, ![j].since = ticket'.version]
    /\ UNCHANGED <<screen, req, booted>>

EndEvaluation(j) ==
    /\ job[j].pc = "rules"
    /\ job[j].next > Len(Rules)
    /\ job' = [job EXCEPT ![j] = NoJob]
    /\ UNCHANGED <<ticket, screen, req, booted>>

\* The server restarts: requests, evaluations and transactions in flight are
\* forgotten.
Crash ==
    /\ req' = [u \in Users |-> NoRequest]
    /\ job' = [j \in Jobs |-> NoJob]
    /\ booted' = ticket.version
    /\ UNCHANGED <<ticket, screen>>

Init ==
    /\ ticket = InitialTicket
    /\ screen = [u \in Users |-> [loaded |-> RowOf(InitialTicket), status |-> "open"]]
    /\ req = [u \in Users |-> NoRequest]
    /\ job = [j \in Jobs |-> NoJob]
    /\ booted = InitialTicket.version

Next ==
    \/ \E u \in Users :
         \/ Load(u) \/ UpdateStatus(u) \/ ChangeRefused(u)
         \/ \E to \in Status, versioned \in BOOLEAN : ReadTicket(u, to, versioned)
         \/ \E user \in Users \cup {NoOne} : Assign(u, user)
    \/ \E j \in Jobs : TakeSnapshot(j) \/ RunRule(j) \/ EndEvaluation(j)
    \/ FlagBreach
    \/ Crash

Spec == Init /\ [][Next]_vars

(***************************************************************************)
(* Properties                                                              *)
(***************************************************************************)
Column(t, field) ==
    CASE field = "status"       -> t.status
      [] field = "priority"     -> t.priority
      [] field = "assigned_to"  -> t.assignee
      [] field = "sla_breached" -> IF t.flagged THEN "true" ELSE "false"

\* The entries that put a value into a column, and those that took it out.
Into(t, field, value) ==
    {i \in DOMAIN t.history : t.history[i].field = field /\ t.history[i].new = value}

OutOf(t, field, value) ==
    {i \in DOMAIN t.history : t.history[i].field = field /\ t.history[i].old = value}

One(condition) == IF condition THEN 1 ELSE 0

\* For each value of a column, being the first one and every entry to it count
\* for, being the present one and every entry from it count against.
Balanced(t, field, value) ==
    Cardinality(Into(t, field, value)) + One(Column(InitialTicket, field) = value)
      = Cardinality(OutOf(t, field, value)) + One(Column(t, field) = value)

Accounted(t) ==
    /\ t.version = 1 + Len(t.history)
    /\ \A i \in DOMAIN t.history : t.history[i].new # t.history[i].old
    /\ \A field \in Fields, value \in Value : Balanced(t, field, value)

\* The history accounts for the row in whatever order its entries are listed:
\* there is one entry per version, none records a change that was not one, and
\* only the present value of a column was entered and not left again.
HistoryAccounts == Accounted(ticket)

\* A user's change of the status is listed after all that was changed before it,
\* also by transactions that began long before: HistoryRepo.List orders by the time
\* of the BEGIN, and the version that was compared had been read before that.  Of
\* the other changes this is not so: two that overlap may be listed in the order
\* they did not happen in.
EditsAreListedLast ==
    \A i, j \in DOMAIN ticket.history :
       /\ i < j
       /\ ticket.history[j].field = "status"
       /\ ticket.history[j].by # System
       => ticket.history[i].at < ticket.history[j].at

\* Entry i resolved the ticket, and nothing but a closure came after it.
Standing(t, i) ==
    /\ t.history[i].field = "status"
    /\ t.history[i].new = "resolved"
    /\ \A k \in DOMAIN t.history :
         k > i /\ t.history[k].field = "status" => t.history[k].new = "closed"

Resolved(t) ==
    \/ t.resolvedAt = 0 /\ \A i \in DOMAIN t.history : ~Standing(t, i)
    \/ \E i \in DOMAIN t.history : Standing(t, i) /\ t.resolvedAt = i + 1

\* The resolution time is that of the resolution that still stands: NULL while
\* the ticket is worked on and for one closed unresolved, otherwise the stamp of
\* the last change to resolved.
ResolutionStands == Resolved(ticket)

\* A closed ticket stays closed: no request decided before, and no rule matched
\* before, reopens it.
ClosedIsFinal == [][ticket.status = "closed" => ticket'.status = "closed"]_vars

\* u changes the status in this step.
ChangesStatus(u) ==
    /\ req[u] # NoRequest
    /\ req'[u] = NoRequest
    /\ ticket'.history # ticket.history

\* The row a request changes is the row its checks were made on; a change by
\* another user, the worker or a rule in between makes it fail.
DecidedOnThisRow ==
    [][\A u \in Users : ChangesStatus(u) => RowOf(ticket) = req[u].read]_vars

\* A request that carries the version changes the ticket that its user loaded,
\* down to the columns the request does not name.
VersionedEditIsInformed ==
    [][\A u \in Users : ChangesStatus(u) /\ req[u].versioned
         => RowOf(ticket) = screen[u].loaded]_vars
=============================================================================
