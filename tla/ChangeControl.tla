--------------------------- MODULE ChangeControl ---------------------------
(***************************************************************************)
(* Changes, catalogue requests and the approvals both ask for              *)
(* (application/itsm, domain/itsm, infrastructure/postgres/itsm_repo.go).  *)
(*                                                                         *)
(* No operation has a transaction around its statements, except the one    *)
(* that decides an approval: a change is read, its move is checked, the    *)
(* gate is queried, the whole row is written back, and the approval it     *)
(* needs is looked for and inserted, with other requests between any two   *)
(* of these.  A statement that fails ends its request where it stands.     *)
(***************************************************************************)
EXTENDS Naturals, Sequences

CONSTANTS
    Users,
    Role,          \* the role of each user
    NoOne,         \* no approver named, nobody has decided
    Changes,       \* the changes, all created as drafts
    Requests,      \* requests being served at once
    MaxTickets,    \* bound: tickets requested from the catalogue
    MaxApprovals   \* bound: rows of approvals

ASSUME ConstantsAssumption ==
    /\ Role \in [Users -> {"admin", "agent", "client"}]
    /\ NoOne \notin Users
    /\ MaxTickets \in Nat
    /\ MaxApprovals \in Nat

VARIABLES
    changes,     \* the rows of changes
    tickets,     \* per ticket from the catalogue: did its service ask for an approval
    approvals,   \* the rows of approvals, each with its rows of approval_history
    service,     \* one service of the catalogue
    req,         \* per request: what it has read and its next statement
    cutOff       \* targets whose request ended before it came to the approval (history)

vars == <<changes, tickets, approvals, service, req, cutOff>>

ChangeStatus == {"draft", "planned", "awaiting_approval", "approved",
                 "in_progress", "completed", "closed", "rejected"}

Change == [status : ChangeStatus, implemented : BOOLEAN, closed : BOOLEAN]

Decision == {"approved", "rejected"}

Target == [type : {"change"}, id : Changes] \cup [type : {"ticket"}, id : Nat \ {0}]
ChangeTarget(c) == [type |-> "change", id |-> c]
TicketTarget(n) == [type |-> "ticket", id |-> n]

Event == [by : Users, to : Decision]

\* A row is pending and decided by nobody, or decided by a user.
Approval ==
    [target : Target, approver : Users \cup {NoOne}, status : {"pending"},
     decidedBy : {NoOne}, history : Seq(Event)]
    \cup
    [target : Target, approver : Users \cup {NoOne}, status : Decision,
     decidedBy : Users, history : Seq(Event)]

Idle == [pc |-> "idle"]
Request == {Idle}
    \cup [pc : {"gate", "write"}, change : Changes, to : ChangeStatus, row : Change]
    \cup [pc : {"look"}, target : Target]
    \cup [pc : {"insert"}, target : Target, approver : Users \cup {NoOne}]
    \cup [pc : {"ticket"}, requires : BOOLEAN, approver : Users \cup {NoOne}]
    \cup [pc : {"decide"}, approval : Nat \ {0}, by : Users, decision : Decision]

\* Types; a decided approval names who decided it, a pending one nobody.
TypeOK ==
    /\ changes \in [Changes -> Change]
    /\ tickets \in Seq(BOOLEAN)
    /\ approvals \in Seq(Approval)
    /\ service \in [requires : BOOLEAN, active : BOOLEAN]
    /\ req \in [Requests -> Request]
    /\ cutOff \subseteq Target

(***************************************************************************)
(* What the statements and the domain rules say                            *)
(***************************************************************************)
ChangeTransitions ==
    [s \in ChangeStatus |->
       CASE s = "draft"             -> {"planned", "rejected"}
         [] s = "planned"           -> {"awaiting_approval", "rejected"}
         [] s = "awaiting_approval" -> {"approved", "rejected", "planned"}
         [] s = "approved"          -> {"in_progress", "rejected"}
         [] s = "in_progress"       -> {"completed", "rejected"}
         [] s = "completed"         -> {"closed"}
         [] s = "closed"            -> {}
         [] s = "rejected"          -> {"draft"}]

CanMoveTo(row, to) == to \in ChangeTransitions[row.status]

\* The row that is written back: the one that was read, moved and stamped once.
Moved(row, to) ==
    [status |-> to,
     implemented |-> row.implemented \/ to = "in_progress",
     closed |-> row.closed \/ to = "closed"]

\* Variants: the query forgets which target it is about.
HasApproved_AnyTarget(t) == \E i \in DOMAIN approvals : approvals[i].status = "approved"
HasPending_AnyTarget(t) == \E i \in DOMAIN approvals : approvals[i].status = "pending"

HasApproved(t) ==
    \E i \in DOMAIN approvals : approvals[i].target = t /\ approvals[i].status = "approved"

HasPending(t) ==
    \E i \in DOMAIN approvals : approvals[i].target = t /\ approvals[i].status = "pending"

CanDecide(a, by) ==
    /\ a.status = "pending"
    /\ \/ Role[by] = "admin"
       \/ a.approver = by
       \/ a.approver = NoOne /\ Role[by] = "agent"

\* Variant: the UPDATE trusts the status that was read.
Undecided_Any(a) == TRUE

Undecided(a) == a.status = "pending"

\* The UPDATE and the history row, one transaction.
Decided(a, by, decision) ==
    [a EXCEPT !.status = decision, !.decidedBy = by,
              !.history = Append(@, [by |-> by, to |-> decision])]

(***************************************************************************)
(* UpdateChangeStatus                                                      *)
(***************************************************************************)
Become(r, next) == req' = [req EXCEPT ![r] = next]

\* GetChange and the state machine; only a move to "approved" has a gate.
ReadChange(r, c, to) ==
    /\ req[r] = Idle
    /\ CanMoveTo(changes[c], to)
    /\ Become(r, [pc |-> IF to = "approved" THEN "gate" ELSE "write",
                  change |-> c, to |-> to, row |-> changes[c]])
    /\ UNCHANGED <<changes, tickets, approvals, service, cutOff>>

CheckGate(r) ==
    /\ req[r].pc = "gate"
    /\ Become(r, IF HasApproved(ChangeTarget(req[r].change))
                 THEN [req[r] EXCEPT !.pc = "write"] ELSE Idle)
    /\ UNCHANGED <<changes, tickets, approvals, service, cutOff>>

\* UpdateChange writes every column, whatever the row has become.
WriteChange(r) ==
    LET q == req[r] IN
    /\ q.pc = "write"
    /\ changes' = [changes EXCEPT ![q.change] = Moved(q.row, q.to)]
    /\ Become(r, IF q.to = "awaiting_approval"
                 THEN [pc |-> "look", target |-> ChangeTarget(q.change)] ELSE Idle)
    /\ UNCHANGED <<tickets, approvals, service, cutOff>>

LookForPending(r) ==
    /\ req[r].pc = "look"
    /\ Become(r, IF HasPending(req[r].target) THEN Idle
                 ELSE [pc |-> "insert", target |-> req[r].target, approver |-> NoOne])
    /\ UNCHANGED <<changes, tickets, approvals, service, cutOff>>

\* CreateApproval.  The unique index on pending rows never objects: it leaves out
\* rows without an approver, and a ticket has one request of its own.
CreateApproval(r) ==
    /\ req[r].pc = "insert"
    /\ Len(approvals) < MaxApprovals
    /\ approvals' = Append(approvals,
           [target |-> req[r].target, approver |-> req[r].approver, status |-> "pending",
            decidedBy |-> NoOne, history |-> <<>>])
    /\ Become(r, Idle)
    /\ UNCHANGED <<changes, tickets, service, cutOff>>

(***************************************************************************)
(* RequestService                                                          *)
(***************************************************************************)
ReadService(r, approver) ==
    /\ req[r] = Idle
    /\ service.active
    /\ Become(r, [pc |-> "ticket", requires |-> service.requires, approver |-> approver])
    /\ UNCHANGED <<changes, tickets, approvals, service, cutOff>>

CreateTicket(r) ==
    LET q == req[r] IN
    /\ q.pc = "ticket"
    /\ Len(tickets) < MaxTickets
    /\ tickets' = Append(tickets, q.requires)
    /\ Become(r, IF q.requires
                 THEN [pc |-> "insert", target |-> TicketTarget(Len(tickets) + 1),
                       approver |-> q.approver]
                 ELSE Idle)
    /\ UNCHANGED <<changes, approvals, service, cutOff>>

\* UpdateService by staff, at any time.
UpdateService(requires, active) ==
    /\ service' = [requires |-> requires, active |-> active]
    /\ UNCHANGED <<changes, tickets, approvals, req, cutOff>>

(***************************************************************************)
(* DecideApproval                                                          *)
(***************************************************************************)
ReadApproval(r, i, by, decision) ==
    /\ req[r] = Idle
    /\ CanDecide(approvals[i], by)
    /\ Become(r, [pc |-> "decide", approval |-> i, by |-> by, decision |-> decision])
    /\ UNCHANGED <<changes, tickets, approvals, service, cutOff>>

WriteDecision(r) ==
    LET q == req[r] IN
    /\ q.pc = "decide"
    /\ approvals' = IF Undecided(approvals[q.approval])
                    THEN [approvals EXCEPT ![q.approval] = Decided(@, q.by, q.decision)]
                    ELSE approvals
    /\ Become(r, Idle)
    /\ UNCHANGED <<changes, tickets, service, cutOff>>

\* A statement fails, or the caller goes away.
Fail(r) ==
    /\ req[r] # Idle
    /\ cutOff' = IF req[r].pc \in {"look", "insert"} THEN cutOff \cup {req[r].target}
                 ELSE cutOff
    /\ Become(r, Idle)
    /\ UNCHANGED <<changes, tickets, approvals, service>>

Init ==
    /\ changes = [c \in Changes |->
                    [status |-> "draft", implemented |-> FALSE, closed |-> FALSE]]
    /\ tickets = <<>>
    /\ approvals = <<>>
    /\ service \in [requires : BOOLEAN, active : {TRUE}]
    /\ req = [r \in Requests |-> Idle]
    /\ cutOff = {}

Next ==
    \/ \E r \in Requests :
          \/ \E c \in Changes, to \in ChangeStatus : ReadChange(r, c, to)
          \/ CheckGate(r)
          \/ WriteChange(r)
          \/ LookForPending(r)
          \/ CreateApproval(r)
          \/ \E approver \in Users \cup {NoOne} : ReadService(r, approver)
          \/ CreateTicket(r)
          \/ \E i \in DOMAIN approvals, by \in Users, decision \in Decision :
                ReadApproval(r, i, by, decision)
          \/ WriteDecision(r)
          \/ Fail(r)
    \/ \E requires, active \in BOOLEAN : UpdateService(requires, active)

Spec == Init /\ [][Next]_vars

(***************************************************************************)
(* Properties                                                              *)
(***************************************************************************)
\* A change that has passed the gate, or was ever put to work, has an approved
\* approval of its own, although the gate is queried before the row is written and
\* rows are written back over newer ones (UpdateChangeStatus).
ApprovalGate ==
    \A c \in Changes :
        \/ changes[c].status \in {"approved", "in_progress", "completed", "closed"}
        \/ changes[c].implemented
        => \E i \in DOMAIN approvals :
              approvals[i].target = ChangeTarget(c) /\ approvals[i].status = "approved"

\* Writes that overtake each other can undo a move, but never leave a row that no
\* sequence of moves explains: what is being worked on or done bears its stamp of
\* implementation, and exactly what is closed bears that of closing (UpdateChange).
RowsAreCoherent ==
    \A c \in Changes :
        /\ changes[c].status \in {"in_progress", "completed", "closed"} => changes[c].implemented
        /\ changes[c].closed <=> changes[c].status = "closed"

\* However many decisions are on their way, an approval is decided once, its history
\* is that decision, and the decider is its approver, an admin, or, when it names no
\* approver, an agent (DecideApproval).
DecidedOnce ==
    \A i \in DOMAIN approvals :
        LET a == approvals[i] IN
        IF a.status = "pending" THEN a.history = <<>>
        ELSE /\ a.history = << [by |-> a.decidedBy, to |-> a.status] >>
             /\ \/ Role[a.decidedBy] = "admin"
                \/ a.approver = a.decidedBy
                \/ a.approver = NoOne /\ Role[a.decidedBy] = "agent"

\* Nothing waits for an approval that nobody was asked for: a change that awaits
\* approval, and a ticket of a service that requires one, has an approval, unless the
\* request that creates it is still at it or was cut off before (UpdateChangeStatus,
\* RequestService).
ApprovalIsAskedFor ==
    \A t \in {ChangeTarget(c) : c \in {d \in Changes : changes[d].status = "awaiting_approval"}}
            \cup {TicketTarget(n) : n \in {m \in DOMAIN tickets : tickets[m]}} :
        \/ \E i \in DOMAIN approvals : approvals[i].target = t
        \/ \E r \in Requests : req[r].pc \in {"look", "insert"} /\ req[r].target = t
        \/ t \in cutOff
=============================================================================
