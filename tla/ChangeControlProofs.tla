------------------------ MODULE ChangeControlProofs ------------------------
(***************************************************************************)
(* Proofs about ChangeControl, for every set of users, roles, changes and  *)
(* requests and any number of tickets and approvals.                       *)
(***************************************************************************)
EXTENDS ChangeControl, TLAPS

(***************************************************************************)
(* Sequences of rows                                                       *)
(***************************************************************************)
LEMMA AppendedRow ==
    ASSUME NEW S, NEW s \in Seq(S), NEW e \in S
    PROVE  /\ Append(s, e) \in Seq(S)
           /\ DOMAIN Append(s, e) = DOMAIN s \cup {Len(s) + 1}
           /\ \A i \in DOMAIN s : Append(s, e)[i] = s[i]
           /\ Append(s, e)[Len(s) + 1] = e
           /\ Len(s) + 1 \notin DOMAIN s
  OBVIOUS

LEMMA ReplacedRow ==
    ASSUME NEW S, NEW s \in Seq(S), NEW i \in DOMAIN s, NEW e \in S
    PROVE  /\ [s EXCEPT ![i] = e] \in Seq(S)
           /\ DOMAIN [s EXCEPT ![i] = e] = DOMAIN s
           /\ \A j \in DOMAIN s : [s EXCEPT ![i] = e][j] = IF j = i THEN e ELSE s[j]
  OBVIOUS

(***************************************************************************)
(* A decision on its way names an approval that exists, made by somebody   *)
(* who may make it.  Only pending rows change, so this stays so.           *)
(***************************************************************************)
Entitled(a, by) ==
    \/ Role[by] = "admin"
    \/ a.approver = by
    \/ a.approver = NoOne /\ Role[by] = "agent"

DecisionsAimed ==
    \A r \in Requests : req[r].pc = "decide" =>
        /\ req[r].approval \in DOMAIN approvals
        /\ Entitled(approvals[req[r].approval], req[r].by)

Base == TypeOK /\ DecisionsAimed

LEMMA DecidedRow ==
    ASSUME NEW a \in Approval, NEW by \in Users, NEW decision \in Decision,
           a.status = "pending"
    PROVE  /\ Decided(a, by, decision) \in Approval
           /\ Decided(a, by, decision).target = a.target
           /\ Decided(a, by, decision).approver = a.approver
           /\ Decided(a, by, decision).status = decision
           /\ Decided(a, by, decision).decidedBy = by
           /\ Decided(a, by, decision).history = Append(a.history, [by |-> by, to |-> decision])
<1> DEFINE e == [by |-> by, to |-> decision]
           d == [a EXCEPT !.status = decision, !.decidedBy = by, !.history = Append(@, e)]
<1>1. a \in [target : Target, approver : Users \cup {NoOne}, status : {"pending"},
            decidedBy : {NoOne}, history : Seq(Event)]
  BY DEF Approval, Decision
<1>2. Append(a.history, e) \in Seq(Event)
  <2>1. e \in Event
    BY DEF Event
  <2>2. a.history \in Seq(Event)
    BY <1>1
  <2> HIDE DEF e
  <2>3. QED
    BY <2>1, <2>2
<1>3. d = Decided(a, by, decision)
  BY DEF Decided
<1> HIDE DEF e
<1>4. /\ d \in [target : Target, approver : Users \cup {NoOne}, status : Decision,
                decidedBy : Users, history : Seq(Event)]
      /\ d.target = a.target /\ d.approver = a.approver /\ d.status = decision
      /\ d.decidedBy = by /\ d.history = Append(a.history, e)
  BY <1>1, <1>2
<1> HIDE DEF d
<1>5. d \in Approval
  BY <1>4 DEF Approval
<1>6. QED
  BY <1>3, <1>4, <1>5 DEF e

LEMMA MovedRow ==
    ASSUME NEW row \in Change, NEW to \in ChangeStatus
    PROVE  Moved(row, to) \in Change
BY DEF Moved, Change

(***************************************************************************)
(* Types and aim                                                           *)
(***************************************************************************)
LEMMA BaseInit == Init => Base
<1> SUFFICES ASSUME Init PROVE Base
  OBVIOUS
<1>1. changes \in [Changes -> Change]
  BY DEF Init, Change, ChangeStatus
<1>2. req \in [Requests -> Request] /\ \A r \in Requests : req[r].pc = "idle"
  BY DEF Init, Request, Idle
<1>3. tickets \in Seq(BOOLEAN) /\ approvals \in Seq(Approval)
  BY DEF Init
<1>4. service \in [requires : BOOLEAN, active : BOOLEAN] /\ cutOff \subseteq Target
  BY DEF Init
<1>5. QED
  BY <1>1, <1>2, <1>3, <1>4 DEF Base, TypeOK, DecisionsAimed

\* The kinds of request, as facts about the fields each one has.
LEMMA RequestKinds ==
    ASSUME NEW q \in Request
    PROVE  /\ q.pc \in {"gate", "write"} =>
                /\ q.change \in Changes /\ q.to \in ChangeStatus /\ q.row \in Change
                /\ [q EXCEPT !.pc = "write"] \in Request
                /\ LET w == [q EXCEPT !.pc = "write"] IN
                   w.pc = "write" /\ w.change = q.change /\ w.to = q.to /\ w.row = q.row
           /\ q.pc = "look" => q.target \in Target
           /\ q.pc = "insert" => q.target \in Target /\ q.approver \in Users \cup {NoOne}
           /\ q.pc = "ticket" => q.requires \in BOOLEAN /\ q.approver \in Users \cup {NoOne}
           /\ q.pc = "decide" =>
                q.approval \in Nat /\ q.by \in Users /\ q.decision \in Decision
BY DEF Request, Idle

\* A decision that is carried out replaces a pending row by the decided one.
Written(r, d) ==
    LET k == req[r].approval IN
    /\ k \in DOMAIN approvals
    /\ approvals[k].status = "pending"
    /\ approvals' = [approvals EXCEPT ![k] = d]
    /\ d.target = approvals[k].target
    /\ d.approver = approvals[k].approver
    /\ d.status = req[r].decision
    /\ d.decidedBy = req[r].by
    /\ d.history = Append(approvals[k].history, [by |-> req[r].by, to |-> req[r].decision])

LEMMA DecisionWritten ==
    ASSUME Base, NEW r \in Requests, WriteDecision(r), Undecided(approvals[req[r].approval])
    PROVE  \E d \in Approval : Written(r, d)
<1>1. PICK k : k = req[r].approval
  OBVIOUS
<1>2. k \in DOMAIN approvals /\ approvals[k] \in Approval /\ approvals[k].status = "pending"
  BY <1>1 DEF Base, DecisionsAimed, WriteDecision, Undecided, TypeOK
<1>3. PICK a \in Approval : a = approvals[k] /\ a.status = "pending"
  BY <1>2
<1>4. PICK by \in Users, decision \in Decision : by = req[r].by /\ decision = req[r].decision
  BY RequestKinds DEF WriteDecision, Base, TypeOK
<1>5. approvals' = [approvals EXCEPT ![k] = Decided(a, by, decision)]
  BY <1>1, <1>3, <1>4 DEF WriteDecision
<1>6. QED
  BY <1>1, <1>2, <1>3, <1>4, <1>5, DecidedRow DEF Written

\* What a step does to the rows of approvals, seen by a row.
Kept(i) ==
    /\ i \in DOMAIN approvals'
    /\ approvals'[i].target = approvals[i].target
    /\ approvals'[i].approver = approvals[i].approver
    /\ approvals[i].status # "pending" => approvals'[i] = approvals[i]

LEMMA ApprovalsKept ==
    ASSUME Base, [Next]_vars
    PROVE  approvals' \in Seq(Approval) /\ \A i \in DOMAIN approvals : Kept(i)
<1> USE DEF Base
<1>1. CASE approvals' = approvals
  BY <1>1 DEF Kept, TypeOK
<1>2. ASSUME NEW r \in Requests, CreateApproval(r)
      PROVE  approvals' \in Seq(Approval) /\ \A i \in DOMAIN approvals : Kept(i)
  <2> DEFINE e == [target |-> req[r].target, approver |-> req[r].approver,
                   status |-> "pending", decidedBy |-> NoOne, history |-> <<>>]
  <2>1. e \in Approval
    <3>1. req[r] \in Request /\ req[r].pc = "insert"
      BY <1>2 DEF TypeOK, CreateApproval
    <3>2. req[r].target \in Target /\ req[r].approver \in Users \cup {NoOne}
      BY <3>1, RequestKinds
    <3>3. QED
      BY <3>2 DEF Approval
  <2>2. approvals' = Append(approvals, e)
    BY <1>2 DEF CreateApproval
  <2> HIDE DEF e
  <2>3. QED
    BY <2>1, <2>2, AppendedRow DEF Kept, TypeOK
<1>3. ASSUME NEW r \in Requests, WriteDecision(r), Undecided(approvals[req[r].approval])
      PROVE  approvals' \in Seq(Approval) /\ \A i \in DOMAIN approvals : Kept(i)
  <2>1. PICK d \in Approval : Written(r, d)
    BY <1>3, DecisionWritten
  <2>2. approvals \in Seq(Approval)
    BY DEF TypeOK
  <2>3. /\ approvals' \in Seq(Approval)
        /\ DOMAIN approvals' = DOMAIN approvals
        /\ \A j \in DOMAIN approvals :
              approvals'[j] = IF j = req[r].approval THEN d ELSE approvals[j]
    BY <2>1, <2>2, ReplacedRow DEF Written
  <2>4. QED
    BY <2>1, <2>3 DEF Kept, Written
<1>4. \/ approvals' = approvals
      \/ \E r \in Requests : CreateApproval(r)
      \/ \E r \in Requests : WriteDecision(r) /\ Undecided(approvals[req[r].approval])
  BY DEF Next, vars, ReadChange, CheckGate, WriteChange, LookForPending, ReadService,
         CreateTicket, UpdateService, ReadApproval, WriteDecision, Fail
<1>5. QED
  BY <1>1, <1>2, <1>3, <1>4

\* A step replaces at most one request, by one that is idle or takes its next statement.
LEMMA RequestStep ==
    ASSUME TypeOK, NEW r \in Requests, NEW q \in Request, Become(r, q)
    PROVE  /\ req' \in [Requests -> Request]
           /\ req'[r] = q
           /\ \A s \in Requests : s # r => req'[s] = req[s]
BY DEF TypeOK, Become

LEMMA Idles == Idle \in Request /\ Idle.pc = "idle"
BY DEF Request, Idle

LEMMA TargetTypes ==
    /\ \A c \in Changes : ChangeTarget(c) \in Target
    /\ \A n \in Nat : TicketTarget(n + 1) \in Target
BY DEF ChangeTarget, TicketTarget, Target

\* What a step may leave in the slot of a request.
Successor(r, q) ==
    /\ q \in Request
    /\ Become(r, q)
    /\ q.pc = "decide" => /\ q.approval \in DOMAIN approvals
                          /\ Entitled(approvals[q.approval], q.by)

LEMMA RequestsFollow ==
    ASSUME Base, Next
    PROVE  req' = req \/ \E r \in Requests, q \in Request : Successor(r, q)
<1> USE DEF Base
<1>1. ASSUME NEW r \in Requests, Become(r, Idle)
      PROVE  Successor(r, Idle)
  BY <1>1, Idles DEF Successor
<1>2. ASSUME NEW r \in Requests, NEW c \in Changes, NEW to \in ChangeStatus, ReadChange(r, c, to)
      PROVE  \E q \in Request : Successor(r, q)
  <2> DEFINE q == [pc |-> IF to = "approved" THEN "gate" ELSE "write",
                   change |-> c, to |-> to, row |-> changes[c]]
  <2>1. q \in Request /\ q.pc # "decide"
    BY DEF Request, TypeOK
  <2>2. Become(r, q)
    BY <1>2 DEF ReadChange
  <2> HIDE DEF q
  <2>3. QED
    BY <2>1, <2>2 DEF Successor
<1>3. ASSUME NEW r \in Requests, CheckGate(r)
      PROVE  \E q \in Request : Successor(r, q)
  <2>1. [req[r] EXCEPT !.pc = "write"] \in Request /\ [req[r] EXCEPT !.pc = "write"].pc = "write"
    BY <1>3, RequestKinds DEF CheckGate, TypeOK
  <2>2. Become(r, [req[r] EXCEPT !.pc = "write"]) \/ Become(r, Idle)
    BY <1>3 DEF CheckGate
  <2>3. QED
    BY <2>1, <2>2, <1>1, Idles DEF Successor
<1>4. ASSUME NEW r \in Requests, WriteChange(r)
      PROVE  \E q \in Request : Successor(r, q)
  <2> DEFINE q == [pc |-> "look", target |-> ChangeTarget(req[r].change)]
  <2>1. req[r].change \in Changes
    BY <1>4, RequestKinds DEF WriteChange, TypeOK
  <2>2. q \in Request /\ q.pc # "decide"
    BY <2>1, TargetTypes DEF Request
  <2>3. Become(r, q) \/ Become(r, Idle)
    BY <1>4 DEF WriteChange
  <2> HIDE DEF q
  <2>4. QED
    BY <2>2, <2>3, <1>1, Idles DEF Successor
<1>5. ASSUME NEW r \in Requests, LookForPending(r)
      PROVE  \E q \in Request : Successor(r, q)
  <2> DEFINE q == [pc |-> "insert", target |-> req[r].target, approver |-> NoOne]
  <2>1. req[r].target \in Target
    BY <1>5, RequestKinds DEF LookForPending, TypeOK
  <2>2. q \in Request /\ q.pc # "decide"
    BY <2>1 DEF Request
  <2>3. Become(r, q) \/ Become(r, Idle)
    BY <1>5 DEF LookForPending
  <2> HIDE DEF q
  <2>4. QED
    BY <2>2, <2>3, <1>1, Idles DEF Successor
<1>6. ASSUME NEW r \in Requests, NEW approver \in Users \cup {NoOne}, ReadService(r, approver)
      PROVE  \E q \in Request : Successor(r, q)
  <2> DEFINE q == [pc |-> "ticket", requires |-> service.requires, approver |-> approver]
  <2>1. q \in Request /\ q.pc # "decide"
    BY DEF Request, TypeOK
  <2>2. Become(r, q)
    BY <1>6 DEF ReadService
  <2> HIDE DEF q
  <2>3. QED
    BY <2>1, <2>2 DEF Successor
<1>7. ASSUME NEW r \in Requests, CreateTicket(r)
      PROVE  \E q \in Request : Successor(r, q)
  <2> DEFINE q == [pc |-> "insert", target |-> TicketTarget(Len(tickets) + 1),
                   approver |-> req[r].approver]
  <2>1. req[r].approver \in Users \cup {NoOne} /\ Len(tickets) \in Nat
    <3>1. req[r] \in Request /\ req[r].pc = "ticket"
      BY <1>7 DEF CreateTicket, TypeOK
    <3>2. req[r].approver \in Users \cup {NoOne}
      BY <3>1, RequestKinds
    <3>3. Len(tickets) \in Nat
      BY DEF TypeOK
    <3>4. QED
      BY <3>2, <3>3
  <2>2. q \in Request /\ q.pc # "decide"
    BY <2>1, TargetTypes DEF Request
  <2>3. Become(r, q) \/ Become(r, Idle)
    BY <1>7 DEF CreateTicket
  <2> HIDE DEF q
  <2>4. QED
    BY <2>2, <2>3, <1>1, Idles DEF Successor
<1>8. ASSUME NEW r \in Requests, NEW i \in DOMAIN approvals, NEW by \in Users,
             NEW decision \in Decision, ReadApproval(r, i, by, decision)
      PROVE  \E q \in Request : Successor(r, q)
  <2> DEFINE q == [pc |-> "decide", approval |-> i, by |-> by, decision |-> decision]
  <2>1. i \in Nat \ {0}
    BY DEF TypeOK
  <2>2. q \in Request
    BY <2>1 DEF Request
  <2>3. Become(r, q) /\ Entitled(approvals[i], by)
    BY <1>8 DEF ReadApproval, CanDecide, Entitled
  <2>4. q.approval = i /\ q.by = by
    OBVIOUS
  <2> HIDE DEF q
  <2>5. QED
    BY <2>2, <2>3, <2>4 DEF Successor
<1>9. ASSUME NEW r \in Requests, CreateApproval(r) \/ WriteDecision(r) \/ Fail(r)
      PROVE  \E q \in Request : Successor(r, q)
  <2>1. Become(r, Idle)
    BY <1>9 DEF CreateApproval, WriteDecision, Fail
  <2>2. QED
    BY <2>1, <1>1, Idles
<1>10. ASSUME NEW requires, NEW active, UpdateService(requires, active)
       PROVE  req' = req
  BY <1>10 DEF UpdateService
<1>11. QED
  BY <1>2, <1>3, <1>4, <1>5, <1>6, <1>7, <1>8, <1>9, <1>10 DEF Next

LEMMA BaseStep == Base /\ [Next]_vars => Base'
<1> SUFFICES ASSUME Base, [Next]_vars PROVE Base'
  OBVIOUS
<1> USE DEF Base
<1>1. approvals' \in Seq(Approval) /\ \A i \in DOMAIN approvals : Kept(i)
  BY ApprovalsKept
<1>2. req' \in [Requests -> Request] /\ DecisionsAimed'
  <2>1. ASSUME NEW r \in Requests, req'[r].pc = "decide",
               req'[r].approval \in DOMAIN approvals,
               Entitled(approvals[req'[r].approval], req'[r].by)
        PROVE  /\ req'[r].approval \in DOMAIN approvals'
               /\ Entitled(approvals'[req'[r].approval], req'[r].by)
    BY <1>1, <2>1 DEF Kept, Entitled
  <2>2. CASE req' = req
    BY <2>1, <2>2 DEF DecisionsAimed, TypeOK, Entitled
  <2>3. ASSUME NEW r \in Requests, NEW q \in Request, Successor(r, q)
        PROVE  req' \in [Requests -> Request] /\ DecisionsAimed'
    <3>1. /\ req' \in [Requests -> Request]
          /\ req'[r] = q
          /\ \A s \in Requests : s # r => req'[s] = req[s]
      BY <2>3, RequestStep DEF Successor
    <3>2. ASSUME NEW s \in Requests, req'[s].pc = "decide"
          PROVE  /\ req'[s].approval \in DOMAIN approvals
                 /\ Entitled(approvals[req'[s].approval], req'[s].by)
      BY <3>1, <3>2, <2>3 DEF Successor, DecisionsAimed
    <3>3. QED
      BY <3>1, <3>2, <2>1 DEF DecisionsAimed, Entitled
  <2>4. QED
    BY <2>2, <2>3, RequestsFollow DEF vars
<1>3. changes' \in [Changes -> Change]
  <2>1. CASE changes' = changes
    BY <2>1 DEF TypeOK
  <2>2. ASSUME NEW r \in Requests, WriteChange(r)
        PROVE  changes' \in [Changes -> Change]
    <3>1. Moved(req[r].row, req[r].to) \in Change
      BY <2>2, RequestKinds, MovedRow DEF WriteChange, TypeOK
    <3>2. QED
      BY <2>2, <3>1 DEF WriteChange, TypeOK
  <2>3. changes' = changes \/ \E r \in Requests : WriteChange(r)
    BY DEF Next, vars, ReadChange, CheckGate, LookForPending, CreateApproval, ReadService,
           CreateTicket, UpdateService, ReadApproval, WriteDecision, Fail
  <2>4. QED
    BY <2>1, <2>2, <2>3
<1>4. tickets' \in Seq(BOOLEAN)
  <2>1. CASE tickets' = tickets
    BY <2>1 DEF TypeOK
  <2>2. ASSUME NEW r \in Requests, CreateTicket(r)
        PROVE  tickets' \in Seq(BOOLEAN)
    <3>1. req[r].requires \in BOOLEAN
      BY <2>2, RequestKinds DEF CreateTicket, TypeOK
    <3>2. QED
      BY <2>2, <3>1, AppendedRow DEF CreateTicket, TypeOK
  <2>3. tickets' = tickets \/ \E r \in Requests : CreateTicket(r)
    BY DEF Next, vars, ReadChange, CheckGate, WriteChange, LookForPending, CreateApproval,
           ReadService, UpdateService, ReadApproval, WriteDecision, Fail
  <2>4. QED
    BY <2>1, <2>2, <2>3
<1>5. service' \in [requires : BOOLEAN, active : BOOLEAN]
  <2>1. CASE service' = service
    BY <2>1 DEF TypeOK
  <2>2. ASSUME NEW requires \in BOOLEAN, NEW active \in BOOLEAN, UpdateService(requires, active)
        PROVE  service' \in [requires : BOOLEAN, active : BOOLEAN]
    BY <2>2 DEF UpdateService
  <2>3. \/ service' = service
        \/ \E requires, active \in BOOLEAN : UpdateService(requires, active)
    BY DEF Next, vars, ReadChange, CheckGate, WriteChange, LookForPending, CreateApproval,
           ReadService, CreateTicket, ReadApproval, WriteDecision, Fail
  <2>4. QED
    BY <2>1, <2>2, <2>3
<1>6. cutOff' \subseteq Target
  <2>1. CASE cutOff' = cutOff
    BY <2>1 DEF TypeOK
  <2>2. ASSUME NEW r \in Requests, Fail(r)
        PROVE  cutOff' \subseteq Target
    <3>1. req[r].pc \in {"look", "insert"} => req[r].target \in Target
      BY RequestKinds DEF TypeOK
    <3>2. QED
      BY <2>2, <3>1 DEF Fail, TypeOK
  <2>3. cutOff' = cutOff \/ \E r \in Requests : Fail(r)
    BY DEF Next, vars, ReadChange, CheckGate, WriteChange, LookForPending, CreateApproval,
           ReadService, CreateTicket, UpdateService, ReadApproval, WriteDecision
  <2>4. QED
    BY <2>1, <2>2, <2>3
<1>7. QED
  BY <1>1, <1>2, <1>3, <1>4, <1>5, <1>6 DEF TypeOK

\* Types hold for every set of users and changes and any number of requests; a decided
\* approval names who decided it (DecideApproval).
THEOREM TypeCorrect == Spec => []TypeOK
<1>1. Spec => []Base
  BY BaseInit, BaseStep, PTL DEF Spec
<1>2. Base => TypeOK
  BY DEF Base
<1>3. QED
  BY <1>1, <1>2, PTL

(***************************************************************************)
(* Rows of changes.  A row is good if it is coherent and, once past the    *)
(* gate, covered by an approval.  The rows that requests have read are     *)
(* good too, with a move that is legal from them: so what is written back  *)
(* is good, however old it is, because approvals are never withdrawn.      *)
(***************************************************************************)
Gated(row) ==
    row.status \in {"approved", "in_progress", "completed", "closed"} \/ row.implemented

Good(c, row) ==
    /\ Gated(row) => HasApproved(ChangeTarget(c))
    /\ row.status \in {"in_progress", "completed", "closed"} => row.implemented
    /\ row.closed <=> row.status = "closed"

Holds(q) == q.pc \in {"gate", "write"}

RowsGood ==
    /\ \A c \in Changes : Good(c, changes[c])
    /\ \A r \in Requests : Holds(req[r]) =>
          /\ Good(req[r].change, req[r].row)
          /\ CanMoveTo(req[r].row, req[r].to)
          /\ req[r].pc = "write" /\ req[r].to = "approved"
                => HasApproved(ChangeTarget(req[r].change))

LEMMA GoodMove ==
    ASSUME NEW c \in Changes, NEW row \in Change, NEW to \in ChangeStatus,
           Good(c, row), CanMoveTo(row, to),
           to = "approved" => HasApproved(ChangeTarget(c))
    PROVE  Good(c, Moved(row, to))
<1>1. row.status \in ChangeStatus /\ row.closed \in BOOLEAN /\ row.implemented \in BOOLEAN
  BY DEF Change
<1>2. to \in ChangeTransitions[row.status]
  BY DEF CanMoveTo
<1>3. /\ to = "in_progress" => row.status = "approved"
      /\ to = "completed" => row.status = "in_progress"
      /\ to = "closed" => row.status = "completed"
      /\ row.status # "closed"
  BY <1>1, <1>2 DEF ChangeTransitions, ChangeStatus
<1>4. /\ Moved(row, to).status = to
      /\ Moved(row, to).implemented <=> row.implemented \/ to = "in_progress"
      /\ Moved(row, to).closed <=> row.closed \/ to = "closed"
  BY DEF Moved
<1>5. QED
  BY <1>1, <1>3, <1>4 DEF Good, Gated

LEMMA ApprovedForGood ==
    ASSUME Base, [Next]_vars, NEW t, HasApproved(t)
    PROVE  HasApproved(t)'
BY ApprovalsKept DEF HasApproved, Kept

LEMMA GoodForGood ==
    ASSUME Base, [Next]_vars, NEW c \in Changes, NEW row, Good(c, row)
    PROVE  /\ Gated(row) => HasApproved(ChangeTarget(c))'
           /\ row.status \in {"in_progress", "completed", "closed"} => row.implemented
           /\ row.closed <=> row.status = "closed"
BY ApprovedForGood DEF Good

\* Where the rows that requests hold come from.
LEMMA HeldRows ==
    ASSUME Base, [Next]_vars, NEW s \in Requests, Holds(req'[s])
    PROVE  \/ req'[s] = req[s]
           \/ /\ req[s].pc = "gate" /\ req'[s].pc = "write"
              /\ req'[s].change = req[s].change
              /\ req'[s].row = req[s].row
              /\ req'[s].to = req[s].to
              /\ HasApproved(ChangeTarget(req[s].change))
           \/ /\ req'[s].row = changes[req'[s].change]
              /\ req'[s].change \in Changes
              /\ CanMoveTo(req'[s].row, req'[s].to)
              /\ req'[s].to = "approved" => req'[s].pc = "gate"
<1> USE DEF Base
<1>1. ASSUME NEW r \in Requests, NEW q, Become(r, q), ~ Holds(q)
      PROVE  req'[s] = req[s]
  BY <1>1 DEF Become, TypeOK
<1>2. ~ Holds(Idle)
  BY DEF Holds, Idle
<1>3. ASSUME NEW r \in Requests, NEW c \in Changes, NEW to \in ChangeStatus, ReadChange(r, c, to)
      PROVE  \/ req'[s] = req[s]
             \/ /\ req'[s].row = changes[req'[s].change]
                /\ req'[s].change \in Changes
                /\ CanMoveTo(req'[s].row, req'[s].to)
                /\ req'[s].to = "approved" => req'[s].pc = "gate"
  BY <1>3 DEF ReadChange, Become, TypeOK
<1>4. ASSUME NEW r \in Requests, CheckGate(r)
      PROVE  \/ req'[s] = req[s]
             \/ /\ req[s].pc = "gate" /\ req'[s].pc = "write"
                /\ req'[s].change = req[s].change
                /\ req'[s].row = req[s].row
                /\ req'[s].to = req[s].to
                /\ HasApproved(ChangeTarget(req[s].change))
  <2>1. CASE HasApproved(ChangeTarget(req[r].change))
    <3>1. /\ [req[r] EXCEPT !.pc = "write"].pc = "write"
          /\ [req[r] EXCEPT !.pc = "write"].change = req[r].change
          /\ [req[r] EXCEPT !.pc = "write"].row = req[r].row
          /\ [req[r] EXCEPT !.pc = "write"].to = req[r].to
      BY <1>4, RequestKinds DEF CheckGate, TypeOK
    <3>2. req' = [req EXCEPT ![r] = [req[r] EXCEPT !.pc = "write"]] /\ req[r].pc = "gate"
      BY <1>4, <2>1 DEF CheckGate, Become
    <3>3. req \in [Requests -> Request]
      BY DEF TypeOK
    <3>4. s = r => req'[s] = [req[r] EXCEPT !.pc = "write"]
      BY <3>2, <3>3
    <3>5. s # r => req'[s] = req[s]
      BY <3>2, <3>3
    <3>6. QED
      BY <2>1, <3>1, <3>2, <3>4, <3>5
  <2>2. CASE ~ HasApproved(ChangeTarget(req[r].change))
    BY <1>4, <2>2, <1>1, <1>2 DEF CheckGate
  <2>3. QED
    BY <2>1, <2>2
<1>5. ASSUME NEW r \in Requests, WriteChange(r) \/ LookForPending(r) \/ CreateApproval(r)
                                 \/ CreateTicket(r) \/ WriteDecision(r) \/ Fail(r)
      PROVE  req'[s] = req[s]
  <2>1. \E q : Become(r, q) /\ ~ Holds(q)
    BY <1>5, <1>2 DEF WriteChange, LookForPending, CreateApproval, CreateTicket,
                      WriteDecision, Fail, Holds
  <2>2. QED
    BY <2>1, <1>1
<1>6. ASSUME NEW r \in Requests, NEW approver, ReadService(r, approver)
      PROVE  req'[s] = req[s]
  <2>1. \E q : Become(r, q) /\ ~ Holds(q)
    BY <1>6 DEF ReadService, Holds
  <2>2. QED
    BY <2>1, <1>1
<1>7. ASSUME NEW r \in Requests, NEW i, NEW by, NEW decision, ReadApproval(r, i, by, decision)
      PROVE  req'[s] = req[s]
  <2>1. \E q : Become(r, q) /\ ~ Holds(q)
    BY <1>7 DEF ReadApproval, Holds
  <2>2. QED
    BY <2>1, <1>1
<1>8. CASE req' = req
  BY <1>8
<1>9. QED
  BY <1>3, <1>4, <1>5, <1>6, <1>7, <1>8 DEF Next, UpdateService, vars

LEMMA RowsWritten ==
    ASSUME [Next]_vars
    PROVE  \/ changes' = changes
           \/ \E r \in Requests :
                 /\ req[r].pc = "write"
                 /\ changes' = [changes EXCEPT ![req[r].change] = Moved(req[r].row, req[r].to)]
BY DEF Next, vars, ReadChange, CheckGate, WriteChange, LookForPending, CreateApproval,
       ReadService, CreateTicket, UpdateService, ReadApproval, WriteDecision, Fail

LEMMA RowsStep == Base /\ RowsGood /\ [Next]_vars => RowsGood'
<1> SUFFICES ASSUME Base, RowsGood, [Next]_vars PROVE RowsGood'
  OBVIOUS
<1> USE DEF Base
<1>1. ASSUME NEW c \in Changes
      PROVE  Good(c, changes[c])'
  <2>1. Good(c, changes'[c])
    <3>1. CASE changes' = changes
      BY <3>1 DEF RowsGood
    <3>2. ASSUME NEW r \in Requests, req[r].pc = "write",
                 changes' = [changes EXCEPT ![req[r].change] = Moved(req[r].row, req[r].to)]
          PROVE  Good(c, changes'[c])
      <4>1. /\ req[r].change \in Changes
            /\ req[r].row \in Change
            /\ req[r].to \in ChangeStatus
        BY <3>2, RequestKinds DEF TypeOK
      <4>2. /\ Good(req[r].change, req[r].row)
            /\ CanMoveTo(req[r].row, req[r].to)
            /\ req[r].to = "approved" => HasApproved(ChangeTarget(req[r].change))
        BY <3>2 DEF RowsGood, Holds
      <4>3. Good(req[r].change, Moved(req[r].row, req[r].to))
        BY <4>1, <4>2, GoodMove
      <4>4. c # req[r].change => changes'[c] = changes[c]
        BY <3>2 DEF TypeOK
      <4>5. c = req[r].change => changes'[c] = Moved(req[r].row, req[r].to)
        BY <3>2 DEF TypeOK
      <4>6. QED
        BY <4>3, <4>4, <4>5 DEF RowsGood
    <3>3. QED
      BY <3>1, <3>2, RowsWritten
  <2>2. QED
    BY <2>1, GoodForGood DEF Good, Gated
<1>2. ASSUME NEW s \in Requests, Holds(req'[s])
      PROVE  /\ Good(req[s].change, req[s].row)'
             /\ CanMoveTo(req'[s].row, req'[s].to)
             /\ req'[s].pc = "write" /\ req'[s].to = "approved"
                   => HasApproved(ChangeTarget(req[s].change))'
  <2>1. /\ req'[s].change \in Changes
        /\ Good(req'[s].change, req'[s].row)
        /\ CanMoveTo(req'[s].row, req'[s].to)
        /\ req'[s].pc = "write" /\ req'[s].to = "approved"
              => HasApproved(ChangeTarget(req'[s].change))
    <3>1. Holds(req[s]) => req[s].change \in Changes
      BY RequestKinds DEF TypeOK, Holds
    <3>2. QED
      BY <1>2, <3>1, HeldRows DEF RowsGood, Holds
  <2>2. Good(req[s].change, req[s].row)'
    BY <2>1, GoodForGood DEF Good, Gated
  <2>3. QED
    BY <2>1, <2>2, ApprovedForGood
<1>3. QED
  BY <1>1, <1>2 DEF RowsGood, Holds, CanMoveTo

LEMMA RowsAlwaysGood == Spec => [](Base /\ RowsGood)
<1>1. Init => RowsGood
  BY DEF Init, RowsGood, Good, Gated, Holds, Idle
<1>2. QED
  BY <1>1, BaseInit, BaseStep, RowsStep, PTL DEF Spec

\* The gate holds however reads, gate queries and writes interleave: a change that is
\* past it, or was ever put to work, has an approved approval (UpdateChangeStatus).
THEOREM GateHolds == Spec => []ApprovalGate
<1>1. RowsGood => ApprovalGate
  BY DEF RowsGood, Good, Gated, ApprovalGate, HasApproved
<1>2. QED
  BY <1>1, RowsAlwaysGood, PTL

\* Writes over newer rows leave no row that a sequence of moves would not (UpdateChange).
THEOREM RowsStayCoherent == Spec => []RowsAreCoherent
<1>1. RowsGood => RowsAreCoherent
  BY DEF RowsGood, Good, RowsAreCoherent
<1>2. QED
  BY <1>1, RowsAlwaysGood, PTL

(***************************************************************************)
(* Approvals: one decision each, and one for everything that waits         *)
(***************************************************************************)
Requested(r) ==
    [target |-> req[r].target, approver |-> req[r].approver, status |-> "pending",
     decidedBy |-> NoOne, history |-> <<>>]

LEMMA ApprovalsWritten ==
    ASSUME Base, [Next]_vars
    PROVE  \/ approvals' = approvals
           \/ \E r \in Requests : /\ CreateApproval(r)
                                 /\ approvals' = Append(approvals, Requested(r))
                                 /\ Requested(r) \in Approval
           \/ \E r \in Requests, d \in Approval : Written(r, d) /\ req[r].pc = "decide"
<1> USE DEF Base
<1>1. ASSUME NEW r \in Requests, CreateApproval(r)
      PROVE  approvals' = Append(approvals, Requested(r)) /\ Requested(r) \in Approval
  <2>1. req[r].target \in Target /\ req[r].approver \in Users \cup {NoOne}
    BY <1>1, RequestKinds DEF TypeOK, CreateApproval
  <2>2. Requested(r) \in Approval
    BY <2>1 DEF Approval, Requested
  <2>3. QED
    BY <1>1, <2>2 DEF CreateApproval, Requested
<1>2. ASSUME NEW r \in Requests, WriteDecision(r), Undecided(approvals[req[r].approval])
      PROVE  \E d \in Approval : Written(r, d) /\ req[r].pc = "decide"
  BY <1>2, DecisionWritten DEF WriteDecision
<1>3. \/ approvals' = approvals
      \/ \E r \in Requests : CreateApproval(r)
      \/ \E r \in Requests : WriteDecision(r) /\ Undecided(approvals[req[r].approval])
  BY DEF Next, vars, ReadChange, CheckGate, WriteChange, LookForPending, ReadService,
         CreateTicket, UpdateService, ReadApproval, WriteDecision, Fail
<1>4. QED
  BY <1>1, <1>2, <1>3

DecisionSound(a) ==
    IF a.status = "pending" THEN a.history = <<>>
    ELSE a.history = << [by |-> a.decidedBy, to |-> a.status] >> /\ Entitled(a, a.decidedBy)

LEMMA DecisionsStep == Base /\ DecidedOnce /\ [Next]_vars => DecidedOnce'
<1> SUFFICES ASSUME Base, DecidedOnce, [Next]_vars PROVE DecidedOnce'
  OBVIOUS
<1>1. \A i \in DOMAIN approvals : DecisionSound(approvals[i])
  BY DEF DecidedOnce, DecisionSound, Entitled
<1>2. approvals \in Seq(Approval)
  BY DEF Base, TypeOK
<1>3. \A i \in DOMAIN approvals' : DecisionSound(approvals'[i])
  <2>1. CASE approvals' = approvals
    BY <1>1, <2>1
  <2>2. ASSUME NEW r \in Requests, approvals' = Append(approvals, Requested(r)),
               Requested(r) \in Approval
        PROVE  \A i \in DOMAIN approvals' : DecisionSound(approvals'[i])
    <3>1. DecisionSound(Requested(r))
      BY DEF DecisionSound, Requested
    <3>2. QED
      BY <1>1, <1>2, <2>2, <3>1, AppendedRow
  <2>3. ASSUME NEW r \in Requests, NEW d \in Approval, Written(r, d), req[r].pc = "decide"
        PROVE  \A i \in DOMAIN approvals' : DecisionSound(approvals'[i])
    <3> DEFINE k == req[r].approval
    <3>1. Entitled(approvals[k], req[r].by) /\ req[r].decision \in Decision
      BY <2>3, RequestKinds DEF Base, DecisionsAimed, TypeOK
    <3>2. approvals[k].history = <<>>
      BY <1>1, <2>3 DEF Written, DecisionSound
    <3>3. d.history = << [by |-> d.decidedBy, to |-> d.status] >>
      BY <2>3, <3>2 DEF Written
    <3>4. Entitled(d, d.decidedBy) /\ d.status # "pending"
      BY <2>3, <3>1 DEF Written, Entitled, Decision
    <3>5. DecisionSound(d)
      BY <3>3, <3>4 DEF DecisionSound
    <3>6. /\ DOMAIN approvals' = DOMAIN approvals
          /\ \A j \in DOMAIN approvals : approvals'[j] = IF j = k THEN d ELSE approvals[j]
      BY <2>3, <1>2, ReplacedRow DEF Written
    <3>7. QED
      BY <1>1, <3>5, <3>6
  <2>4. QED
    BY <2>1, <2>2, <2>3, ApprovalsWritten
<1>4. QED
  BY <1>3 DEF DecidedOnce, DecisionSound, Entitled

\* Whatever decisions cross, one is made, by somebody entitled to it, and the history
\* says which (DecideApproval).
THEOREM OneDecision == Spec => []DecidedOnce
<1>1. Init => DecidedOnce
  BY DEF Init, DecidedOnce
<1>2. QED
  BY <1>1, BaseInit, BaseStep, DecisionsStep, PTL DEF Spec

Asked(t) ==
    \/ \E i \in DOMAIN approvals : approvals[i].target = t
    \/ \E r \in Requests : req[r].pc \in {"look", "insert"} /\ req[r].target = t
    \/ t \in cutOff

LEMMA AskedForGood ==
    ASSUME Base, [Next]_vars, NEW t, Asked(t)
    PROVE  Asked(t)'
<1> USE DEF Base
<1>1. CASE \E i \in DOMAIN approvals : approvals[i].target = t
  BY <1>1, ApprovalsKept DEF Kept, Asked
<1>2. CASE t \in cutOff
  <2>1. cutOff \subseteq cutOff'
    BY DEF Next, vars, ReadChange, CheckGate, WriteChange, LookForPending, CreateApproval,
           ReadService, CreateTicket, UpdateService, ReadApproval, WriteDecision, Fail
  <2>2. QED
    BY <1>2, <2>1 DEF Asked
<1>3. ASSUME NEW r \in Requests, req[r].pc \in {"look", "insert"}, req[r].target = t
      PROVE  Asked(t)'
  <2>1. CASE req'[r] = req[r]
    BY <1>3, <2>1 DEF Asked
  <2>2. CASE LookForPending(r)
    <3>1. CASE HasPending(t)
      BY <3>1, ApprovalsKept DEF HasPending, Kept, Asked
    <3>2. CASE ~ HasPending(t)
      <4>1. req'[r] = [pc |-> "insert", target |-> t, approver |-> NoOne]
        BY <1>3, <2>2, <3>2 DEF LookForPending, Become, TypeOK
      <4>2. QED
        BY <4>1 DEF Asked
    <3>3. QED
      BY <3>1, <3>2
  <2>3. CASE CreateApproval(r)
    <3>1. req[r].target \in Target /\ req[r].approver \in Users \cup {NoOne}
      BY <2>3, RequestKinds DEF TypeOK, CreateApproval
    <3>2. Requested(r) \in Approval /\ Requested(r).target = t
      BY <1>3, <3>1 DEF Approval, Requested
    <3>3. approvals' = Append(approvals, Requested(r))
      BY <2>3 DEF CreateApproval, Requested
    <3>4. \E i \in DOMAIN approvals' : approvals'[i].target = t
      BY <3>2, <3>3, AppendedRow DEF TypeOK
    <3>5. QED
      BY <3>4 DEF Asked
  <2>4. CASE Fail(r)
    BY <1>3, <2>4 DEF Fail, Asked
  <2>5. req'[r] = req[r] \/ LookForPending(r) \/ CreateApproval(r) \/ Fail(r)
    <3>1. req[r] # Idle
      BY <1>3 DEF Idle
    <3>2. \A s \in Requests : \A q : s # r /\ Become(s, q) => req'[r] = req[r]
      BY DEF Become, TypeOK
    <3>3. CASE UNCHANGED vars
      BY <3>3 DEF vars
    <3>4. CASE \E requires, active \in BOOLEAN : UpdateService(requires, active)
      BY <3>4 DEF UpdateService
    <3>5. ASSUME NEW s \in Requests, s # r,
                 \/ \E c \in Changes, to \in ChangeStatus : ReadChange(s, c, to)
                 \/ CheckGate(s) \/ WriteChange(s) \/ LookForPending(s) \/ CreateApproval(s)
                 \/ \E approver \in Users \cup {NoOne} : ReadService(s, approver)
                 \/ CreateTicket(s)
                 \/ \E i \in DOMAIN approvals, by \in Users, decision \in Decision :
                       ReadApproval(s, i, by, decision)
                 \/ WriteDecision(s) \/ Fail(s)
          PROVE  req'[r] = req[r]
      <4>1. \E q : Become(s, q)
        BY <3>5 DEF ReadChange, CheckGate, WriteChange, LookForPending, CreateApproval,
                    ReadService, CreateTicket, ReadApproval, WriteDecision, Fail
      <4>2. QED
        BY <4>1, <3>2, <3>5
    <3>6. QED
      BY <1>3, <3>1, <3>3, <3>4, <3>5
         DEF Next, ReadChange, CheckGate, WriteChange, ReadService, CreateTicket,
             ReadApproval, WriteDecision
  <2>6. QED
    BY <2>1, <2>2, <2>3, <2>4, <2>5
<1>4. QED
  BY <1>1, <1>2, <1>3 DEF Asked

LEMMA AskedStep == Base /\ ApprovalIsAskedFor /\ [Next]_vars => ApprovalIsAskedFor'
<1> SUFFICES ASSUME Base, ApprovalIsAskedFor, [Next]_vars PROVE ApprovalIsAskedFor'
  OBVIOUS
<1> USE DEF Base
<1>1. /\ \A c \in Changes : changes[c].status = "awaiting_approval" => Asked(ChangeTarget(c))
      /\ \A n \in DOMAIN tickets : tickets[n] => Asked(TicketTarget(n))
  BY DEF ApprovalIsAskedFor, Asked
<1>2. ASSUME NEW c \in Changes, changes'[c].status = "awaiting_approval"
      PROVE  Asked(ChangeTarget(c))'
  <2>1. CASE changes'[c] = changes[c]
    <3>1. Asked(ChangeTarget(c))
      BY <1>1, <1>2, <2>1
    <3>2. QED
      BY <3>1, AskedForGood
  <2>2. ASSUME NEW r \in Requests, WriteChange(r), req[r].change = c
        PROVE  Asked(ChangeTarget(c))'
    <3>1. changes'[c] = Moved(req[r].row, req[r].to)
      BY <2>2 DEF WriteChange, TypeOK
    <3>2. req[r].to = "awaiting_approval"
      BY <1>2, <3>1 DEF Moved
    <3>3. req'[r] = [pc |-> "look", target |-> ChangeTarget(c)]
      BY <2>2, <3>2 DEF WriteChange, Become, TypeOK
    <3>4. QED
      BY <3>3 DEF Asked, ChangeTarget
  <2>3. changes'[c] = changes[c] \/ \E r \in Requests : WriteChange(r) /\ req[r].change = c
    <3>1. changes' = changes \/ \E r \in Requests : WriteChange(r)
      BY DEF Next, vars, ReadChange, CheckGate, LookForPending, CreateApproval, ReadService,
             CreateTicket, UpdateService, ReadApproval, WriteDecision, Fail
    <3>2. QED
      BY <3>1 DEF WriteChange, TypeOK
  <2>4. QED
    BY <2>1, <2>2, <2>3
<1>3. ASSUME NEW n \in DOMAIN tickets', tickets'[n]
      PROVE  Asked(TicketTarget(n))'
  <2>1. CASE tickets' = tickets
    <3>1. Asked(TicketTarget(n))
      BY <1>1, <1>3, <2>1
    <3>2. QED
      BY <3>1, AskedForGood
  <2>2. ASSUME NEW r \in Requests, CreateTicket(r)
        PROVE  Asked(TicketTarget(n))'
    <3>1. req[r].requires \in BOOLEAN /\ tickets \in Seq(BOOLEAN)
      BY <2>2, RequestKinds DEF CreateTicket, TypeOK
    <3>2. tickets' = Append(tickets, req[r].requires)
      BY <2>2 DEF CreateTicket
    <3>3. /\ DOMAIN tickets' = DOMAIN tickets \cup {Len(tickets) + 1}
          /\ \A i \in DOMAIN tickets : tickets'[i] = tickets[i]
          /\ tickets'[Len(tickets) + 1] = req[r].requires
      BY <3>1, <3>2, AppendedRow
    <3>4. CASE n \in DOMAIN tickets
      <4>1. Asked(TicketTarget(n))
        BY <1>1, <1>3, <3>3, <3>4
      <4>2. QED
        BY <4>1, AskedForGood
    <3>5. CASE n = Len(tickets) + 1
      <4>1. req[r].requires
        BY <1>3, <3>3, <3>5
      <4>2. req'[r] = [pc |-> "insert", target |-> TicketTarget(n), approver |-> req[r].approver]
        BY <2>2, <4>1, <3>5 DEF CreateTicket, Become, TypeOK
      <4>3. QED
        BY <4>2 DEF Asked, TicketTarget
    <3>6. QED
      BY <3>3, <3>4, <3>5
  <2>3. tickets' = tickets \/ \E r \in Requests : CreateTicket(r)
    BY DEF Next, vars, ReadChange, CheckGate, WriteChange, LookForPending, CreateApproval,
           ReadService, UpdateService, ReadApproval, WriteDecision, Fail
  <2>4. QED
    BY <2>1, <2>2, <2>3
<1>4. QED
  BY <1>2, <1>3 DEF ApprovalIsAskedFor, Asked

\* What waits for an approval has one to wait for, unless the request that should have
\* created it is still running or was cut off (UpdateChangeStatus, RequestService).
THEOREM NobodyWaitsForNothing == Spec => []ApprovalIsAskedFor
<1>1. Init => ApprovalIsAskedFor
  BY DEF Init, ApprovalIsAskedFor
<1>2. QED
  BY <1>1, BaseInit, BaseStep, AskedStep, PTL DEF Spec
=============================================================================
