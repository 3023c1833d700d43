----------------------- MODULE TicketLifecycleProofs -----------------------
(***************************************************************************)
(* Proofs about TicketLifecycle, for every set of users, every list of     *)
(* rules and any number of evaluations in flight.                          *)
(***************************************************************************)
EXTENDS TicketLifecycle, FiniteSetTheorems, TLAPS

(***************************************************************************)
(* The history: what one more entry does to it.                            *)
(***************************************************************************)
\* s is t with one column changed, and e is the entry about it.
Amends(t, s, e) ==
    /\ s.version = t.version
    /\ s.history = t.history
    /\ e.new # e.old
    /\ e.old = Column(t, e.field)
    /\ e.new = Column(s, e.field)
    /\ \A field \in Fields \ {e.field} : Column(s, field) = Column(t, field)
    /\ s.resolvedAt = IF e.field = "status" THEN ResolvedAt(t, e.new) ELSE t.resolvedAt

\* The ticket s with the entry e.
Logged(s, e) == [s EXCEPT !.version = @ + 1, !.history = Append(@, e)]

LEMMA LoggedShape ==
    ASSUME NEW t \in Ticket, NEW s \in Ticket, NEW e \in Entry, Amends(t, s, e)
    PROVE  LET u == Logged(s, e) IN
             /\ u \in Ticket
             /\ u.version = t.version + 1
             /\ u.history = Append(t.history, e)
             /\ Len(u.history) = Len(t.history) + 1
             /\ u.history[Len(t.history) + 1] = e
             /\ \A i \in 1..Len(t.history) : u.history[i] = t.history[i]
             /\ u.resolvedAt = s.resolvedAt
             /\ u.status = s.status
             /\ \A field \in Fields : Column(u, field) = Column(s, field)
<1> DEFINE u == Logged(s, e)
<1>1. Append(t.history, e) \in Seq(Entry) /\ t.version + 1 \in Nat
  BY DEF Ticket
<1>2. u = [s EXCEPT !.version = t.version + 1, !.history = Append(t.history, e)]
  BY DEF Logged, Amends, Ticket
<1>3. /\ u \in Ticket
      /\ u.version = t.version + 1
      /\ u.history = Append(t.history, e)
      /\ u.resolvedAt = s.resolvedAt
      /\ u.status = s.status /\ u.priority = s.priority
      /\ u.assignee = s.assignee /\ u.flagged = s.flagged
  BY <1>1, <1>2 DEF Ticket
<1>4. t.history \in Seq(Entry)
  BY DEF Ticket
<1>5. /\ Len(u.history) = Len(t.history) + 1
      /\ u.history[Len(t.history) + 1] = e
      /\ \A i \in 1..Len(t.history) : u.history[i] = t.history[i]
  BY <1>3, <1>4
<1>6. \A field \in Fields : Column(u, field) = Column(s, field)
  BY <1>3 DEF Column, Fields
<1>7. QED
  BY <1>3, <1>5, <1>6

LEMMA EntriesAreFinite ==
    ASSUME NEW t \in Ticket, NEW field, NEW value
    PROVE  /\ IsFiniteSet(Into(t, field, value)) /\ Cardinality(Into(t, field, value)) \in Nat
           /\ IsFiniteSet(OutOf(t, field, value)) /\ Cardinality(OutOf(t, field, value)) \in Nat
<1>1. DOMAIN t.history = 1..Len(t.history) /\ Len(t.history) \in Nat
  BY DEF Ticket
<1>2. IsFiniteSet(1..Len(t.history))
  BY <1>1, FS_Interval
<1>3. Into(t, field, value) \subseteq 1..Len(t.history)
  BY <1>1 DEF Into
<1>4. OutOf(t, field, value) \subseteq 1..Len(t.history)
  BY <1>1 DEF OutOf
<1>5. QED
  BY <1>2, <1>3, <1>4, FS_Subset, FS_CardinalityType

\* One more entry counts once for its new value and once for its old one.
LEMMA LoggedBalances ==
    ASSUME NEW t \in Ticket, NEW s \in Ticket, NEW e \in Entry, Amends(t, s, e),
           NEW field \in Fields, NEW value, Balanced(t, field, value)
    PROVE  Balanced(Logged(s, e), field, value)
<1> DEFINE u == Logged(s, e)
           n == Len(t.history)
           in(x) == Into(x, field, value)
           out(x) == OutOf(x, field, value)
<1>1. /\ DOMAIN u.history = 1..(n + 1)
      /\ u.history[n + 1] = e
      /\ \A i \in 1..n : u.history[i] = t.history[i]
      /\ Column(u, field) = Column(s, field)
  BY LoggedShape DEF Ticket
<1>2. n \in Nat /\ DOMAIN t.history = 1..n
  BY DEF Ticket
<1>3. /\ IsFiniteSet(in(t)) /\ Cardinality(in(t)) \in Nat
      /\ IsFiniteSet(out(t)) /\ Cardinality(out(t)) \in Nat
  BY EntriesAreFinite
<1> HIDE DEF u, n
<1>4. (n + 1) \notin 1..n /\ 1..(n + 1) = (1..n) \cup {n + 1}
  BY <1>2
<1>5. in(u) = in(t) \cup {i \in {n + 1} : e.field = field /\ e.new = value}
  BY <1>1, <1>2, <1>4 DEF Into
<1>6. out(u) = out(t) \cup {i \in {n + 1} : e.field = field /\ e.old = value}
  BY <1>1, <1>2, <1>4 DEF OutOf
<1>7. (n + 1) \notin in(t) /\ (n + 1) \notin out(t)
  BY <1>2, <1>4 DEF Into, OutOf
<1>8. Cardinality(in(u)) = Cardinality(in(t)) + One(e.field = field /\ e.new = value)
  <2>1. CASE e.field = field /\ e.new = value
    <3>1. in(u) = in(t) \cup {n + 1}
      BY <1>5, <2>1
    <3>2. Cardinality(in(u)) = Cardinality(in(t)) + 1
      BY <1>3, <1>7, <3>1, FS_AddElement
    <3>3. QED
      BY <2>1, <3>2 DEF One
  <2>2. CASE ~(e.field = field /\ e.new = value)
    <3>1. in(u) = in(t)
      BY <1>5, <2>2
    <3>2. QED
      BY <1>3, <2>2, <3>1 DEF One
  <2>3. QED
    BY <2>1, <2>2
<1>9. Cardinality(out(u)) = Cardinality(out(t)) + One(e.field = field /\ e.old = value)
  <2>1. CASE e.field = field /\ e.old = value
    <3>1. out(u) = out(t) \cup {n + 1}
      BY <1>6, <2>1
    <3>2. Cardinality(out(u)) = Cardinality(out(t)) + 1
      BY <1>3, <1>7, <3>1, FS_AddElement
    <3>3. QED
      BY <2>1, <3>2 DEF One
  <2>2. CASE ~(e.field = field /\ e.old = value)
    <3>1. out(u) = out(t)
      BY <1>6, <2>2
    <3>2. QED
      BY <1>3, <2>2, <3>1 DEF One
  <2>3. QED
    BY <2>1, <2>2
<1>10. One(e.field = field /\ e.new = value) + One(Column(t, field) = value)
         = One(e.field = field /\ e.old = value) + One(Column(u, field) = value)
  <2>1. CASE e.field = field
    <3>1. Column(t, field) = e.old /\ Column(u, field) = e.new
      BY <1>1, <2>1 DEF Amends
    <3>2. QED
      BY <2>1, <3>1 DEF One
  <2>2. CASE e.field # field
    <3>1. Column(u, field) = Column(t, field)
      BY <1>1, <2>2 DEF Amends
    <3>2. QED
      BY <2>2, <3>1 DEF One
  <2>3. QED
    BY <2>1, <2>2
<1>11. PICK a, b, c, d, x, y, z \in Int :
          /\ a = Cardinality(in(t)) /\ b = Cardinality(out(t))
          /\ c = One(e.field = field /\ e.new = value)
          /\ d = One(e.field = field /\ e.old = value)
          /\ x = One(Column(t, field) = value) /\ y = One(Column(u, field) = value)
          /\ z = One(Column(InitialTicket, field) = value)
  BY <1>3 DEF One
<1>12. a + z = b + x
  BY <1>11 DEF Balanced
<1>13. (a + c) + z = (b + d) + y
  BY <1>10, <1>11, <1>12
<1>14. QED
  BY <1>8, <1>9, <1>11, <1>13 DEF Balanced, u

LEMMA LoggedAccounts ==
    ASSUME NEW t \in Ticket, NEW s \in Ticket, NEW e \in Entry, Amends(t, s, e), Accounted(t)
    PROVE  Accounted(Logged(s, e))
<1> DEFINE u == Logged(s, e)
           n == Len(t.history)
<1>1. /\ u.version = t.version + 1
      /\ Len(u.history) = n + 1
      /\ DOMAIN u.history = 1..(n + 1)
      /\ u.history[n + 1] = e
      /\ \A i \in 1..n : u.history[i] = t.history[i]
  BY LoggedShape DEF Ticket
<1>2. n \in Nat /\ DOMAIN t.history = 1..n /\ t.version = 1 + n
  BY DEF Ticket, Accounted
<1> HIDE DEF u, n
<1>3. u.version = 1 + Len(u.history)
  BY <1>1, <1>2
<1>4. \A i \in DOMAIN u.history : u.history[i].new # u.history[i].old
  <2>1. \A i \in 1..(n + 1) : i \in 1..n \/ i = n + 1
    BY <1>2
  <2>2. QED
    BY <1>1, <1>2, <2>1 DEF Accounted, Amends
<1>5. \A field \in Fields, value \in Value : Balanced(u, field, value)
  BY LoggedBalances DEF Accounted, u
<1>6. QED
  BY <1>3, <1>4, <1>5 DEF Accounted, u

(***************************************************************************)
(* When the transactions began: no later than the change before theirs,    *)
(* and exactly then for a user's change of the status.                     *)
(***************************************************************************)
StampedAt(e, version) ==
    /\ e.at <= version
    /\ e.field = "status" /\ e.by # System => e.at = version

Stamped(t) == \A i \in DOMAIN t.history : StampedAt(t.history[i], i)

LEMMA LoggedStamps ==
    ASSUME NEW t \in Ticket, NEW s \in Ticket, NEW e \in Entry, Amends(t, s, e),
           t.version = 1 + Len(t.history), StampedAt(e, t.version), Stamped(t)
    PROVE  Stamped(Logged(s, e))
<1> DEFINE u == Logged(s, e)
           n == Len(t.history)
<1>1. /\ DOMAIN u.history = 1..(n + 1)
      /\ u.history[n + 1] = e
      /\ \A i \in 1..n : u.history[i] = t.history[i]
  BY LoggedShape DEF Ticket
<1>2. n \in Nat /\ DOMAIN t.history = 1..n /\ t.version = n + 1
  BY DEF Ticket
<1> HIDE DEF u, n
<1>3. \A i \in 1..(n + 1) : i \in 1..n \/ i = n + 1
  BY <1>2
<1>4. QED
  BY <1>1, <1>2, <1>3 DEF Stamped, u

LEMMA LoggedResolves ==
    ASSUME NEW t \in Ticket, NEW s \in Ticket, NEW e \in Entry, Amends(t, s, e),
           t.version = 1 + Len(t.history), Resolved(t)
    PROVE  Resolved(Logged(s, e))
<1> DEFINE u == Logged(s, e)
           n == Len(t.history)
<1>1. /\ DOMAIN u.history = 1..(n + 1)
      /\ u.history[n + 1] = e
      /\ \A i \in 1..n : u.history[i] = t.history[i]
      /\ u.resolvedAt = IF e.field = "status" THEN ResolvedAt(t, e.new) ELSE t.resolvedAt
  BY LoggedShape DEF Ticket, Amends
<1>2. n \in Nat /\ DOMAIN t.history = 1..n /\ t.version = n + 1
  BY DEF Ticket
<1>3. e.field = "status" => e.new \in Status
  BY DEF Amends, Column, Ticket
<1> HIDE DEF u, n
<1>4. ASSUME NEW i \in 1..n
      PROVE  Standing(u, i) <=> Standing(t, i) /\ (e.field = "status" => e.new = "closed")
  <2>1. n + 1 > i /\ i \in 1..(n + 1) /\ \A k \in 1..(n + 1) : k \in 1..n \/ k = n + 1
    BY <1>2
  <2>2. \A k \in 1..n : k \in 1..(n + 1)
    BY <1>2
  <2>3. n + 1 \in 1..(n + 1)
    BY <1>2
  <2>4. QED
    BY <1>1, <1>2, <2>1, <2>2, <2>3 DEF Standing
<1>5. Standing(u, n + 1) <=> e.field = "status" /\ e.new = "resolved"
  <2>1. n + 1 \in 1..(n + 1) /\ \A k \in 1..(n + 1) : ~(k > n + 1)
    BY <1>2
  <2>2. QED
    BY <1>1, <2>1 DEF Standing
<1>6. \A i \in 1..(n + 1) : i \in 1..n \/ i = n + 1
  BY <1>2
<1>7. n + 1 \in 1..(n + 1) /\ \A i \in 1..n : i \in 1..(n + 1)
  BY <1>2
<1>8. CASE e.field = "status" /\ e.new = "resolved"
  <2>1. u.resolvedAt = (n + 1) + 1
    BY <1>1, <1>2, <1>8 DEF ResolvedAt, Active
  <2>2. QED
    BY <1>1, <1>5, <1>7, <1>8, <2>1 DEF Resolved, u
<1>9. CASE e.field = "status" /\ e.new \in Active
  <2>1. u.resolvedAt = 0
    BY <1>1, <1>9 DEF ResolvedAt, Active
  <2>2. \A i \in 1..(n + 1) : ~Standing(u, i)
    BY <1>4, <1>5, <1>6, <1>9 DEF Active
  <2>3. QED
    BY <1>1, <2>1, <2>2 DEF Resolved, u
<1>10. CASE e.field = "status" => e.new = "closed"
  <2>1. u.resolvedAt = t.resolvedAt
    BY <1>1, <1>10 DEF ResolvedAt, Active
  <2>2. \A i \in 1..n : Standing(u, i) <=> Standing(t, i)
    BY <1>4, <1>10
  <2>3. ~Standing(u, n + 1)
    BY <1>5, <1>10
  <2>4. QED
    BY <1>1, <1>2, <1>6, <1>7, <2>1, <2>2, <2>3 DEF Resolved, u
<1>11. QED
  BY <1>3, <1>8, <1>9, <1>10 DEF Status, Active

(***************************************************************************)
(* The version identifies the row: a writer either leaves the row as it is *)
(* or takes a version that no earlier row had, none reopens a closed       *)
(* ticket, and the history stays that of the row.                          *)
(***************************************************************************)
Recorded(t) == Accounted(t) /\ Resolved(t) /\ Stamped(t)

Wrote(t, u) ==
    /\ u \in Ticket
    /\ RowOf(u) = RowOf(t) \/ u.version > t.version
    /\ t.status = "closed" => u.status = "closed"
    /\ Recorded(t) => Recorded(u)

LEMMA WroteNothing == \A t \in Ticket : Wrote(t, t)
BY DEF Wrote, Ticket

LEMMA WroteTwice ==
    ASSUME NEW t, NEW u, NEW v, t \in Ticket, Wrote(t, u), Wrote(u, v)
    PROVE  Wrote(t, v)
<1>1. t.version \in Nat /\ u.version \in Nat /\ v.version \in Nat
  BY DEF Wrote, Ticket
<1>2. RowOf(v) = RowOf(u) => v.version = u.version
  BY DEF RowOf
<1>3. RowOf(u) = RowOf(t) => u.version = t.version
  BY DEF RowOf
<1>4. QED
  BY <1>1, <1>2, <1>3 DEF Wrote

LEMMA LogWrites ==
    ASSUME NEW t \in Ticket, NEW s \in Ticket, NEW e \in Entry, Amends(t, s, e),
           t.status = "closed" => s.status = "closed", StampedAt(e, t.version)
    PROVE  Wrote(t, Log(s, e.field, e.old, e.new, e.by, e.at))
<1>1. e = [field |-> e.field, old |-> e.old, new |-> e.new, by |-> e.by, at |-> e.at]
  BY DEF Entry
<1>2. Log(s, e.field, e.old, e.new, e.by, e.at) = Logged(s, e)
  BY <1>1 DEF Log, Logged
<1>3. /\ Logged(s, e) \in Ticket
      /\ Logged(s, e).version = t.version + 1
      /\ Logged(s, e).status = s.status
  BY LoggedShape
<1>4. t.version + 1 > t.version
  BY DEF Ticket
<1>5. Recorded(t) => Recorded(Logged(s, e))
  <2> SUFFICES ASSUME Recorded(t) PROVE Recorded(Logged(s, e))
    OBVIOUS
  <2>1. t.version = 1 + Len(t.history)
    BY DEF Recorded, Accounted
  <2>2. QED
    BY <2>1, LoggedAccounts, LoggedResolves, LoggedStamps DEF Recorded
<1>6. QED
  BY <1>2, <1>3, <1>4, <1>5 DEF Wrote

LEMMA SetStatusWrites ==
    ASSUME NEW t \in Ticket, NEW to \in Status, NEW by \in Users \cup {System},
           NEW at \in Nat, at <= t.version, by = System \/ at = t.version,
           StatusAllowed(t, to)
    PROVE  Wrote(t, SetStatus(t, to, by, at))
<1>1. CASE t.status = to
  BY <1>1, WroteNothing DEF SetStatus
<1>2. CASE t.status # to
  <2> DEFINE s == [t EXCEPT !.status = to, !.resolvedAt = ResolvedAt(t, to)]
             e == [field |-> "status", old |-> t.status, new |-> to,
                   by |-> by, at |-> at]
  <2>1. ResolvedAt(t, to) \in Nat
    <3>1. t.version + 1 \in Nat /\ t.resolvedAt \in Nat
      BY DEF Ticket
    <3>2. to = "resolved" \/ to \in Active \/ to = "closed"
      BY DEF Status, Active
    <3>3. QED
      BY <3>1, <3>2 DEF ResolvedAt, Active
  <2>2. /\ s \in Ticket /\ s.version = t.version /\ s.history = t.history
        /\ s.status = to /\ s.resolvedAt = ResolvedAt(t, to)
        /\ s.priority = t.priority /\ s.assignee = t.assignee /\ s.flagged = t.flagged
    BY <2>1 DEF Ticket
  <2>3. /\ e \in Entry
        /\ e.field = "status" /\ e.old = t.status /\ e.new = to
        /\ StampedAt(e, t.version)
    BY DEF Entry, Fields, Value, Ticket, StampedAt
  <2>4. t.status # "closed"
    BY <1>2 DEF StatusAllowed, CanTransitionTo, Transitions, Status
  <2>5. SetStatus(t, to, by, at) = Log(s, e.field, e.old, e.new, e.by, e.at)
    BY <1>2 DEF SetStatus
  <2> HIDE DEF s, e
  <2>6. Amends(t, s, e)
    BY <1>2, <2>2, <2>3 DEF Amends, Column, Fields
  <2>7. QED
    BY <2>2, <2>3, <2>4, <2>5, <2>6, LogWrites
<1>3. QED
  BY <1>1, <1>2

LEMMA SetAssigneeWrites ==
    ASSUME NEW t \in Ticket, NEW user \in Staff \cup {NoOne}, NEW by \in Users \cup {System},
           NEW at \in Nat, at <= t.version
    PROVE  Wrote(t, SetAssignee(t, user, by, at))
<1>1. CASE t.assignee = user
  BY <1>1, WroteNothing DEF SetAssignee
<1>2. CASE t.assignee # user
  <2> DEFINE s == [t EXCEPT !.assignee = user]
             e == [field |-> "assigned_to", old |-> t.assignee, new |-> user,
                   by |-> by, at |-> at]
  <2>1. /\ s \in Ticket /\ s.version = t.version /\ s.history = t.history
        /\ s.assignee = user /\ s.resolvedAt = t.resolvedAt
        /\ s.status = t.status /\ s.priority = t.priority /\ s.flagged = t.flagged
    BY DEF Ticket
  <2>2. /\ e \in Entry
        /\ e.field = "assigned_to" /\ e.old = t.assignee /\ e.new = user
        /\ StampedAt(e, t.version)
    BY ConstantsAssumption DEF Entry, Fields, Value, Ticket, StampedAt
  <2>3. SetAssignee(t, user, by, at) = Log(s, e.field, e.old, e.new, e.by, e.at)
    BY <1>2 DEF SetAssignee
  <2> HIDE DEF s, e
  <2>4. Amends(t, s, e)
    BY <1>2, <2>1, <2>2 DEF Amends, Column, Fields
  <2>5. QED
    BY <2>1, <2>2, <2>3, <2>4, LogWrites
<1>3. QED
  BY <1>1, <1>2

LEMMA SetPriorityWrites ==
    ASSUME NEW t \in Ticket, NEW priority \in Priorities, NEW by \in Users \cup {System},
           NEW at \in Nat, at <= t.version
    PROVE  Wrote(t, SetPriority(t, priority, by, at))
<1>1. CASE t.priority = priority
  BY <1>1, WroteNothing DEF SetPriority
<1>2. CASE t.priority # priority
  <2> DEFINE s == [t EXCEPT !.priority = priority]
             e == [field |-> "priority", old |-> t.priority, new |-> priority,
                   by |-> by, at |-> at]
  <2>1. /\ s \in Ticket /\ s.version = t.version /\ s.history = t.history
        /\ s.priority = priority /\ s.resolvedAt = t.resolvedAt
        /\ s.status = t.status /\ s.assignee = t.assignee /\ s.flagged = t.flagged
    BY DEF Ticket
  <2>2. /\ e \in Entry
        /\ e.field = "priority" /\ e.old = t.priority /\ e.new = priority
        /\ StampedAt(e, t.version)
    BY DEF Entry, Fields, Value, Ticket, StampedAt
  <2>3. SetPriority(t, priority, by, at) = Log(s, e.field, e.old, e.new, e.by, e.at)
    BY <1>2 DEF SetPriority
  <2> HIDE DEF s, e
  <2>4. Amends(t, s, e)
    BY <1>2, <2>1, <2>2 DEF Amends, Column, Fields
  <2>5. QED
    BY <2>1, <2>2, <2>3, <2>4, LogWrites
<1>3. QED
  BY <1>1, <1>2

\* A writer takes no version back.
LEMMA WroteLater ==
    ASSUME NEW t \in Ticket, NEW u, Wrote(t, u)
    PROVE  u \in Ticket /\ \A at \in Nat : at <= t.version => at <= u.version
<1>1. t.version \in Nat /\ u.version \in Nat /\ u \in Ticket
  BY DEF Wrote, Ticket
<1>2. RowOf(u) = RowOf(t) => u.version = t.version
  BY DEF RowOf
<1>3. QED
  BY <1>1, <1>2 DEF Wrote

LEMMA RuleWrites ==
    ASSUME NEW t \in Ticket, NEW rule \in Rule, Applicable(rule, t),
           NEW at \in Nat, at <= t.version
    PROVE  Wrote(t, Applied(rule, t, at))
<1> DEFINE t1 == IF rule.setStatus = Keep THEN t ELSE SetStatus(t, rule.setStatus, System, at)
           t2 == IF rule.setPriority = Keep THEN t1
                 ELSE SetPriority(t1, rule.setPriority, System, at)
           t3 == IF rule.assignTo = Keep THEN t2 ELSE SetAssignee(t2, rule.assignTo, System, at)
<1>1. Wrote(t, t1)
  BY WroteNothing, SetStatusWrites DEF Applicable, Rule
<1>2. t1 \in Ticket /\ at <= t1.version
  BY <1>1, WroteLater
<1> HIDE DEF t1
<1>3. Wrote(t1, t2)
  BY <1>2, WroteNothing, SetPriorityWrites DEF Rule
<1>4. t2 \in Ticket /\ at <= t2.version
  BY <1>2, <1>3, WroteLater
<1> HIDE DEF t2
<1>5. Wrote(t2, t3)
  BY <1>4, WroteNothing, SetAssigneeWrites DEF Applicable, Rule
<1> HIDE DEF t3
<1>6. Wrote(t, t3)
  BY <1>1, <1>2, <1>3, <1>5, WroteTwice
<1>7. QED
  BY <1>6 DEF Applied, t1, t2, t3

(***************************************************************************)
(* The strengthening: a row seen earlier has an earlier version or is the  *)
(* row as it is.                                                           *)
(***************************************************************************)
Past(row, t) ==
    /\ row.version <= t.version
    /\ row.version = t.version => row = RowOf(t)

RowsArePast ==
    /\ \A u \in Users : Past(screen[u].loaded, ticket)
    /\ \A u \in Users : req[u] # NoRequest =>
         /\ Past(req[u].read, ticket)
         /\ req[u].versioned => screen[u].loaded.version = req[u].read.version

Inv == TypeOK /\ RowsArePast /\ Recorded(ticket)

LEMMA RowOfType == \A t \in Ticket : RowOf(t) \in Row
BY DEF Ticket, Row, RowOf

LEMMA StaysPast ==
    ASSUME NEW row \in Row, NEW t \in Ticket, NEW u, Wrote(t, u), Past(row, t)
    PROVE  Past(row, u)
<1>1. row.version \in Nat /\ t.version \in Nat /\ u.version \in Nat
  BY DEF Row, Ticket, Wrote
<1>2. RowOf(u) = RowOf(t) => u.version = t.version
  BY DEF RowOf
<1>3. QED
  BY <1>1, <1>2 DEF Past, Wrote

LEMMA InitInv == Init => Inv
<1> SUFFICES ASSUME Init PROVE Inv
  OBVIOUS
<1>1. InitialTicket \in Ticket
  BY ConstantsAssumption DEF InitialTicket, Ticket, Status
<1>2. TypeOK
  BY <1>1, RowOfType DEF Init, TypeOK, Status, Request, Job, InitialTicket
<1>3. RowsArePast
  BY <1>1 DEF Init, RowsArePast, Past, RowOf, Ticket
<1>4. Recorded(ticket)
  <2>1. /\ ticket = InitialTicket /\ ticket.history = <<>>
        /\ ticket.version = 1 /\ ticket.resolvedAt = 0
    BY DEF Init, InitialTicket
  <2>2. Len(ticket.history) = 0 /\ DOMAIN ticket.history = {}
    BY <2>1
  <2>3. ASSUME NEW field \in Fields, NEW value \in Value
        PROVE  Balanced(ticket, field, value)
    <3>1. Into(ticket, field, value) = {} /\ OutOf(ticket, field, value) = {}
      BY <2>2 DEF Into, OutOf
    <3>2. QED
      BY <2>1, <3>1 DEF Balanced
  <2>4. Accounted(ticket)
    BY <2>1, <2>2, <2>3 DEF Accounted
  <2>5. QED
    BY <2>1, <2>2, <2>4 DEF Recorded, Resolved, Stamped
<1>5. QED
  BY <1>2, <1>3, <1>4 DEF Inv

LEMMA RulesType == \A i \in Nat \ {0} : i <= Len(Rules) => Rules[i] \in Rule
BY ConstantsAssumption

LEMMA BeganBefore ==
    ASSUME ticket \in Ticket, NEW since \in Nat, NEW at \in Began(since)
    PROVE  at \in Nat /\ at <= ticket.version
BY DEF Began, Ticket

\* Every step writes the ticket in one of the ways above.
LEMMA NextWrites ==
    ASSUME Inv, [Next]_vars
    PROVE  Wrote(ticket, ticket')
<1>1. ticket \in Ticket
  BY DEF Inv, TypeOK
<1>2. CASE UNCHANGED ticket
  BY <1>1, <1>2, WroteNothing
<1>3. ASSUME NEW u \in Users, UpdateStatus(u)
      PROVE  Wrote(ticket, ticket')
  <2>1. req[u].to \in Status /\ req[u].read.version = ticket.version
    BY <1>3 DEF UpdateStatus, StillAsRead, Inv, TypeOK, Request, NoRequest
  <2>2. PICK at \in Began(req[u].read.version) : ticket' = SetStatus(ticket, req[u].to, u, at)
    BY <1>3 DEF UpdateStatus
  <2>3. at \in Nat /\ at <= ticket.version /\ at = ticket.version
    BY <1>1, <2>1, <2>2 DEF Began, Ticket
  <2>4. StatusAllowed(ticket, req[u].to)
    BY <1>3 DEF UpdateStatus
  <2>5. QED
    BY <1>1, <2>1, <2>2, <2>3, <2>4, SetStatusWrites
<1>4. ASSUME NEW u \in Users, NEW user \in Users \cup {NoOne}, Assign(u, user)
      PROVE  Wrote(ticket, ticket')
  <2>1. PICK at \in Began(booted) : ticket' = SetAssignee(ticket, user, u, at)
    BY <1>4 DEF Assign
  <2>2. user \in Staff \cup {NoOne}
    BY <1>4 DEF Assign
  <2>3. QED
    BY <1>1, <2>1, <2>2, BeganBefore, SetAssigneeWrites DEF Inv, TypeOK
<1>5. CASE FlagBreach
  <2>1. PICK at \in Began(booted) :
          ticket' = Log([ticket EXCEPT !.flagged = TRUE],
                        "sla_breached", "false", "true", System, at)
    BY <1>5 DEF FlagBreach
  <2>2. at \in Nat /\ at <= ticket.version
    BY <1>1, BeganBefore DEF Inv, TypeOK
  <2> DEFINE s == [ticket EXCEPT !.flagged = TRUE]
             e == [field |-> "sla_breached", old |-> "false", new |-> "true",
                   by |-> System, at |-> at]
  <2>3. /\ s \in Ticket /\ s.version = ticket.version /\ s.history = ticket.history
        /\ s.flagged = TRUE /\ s.resolvedAt = ticket.resolvedAt
        /\ s.status = ticket.status /\ s.priority = ticket.priority
        /\ s.assignee = ticket.assignee
    BY <1>1 DEF Ticket
  <2>4. /\ e \in Entry
        /\ e.field = "sla_breached" /\ e.old = "false" /\ e.new = "true"
        /\ StampedAt(e, ticket.version)
    BY <2>2 DEF Entry, Fields, Value, StampedAt
  <2>5. ticket' = Log(s, e.field, e.old, e.new, e.by, e.at)
    BY <2>1
  <2>6. ~ticket.flagged
    BY <1>5 DEF FlagBreach
  <2> HIDE DEF s, e
  <2>7. Amends(ticket, s, e)
    BY <2>3, <2>4, <2>6 DEF Amends, Column, Fields
  <2>8. QED
    BY <1>1, <2>3, <2>4, <2>5, <2>7, LogWrites
<1>6. ASSUME NEW j \in Jobs, RunRule(j)
      PROVE  Wrote(ticket, ticket')
  <2>1. job[j].next \in Nat \ {0} /\ job[j].next <= Len(Rules) /\ job[j].since \in Nat
    BY <1>6 DEF RunRule, Inv, TypeOK, Job, NoJob
  <2>2. PICK rule \in Rule : rule = Rules[job[j].next]
    BY <2>1, RulesType
  <2>3. CASE Matches(rule, j) /\ Applicable(rule, ticket)
    <3>1. PICK at \in Began(job[j].since) : ticket' = Applied(rule, ticket, at)
      BY <1>6, <2>2, <2>3 DEF RunRule
    <3>2. QED
      BY <1>1, <2>1, <2>3, <3>1, BeganBefore, RuleWrites
  <2>4. CASE ~(Matches(rule, j) /\ Applicable(rule, ticket))
    BY <1>1, <1>6, <2>2, <2>4, WroteNothing DEF RunRule
  <2>5. QED
    BY <2>3, <2>4
<1>7. QED
  BY <1>2, <1>3, <1>4, <1>5, <1>6
  DEF Next, vars, Load, ChangeRefused, ReadTicket, TakeSnapshot, EndEvaluation, Crash

LEMMA TypePreserved ==
    ASSUME Inv, [Next]_vars
    PROVE  TypeOK'
<1>1. ticket \in Ticket /\ ticket' \in Ticket /\ RowOf(ticket) \in Row
  BY NextWrites, RowOfType DEF Inv, TypeOK, Wrote
<1>2. screen' \in [Users -> [loaded : Row, status : Status]]
  <2>1. ASSUME NEW u \in Users, Load(u)
        PROVE  screen' \in [Users -> [loaded : Row, status : Status]]
    BY <1>1, <2>1 DEF Load, Inv, TypeOK, Ticket
  <2>2. ASSUME NEW u \in Users, UpdateStatus(u)
        PROVE  screen' \in [Users -> [loaded : Row, status : Status]]
    <3>1. req[u].to \in Status
      BY <2>2 DEF UpdateStatus, Inv, TypeOK, Request, NoRequest
    <3>2. QED
      BY <2>2, <3>1 DEF UpdateStatus, Inv, TypeOK
  <2>3. CASE UNCHANGED screen
    BY <2>3 DEF Inv, TypeOK
  <2>4. QED
    BY <2>1, <2>2, <2>3
    DEF Next, vars, ChangeRefused, ReadTicket, Assign, FlagBreach, TakeSnapshot, RunRule,
        EndEvaluation, Crash
<1>3. req' \in [Users -> Request]
  <2>1. ASSUME NEW u \in Users, NEW to \in Status, NEW versioned \in BOOLEAN,
               ReadTicket(u, to, versioned)
        PROVE  req' \in [Users -> Request]
    <3>1. [pc |-> "decided", to |-> to, versioned |-> versioned, read |-> RowOf(ticket)]
            \in Request
      BY <1>1 DEF Request
    <3>2. QED
      BY <2>1, <3>1 DEF ReadTicket, Inv, TypeOK
  <2>2. NoRequest \in Request
    BY DEF Request
  <2>3. ASSUME NEW u \in Users, UpdateStatus(u) \/ ChangeRefused(u)
        PROVE  req' \in [Users -> Request]
    BY <2>2, <2>3 DEF UpdateStatus, ChangeRefused, Inv, TypeOK
  <2>4. CASE Crash
    BY <2>2, <2>4 DEF Crash
  <2>5. CASE UNCHANGED req
    BY <2>5 DEF Inv, TypeOK
  <2>6. QED
    BY <2>1, <2>3, <2>4, <2>5
    DEF Next, vars, Load, Assign, FlagBreach, TakeSnapshot, RunRule, EndEvaluation
<1>4. job' \in [Jobs -> Job]
  <2>1. NoJob \in Job
    BY DEF Job
  <2>2. ASSUME NEW event \in Event, Spawn(event)
        PROVE  job' \in [Jobs -> Job]
    <3>1. [pc |-> "spawned", event |-> event] \in Job
      BY DEF Job
    <3>2. QED
      BY <2>2, <3>1 DEF Spawn, Inv, TypeOK
  <2>3. ASSUME NEW u \in Users, UpdateStatus(u)
        PROVE  job' \in [Jobs -> Job]
    <3>1. [trigger |-> "status_changed", newValue |-> req[u].to] \in Event
      BY <2>3 DEF UpdateStatus, Inv, TypeOK, Request, NoRequest, Event
    <3>2. QED
      BY <2>2, <2>3, <3>1 DEF UpdateStatus
  <2>4. CASE FlagBreach
    <3>1. [trigger |-> "sla_breach", newValue |-> "true"] \in Event
      BY DEF Event
    <3>2. QED
      BY <2>2, <2>4, <3>1 DEF FlagBreach
  <2>5. ASSUME NEW j \in Jobs, TakeSnapshot(j)
        PROVE  job' \in [Jobs -> Job]
    <3>1. job[j].event \in Event
      BY <2>5 DEF TakeSnapshot, Inv, TypeOK, Job, NoJob
    <3>2. [pc |-> "rules", event |-> job[j].event, snapshot |-> ticket.status, next |-> 1,
           since |-> ticket.version] \in Job
      BY <1>1, <3>1 DEF Job, Ticket
    <3>3. QED
      BY <2>5, <3>2 DEF TakeSnapshot, Inv, TypeOK
  <2>6. ASSUME NEW j \in Jobs, RunRule(j)
        PROVE  job' \in [Jobs -> Job]
    <3> DEFINE Evaluation == [pc : {"rules"}, event : Event, snapshot : Status,
                              next : Nat \ {0}, since : Nat]
    <3>1. job[j] \in Evaluation /\ ticket'.version \in Nat
      BY <1>1, <2>6 DEF RunRule, Inv, TypeOK, Job, NoJob, Ticket
    <3>2. [job[j] EXCEPT !.next = @ + 1, !.since = ticket'.version] \in Evaluation
      <4>1. [job[j] EXCEPT !.next = @ + 1] \in Evaluation
        BY <3>1
      <4>2. [[job[j] EXCEPT !.next = @ + 1] EXCEPT !.since = ticket'.version] \in Evaluation
        BY <3>1, <4>1
      <4>3. QED
        BY <3>1, <4>2
    <3>3. [job[j] EXCEPT !.next = @ + 1, !.since = ticket'.version] \in Job
      BY <3>1, <3>2 DEF Job
    <3>4. job' = [job EXCEPT ![j] = [job[j] EXCEPT !.next = @ + 1, !.since = ticket'.version]]
      BY <2>6 DEF RunRule, Inv, TypeOK
    <3>5. QED
      BY <3>3, <3>4 DEF Inv, TypeOK
  <2>7. ASSUME NEW j \in Jobs, EndEvaluation(j)
        PROVE  job' \in [Jobs -> Job]
    BY <2>1, <2>7 DEF EndEvaluation, Inv, TypeOK
  <2>8. CASE Crash
    BY <2>1, <2>8 DEF Crash
  <2>9. CASE UNCHANGED job
    BY <2>9 DEF Inv, TypeOK
  <2>10. QED
    BY <2>3, <2>4, <2>5, <2>6, <2>7, <2>8, <2>9
    DEF Next, vars, Load, ReadTicket, ChangeRefused, Assign
<1>5. booted' \in Nat
  BY <1>1 DEF Inv, TypeOK, Ticket, Next, vars, Load, UpdateStatus, ChangeRefused, ReadTicket,
              Assign, FlagBreach, TakeSnapshot, RunRule, EndEvaluation, Crash
<1>6. QED
  BY <1>1, <1>2, <1>3, <1>4, <1>5 DEF TypeOK

LEMMA PastPreserved ==
    ASSUME Inv, [Next]_vars
    PROVE  RowsArePast'
<1> DEFINE Seen(u) == Past(screen[u].loaded, ticket)
           Decided(u) == req[u] # NoRequest =>
             /\ Past(req[u].read, ticket)
             /\ req[u].versioned => screen[u].loaded.version = req[u].read.version
<1>1. /\ ticket \in Ticket /\ RowOf(ticket) \in Row
      /\ Past(RowOf(ticket), ticket)
      /\ \A u \in Users : screen[u].loaded \in Row /\ (req[u] # NoRequest => req[u].read \in Row)
  BY RowOfType DEF Inv, TypeOK, Past, RowOf, Ticket, Request
<1>2. \A row \in Row : Past(row, ticket) => Past(row, ticket')
  BY <1>1, NextWrites, StaysPast
<1>3. ASSUME NEW u \in Users
      PROVE  \/ screen'[u].loaded = screen[u].loaded
             \/ screen'[u].loaded = RowOf(ticket) /\ req'[u] = NoRequest
  <2>1. ASSUME NEW v \in Users, Load(v)
        PROVE  \/ screen'[u].loaded = screen[u].loaded
               \/ screen'[u].loaded = RowOf(ticket) /\ req'[u] = NoRequest
    BY <2>1 DEF Load, Inv, TypeOK
  <2>2. ASSUME NEW v \in Users, UpdateStatus(v)
        PROVE  screen'[u].loaded = screen[u].loaded
    BY <2>2 DEF UpdateStatus, Inv, TypeOK
  <2>3. CASE UNCHANGED screen
    BY <2>3
  <2>4. QED
    BY <2>1, <2>2, <2>3
    DEF Next, vars, ReadTicket, ChangeRefused, Assign, FlagBreach, TakeSnapshot, RunRule,
        EndEvaluation, Crash
<1>4. ASSUME NEW u \in Users
      PROVE  \/ req'[u] = NoRequest
             \/ req'[u] = req[u]
             \/ /\ req'[u].read = RowOf(ticket)
                /\ req'[u].versioned => screen[u].loaded.version = ticket.version
                /\ UNCHANGED <<ticket, screen>>
  <2>1. ASSUME NEW v \in Users, NEW to \in Status, NEW versioned \in BOOLEAN,
               ReadTicket(v, to, versioned)
        PROVE  \/ req'[u] = req[u]
               \/ /\ req'[u].read = RowOf(ticket)
                  /\ req'[u].versioned => screen[u].loaded.version = ticket.version
                  /\ UNCHANGED <<ticket, screen>>
    BY <2>1 DEF ReadTicket, ExpectedVersion, Inv, TypeOK
  <2>2. ASSUME NEW v \in Users, UpdateStatus(v) \/ ChangeRefused(v)
        PROVE  req'[u] = NoRequest \/ req'[u] = req[u]
    BY <2>2 DEF UpdateStatus, ChangeRefused, Inv, TypeOK
  <2>3. CASE Crash
    BY <2>3 DEF Crash
  <2>4. CASE UNCHANGED req
    BY <2>4
  <2>5. QED
    BY <2>1, <2>2, <2>3, <2>4
    DEF Next, vars, Load, Assign, FlagBreach, TakeSnapshot, RunRule, EndEvaluation
<1>5. ASSUME NEW u \in Users
      PROVE  Seen(u)'
  <2>1. Past(screen[u].loaded, ticket)
    BY DEF Inv, RowsArePast
  <2>2. QED
    BY <1>1, <1>2, <1>3, <2>1
<1>6. ASSUME NEW u \in Users
      PROVE  Decided(u)'
  <2> SUFFICES ASSUME req'[u] # NoRequest
               PROVE  /\ Past(req'[u].read, ticket')
                      /\ req'[u].versioned => screen'[u].loaded.version = req'[u].read.version
    OBVIOUS
  <2>1. screen'[u].loaded = screen[u].loaded
    BY <1>3
  <2>2. CASE req'[u] = req[u]
    BY <1>1, <1>2, <2>1, <2>2 DEF Inv, RowsArePast
  <2>3. CASE /\ req'[u].read = RowOf(ticket)
             /\ req'[u].versioned => screen[u].loaded.version = ticket.version
             /\ UNCHANGED <<ticket, screen>>
    BY <1>1, <1>2, <2>1, <2>3 DEF RowOf
  <2>4. QED
    BY <1>4, <2>2, <2>3
<1>7. QED
  BY <1>5, <1>6 DEF RowsArePast

LEMMA InvNext == Inv /\ [Next]_vars => Inv'
BY TypePreserved, PastPreserved, NextWrites DEF Inv, Wrote

LEMMA Invariant == Spec => []Inv
<1>1. QED
  BY InitInv, InvNext, PTL DEF Spec

(***************************************************************************)
(* The theorems                                                            *)
(***************************************************************************)
\* The row, its history, the requests and the evaluations keep their types; the
\* assignee is a member of the staff, whoever set it.
THEOREM TypeCorrect == Spec => []TypeOK
<1>1. Inv => TypeOK
  BY DEF Inv
<1>2. QED
  BY <1>1, Invariant, PTL

\* Whatever users, the worker and the rules did to the ticket, its history accounts
\* for the row, read in any order: one entry per version, each a real change, and
\* in every column only the present value was entered and not left again.
THEOREM HistoryAccountsForTheRow == Spec => []HistoryAccounts
<1>1. Inv => HistoryAccounts
  BY DEF Inv, Recorded, HistoryAccounts
<1>2. QED
  BY <1>1, Invariant, PTL

\* A user's change of the status carries a later time than every change committed
\* before it, however long the transactions of those had waited for the row.
THEOREM EditsComeLast == Spec => []EditsAreListedLast
<1>1. ASSUME Inv PROVE EditsAreListedLast
  <2>1. ticket.history \in Seq(Entry) /\ Stamped(ticket)
    BY <1>1 DEF Inv, TypeOK, Ticket, Recorded
  <2>2. ASSUME NEW i \in DOMAIN ticket.history, NEW j \in DOMAIN ticket.history, i < j,
               ticket.history[j].field = "status", ticket.history[j].by # System
        PROVE  ticket.history[i].at < ticket.history[j].at
    <3>1. ticket.history[i] \in Entry /\ i \in Nat /\ j \in Nat
      BY <2>1
    <3>2. ticket.history[i].at <= i /\ ticket.history[j].at = j
      BY <2>1, <2>2 DEF Stamped, StampedAt
    <3>3. QED
      BY <2>2, <3>1, <3>2 DEF Entry
  <2>3. QED
    BY <2>2 DEF EditsAreListedLast
<1>2. QED
  BY <1>1, Invariant, PTL

\* resolved_at is the stamp of the resolution that still stands, and NULL when
\* none does, also after reopenings and after closing.
THEOREM ResolutionTimeStands == Spec => []ResolutionStands
<1>1. Inv => ResolutionStands
  BY DEF Inv, Recorded, ResolutionStands
<1>2. QED
  BY <1>1, Invariant, PTL

\* No request, assignment, flag or rule takes a ticket out of closed.
THEOREM ClosedStaysClosed == Spec => ClosedIsFinal
<1>1. ASSUME Inv, [Next]_vars
      PROVE  [ticket.status = "closed" => ticket'.status = "closed"]_vars
  BY <1>1, NextWrites DEF Wrote
<1>2. QED
  BY <1>1, Invariant, PTL DEF Spec, ClosedIsFinal

\* Only the transaction of a request ends it and writes the history.
LEMMA ChangesOnlyInItsTransaction ==
    ASSUME Inv, [Next]_vars, NEW u \in Users, ChangesStatus(u)
    PROVE  UpdateStatus(u)
<1>1. ASSUME NEW v \in Users, UpdateStatus(v), v # u
      PROVE  FALSE
  BY <1>1 DEF UpdateStatus, ChangesStatus, Inv, TypeOK
<1>2. QED
  BY <1>1 DEF ChangesStatus, Next, vars, Load, ReadTicket, ChangeRefused, Assign, FlagBreach,
              TakeSnapshot, RunRule, EndEvaluation, Crash

\* The row that a status change is made on is the row it was decided on.
THEOREM DecisionsAreCurrent == Spec => DecidedOnThisRow
<1>1. ASSUME Inv, [Next]_vars, NEW u \in Users, ChangesStatus(u)
      PROVE  RowOf(ticket) = req[u].read
  <2>1. UpdateStatus(u)
    BY <1>1, ChangesOnlyInItsTransaction
  <2>2. req[u] # NoRequest /\ req[u].read.version = ticket.version
    BY <2>1 DEF UpdateStatus, StillAsRead, NoRequest
  <2>3. QED
    BY <1>1, <2>2 DEF Inv, RowsArePast, Past
<1>2. ASSUME Inv, [Next]_vars
      PROVE  [\A u \in Users : ChangesStatus(u) => RowOf(ticket) = req[u].read]_vars
  BY <1>1, <1>2
<1>3. QED
  BY <1>2, Invariant, PTL DEF Spec, DecidedOnThisRow

\* With the version in the request, it is also the row its user had loaded.
THEOREM VersionedEditsAreInformed == Spec => VersionedEditIsInformed
<1>1. ASSUME Inv, [Next]_vars, NEW u \in Users, ChangesStatus(u), req[u].versioned
      PROVE  RowOf(ticket) = screen[u].loaded
  <2>1. UpdateStatus(u)
    BY <1>1, ChangesOnlyInItsTransaction
  <2>2. req[u] # NoRequest /\ req[u].read.version = ticket.version
    BY <2>1 DEF UpdateStatus, StillAsRead, NoRequest
  <2>3. QED
    BY <1>1, <2>2 DEF Inv, RowsArePast, Past
<1>2. ASSUME Inv, [Next]_vars
      PROVE  [\A u \in Users : ChangesStatus(u) /\ req[u].versioned
                => RowOf(ticket) = screen[u].loaded]_vars
  BY <1>1, <1>2
<1>3. QED
  BY <1>2, Invariant, PTL DEF Spec, VersionedEditIsInformed
=============================================================================
