--------------------------- MODULE OutboundProofs ---------------------------
(***************************************************************************)
(* Proofs about what leaves the server: the mail of the outbox             *)
(* (EmailOutbox), for every number of emails and every set of workers,     *)
(* every attempt limit and every number of faults; and the streams of the  *)
(* hub (RealtimeHub), for any clients, events and buffer.                  *)
(***************************************************************************)
EXTENDS EmailOutbox, RealtimeHub, SequenceTheorems, TLAPS

Busy(w) == worker[w] # Waiting

\* What a worker carries is consistent with the row it claimed: the attempt is
\* one the row has reached, no two workers carry the same attempt of an email,
\* and a good result in hand means that the server has the mail.
Carried ==
    /\ \A w \in Workers : Busy(w) =>
         /\ row[worker[w].email].status # "absent"
         /\ worker[w].attempt <= row[worker[w].email].attempts
         /\ worker[w].ok => delivered[worker[w].email] > 0
    /\ \A v, w \in Workers :
         /\ Busy(v) /\ Busy(w)
         /\ worker[v].email = worker[w].email
         /\ worker[v].attempt = worker[w].attempt
         => v = w

Inv == TypeOK /\ Carried /\ SentMeansDelivered

(***************************************************************************)
(* Initial states and the shape of a worker's record                       *)
(***************************************************************************)
LEMMA InitInv == Init => Inv
BY DEF Init, Inv, TypeOK, Carried, SentMeansDelivered, Busy, Row, Status, Waiting

LEMMA BusyIsJob ==
    ASSUME TypeOK, NEW w \in Workers, worker[w] # Waiting
    PROVE  worker[w] \in Job
BY DEF TypeOK

LEMMA PhaseIsJob ==
    ASSUME TypeOK, NEW w \in Workers, worker[w].phase \in {"send", "finish"}
    PROVE  worker[w] \in Job /\ Busy(w)
BY DEF TypeOK, Waiting, Busy, Job

(***************************************************************************)
(* One lemma per kind of step                                              *)
(***************************************************************************)
LEMMA EnqueueInv == ASSUME Inv, NEW e \in Emails, Enqueue(e) PROVE Inv'
<1> USE DEF Inv
<1>1. row' \in [Emails -> Row]
  BY DEF Enqueue, TypeOK, Row, Status
<1>2. TypeOK'
  BY <1>1 DEF Enqueue, TypeOK
<1>3. \A w \in Workers : Busy(w) => worker[w].email # e /\ worker[w].email \in Emails
  BY BusyIsJob DEF Enqueue, Carried, Busy, Job
<1>4. \A d \in Emails : d # e => row'[d] = row[d]
  BY DEF Enqueue, TypeOK
<1>5. Carried'
  BY <1>3, <1>4 DEF Enqueue, Carried, Busy
<1>6. row'[e].status = "pending"
  BY DEF Enqueue, TypeOK
<1>7. SentMeansDelivered'
  BY <1>4, <1>6 DEF Enqueue, SentMeansDelivered
<1>8. QED
  BY <1>2, <1>5, <1>7

LEMMA ClaimInv ==
    ASSUME Inv, NEW w \in Workers, NEW e \in Emails, Claim(w, e) PROVE Inv'
<1> USE DEF Inv
<1>1. row[e] \in Row
  BY DEF TypeOK
<1>2. /\ row'[e].status = "sending"
      /\ row'[e].attempts = row[e].attempts + 1
      /\ row'[e] \in Row
  BY <1>1 DEF Claim, TypeOK, Row, Status
<1>3. \A d \in Emails : d # e => row'[d] = row[d]
  BY DEF Claim, TypeOK
<1>4. worker'[w] \in Job /\ worker'[w].email = e /\ ~worker'[w].ok
      /\ worker'[w].attempt = row[e].attempts + 1
  BY <1>1 DEF Claim, TypeOK, Job, Row
<1>5. \A v \in Workers : v # w => worker'[v] = worker[v]
  BY DEF Claim, TypeOK
<1>6. TypeOK'
  <2>1. row' \in [Emails -> Row]
    BY <1>2, <1>3 DEF Claim, TypeOK
  <2>2. worker' \in [Workers -> {Waiting} \cup Job]
    BY <1>4, <1>5 DEF Claim, TypeOK
  <2>3. QED
    BY <2>1, <2>2 DEF Claim, TypeOK
<1>7. \A v \in Workers : Busy(v) =>
        worker[v].email \in Emails /\ worker[v].attempt \in Nat /\ row[worker[v].email] \in Row
  BY BusyIsJob DEF Busy, Job, TypeOK
<1>8. \A v \in Workers : Busy(v)' =>
        /\ row'[worker'[v].email].status # "absent"
        /\ worker'[v].attempt <= row'[worker'[v].email].attempts
        /\ worker'[v].ok => delivered'[worker'[v].email] > 0
  <2> SUFFICES ASSUME NEW v \in Workers, Busy(v)'
               PROVE /\ row'[worker'[v].email].status # "absent"
                     /\ worker'[v].attempt <= row'[worker'[v].email].attempts
                     /\ worker'[v].ok => delivered'[worker'[v].email] > 0
    OBVIOUS
  <2>1. CASE v = w
    BY <1>1, <1>2, <1>4, <2>1 DEF Row
  <2>2. CASE v # w
    <3>1. Busy(v) /\ worker'[v] = worker[v] /\ delivered' = delivered
      BY <1>5, <2>2 DEF Busy, Claim
    <3>2. CASE worker[v].email = e
      BY <1>1, <1>2, <1>7, <3>1, <3>2 DEF Carried, Row
    <3>3. CASE worker[v].email # e
      BY <1>3, <1>7, <3>1, <3>3 DEF Carried
    <3>4. QED
      BY <3>2, <3>3
  <2>3. QED
    BY <2>1, <2>2
<1>9. \A v \in Workers : v # w /\ Busy(v) /\ worker[v].email = e
        => worker[v].attempt # worker'[w].attempt
  BY <1>1, <1>4, <1>7 DEF Carried, Row
<1>10. \A u, v \in Workers :
         /\ Busy(u)' /\ Busy(v)'
         /\ worker'[u].email = worker'[v].email
         /\ worker'[u].attempt = worker'[v].attempt
         => u = v
  BY <1>4, <1>5, <1>9 DEF Carried, Busy
<1>11. SentMeansDelivered'
  BY <1>2, <1>3 DEF Claim, SentMeansDelivered
<1>12. QED
  BY <1>6, <1>8, <1>10, <1>11 DEF Carried

\* The three ways a send ends.
LEMMA SendInv ==
    ASSUME Inv, NEW w \in Workers, Accepted(w) \/ Refused(w) \/ ReplyLost(w)
    PROVE  Inv'
<1> USE DEF Inv
<1>1. worker[w] \in Job /\ Busy(w)
  BY PhaseIsJob DEF Accepted, Refused, ReplyLost
<1> DEFINE e == worker[w].email
<1>2. e \in Emails
  BY <1>1 DEF Job
<1>3. /\ worker'[w] \in Job
      /\ worker'[w].email = e
      /\ worker'[w].attempt = worker[w].attempt
      /\ worker'[w].ok => Accepted(w)
  BY <1>1 DEF Accepted, Refused, ReplyLost, TypeOK, Job
<1>4. \A v \in Workers : v # w => worker'[v] = worker[v]
  BY DEF Accepted, Refused, ReplyLost, TypeOK
<1>5. /\ delivered' \in [Emails -> Nat]
      /\ \A d \in Emails : delivered[d] > 0 => delivered'[d] > 0
      /\ Accepted(w) => delivered'[e] > 0
  BY <1>2 DEF Accepted, Refused, ReplyLost, TypeOK
<1>6. TypeOK'
  <2>1. worker' \in [Workers -> {Waiting} \cup Job]
    BY <1>3, <1>4 DEF Accepted, Refused, ReplyLost, TypeOK
  <2>2. QED
    BY <1>5, <2>1 DEF Accepted, Refused, ReplyLost, TypeOK
<1>7. row' = row
  BY DEF Accepted, Refused, ReplyLost
<1>8. Carried'
  <2>1. \A v \in Workers : Busy(v)' => Busy(v)
    BY <1>1, <1>4 DEF Busy
  <2>2. \A v \in Workers : Busy(v) => worker[v].email \in Emails
    BY BusyIsJob DEF Busy, Job
  <2>3. \A v \in Workers : Busy(v) =>
          worker'[v].email = worker[v].email /\ worker'[v].attempt = worker[v].attempt
    BY <1>3, <1>4
  <2>4. \A v \in Workers : Busy(v)' /\ worker'[v].ok => delivered'[worker'[v].email] > 0
    BY <1>3, <1>4, <1>5, <2>1, <2>2 DEF Carried
  <2>5. QED
    BY <1>7, <2>1, <2>3, <2>4 DEF Carried
<1>9. SentMeansDelivered'
  BY <1>5, <1>7 DEF SentMeansDelivered
<1>10. QED
  BY <1>6, <1>8, <1>9

LEMMA FinishInv == ASSUME Inv, NEW w \in Workers, Finish(w) PROVE Inv'
<1> USE DEF Inv
<1>1. worker[w] \in Job /\ Busy(w)
  BY PhaseIsJob DEF Finish
<1> DEFINE e == worker[w].email
<1>2. e \in Emails /\ row[e] \in Row
  BY <1>1 DEF Job, TypeOK
<1>3. worker'[w] = Waiting /\ \A v \in Workers : v # w => worker'[v] = worker[v]
  BY DEF Finish, TypeOK
<1>4. /\ row'[e] \in Row
      /\ row'[e].attempts = row[e].attempts
      /\ row[e].status # "absent" => row'[e].status # "absent"
      /\ row'[e].status = "sent" => row[e].status = "sent" \/ worker[w].ok
  BY <1>2 DEF Finish, TypeOK, Row, Status, Outcome
<1>5. \A d \in Emails : d # e => row'[d] = row[d]
  BY <1>2 DEF Finish, TypeOK
<1>6. TypeOK'
  <2>1. row' \in [Emails -> Row]
    BY <1>4, <1>5 DEF Finish, TypeOK
  <2>2. worker' \in [Workers -> {Waiting} \cup Job]
    BY <1>3 DEF Finish, TypeOK
  <2>3. QED
    BY <2>1, <2>2 DEF Finish, TypeOK
<1>7. Carried'
  <2>1. \A v \in Workers : Busy(v)' => v # w /\ Busy(v) /\ worker'[v] = worker[v]
    BY <1>3 DEF Busy
  <2>2. \A v \in Workers : Busy(v) => worker[v].email \in Emails
    BY BusyIsJob DEF Busy, Job
  <2>3. \A d \in Emails : /\ row'[d].attempts = row[d].attempts
                          /\ row[d].status # "absent" => row'[d].status # "absent"
    BY <1>4, <1>5
  <2>4. delivered' = delivered
    BY DEF Finish
  <2>5. QED
    BY <2>1, <2>2, <2>3, <2>4 DEF Carried
<1>8. SentMeansDelivered'
  BY <1>1, <1>2, <1>4, <1>5 DEF Finish, SentMeansDelivered, Carried
<1>9. QED
  BY <1>6, <1>7, <1>8

\* The clock touches only the two flags of one row.
LEMMA ClockInv ==
    ASSUME Inv, NEW e \in Emails, ClockStep(e) \/ LeaseOverruns(e) PROVE Inv'
<1> USE DEF Inv, ClockStep, BackoffElapses, LeaseExpires, LeaseOverruns
<1>1. /\ row'[e] \in Row
      /\ row'[e].status = row[e].status
      /\ row'[e].attempts = row[e].attempts
  <2>1. row[e] \in Row /\ row \in [Emails -> Row]
    BY DEF TypeOK
  <2>2. \/ row'[e] = [row[e] EXCEPT !.ready = TRUE]
        \/ row'[e] = [row[e] EXCEPT !.leased = FALSE]
    BY <2>1
  <2>3. QED
    BY <2>1, <2>2 DEF Row
<1>2. \A d \in Emails : d # e => row'[d] = row[d]
  BY DEF TypeOK
<1>3. TypeOK'
  <2>1. row' \in [Emails -> Row]
    BY <1>1, <1>2 DEF TypeOK
  <2>2. QED
    BY <2>1 DEF TypeOK
<1>4. \A w \in Workers : Busy(w) => worker[w].email \in Emails
  BY BusyIsJob DEF Busy, Job
<1>5. Carried'
  BY <1>1, <1>2, <1>4 DEF Carried, Busy
<1>6. SentMeansDelivered'
  BY <1>1, <1>2 DEF SentMeansDelivered
<1>7. QED
  BY <1>3, <1>5, <1>6

LEMMA CrashInv == ASSUME Inv, NEW w \in Workers, Crash(w) PROVE Inv'
<1> USE DEF Inv, Crash
<1>1. worker'[w] = Waiting /\ \A v \in Workers : v # w => worker'[v] = worker[v]
  BY DEF TypeOK
<1>2. TypeOK'
  BY DEF TypeOK
<1>3. \A v \in Workers : Busy(v)' => Busy(v) /\ worker'[v] = worker[v]
  BY <1>1 DEF Busy
<1>4. Carried'
  BY <1>3 DEF Carried
<1>5. QED
  BY <1>2, <1>4 DEF SentMeansDelivered

LEMMA NextInv == Inv /\ [Next]_vars => Inv'
<1> SUFFICES ASSUME Inv, [Next]_vars PROVE Inv'
  OBVIOUS
<1>1. CASE UNCHANGED vars
  BY <1>1 DEF Inv, TypeOK, Carried, SentMeansDelivered, Busy, vars
<1>2. QED
  BY <1>1, EnqueueInv, ClaimInv, SendInv, FinishInv, ClockInv, CrashInv
     DEF Next, WorkerStep

LEMMA InvAlways == Spec => []Inv
BY InitInv, NextInv, PTL DEF Spec

(***************************************************************************)
(* Theorems                                                                *)
(***************************************************************************)
\* Every reachable state is well typed.
THEOREM TypeCorrect == Spec => []TypeOK
BY InvAlways, PTL DEF Inv

\* A row that says sent was handed to the mail server.
THEOREM NoInventedDelivery == Spec => []SentMeansDelivered
BY InvAlways, PTL DEF Inv

\* Of the workers that hold some attempt of an email, one can settle it.
THEOREM OneWorkerSettles == Spec => []OneSettler
<1>1. Inv => OneSettler
  BY DEF Inv, OneSettler, Carried, Busy, Fenced
<1>2. QED
  BY <1>1, InvAlways, PTL

\* No step of the system reopens or rewrites a settled email.
THEOREM SettledStaysSettled == Spec => SettledIsFinal
<1>1. TypeOK /\ [Next]_vars
        => [\A e \in Emails :
              row[e].status \in {"sent", "failed"} => row'[e].status = row[e].status]_vars
  <2> SUFFICES ASSUME TypeOK, Next, NEW e \in Emails, row[e].status \in {"sent", "failed"}
               PROVE  row'[e].status = row[e].status
    BY DEF vars
  <2>1. ASSUME NEW d \in Emails, Enqueue(d) PROVE row'[e].status = row[e].status
    BY <2>1 DEF Enqueue, TypeOK
  <2>2. ASSUME NEW d \in Emails, ClockStep(d) \/ LeaseOverruns(d)
        PROVE  row'[e].status = row[e].status
    BY <2>2 DEF ClockStep, BackoffElapses, LeaseExpires, LeaseOverruns, TypeOK
  <2>3. ASSUME NEW w \in Workers, NEW d \in Emails, Claim(w, d)
        PROVE  row'[e].status = row[e].status
    BY <2>3 DEF Claim, Claimable, TypeOK
  <2>4. ASSUME NEW w \in Workers, Accepted(w) \/ Refused(w) \/ ReplyLost(w) \/ Crash(w)
        PROVE  row'[e].status = row[e].status
    BY <2>4 DEF Accepted, Refused, ReplyLost, Crash
  <2>5. ASSUME NEW w \in Workers, Finish(w) PROVE row'[e].status = row[e].status
    <3>1. CASE Fenced(w)
      <4>1. worker[w].email # e
        BY <3>1 DEF Fenced
      <4>2. QED
        BY <2>5, <3>1, <4>1 DEF Finish, TypeOK
    <3>2. CASE ~Fenced(w)
      BY <2>5, <3>2 DEF Finish
    <3>3. QED
      BY <3>1, <3>2
  <2>6. QED
    BY <2>1, <2>2, <2>3, <2>4, <2>5 DEF Next, WorkerStep
<1>2. QED
  BY <1>1, TypeCorrect, PTL DEF Spec, SettledIsFinal

(***************************************************************************)
(* Refinement                                                              *)
(***************************************************************************)
\* A step that keeps every status keeps the state an operator sees.
LEMMA SameStates ==
    ASSUME \A d \in Emails : row'[d].status = row[d].status
    PROVE  [e \in Emails |-> StateOf(e)]' = [e \in Emails |-> StateOf(e)]
BY DEF StateOf

LEMMA RefinesInit == Init => Delivery!Init
BY DEF Init, Delivery!Init, StateOf

LEMMA RefinesNext == Inv /\ [Next]_vars => [Delivery!Next]_(Delivery!vars)
<1> SUFFICES ASSUME Inv, [Next]_vars PROVE [Delivery!Next]_(Delivery!vars)
  OBVIOUS
<1> USE DEF Inv
<1> DEFINE stateOf == [e \in Emails |-> StateOf(e)]
<1>1. ASSUME NEW e \in Emails, Enqueue(e) PROVE Delivery!Accept(e)
  <2>1. stateOf' = [stateOf EXCEPT ![e] = "queued"]
    BY <1>1 DEF Enqueue, StateOf, TypeOK
  <2>2. stateOf[e] = "absent"
    BY <1>1 DEF Enqueue, StateOf
  <2>3. QED
    BY <1>1, <2>1, <2>2 DEF Enqueue, Delivery!Accept
<1>2. ASSUME NEW w \in Workers, NEW e \in Emails, Claim(w, e)
      PROVE  UNCHANGED Delivery!vars
  <2>1. stateOf' = stateOf
    BY <1>2 DEF Claim, Claimable, StateOf, TypeOK
  <2>2. QED
    BY <1>2, <2>1 DEF Claim, Delivery!vars
<1>3. ASSUME NEW w \in Workers, Accepted(w) \/ ReplyLost(w)
      PROVE  \E e \in Emails : Delivery!Deliver(e)
  <2> DEFINE e == worker[w].email
  <2>1. e \in Emails /\ row[e].status # "absent"
    BY <1>3, PhaseIsJob DEF Accepted, ReplyLost, Carried, Job
  <2>2. stateOf' = stateOf /\ stateOf[e] # "absent"
    BY <1>3, <2>1 DEF Accepted, ReplyLost, StateOf
  <2>3. delivered' = [delivered EXCEPT ![e] = @ + 1]
    BY <1>3 DEF Accepted, ReplyLost
  <2>4. Delivery!Deliver(e)
    BY <2>2, <2>3 DEF Delivery!Deliver
  <2>5. QED
    BY <2>1, <2>4
<1>4. ASSUME NEW w \in Workers, Refused(w) \/ Crash(w)
      PROVE  UNCHANGED Delivery!vars
  BY <1>4 DEF Refused, Crash, StateOf, Delivery!vars
<1>5. ASSUME NEW w \in Workers, Finish(w)
      PROVE  \/ UNCHANGED Delivery!vars
             \/ \E e \in Emails : Delivery!Confirm(e) \/ Delivery!GiveUp(e)
  <2> DEFINE e == worker[w].email
  <2>1. e \in Emails /\ worker[w].ok \in BOOLEAN /\ (worker[w].ok => delivered[e] > 0)
    BY <1>5, PhaseIsJob DEF Finish, Carried, Job
  <2>2. CASE ~Fenced(w)
    BY <1>5, <2>2 DEF Finish, StateOf, Delivery!vars
  <2>3. CASE Fenced(w)
    <3>1. stateOf[e] = "queued" /\ delivered' = delivered
      BY <1>5, <2>1, <2>3 DEF Finish, Fenced, StateOf
    <3>2. row'[e].status = Outcome(w) /\ \A d \in Emails : d # e => row'[d] = row[d]
      BY <1>5, <2>1, <2>3 DEF Finish, TypeOK, Row
    <3>3. CASE Outcome(w) = "pending"
      <4>1. stateOf' = stateOf
        BY <2>1, <2>3, <3>2, <3>3 DEF StateOf, Fenced
      <4>2. QED
        BY <3>1, <4>1 DEF Delivery!vars
    <3>4. CASE Outcome(w) = "sent"
      <4>1. stateOf' = [stateOf EXCEPT ![e] = "sent"] /\ worker[w].ok
        BY <2>1, <3>2, <3>4 DEF StateOf, Outcome
      <4>2. Delivery!Confirm(e)
        BY <2>1, <3>1, <4>1 DEF Delivery!Confirm
      <4>3. QED
        BY <2>1, <4>2
    <3>5. CASE Outcome(w) = "failed"
      <4>1. stateOf' = [stateOf EXCEPT ![e] = "failed"]
        BY <2>1, <3>2, <3>5 DEF StateOf
      <4>2. Delivery!GiveUp(e)
        BY <3>1, <4>1 DEF Delivery!GiveUp
      <4>3. QED
        BY <2>1, <4>2
    <3>6. QED
      BY <3>3, <3>4, <3>5 DEF Outcome
  <2>4. QED
    BY <2>2, <2>3
<1>6. ASSUME NEW e \in Emails, ClockStep(e) \/ LeaseOverruns(e)
      PROVE  UNCHANGED Delivery!vars
  <2>1. \A d \in Emails : row'[d].status = row[d].status
    BY <1>6 DEF ClockStep, BackoffElapses, LeaseExpires, LeaseOverruns, TypeOK, Row
  <2>2. delivered' = delivered
    BY <1>6 DEF ClockStep, BackoffElapses, LeaseExpires, LeaseOverruns
  <2>3. QED
    BY <2>1, <2>2, SameStates DEF Delivery!vars
<1>7. CASE UNCHANGED vars
  BY <1>7 DEF vars, StateOf, Delivery!vars
<1>8. QED
  BY <1>1, <1>2, <1>3, <1>4, <1>5, <1>6, <1>7 DEF Next, WorkerStep, Delivery!Next

\* The outbox implements EmailDelivery: an accepted email is settled at most once,
\* reported sent only after the server took a copy, and never absent again.
THEOREM OutboxImplementsDelivery == Spec => ImplementsDelivery
BY RefinesInit, RefinesNext, InvAlways, PTL DEF Spec, ImplementsDelivery, Delivery!Spec

(***************************************************************************)
(* The hub.  A client that is not yet served has an open, empty channel    *)
(* and no goroutines; of one that is served, the messages it has read and  *)
(* those still in its channel are together what a beginning of the log     *)
(* means for it: all of the log as long as it is registered.               *)
(***************************************************************************)
Who == {NobodyYet} \cup UNION {Principals[c] : c \in Clients}

HubTypeOK ==
    /\ running \in BOOLEAN
    /\ registered \in SUBSET Clients
    /\ serve \in [Clients -> {"idle", "registering", "served"}]
    /\ who \in [Clients -> Who]
    /\ conn \in [Clients -> BOOLEAN]
    /\ open \in [Clients -> BOOLEAN]
    /\ send \in [Clients -> Seq(Events)]
    /\ reader \in [Clients -> {"off", "on", "leaving", "done"}]
    /\ writer \in [Clients -> {"off", "on", "done"}]
    /\ guard \in [Clients -> {"off", "on", "done"}]
    /\ revoked \in [Clients -> BOOLEAN]
    /\ posting \in SUBSET Events
    /\ log \in Seq(Events)
    /\ since \in [Clients -> Nat]
    /\ received \in [Clients -> Seq(Events)]

Unserved(c) ==
    /\ serve[c] # "served"
    /\ c \notin registered
    /\ open[c] = TRUE
    /\ reader[c] = "off" /\ writer[c] = "off"
    /\ send[c] = <<>> /\ received[c] = <<>>

Stream(c) == received[c] \o send[c]

Served(c) ==
    /\ serve[c] = "served"
    /\ open[c] <=> c \in registered
    /\ since[c] <= Len(log)
    /\ \E n \in 0..Len(log) : Reads(received[c], c, n)
    /\ \E n \in 0..Len(log) :
         Reads(Stream(c), c, n) /\ (c \in registered => n = Len(log))

Unposted == \A e \in posting : \A k \in DOMAIN log : log[k] # e

HubInv == HubTypeOK /\ Unposted /\ (\A c \in Clients : Unserved(c) \/ Served(c))

LEMMA HubInitial == HubInit => HubInv
<1> SUFFICES ASSUME HubInit PROVE HubInv
  OBVIOUS
<1>1. HubTypeOK
  BY DEF HubInit, HubTypeOK, Who
<1>2. Unposted /\ \A c \in Clients : Unserved(c)
  BY DEF HubInit, Unposted, Unserved
<1>3. QED
  BY <1>1, <1>2 DEF HubInv

(***************************************************************************)
(* What a beginning of the log means for a client.                         *)
(***************************************************************************)
LEMMA AppendLast ==
    ASSUME NEW S, NEW s \in Seq(S), NEW t \in Seq(S), NEW e \in S
    PROVE  s \o Append(t, e) = Append(s \o t, e)
<1>1. s \o t \in Seq(S) /\ <<e>> \in Seq(S)
  OBVIOUS
<1>2. Append(t, e) = t \o <<e>>
  BY AppendIsConcat
<1>3. Append(s \o t, e) = (s \o t) \o <<e>>
  BY <1>1, AppendIsConcat
<1>4. PICK u \in Seq(S) : u = <<e>>
  BY <1>1
<1>5. (s \o t) \o u = s \o (t \o u)
  BY ConcatAssociative
<1>6. QED
  BY <1>2, <1>3, <1>4, <1>5

LEMMA ReadsSame ==
    ASSUME NEW c \in Clients, UNCHANGED log, who'[c] = who[c], since'[c] = since[c],
           NEW s, NEW n, Reads(s, c, n)
    PROVE  Reads(s, c, n)'
<1>1. Meant(c)' = Meant(c)
  BY DEF Meant
<1>2. QED
  BY <1>1 DEF Reads

LEMMA ReadsNothing ==
    ASSUME NEW c \in Clients, log \in Seq(Events), UNCHANGED log, since'[c] = Len(log)
    PROVE  Reads(<<>>, c, Len(log))'
<1>1. \A k \in DOMAIN log : k <= Len(log)
  BY DEF HubTypeOK
<1>2. Meant(c)' = {}
  BY <1>1 DEF Meant
<1>3. DOMAIN <<>> = {}
  <2>1. <<>> \in Seq(Events) /\ Len(<<>>) = 0 /\ 1..0 = {}
    OBVIOUS
  <2>2. QED
    BY <2>1
<1>4. QED
  BY <1>2, <1>3 DEF Reads

LEMMA ReadsGrow ==
    ASSUME NEW c \in Clients, HubTypeOK, who'[c] = who[c], since'[c] = since[c],
           NEW e \in Events, log' = Append(log, e), \A k \in DOMAIN log : log[k] # e,
           NEW s \in Seq(Events), NEW n \in 0..Len(log), Reads(s, c, n)
    PROVE  /\ Len(log') = Len(log) + 1
           /\ Reads(s, c, n)'
           /\ n = Len(log) /\ ~IsFor(e, c) => Reads(s, c, n + 1)'
           /\ n = Len(log) /\ IsFor(e, c) /\ since[c] <= Len(log)
                => Reads(Append(s, e), c, n + 1)'
<1> DEFINE m == Len(log)
<1>1. /\ m \in Nat /\ DOMAIN log = 1..m /\ DOMAIN log' = 1..(m + 1) /\ Len(log') = m + 1
      /\ log'[m + 1] = e /\ \A k \in 1..m : log'[k] = log[k]
      /\ since[c] \in Nat
  BY DEF HubTypeOK
<1>2. n \in Nat /\ n <= m
  BY <1>1
<1> HIDE DEF m
<1>3. \A k : k \in Meant(c)' <=> \/ k \in Meant(c)
                                 \/ k = m + 1 /\ IsFor(e, c) /\ since[c] < m + 1
  <2>1. \A k : k \in 1..(m + 1) <=> k \in 1..m \/ k = m + 1
    BY <1>1
  <2>2. m + 1 > since[c] <=> since[c] < m + 1
    BY <1>1
  <2>3. QED
    BY <1>1, <2>1, <2>2 DEF Meant, IsFor
<1>4. \A k \in Meant(c) : k \in 1..m /\ k <= m /\ log'[k] = log[k] /\ k # m + 1
  BY <1>1 DEF Meant
<1>5. ~(m + 1 <= m)
  BY <1>1
<1>6. \A i \in DOMAIN s : \E k \in Meant(c) : k <= n /\ s[i] = log[k]
  BY DEF Reads
<1>7. \A k \in Meant(c) : k <= n => \E i \in DOMAIN s : s[i] = log[k]
  BY DEF Reads
<1>8. \A i, j \in DOMAIN s, k, l \in DOMAIN log' :
         i < j /\ s[i] = log'[k] /\ s[j] = log'[l] => k < l
  <2>1. \A i \in DOMAIN s : s[i] # e
    BY <1>1, <1>4, <1>6
  <2>2. \A i \in DOMAIN s, k \in DOMAIN log' :
           s[i] = log'[k] => k \in DOMAIN log /\ s[i] = log[k]
    BY <1>1, <2>1
  <2>3. \A i, j \in DOMAIN s, k, l \in DOMAIN log :
           i < j /\ s[i] = log[k] /\ s[j] = log[l] => k < l
    BY Zenon DEF Reads
  <2>4. ASSUME NEW i \in DOMAIN s, NEW j \in DOMAIN s, NEW k \in DOMAIN log', NEW l \in DOMAIN log',
               i < j, s[i] = log'[k], s[j] = log'[l]
        PROVE  k < l
    <3>1. k \in DOMAIN log /\ s[i] = log[k] /\ l \in DOMAIN log /\ s[j] = log[l]
      BY <2>2, <2>4
    <3>2. QED
      BY <2>3, <2>4, <3>1
  <2>5. QED
    BY <2>4
<1>9. Reads(s, c, n)'
  <2>1. \A i \in DOMAIN s : \E k \in Meant(c)' : k <= n /\ s[i] = log'[k]
    BY <1>3, <1>4, <1>6
  <2>2. \A k \in Meant(c)' : k <= n => k \in Meant(c)
    BY <1>1, <1>2, <1>3
  <2>3. \A k \in Meant(c)' : k <= n => \E i \in DOMAIN s : s[i] = log'[k]
    BY <1>4, <1>7, <2>2
  <2>4. QED
    BY <1>8, <2>1, <2>3, Zenon DEF Reads
<1>10. ASSUME n = m, ~IsFor(e, c)
       PROVE  Reads(s, c, n + 1)'
  <2>1. \A k : k \in Meant(c)' <=> k \in Meant(c)
    BY <1>3, <1>10
  <2>2. \A k \in Meant(c) : k <= n /\ k <= n + 1
    BY <1>1, <1>4, <1>10
  <2>3. \A i \in DOMAIN s : \E k \in Meant(c)' : k <= n + 1 /\ s[i] = log'[k]
    BY <1>4, <1>6, <2>1, <2>2
  <2>4. \A k \in Meant(c)' : \E i \in DOMAIN s : s[i] = log'[k]
    BY <1>4, <1>7, <2>1, <2>2
  <2>5. \A k \in Meant(c)' : k <= n + 1 => \E i \in DOMAIN s : s[i] = log'[k]
    BY <2>4
  <2>6. QED
    BY <1>8, <2>3, <2>5, Zenon DEF Reads
<1>11. ASSUME n = m, IsFor(e, c), since[c] <= m
       PROVE  Reads(Append(s, e), c, n + 1)'
  <2> DEFINE t == Append(s, e)
  <2>1. /\ DOMAIN s = 1..Len(s) /\ Len(s) \in Nat /\ DOMAIN t = 1..(Len(s) + 1)
        /\ t[Len(s) + 1] = e /\ \A i \in 1..Len(s) : t[i] = s[i]
    OBVIOUS
  <2> HIDE DEF t
  <2>2. \A i \in 1..(Len(s) + 1) : i \in 1..Len(s) \/ i = Len(s) + 1
    BY <2>1
  <2>3. /\ \A i \in 1..Len(s) : i \in 1..(Len(s) + 1)
        /\ Len(s) + 1 \in 1..(Len(s) + 1)
    BY <2>1
  <2>4. /\ \A k : k \in Meant(c)' <=> k \in Meant(c) \/ k = m + 1
        /\ \A k \in Meant(c) : k <= n /\ k <= n + 1
        /\ m + 1 <= n + 1
    BY <1>1, <1>3, <1>4, <1>11
  <2>5. \A i \in DOMAIN t : \E k \in Meant(c)' : k <= n + 1 /\ t[i] = log'[k]
    BY <1>1, <1>4, <1>6, <2>1, <2>2, <2>4
  <2>6. \A k \in Meant(c)' : \E i \in DOMAIN t : t[i] = log'[k]
    BY <1>1, <1>4, <1>7, <2>1, <2>3, <2>4
  <2>7. ASSUME NEW i \in DOMAIN t, NEW j \in DOMAIN t,
               NEW k \in DOMAIN log', NEW l \in DOMAIN log',
               i < j, t[i] = log'[k], t[j] = log'[l]
        PROVE  k < l
    <3>1. i \in 1..Len(s)
      BY <2>1, <2>2, <2>7
    <3>2. CASE j \in 1..Len(s)
      <4>1. i \in DOMAIN s /\ j \in DOMAIN s /\ t[i] = s[i] /\ t[j] = s[j]
        BY <2>1, <3>1, <3>2
      <4>2. QED
        BY <1>8, <2>7, <4>1
    <3>3. CASE j = Len(s) + 1
      <4>1. s[i] # e
        BY <1>1, <1>4, <1>6, <2>1, <3>1
      <4>2. k \in 1..m
        BY <1>1, <2>1, <2>7, <3>1, <4>1
      <4>3. l = m + 1
        BY <1>1, <2>1, <2>7, <3>3
      <4>4. QED
        BY <1>1, <4>2, <4>3
    <3>4. QED
      BY <2>1, <2>2, <3>2, <3>3
  <2>8. \A k \in Meant(c)' : k <= n + 1 => \E i \in DOMAIN t : t[i] = log'[k]
    BY <2>6
  <2>9. \A i, j \in DOMAIN t, k, l \in DOMAIN log' :
           i < j /\ t[i] = log'[k] /\ t[j] = log'[l] => k < l
    BY <2>7
  <2>10. Reads(t, c, n + 1)'
    BY <2>5, <2>8, <2>9, Zenon DEF Reads
  <2>11. QED
    BY <2>10 DEF t
<1>12. QED
  BY <1>1, <1>9, <1>10, <1>11, Zenon DEF m

(***************************************************************************)
(* Types                                                                   *)
(***************************************************************************)
LEMMA HubTypes == HubInv /\ [HubNext]_hubVars => HubTypeOK'
<1> SUFFICES ASSUME HubTypeOK, [HubNext]_hubVars PROVE HubTypeOK'
  BY DEF HubInv
<1>1. ASSUME NEW c \in Clients, ServeWs(c) PROVE HubTypeOK'
  BY <1>1 DEF ServeWs, HubTypeOK, Who
<1>2. ASSUME NEW c \in Clients, Register(c) PROVE HubTypeOK'
  <2>1. Len(log) \in Nat
    BY DEF HubTypeOK
  <2>2. QED
    BY <1>2, <2>1 DEF Register, HubTypeOK
<1>3. ASSUME NEW c \in Clients, Unregister(c) PROVE HubTypeOK'
  BY <1>3 DEF Unregister, Close, HubTypeOK
<1>4. ASSUME NEW c \in Clients, Hangup(c) \/ Revoke(c) PROVE HubTypeOK'
  BY <1>4 DEF Hangup, Revoke, Close, HubTypeOK
<1>5. ASSUME NEW c \in Clients, Write(c) PROVE HubTypeOK'
  <2>1. received[c] \o send[c] \in Seq(Events) /\ <<>> \in Seq(Events)
    BY DEF HubTypeOK
  <2>2. QED
    BY <1>5, <2>1 DEF Write, HubTypeOK
<1>6. ASSUME NEW c \in Clients, ReadFails(c) \/ ReaderLeaves(c) PROVE HubTypeOK'
  BY <1>6 DEF ReadFails, ReaderLeaves, Close, HubTypeOK
<1>7. ASSUME NEW c \in Clients, WriterLeaves(c) \/ GuardCloses(c) \/ GuardLeaves(c)
      PROVE  HubTypeOK'
  BY <1>7 DEF WriterLeaves, GuardCloses, GuardLeaves, Close, HubTypeOK
<1>8. ASSUME NEW e \in Events, Post(e) \/ PostGivesUp(e) PROVE HubTypeOK'
  BY <1>8 DEF Post, PostGivesUp, HubTypeOK
<1>9. ASSUME NEW e \in Events, Broadcast(e) PROVE HubTypeOK'
  <2>1. Append(log, e) \in Seq(Events) /\ \A c \in Clients : Append(send[c], e) \in Seq(Events)
    BY DEF HubTypeOK
  <2>2. send' \in [Clients -> Seq(Events)]
    BY <1>9, <2>1 DEF Broadcast, HubTypeOK
  <2>3. open' \in [Clients -> BOOLEAN]
    BY <1>9 DEF Broadcast, HubTypeOK
  <2>4. registered' \in SUBSET Clients
    BY <1>9 DEF Broadcast, HubTypeOK
  <2>5. QED
    BY <1>9, <2>1, <2>2, <2>3, <2>4 DEF Broadcast, HubTypeOK
<1>10. CASE Stop
  BY <1>10 DEF Stop, HubTypeOK
<1>11. CASE UNCHANGED hubVars
  BY <1>11 DEF hubVars, HubTypeOK
<1>12. QED
  BY <1>1, <1>2, <1>3, <1>4, <1>5, <1>6, <1>7, <1>8, <1>9, <1>10, <1>11
  DEF HubNext, Goroutines

(***************************************************************************)
(* The clients that a step leaves alone, or only cuts off.                 *)
(***************************************************************************)
LEMMA StaysServed ==
    ASSUME HubInv, NEW c \in Clients, Served(c), UNCHANGED log,
           who'[c] = who[c], since'[c] = since[c], serve'[c] = serve[c],
           received'[c] = received[c], send'[c] = send[c],
           c \in registered' => c \in registered, open'[c] <=> c \in registered'
    PROVE  Served(c)'
<1>1. PICK m \in 0..Len(log) : Reads(received[c], c, m)
  BY DEF Served
<1>2. PICK n \in 0..Len(log) : Reads(Stream(c), c, n) /\ (c \in registered => n = Len(log))
  BY DEF Served
<1>3. Reads(received[c], c, m)'
  <2>1. PICK s : s = received[c] /\ s = received'[c]
    OBVIOUS
  <2>2. Reads(s, c, m)
    BY <1>1, <2>1
  <2>3. Reads(s, c, m)'
    BY <2>2, ReadsSame
  <2>4. QED
    BY <2>1, <2>3
<1>4. Reads(Stream(c), c, n)'
  <2>1. PICK s : s = Stream(c) /\ s = Stream(c)'
    BY DEF Stream
  <2>2. Reads(s, c, n)
    BY <1>2, <2>1
  <2>3. Reads(s, c, n)'
    BY <2>2, ReadsSame
  <2>4. QED
    BY <2>1, <2>3
<1>5. QED
  BY <1>1, <1>2, <1>3, <1>4 DEF Served

LEMMA StaysUnserved ==
    ASSUME NEW c \in Clients, Unserved(c), serve'[c] # "served",
           registered' \subseteq registered, open'[c] = open[c], reader'[c] = reader[c],
           writer'[c] = writer[c], send'[c] = send[c], received'[c] = received[c]
    PROVE  Unserved(c)'
BY DEF Unserved

\* A step that leaves the streams and the set of clients alone.
Quiet ==
    /\ UNCHANGED <<registered, serve, who, open, send, log, since, received>>
    /\ \A c \in Clients : reader[c] = "off" => reader'[c] = reader[c]
    /\ \A c \in Clients : writer[c] = "off" => writer'[c] = writer[c]

LEMMA QuietKeeps ==
    ASSUME HubInv, HubTypeOK', Unposted', Quiet
    PROVE  HubInv'
<1>1. ASSUME NEW c \in Clients PROVE Unserved(c)' \/ Served(c)'
  <2>1. CASE Unserved(c)
    BY <2>1, StaysUnserved DEF Quiet, Unserved
  <2>2. CASE Served(c)
    <3>1. open[c] <=> c \in registered
      BY <2>2 DEF Served
    <3>2. QED
      BY <2>2, <3>1, StaysServed DEF Quiet
  <2>3. QED
    BY <2>1, <2>2 DEF HubInv
<1>2. QED
  BY <1>1 DEF HubInv

(***************************************************************************)
(* The steps.                                                              *)
(***************************************************************************)
LEMMA QuietSteps ==
    ASSUME HubInv,
           \/ UNCHANGED hubVars
           \/ \E c \in Clients : \/ Hangup(c) \/ Revoke(c) \/ ReadFails(c) \/ ReaderLeaves(c)
                                 \/ WriterLeaves(c) \/ GuardCloses(c) \/ GuardLeaves(c)
           \/ \E e \in Events : Post(e) \/ PostGivesUp(e)
    PROVE  Quiet /\ Unposted'
<1>1. Unposted
  BY DEF HubInv
<1>2. CASE UNCHANGED hubVars
  BY <1>1, <1>2 DEF hubVars, Quiet, Unposted
<1>3. ASSUME NEW c \in Clients,
             \/ Hangup(c) \/ Revoke(c) \/ ReadFails(c) \/ ReaderLeaves(c)
             \/ WriterLeaves(c) \/ GuardCloses(c) \/ GuardLeaves(c)
      PROVE  Quiet /\ Unposted'
  <2>1. UNCHANGED <<registered, serve, who, open, send, log, since, received, posting>>
    BY <1>3 DEF Hangup, Revoke, ReadFails, ReaderLeaves, WriterLeaves, GuardCloses, GuardLeaves
  <2>2. /\ reader' = reader \/ (reader[c] # "off" /\ \E v : reader' = [reader EXCEPT ![c] = v])
        /\ writer' = writer \/ (writer[c] # "off" /\ \E v : writer' = [writer EXCEPT ![c] = v])
    BY <1>3 DEF Hangup, Revoke, ReadFails, ReaderLeaves, WriterLeaves, GuardCloses, GuardLeaves
  <2>3. QED
    BY <1>1, <2>1, <2>2 DEF Quiet, Unposted, HubInv, HubTypeOK
<1>4. ASSUME NEW e \in Events, Post(e) \/ PostGivesUp(e)
      PROVE  Quiet /\ Unposted'
  BY <1>1, <1>4 DEF Post, PostGivesUp, Quiet, Unposted
<1>5. QED
  BY <1>2, <1>3, <1>4

LEMMA ServeWsKeeps ==
    ASSUME HubInv, HubTypeOK', NEW d \in Clients, ServeWs(d)
    PROVE  HubInv'
<1>1. /\ serve[d] = "idle" /\ serve'[d] = "registering"
      /\ \A c \in Clients : c # d => serve'[c] = serve[c] /\ who'[c] = who[c]
      /\ UNCHANGED <<registered, open, send, reader, writer, posting, log, since, received>>
  BY DEF ServeWs, HubInv, HubTypeOK
<1>2. ASSUME NEW c \in Clients PROVE Unserved(c)' \/ Served(c)'
  <2>1. CASE Unserved(c)
    BY <1>1, <2>1, StaysUnserved DEF Unserved
  <2>2. CASE Served(c)
    <3>1. c # d /\ (open[c] <=> c \in registered)
      BY <1>1, <2>2 DEF Served
    <3>2. QED
      BY <1>1, <2>2, <3>1, StaysServed
  <2>3. QED
    BY <2>1, <2>2 DEF HubInv
<1>3. Unposted'
  BY <1>1 DEF HubInv, Unposted
<1>4. QED
  BY <1>2, <1>3 DEF HubInv

LEMMA RegisterKeeps ==
    ASSUME HubInv, HubTypeOK', NEW d \in Clients, Register(d)
    PROVE  HubInv'
<1>1. /\ serve[d] = "registering" /\ registered' = registered \cup {d}
      /\ since'[d] = Len(log) /\ serve'[d] = "served"
      /\ UNCHANGED <<who, open, send, posting, log, received>>
      /\ \A c \in Clients : c # d =>
           /\ serve'[c] = serve[c] /\ since'[c] = since[c]
           /\ reader'[c] = reader[c] /\ writer'[c] = writer[c]
  BY DEF Register, HubInv, HubTypeOK
<1>2. log \in Seq(Events) /\ Len(log) \in Nat
  BY DEF HubInv, HubTypeOK
<1>3. Served(d)'
  <2>1. Unserved(d)
    BY <1>1 DEF HubInv, Served
  <2>2. received'[d] = <<>> /\ send'[d] = <<>> /\ open'[d] = TRUE
    BY <1>1, <2>1 DEF Unserved
  <2>3. received'[d] = <<>> /\ Stream(d)' = <<>>
    BY <2>2 DEF Stream
  <2>4. Reads(<<>>, d, Len(log))'
    BY <1>1, <1>2, ReadsNothing
  <2>5. since'[d] <= Len(log') /\ Len(log) \in 0..Len(log')
    BY <1>1, <1>2
  <2>6. Reads(received[d], d, Len(log))' /\ Reads(Stream(d), d, Len(log))'
    BY <2>3, <2>4
  <2>7. QED
    BY <1>1, <2>2, <2>5, <2>6 DEF Served
<1>4. ASSUME NEW c \in Clients, c # d PROVE Unserved(c)' \/ Served(c)'
  <2>1. CASE Unserved(c)
    BY <1>1, <1>4, <2>1 DEF Unserved
  <2>2. CASE Served(c)
    <3>1. open[c] <=> c \in registered
      BY <2>2 DEF Served
    <3>2. QED
      BY <1>1, <1>4, <2>2, <3>1, StaysServed
  <2>3. QED
    BY <2>1, <2>2 DEF HubInv
<1>5. Unposted'
  BY <1>1 DEF HubInv, Unposted
<1>6. QED
  BY <1>3, <1>4, <1>5 DEF HubInv

LEMMA UnregisterKeeps ==
    ASSUME HubInv, HubTypeOK', NEW d \in Clients, Unregister(d)
    PROVE  HubInv'
<1>1. /\ reader[d] = "leaving" /\ registered' = registered \ {d}
      /\ open'[d] = (open[d] /\ d \notin registered)
      /\ UNCHANGED <<serve, who, send, writer, posting, log, since, received>>
      /\ \A c \in Clients : c # d => open'[c] = open[c] /\ reader'[c] = reader[c]
  BY DEF Unregister, HubInv, HubTypeOK
<1>2. ASSUME NEW c \in Clients PROVE Unserved(c)' \/ Served(c)'
  <2>1. CASE Unserved(c)
    BY <1>1, <2>1, StaysUnserved DEF Unserved
  <2>2. CASE Served(c)
    <3>1. open[c] <=> c \in registered
      BY <2>2 DEF Served
    <3>2. open'[c] <=> c \in registered'
      BY <1>1, <3>1
    <3>3. QED
      BY <1>1, <2>2, <3>2, StaysServed
  <2>3. QED
    BY <2>1, <2>2 DEF HubInv
<1>3. Unposted'
  BY <1>1 DEF HubInv, Unposted
<1>4. QED
  BY <1>2, <1>3 DEF HubInv

LEMMA StopKeeps ==
    ASSUME HubInv, HubTypeOK', Stop
    PROVE  HubInv'
<1>1. /\ registered' = {}
      /\ \A c \in Clients : open'[c] = (open[c] /\ c \notin registered)
      /\ UNCHANGED <<serve, who, send, reader, writer, posting, log, since, received>>
  BY DEF Stop
<1>2. ASSUME NEW c \in Clients PROVE Unserved(c)' \/ Served(c)'
  <2>1. CASE Unserved(c)
    BY <1>1, <2>1 DEF Unserved
  <2>2. CASE Served(c)
    <3>1. open[c] <=> c \in registered
      BY <2>2 DEF Served
    <3>2. open'[c] <=> c \in registered'
      BY <1>1, <3>1
    <3>3. QED
      BY <1>1, <2>2, <3>2, StaysServed
  <2>3. QED
    BY <2>1, <2>2 DEF HubInv
<1>3. Unposted'
  BY <1>1 DEF HubInv, Unposted
<1>4. QED
  BY <1>2, <1>3 DEF HubInv

LEMMA WriteKeeps ==
    ASSUME HubInv, HubTypeOK', NEW d \in Clients, Write(d)
    PROVE  HubInv'
<1>1. /\ writer[d] = "on" /\ received'[d] = Stream(d) /\ send'[d] = <<>>
      /\ UNCHANGED <<registered, serve, who, open, reader, writer, posting, log, since>>
      /\ \A c \in Clients : c # d => received'[c] = received[c] /\ send'[c] = send[c]
  BY DEF Write, Stream, HubInv, HubTypeOK
<1>2. Served(d)'
  <2>1. Served(d)
    BY <1>1 DEF HubInv, Unserved
  <2>2. Stream(d) \in Seq(Events)
    BY DEF Stream, HubInv, HubTypeOK
  <2>3. PICK n \in 0..Len(log) : Reads(Stream(d), d, n) /\ (d \in registered => n = Len(log))
    BY <2>1 DEF Served
  <2>4. PICK s : s \in Seq(Events) /\ s = Stream(d)
    BY <2>2
  <2>5. Stream(d)' = s /\ received'[d] = s
    BY <1>1, <2>4 DEF Stream
  <2>6. Reads(s, d, n)
    BY <2>3, <2>4
  <2>7. Reads(s, d, n)'
    BY <1>1, <2>6, ReadsSame
  <2>8. Reads(received[d], d, n)' /\ Reads(Stream(d), d, n)'
    BY <2>5, <2>7
  <2>9. QED
    BY <1>1, <2>1, <2>3, <2>8 DEF Served
<1>3. ASSUME NEW c \in Clients, c # d PROVE Unserved(c)' \/ Served(c)'
  <2>1. CASE Unserved(c)
    BY <1>1, <1>3, <2>1 DEF Unserved
  <2>2. CASE Served(c)
    <3>1. open[c] <=> c \in registered
      BY <2>2 DEF Served
    <3>2. QED
      BY <1>1, <1>3, <2>2, <3>1, StaysServed
  <2>3. QED
    BY <2>1, <2>2 DEF HubInv
<1>4. Unposted'
  BY <1>1 DEF HubInv, Unposted
<1>5. QED
  BY <1>2, <1>3, <1>4 DEF HubInv

\* An event reaches the channel of each client it is for, or cuts it off.
LEMMA BroadcastKeeps ==
    ASSUME HubInv, HubTypeOK', NEW e \in Events, Broadcast(e)
    PROVE  HubInv'
<1>1. /\ e \in posting /\ posting' = posting \ {e} /\ log' = Append(log, e)
      /\ UNCHANGED <<serve, who, reader, writer, since, received>>
      /\ registered' \subseteq registered
      /\ \A c \in Clients :
           IF c \in registered /\ IsFor(e, c)
           THEN IF HasRoom(c) THEN /\ c \in registered' /\ open'[c] = open[c]
                                   /\ send'[c] = Append(send[c], e)
                ELSE c \notin registered' /\ ~open'[c] /\ send'[c] = send[c]
           ELSE /\ c \in registered' <=> c \in registered
                /\ open'[c] = open[c] /\ send'[c] = send[c]
  <2>1. \A c \in Clients : open[c] \in BOOLEAN
    BY DEF HubInv, HubTypeOK
  <2>2. QED
    BY <2>1 DEF Broadcast
<1>2. HubTypeOK /\ \A k \in DOMAIN log : log[k] # e
  BY <1>1 DEF HubInv, Unposted
<1>3. log \in Seq(Events) /\ Len(log) \in Nat /\ Len(log') = Len(log) + 1
  BY <1>1, <1>2 DEF HubTypeOK
<1>4. Unposted'
  BY <1>1, <1>2, <1>3 DEF HubInv, Unposted
<1>5. ASSUME NEW c \in Clients, Unserved(c) PROVE Unserved(c)'
  <2>1. c \notin registered
    BY <1>5 DEF Unserved
  <2>2. open'[c] = open[c] /\ send'[c] = send[c] /\ c \notin registered'
    BY <1>1, <2>1
  <2>3. QED
    BY <1>1, <1>5, <2>2 DEF Unserved
<1>6. ASSUME NEW c \in Clients, Served(c) PROVE Served(c)'
  <2>1. PICK m \in 0..Len(log) : Reads(received[c], c, m)
    BY <1>6 DEF Served
  <2>2. PICK n \in 0..Len(log) : Reads(Stream(c), c, n) /\ (c \in registered => n = Len(log))
    BY <1>6 DEF Served
  <2>3. received[c] \in Seq(Events) /\ Stream(c) \in Seq(Events)
    BY <1>2 DEF Stream, HubTypeOK
  <2>4. Reads(received[c], c, m)'
    <3>1. PICK s \in Seq(Events) : s = received[c] /\ s = received'[c]
      BY <1>1, <2>3
    <3>2. Reads(s, c, m)
      BY <2>1, <3>1
    <3>3. Reads(s, c, m)'
      BY <1>1, <1>2, <3>2, ReadsGrow
    <3>4. QED
      BY <3>1, <3>3
  <2>5. PICK s \in Seq(Events) : s = Stream(c)
    BY <2>3
  <2>6. /\ Reads(s, c, n)'
        /\ n = Len(log) /\ ~IsFor(e, c) => Reads(s, c, n + 1)'
        /\ n = Len(log) /\ IsFor(e, c) /\ since[c] <= Len(log) => Reads(Append(s, e), c, n + 1)'
    <3>1. Reads(s, c, n)
      BY <2>2, <2>5
    <3>2. QED
      BY <1>1, <1>2, <3>1, ReadsGrow
  <2>7. /\ send'[c] = send[c] => Stream(c)' = s
        /\ send'[c] = Append(send[c], e) => Stream(c)' = Append(s, e)
    <3>1. received[c] \in Seq(Events) /\ send[c] \in Seq(Events)
      BY <1>2 DEF HubTypeOK
    <3>2. \A r, q \in Seq(Events) : r \o Append(q, e) = Append(r \o q, e)
      BY AppendLast
    <3>3. received[c] \o Append(send[c], e) = Append(received[c] \o send[c], e)
      BY <3>1, <3>2, Zenon
    <3>4. QED
      BY <1>1, <2>5, <3>3 DEF Stream
  <2>8. \E k \in 0..Len(log') :
           Reads(Stream(c), c, k)' /\ (c \in registered' => k = Len(log'))
    <3>1. n + 1 \in 0..Len(log') /\ n \in 0..Len(log')
      BY <1>3
    <3>2. CASE c \notin registered'
      <4>1. send'[c] = send[c]
        BY <1>1, <3>2
      <4>2. Reads(Stream(c), c, n)'
        BY <2>6, <2>7, <4>1
      <4>3. QED
        BY <3>1, <3>2, <4>2
    <3>3. CASE c \in registered'
      <4>1. c \in registered /\ n = Len(log) /\ since[c] <= Len(log)
        BY <1>1, <1>6, <2>2, <3>3 DEF Served
      <4>2. Reads(Stream(c), c, n + 1)'
        BY <1>1, <2>6, <2>7, <3>3, <4>1
      <4>3. QED
        BY <1>3, <3>1, <4>1, <4>2
    <3>4. QED
      BY <3>2, <3>3
  <2>9. open'[c] <=> c \in registered'
    <3>1. open[c] <=> c \in registered
      BY <1>6 DEF Served
    <3>2. QED
      BY <1>1, <3>1
  <2>10. serve'[c] = "served" /\ since'[c] <= Len(log') /\ m \in 0..Len(log')
    BY <1>1, <1>2, <1>3, <1>6 DEF Served, HubTypeOK
  <2>11. QED
    BY <2>4, <2>8, <2>9, <2>10 DEF Served
<1>7. QED
  BY <1>4, <1>5, <1>6 DEF HubInv

LEMMA HubInvNext == HubInv /\ [HubNext]_hubVars => HubInv'
<1> SUFFICES ASSUME HubInv, [HubNext]_hubVars PROVE HubInv'
  OBVIOUS
<1>1. HubTypeOK'
  BY HubTypes
<1>2. CASE Quiet /\ Unposted'
  BY <1>1, <1>2, QuietKeeps
<1>3. QED
  BY <1>1, <1>2, QuietSteps, ServeWsKeeps, RegisterKeeps, UnregisterKeeps, StopKeeps,
     WriteKeeps, BroadcastKeeps DEF HubNext, Goroutines

LEMMA HubInvariant == HubSpec => []HubInv
<1>1. QED
  BY HubInitial, HubInvNext, PTL DEF HubSpec

\* A client's channel is open exactly as long as it is registered, in whatever
\* order it is dropped, unregistered and shut down: the hub never sends on a
\* closed channel and never closes one twice.
THEOREM HubClosesOnce == HubSpec => []ChannelOpenIffRegistered
<1>1. HubInv => ChannelOpenIffRegistered
  BY DEF HubInv, Unserved, Served, ChannelOpenIffRegistered
<1>2. QED
  BY <1>1, HubInvariant, PTL

\* For any clients, events and buffer: what a client has read is a beginning of
\* what was meant for it, in the order of the hub, and with the messages in its
\* channel it is all of it as long as the client is registered.
THEOREM StreamsAreGapless == HubSpec => []StreamHasNoGaps
<1>1. ASSUME HubInv, NEW c \in Clients, serve[c] = "served"
      PROVE  /\ \E n \in 0..Len(log) : Reads(received[c], c, n)
             /\ c \in registered => Reads(received[c] \o send[c], c, Len(log))
  <2>1. Served(c)
    BY <1>1 DEF HubInv, Unserved
  <2>2. QED
    BY <2>1 DEF Served, Stream
<1>2. HubInv => StreamHasNoGaps
  BY <1>1 DEF StreamHasNoGaps
<1>3. QED
  BY <1>2, HubInvariant, PTL
=============================================================================
