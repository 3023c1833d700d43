-------------------------- MODULE SlaWorkerProofs --------------------------
(***************************************************************************)
(* Proofs about SlaWorker, for every set of tickets and workers, every     *)
(* policy, every number of retries and every bound on errors and crashes.  *)
(***************************************************************************)
EXTENDS SlaWorker, TLAPS

(***************************************************************************)
(* The strengthening.  A claimed row stays as it was claimed, because its  *)
(* lock keeps the API and the other workers out; a row still to be         *)
(* dispatched is flagged, unannounced, and on the list of one worker only. *)
(***************************************************************************)
ClaimCurrent ==
    \A w \in Workers, t \in Tickets :
        worker[w].phase = "commit" /\ t \in worker[w].claimed => Due(t, worker[w].clock)

Awaits(w, t, k) ==
    /\ worker[w].phase = "dispatch"
    /\ worker[w].clock = k
    /\ t \in worker[w].claimed

PendingOnce ==
    \A w \in Workers, t \in Tickets, k \in Clocks :
        Awaits(w, t, k) =>
            /\ k \in ticket[t].flagged
            /\ events[t][k] = 0
            /\ \A v \in Workers : Awaits(v, t, k) => v = w

Inv == TypeOK /\ ClaimCurrent /\ PendingOnce /\ RecordedOnce /\ EventAtMostOnce

(***************************************************************************)
(* The end of a clock or of a check puts the worker in sleep or claim      *)
(***************************************************************************)
Between == {x \in Worker : x.phase \in {"sleep", "claim"}}

LEMMA AsleepType == Asleep \in Between
BY ConstantsAssumption DEF Asleep, Between, Worker, Clocks, Resolution

LEMMA SetOneFlag ==
    ASSUME NEW f \in [Workers -> BOOLEAN], NEW w \in Workers, NEW b
    PROVE  [f EXCEPT ![w] = ~b] \in [Workers -> BOOLEAN]
OBVIOUS

LEMMA ProceedType ==
    ASSUME TypeOK, NEW w \in Workers, NEW k \in Clocks, NEW failed \in BOOLEAN,
           Proceed(w, k, failed)
    PROVE  /\ \E x \in Between : worker' = [worker EXCEPT ![w] = x]
           /\ healthy' \in [Workers -> BOOLEAN]
<1>1. worker[w] \in Worker
  BY DEF TypeOK
<1>2. CycleFailed(w, failed) \in BOOLEAN
  BY <1>1 DEF CycleFailed, Worker
<1>3. CASE k = Escalation
  <2>1. worker' = [worker EXCEPT ![w] = Asleep]
    BY <1>3 DEF Proceed
  <2>2. healthy' = [healthy EXCEPT ![w] = ~CycleFailed(w, failed)]
    BY <1>3 DEF Proceed
  <2>3. healthy \in [Workers -> BOOLEAN]
    BY DEF TypeOK
  <2>4. healthy' \in [Workers -> BOOLEAN]
    BY <2>2, <2>3, SetOneFlag
  <2>5. QED
    BY <2>1, <2>4, AsleepType
<1>4. CASE k # Escalation
  <2> DEFINE next == [phase |-> "claim", clock |-> k + 1,
                      attempt |-> IF CheckOf(k + 1) = CheckOf(k)
                                  THEN worker[w].attempt ELSE 0,
                      claimed |-> {}, failed |-> CycleFailed(w, failed)]
  <2>1. k + 1 \in Clocks
    BY <1>4 DEF Clocks, Escalation
  <2>2. (IF CheckOf(k + 1) = CheckOf(k) THEN worker[w].attempt ELSE 0) \in 0..MaxRetries
    BY <1>1, ConstantsAssumption DEF Worker
  <2>3. next \in Between
    BY <1>2, <2>1, <2>2 DEF Between, Worker
  <2>4. worker' = [worker EXCEPT ![w] = next] /\ healthy' = healthy
    BY <1>4 DEF Proceed
  <2>5. QED
    BY <2>3, <2>4 DEF TypeOK
<1>5. QED
  BY <1>3, <1>4

LEMMA RetryType ==
    ASSUME TypeOK, NEW w \in Workers, RetryOrGiveUp(w)
    PROVE  /\ \E x \in Between : worker' = [worker EXCEPT ![w] = x]
           /\ healthy' \in [Workers -> BOOLEAN]
<1>1. worker[w] \in Worker /\ worker \in [Workers -> Worker]
  BY DEF TypeOK
<1>2. CASE worker[w].attempt < MaxRetries
  <2> DEFINE next == [worker[w] EXCEPT !.phase = "claim", !.clock = FirstOf(@),
                                       !.attempt = @ + 1, !.claimed = {}]
  <2>1. FirstOf(worker[w].clock) \in Clocks
    BY DEF FirstOf, Clocks, Escalation, Resolution
  <2>2. worker[w].attempt + 1 \in 0..MaxRetries
    BY <1>1, <1>2, ConstantsAssumption DEF Worker
  <2>3. next \in Between
    BY <1>1, <2>1, <2>2 DEF Between, Worker
  <2>4. worker' = [worker EXCEPT ![w] = next] /\ healthy' = healthy
    BY <1>1, <1>2 DEF RetryOrGiveUp
  <2>5. QED
    BY <2>3, <2>4 DEF TypeOK
<1>3. CASE ~(worker[w].attempt < MaxRetries)
  <2>1. (IF worker[w].clock = Escalation THEN Escalation ELSE Response) \in Clocks
    BY DEF Clocks, Escalation, Response
  <2>2. QED
    BY <1>3, <2>1, ProceedType DEF RetryOrGiveUp
<1>4. QED
  BY <1>2, <1>3

(***************************************************************************)
(* Steps that end or abandon a piece of work preserve the invariant        *)
(***************************************************************************)
\* The worker goes to sleep or to claim, its locks are gone, the table and the
\* audit are as they were, and no event of another worker was sent.
LEMMA LeaveWork ==
    ASSUME Inv, NEW w \in Workers, NEW x \in Between,
           worker' = [worker EXCEPT ![w] = x],
           worker[w].phase = "commit" => Unlock(w),
           worker[w].phase # "commit" => Unlock(w) \/ UNCHANGED lock,
           healthy' \in [Workers -> BOOLEAN], dropped' \in [Workers -> BOOLEAN],
           errors' \in 0..MaxErrors, crashes' \in 0..MaxCrashes,
           UNCHANGED <<ticket, audit>>,
           \/ UNCHANGED events
           \/ \E t \in Tickets : /\ Awaits(w, t, worker[w].clock)
                                 /\ events' = [events EXCEPT ![t][worker[w].clock] = @ + 1]
    PROVE  Inv'
<1> USE ConstantsAssumption
<1>1. worker' \in [Workers -> Worker] /\ worker'[w] = x /\ worker[w] \in Worker
  BY DEF Inv, TypeOK, Between
<1>2. \A v \in Workers : v # w => worker'[v] = worker[v]
  BY DEF Inv, TypeOK
<1>3. x.phase # "commit" /\ x.phase # "dispatch"
  BY DEF Between
<1>4. lock' = [t \in Tickets |-> IF lock[t] = w THEN NoOne ELSE lock[t]]
  <2>1. CASE Unlock(w)
    BY <2>1 DEF Unlock
  <2>2. CASE worker[w].phase # "commit" /\ UNCHANGED lock
    <3>1. \A t \in Tickets : lock[t] # w
      BY <2>2 DEF Inv, TypeOK
    <3>2. QED
      BY <2>2, <3>1 DEF Inv, TypeOK
  <2>3. QED
    BY <2>1, <2>2
<1>5. events' \in [Tickets -> [Clocks -> Nat]]
  <2>1. CASE UNCHANGED events
    BY <2>1 DEF Inv, TypeOK
  <2>2. ASSUME NEW t \in Tickets, events' = [events EXCEPT ![t][worker[w].clock] = @ + 1]
        PROVE  events' \in [Tickets -> [Clocks -> Nat]]
    <3>1. worker[w].clock \in Clocks
      BY <1>1 DEF Worker
    <3>2. QED
      BY <2>2, <3>1 DEF Inv, TypeOK
  <2>3. QED
    BY <2>1, <2>2
<1>6. TypeOK'
  <2>1. ASSUME NEW t \in Tickets, NEW v \in Workers
        PROVE  lock'[t] = v <=> worker'[v].phase = "commit" /\ t \in worker'[v].claimed
    <3>1. CASE v = w
      BY <1>1, <1>3, <1>4, <3>1
    <3>2. CASE v # w
      BY <1>2, <1>4, <3>2 DEF Inv, TypeOK
    <3>3. QED
      BY <3>1, <3>2
  <2>2. lock' \in [Tickets -> Workers \cup {NoOne, Api}]
    BY <1>4 DEF Inv, TypeOK
  <2>3. QED
    BY <1>1, <1>5, <2>1, <2>2 DEF Inv, TypeOK
<1>7. ClaimCurrent'
  BY <1>1, <1>2, <1>3 DEF Inv, ClaimCurrent, Due
<1>8. \A v \in Workers, t \in Tickets, k \in Clocks :
        Awaits(v, t, k)' => v # w /\ Awaits(v, t, k)
  BY <1>1, <1>2, <1>3 DEF Awaits
<1>9. \A v \in Workers, t \in Tickets, k \in Clocks :
        Awaits(v, t, k)' => events'[t][k] = events[t][k]
  <2> SUFFICES ASSUME NEW v \in Workers, NEW t \in Tickets, NEW k \in Clocks,
                      Awaits(v, t, k)'
               PROVE  events'[t][k] = events[t][k]
    OBVIOUS
  <2>1. v # w /\ Awaits(v, t, k)
    BY <1>8
  <2>2. CASE UNCHANGED events
    BY <2>2
  <2>3. ASSUME NEW s \in Tickets, Awaits(w, s, worker[w].clock),
               events' = [events EXCEPT ![s][worker[w].clock] = @ + 1]
        PROVE  events'[t][k] = events[t][k]
    <3>1. worker[w].clock \in Clocks
      BY <1>1 DEF Worker
    <3>2. ~(s = t /\ worker[w].clock = k)
      BY <2>1, <2>3 DEF Inv, PendingOnce
    <3>3. QED
      BY <2>3, <3>1, <3>2 DEF Inv, TypeOK
  <2>4. QED
    BY <2>2, <2>3
<1>10. PendingOnce'
  BY <1>8, <1>9 DEF Inv, PendingOnce
<1>11. RecordedOnce'
  BY DEF Inv, RecordedOnce
<1>12. EventAtMostOnce'
  <2>1. CASE UNCHANGED events
    BY <2>1 DEF Inv, EventAtMostOnce
  <2>2. ASSUME NEW s \in Tickets, Awaits(w, s, worker[w].clock),
               events' = [events EXCEPT ![s][worker[w].clock] = @ + 1]
        PROVE  EventAtMostOnce'
    <3>1. worker[w].clock \in Clocks
      BY <1>1 DEF Worker
    <3>2. events[s][worker[w].clock] = 0 /\ worker[w].clock \in ticket[s].flagged
      BY <2>2, <3>1 DEF Inv, PendingOnce
    <3>3. ASSUME NEW t \in Tickets, NEW k \in Clocks
          PROVE  events'[t][k] <= IF k \in ticket'[t].flagged THEN 1 ELSE 0
      <4>1. CASE t = s /\ k = worker[w].clock
        BY <2>2, <3>1, <3>2, <4>1 DEF Inv, TypeOK
      <4>2. CASE ~(t = s /\ k = worker[w].clock)
        <5>1. events'[t][k] = events[t][k]
          BY <2>2, <3>1, <4>2 DEF Inv, TypeOK
        <5>2. QED
          BY <5>1 DEF Inv, EventAtMostOnce
      <4>3. QED
        BY <4>1, <4>2
    <3>4. QED
      BY <3>3 DEF EventAtMostOnce
  <2>3. QED
    BY <2>1, <2>2
<1>13. QED
  BY <1>6, <1>7, <1>10, <1>11, <1>12 DEF Inv

(***************************************************************************)
(* One lemma per step                                                      *)
(***************************************************************************)
LEMMA InitInv == Init => Inv
<1> USE ConstantsAssumption
<1>1. ASSUME Init PROVE TypeOK
  <2>1. Asleep \in Worker
    BY AsleepType DEF Between
  <2>2. \A w \in Workers : worker[w].phase # "commit"
    BY <1>1 DEF Init, Asleep
  <2>3. \A t \in Tickets, w \in Workers : lock[t] # w
    BY <1>1 DEF Init
  <2>4. ticket \in [Tickets -> Ticket]
    BY <1>1 DEF Init, Ticket
  <2>5. QED
    BY <1>1, <2>1, <2>2, <2>3, <2>4 DEF Init, TypeOK
<1>2. ASSUME Init PROVE ClaimCurrent /\ PendingOnce
  BY <1>2 DEF Init, Asleep, ClaimCurrent, PendingOnce, Awaits
<1>3. ASSUME Init PROVE RecordedOnce /\ EventAtMostOnce
  BY <1>3 DEF Init, RecordedOnce, EventAtMostOnce
<1>4. QED
  BY <1>1, <1>2, <1>3 DEF Inv

\* The API and the clock leave the claimed rows and the flags alone.
LEMMA ApiInv ==
    ASSUME Inv, NEW t \in Tickets,
           \/ ApiLock(t)
           \/ ApiCommit(t)
           \/ \E k \in Clocks : DeadlinePasses(t, k)
    PROVE  Inv'
<1> USE ConstantsAssumption
<1>1. UNCHANGED <<worker, healthy, errors, crashes, audit, events, dropped>>
  BY DEF ApiLock, ApiCommit, DeadlinePasses
<1>2. ticket \in [Tickets -> Ticket] /\ ticket[t] \in Ticket
  BY DEF Inv, TypeOK
<1>3. \E row \in Ticket : /\ ticket' = [ticket EXCEPT ![t] = row]
                          /\ row.flagged = ticket[t].flagged
                          /\ \/ lock[t] = Api
                             \/ /\ row.open = ticket[t].open
                                /\ row.responded = ticket[t].responded
                                /\ ticket[t].passed \subseteq row.passed
  <2>1. CASE UNCHANGED ticket
    <3>1. ticket[t] \in Ticket
      BY <1>2 DEF Ticket
    <3>2. QED
      BY <3>1, <1>2, <2>1
  <2>2. ASSUME NEW open \in BOOLEAN, lock[t] = Api,
               ticket' = [ticket EXCEPT ![t].open = open]
        PROVE  \E row \in Ticket : /\ ticket' = [ticket EXCEPT ![t] = row]
                                   /\ row.flagged = ticket[t].flagged /\ lock[t] = Api
    <3>1. [ticket[t] EXCEPT !.open = open] \in Ticket
      BY <1>2 DEF Ticket
    <3>2. QED
      BY <3>1, <1>2, <2>2 DEF Ticket
  <2>3. ASSUME lock[t] = Api, ticket' = [ticket EXCEPT ![t].responded = TRUE]
        PROVE  \E row \in Ticket : /\ ticket' = [ticket EXCEPT ![t] = row]
                                   /\ row.flagged = ticket[t].flagged /\ lock[t] = Api
    <3>1. [ticket[t] EXCEPT !.responded = TRUE] \in Ticket
      BY <1>2 DEF Ticket
    <3>2. QED
      BY <3>1, <1>2, <2>3 DEF Ticket
  <2>4. ASSUME NEW k \in Clocks, DeadlinePasses(t, k)
        PROVE  \E row \in Ticket : /\ ticket' = [ticket EXCEPT ![t] = row]
                                   /\ row.flagged = ticket[t].flagged
                                   /\ row.open = ticket[t].open
                                   /\ row.responded = ticket[t].responded
                                   /\ ticket[t].passed \subseteq row.passed
    <3>1. [ticket[t] EXCEPT !.passed = @ \cup {k}] \in Ticket
      BY <1>2 DEF Ticket
    <3>2. QED
      BY <3>1, <1>2, <2>4 DEF Ticket, DeadlinePasses
  <2>5. QED
    BY <2>1, <2>2, <2>3, <2>4 DEF ApiLock, ApiCommit
<1>4. PICK row \in Ticket :
        /\ ticket' = [ticket EXCEPT ![t] = row]
        /\ row.flagged = ticket[t].flagged
        /\ \/ lock[t] = Api
           \/ /\ row.open = ticket[t].open
              /\ row.responded = ticket[t].responded
              /\ ticket[t].passed \subseteq row.passed
  BY <1>3
<1>5. /\ ticket' \in [Tickets -> Ticket]
      /\ \A s \in Tickets : ticket'[s].flagged = ticket[s].flagged
  BY <1>2, <1>4
<1>6. /\ lock' \in [Tickets -> Workers \cup {NoOne, Api}]
      /\ \A s \in Tickets, w \in Workers : lock'[s] = w <=> lock[s] = w
  <2>1. CASE ApiLock(t)
    BY <2>1 DEF ApiLock, Inv, TypeOK
  <2>2. CASE ApiCommit(t)
    BY <2>2 DEF ApiCommit, Inv, TypeOK
  <2>3. CASE \E k \in Clocks : DeadlinePasses(t, k)
    BY <2>3 DEF DeadlinePasses, Inv, TypeOK
  <2>4. QED
    BY <2>1, <2>2, <2>3
<1>7. TypeOK'
  BY <1>1, <1>5, <1>6 DEF Inv, TypeOK
<1>8. \A w \in Workers, s \in Tickets, k \in Clocks :
        worker[w].phase = "commit" /\ s \in worker[w].claimed /\ Due(s, k) => Due(s, k)'
  <2> SUFFICES ASSUME NEW w \in Workers, NEW s \in Tickets, NEW k \in Clocks,
                      worker[w].phase = "commit", s \in worker[w].claimed, Due(s, k)
               PROVE  Due(s, k)'
    OBVIOUS
  <2>1. lock[s] = w /\ lock[s] # Api
    BY DEF Inv, TypeOK
  <2>2. CASE s # t
    BY <1>2, <1>4, <2>2 DEF Due
  <2>3. CASE s = t
    <3>1. /\ ticket'[s] = row
          /\ row.open = ticket[s].open
          /\ row.responded = ticket[s].responded
          /\ ticket[s].passed \subseteq row.passed
          /\ row.flagged = ticket[s].flagged
      BY <1>2, <1>4, <2>1, <2>3
    <3>2. QED
      BY <3>1 DEF Due
  <2>4. QED
    BY <2>2, <2>3
<1>9. ClaimCurrent'
  <2>1. \A w \in Workers : worker[w].clock \in Clocks
    BY DEF Inv, TypeOK, Worker
  <2>2. QED
    BY <1>1, <1>8, <2>1 DEF Inv, ClaimCurrent
<1>10. PendingOnce'
  BY <1>1, <1>5 DEF Inv, PendingOnce, Awaits
<1>11. RecordedOnce' /\ EventAtMostOnce'
  BY <1>1, <1>5 DEF Inv, RecordedOnce, EventAtMostOnce
<1>12. QED
  BY <1>7, <1>9, <1>10, <1>11 DEF Inv

LEMMA FlagsUntouched ==
    ASSUME Inv, NEW t \in Tickets,
           ApiLock(t) \/ ApiCommit(t) \/ \E k \in Clocks : DeadlinePasses(t, k)
    PROVE  \A s \in Tickets : ticket'[s].flagged = ticket[s].flagged
<1>1. CASE UNCHANGED ticket
  BY <1>1
<1>2. ASSUME NEW open \in BOOLEAN, ticket' = [ticket EXCEPT ![t].open = open]
      PROVE  \A s \in Tickets : ticket'[s].flagged = ticket[s].flagged
  BY <1>2 DEF Inv, TypeOK, Ticket
<1>3. ASSUME ticket' = [ticket EXCEPT ![t].responded = TRUE]
      PROVE  \A s \in Tickets : ticket'[s].flagged = ticket[s].flagged
  BY <1>3 DEF Inv, TypeOK, Ticket
<1>4. ASSUME NEW k \in Clocks, ticket' = [ticket EXCEPT ![t].passed = @ \cup {k}]
      PROVE  \A s \in Tickets : ticket'[s].flagged = ticket[s].flagged
  BY <1>4 DEF Inv, TypeOK, Ticket
<1>5. QED
  BY <1>1, <1>2, <1>3, <1>4 DEF ApiLock, ApiCommit, DeadlinePasses

LEMMA StartCycleInv ==
    ASSUME Inv, NEW w \in Workers, StartCycle(w)
    PROVE  Inv'
<1> DEFINE x == [worker[w] EXCEPT !.phase = "claim"]
<1>1. worker[w] \in Worker
  BY DEF Inv, TypeOK
<1>2. x \in Between /\ worker' = [worker EXCEPT ![w] = x]
  BY <1>1 DEF StartCycle, Between, Worker
<1>3. worker[w].phase # "commit"
  BY DEF StartCycle
<1>4. dropped' \in [Workers -> BOOLEAN]
  BY DEF StartCycle, Inv, TypeOK
<1>5. /\ UNCHANGED <<lock, healthy, errors, crashes, ticket, audit, events>>
      /\ healthy' \in [Workers -> BOOLEAN]
      /\ errors' \in 0..MaxErrors /\ crashes' \in 0..MaxCrashes
  BY DEF StartCycle, Inv, TypeOK
<1> HIDE DEF x
<1>6. QED
  BY <1>2, <1>3, <1>4, <1>5, LeaveWork

LEMMA FinishClockInv ==
    ASSUME Inv, NEW w \in Workers, FinishClock(w)
    PROVE  Inv'
<1>1. worker[w].clock \in Clocks
  BY DEF Inv, TypeOK, Worker
<1>2. PICK x \in Between : worker' = [worker EXCEPT ![w] = x]
  BY <1>1, ProceedType DEF FinishClock, Inv
<1>3. healthy' \in [Workers -> BOOLEAN]
  BY <1>1, ProceedType DEF FinishClock, Inv
<1>4. /\ worker[w].phase # "commit"
      /\ UNCHANGED <<lock, errors, crashes, ticket, audit, events, dropped>>
  BY DEF FinishClock
<1>5. dropped \in [Workers -> BOOLEAN] /\ errors \in 0..MaxErrors /\ crashes \in 0..MaxCrashes
  BY DEF Inv, TypeOK
<1>6. QED
  BY <1>2, <1>3, <1>4, <1>5, LeaveWork

LEMMA TransactionFailsInv ==
    ASSUME Inv, NEW w \in Workers, TransactionFails(w)
    PROVE  Inv'
<1>1. PICK x \in Between : worker' = [worker EXCEPT ![w] = x]
  BY RetryType DEF TransactionFails, Inv
<1>2. healthy' \in [Workers -> BOOLEAN]
  BY RetryType DEF TransactionFails, Inv
<1>3. errors' \in 0..MaxErrors
  BY ConstantsAssumption DEF TransactionFails, Inv, TypeOK
<1>4. Unlock(w) /\ UNCHANGED <<crashes, ticket, audit, events, dropped>>
  BY DEF TransactionFails
<1>5. dropped \in [Workers -> BOOLEAN] /\ crashes \in 0..MaxCrashes
  BY DEF Inv, TypeOK
<1>6. QED
  BY <1>1, <1>2, <1>3, <1>4, <1>5, LeaveWork

LEMMA EvaluateFailsInv ==
    ASSUME Inv, NEW w \in Workers, NEW t \in Tickets, EvaluateFails(w, t)
    PROVE  Inv'
<1>1. PICK x \in Between : worker' = [worker EXCEPT ![w] = x]
  BY RetryType DEF EvaluateFails, Inv
<1>2. healthy' \in [Workers -> BOOLEAN]
  BY RetryType DEF EvaluateFails, Inv
<1>3. errors' \in 0..MaxErrors
  BY ConstantsAssumption DEF EvaluateFails, Inv, TypeOK
<1>4. dropped' \in [Workers -> BOOLEAN]
  <2>1. (dropped[w] \/ worker[w].claimed # {t}) \in BOOLEAN
    OBVIOUS
  <2>2. dropped' = [dropped EXCEPT ![w] = dropped[w] \/ worker[w].claimed # {t}]
    BY DEF EvaluateFails
  <2>3. QED
    BY <2>1, <2>2, Zenon DEF Inv, TypeOK
<1>5. /\ worker[w].phase # "commit" /\ UNCHANGED <<lock, crashes, ticket, audit>>
      /\ Awaits(w, t, worker[w].clock)
      /\ events' = [events EXCEPT ![t][worker[w].clock] = @ + 1]
  BY DEF EvaluateFails, Awaits
<1>6. crashes \in 0..MaxCrashes
  BY DEF Inv, TypeOK
<1>7. QED
  BY <1>1, <1>2, <1>3, <1>4, <1>5, <1>6, LeaveWork

LEMMA CrashInv ==
    ASSUME Inv, NEW w \in Workers, Crash(w)
    PROVE  Inv'
<1>1. worker' = [worker EXCEPT ![w] = Asleep] /\ Asleep \in Between
  BY AsleepType DEF Crash
<1>2. healthy' \in [Workers -> BOOLEAN]
  BY DEF Crash, Inv, TypeOK
<1>3. crashes' \in 0..MaxCrashes
  BY ConstantsAssumption DEF Crash, Inv, TypeOK
<1>4. Unlock(w) /\ UNCHANGED <<errors, ticket, audit, events, dropped>>
  BY DEF Crash
<1>5. dropped \in [Workers -> BOOLEAN] /\ errors \in 0..MaxErrors
  BY DEF Inv, TypeOK
<1>6. QED
  BY <1>1, <1>2, <1>3, <1>4, <1>5, LeaveWork

LEMMA ClaimInv ==
    ASSUME Inv, NEW w \in Workers, Claim(w)
    PROVE  Inv'
<1> DEFINE k == worker[w].clock
           rows == {t \in Tickets : Claimable(t, k)}
<1>1. worker[w] \in Worker /\ k \in Clocks /\ worker[w].phase = "claim"
  BY DEF Claim, Inv, TypeOK, Worker
<1>2. /\ worker' = [worker EXCEPT ![w].phase = "commit", ![w].claimed = rows]
      /\ lock' = [t \in Tickets |-> IF t \in rows THEN w ELSE lock[t]]
      /\ UNCHANGED <<ticket, healthy, errors, crashes, audit, events, dropped>>
  BY DEF Claim
<1>3. \A t \in rows : Due(t, k) /\ lock[t] = NoOne
  BY DEF Claimable
<1>4. rows \subseteq Tickets
  OBVIOUS
<1> HIDE DEF rows
<1>5. /\ worker' \in [Workers -> Worker]
      /\ worker'[w].phase = "commit" /\ worker'[w].claimed = rows /\ worker'[w].clock = k
      /\ \A v \in Workers : v # w => worker'[v] = worker[v]
  <2> DEFINE next == [worker[w] EXCEPT !.phase = "commit", !.claimed = rows]
  <2>1. next \in Worker /\ next.phase = "commit" /\ next.claimed = rows /\ next.clock = k
    BY <1>1, <1>4 DEF Worker
  <2>2. worker' = [worker EXCEPT ![w] = next]
    BY <1>1, <1>2
  <2> HIDE DEF next
  <2>3. QED
    BY <2>1, <2>2 DEF Inv, TypeOK
<1>6. TypeOK'
  <2>1. ASSUME NEW t \in Tickets, NEW v \in Workers
        PROVE  lock'[t] = v <=> worker'[v].phase = "commit" /\ t \in worker'[v].claimed
    <3>1. CASE v = w
      BY <1>1, <1>2, <1>5, <3>1 DEF Inv, TypeOK
    <3>2. CASE v # w
      BY <1>2, <1>3, <1>5, <3>2, ConstantsAssumption DEF Inv, TypeOK
    <3>3. QED
      BY <3>1, <3>2
  <2>2. lock' \in [Tickets -> Workers \cup {NoOne, Api}]
    BY <1>2 DEF Inv, TypeOK
  <2>3. QED
    BY <1>2, <1>5, <2>1, <2>2 DEF Inv, TypeOK
<1>7. ClaimCurrent'
  <2> SUFFICES ASSUME NEW v \in Workers, NEW t \in Tickets,
                      worker'[v].phase = "commit", t \in worker'[v].claimed
               PROVE  Due(t, worker[v].clock)'
    BY DEF ClaimCurrent, Due
  <2>1. Due(t, worker'[v].clock)
    <3>1. CASE v = w
      BY <1>3, <1>5, <3>1
    <3>2. CASE v # w
      BY <1>5, <3>2 DEF Inv, ClaimCurrent
    <3>3. QED
      BY <3>1, <3>2
  <2>2. QED
    BY <1>2, <2>1 DEF Due
<1>8. \A v \in Workers, t \in Tickets, j \in Clocks : Awaits(v, t, j)' => Awaits(v, t, j)
  BY <1>5 DEF Awaits
<1>9. PendingOnce'
  BY <1>2, <1>8 DEF Inv, PendingOnce
<1>10. RecordedOnce' /\ EventAtMostOnce'
  BY <1>2 DEF Inv, RecordedOnce, EventAtMostOnce
<1>11. QED
  BY <1>6, <1>7, <1>9, <1>10 DEF Inv

\* The rows were due when they were claimed, so not flagged and not announced.
LEMMA CommitInv ==
    ASSUME Inv, NEW w \in Workers, Commit(w)
    PROVE  Inv'
<1> DEFINE k == worker[w].clock
           rows == worker[w].claimed
<1>1. /\ worker[w] \in Worker /\ k \in Clocks /\ worker[w].phase = "commit"
      /\ rows \subseteq Tickets
  BY DEF Commit, Inv, TypeOK, Worker
<1>2. /\ ticket' = [t \in Tickets |-> IF t \in rows
                      THEN [ticket[t] EXCEPT !.flagged = @ \cup {k}] ELSE ticket[t]]
      /\ audit' = [t \in Tickets |-> IF t \in rows
                      THEN [audit[t] EXCEPT ![k] = @ + 1] ELSE audit[t]]
      /\ lock' = [t \in Tickets |-> IF lock[t] = w THEN NoOne ELSE lock[t]]
      /\ worker' = [worker EXCEPT ![w].phase = "dispatch"]
      /\ UNCHANGED <<healthy, errors, crashes, events, dropped>>
  BY DEF Commit, Unlock
<1>3. \A t \in rows : Due(t, k) /\ lock[t] = w
  BY <1>1 DEF Inv, ClaimCurrent, TypeOK
<1>4. /\ worker' \in [Workers -> Worker]
      /\ worker'[w].phase = "dispatch" /\ worker'[w].claimed = rows /\ worker'[w].clock = k
      /\ \A v \in Workers : v # w => worker'[v] = worker[v]
  <2> DEFINE next == [worker[w] EXCEPT !.phase = "dispatch"]
  <2>1. next \in Worker /\ next.phase = "dispatch" /\ next.claimed = rows /\ next.clock = k
    BY <1>1 DEF Worker
  <2>2. worker' = [worker EXCEPT ![w] = next]
    BY <1>1, <1>2
  <2> HIDE DEF next
  <2>3. QED
    BY <2>1, <2>2 DEF Inv, TypeOK
<1> HIDE DEF k, rows
<1>5. \A t \in Tickets :
        /\ ticket'[t] \in Ticket
        /\ ticket'[t].flagged = ticket[t].flagged \cup (IF t \in rows THEN {k} ELSE {})
        /\ t \notin rows => ticket'[t] = ticket[t]
  <2> SUFFICES ASSUME NEW t \in Tickets
               PROVE  /\ ticket'[t] \in Ticket
                      /\ ticket'[t].flagged = ticket[t].flagged \cup (IF t \in rows THEN {k} ELSE {})
                      /\ t \notin rows => ticket'[t] = ticket[t]
    OBVIOUS
  <2>1. ticket[t] \in Ticket
    BY DEF Inv, TypeOK
  <2>2. CASE t \in rows
    <3>1. ticket'[t] = [ticket[t] EXCEPT !.flagged = @ \cup {k}]
      BY <1>2, <2>2
    <3>2. ticket[t].flagged \cup {k} \in SUBSET Clocks
      BY <1>1, <2>1 DEF Ticket
    <3>3. QED
      BY <2>1, <2>2, <3>1, <3>2 DEF Ticket
  <2>3. CASE t \notin rows
    BY <1>2, <2>1, <2>3
  <2>4. QED
    BY <2>2, <2>3
<1>6. \A t \in Tickets, j \in Clocks :
        audit'[t][j] = IF t \in rows /\ j = k THEN audit[t][j] + 1 ELSE audit[t][j]
  BY <1>1, <1>2 DEF Inv, TypeOK
<1>7. audit' \in [Tickets -> [Clocks -> Nat]]
  BY <1>1, <1>2 DEF Inv, TypeOK
<1>8. TypeOK'
  <2>1. ASSUME NEW t \in Tickets, NEW v \in Workers
        PROVE  lock'[t] = v <=> worker'[v].phase = "commit" /\ t \in worker'[v].claimed
    <3>1. CASE v = w
      BY <1>2, <1>4, <3>1, ConstantsAssumption
    <3>2. CASE v # w
      BY <1>2, <1>4, <3>2, ConstantsAssumption DEF Inv, TypeOK
    <3>3. QED
      BY <3>1, <3>2
  <2>2. lock' \in [Tickets -> Workers \cup {NoOne, Api}]
    BY <1>2 DEF Inv, TypeOK
  <2>3. ticket' \in [Tickets -> Ticket]
    BY <1>2, <1>5
  <2>4. QED
    BY <1>2, <1>4, <1>7, <2>1, <2>2, <2>3 DEF Inv, TypeOK
<1>9. ClaimCurrent'
  <2> SUFFICES ASSUME NEW v \in Workers, NEW t \in Tickets,
                      worker'[v].phase = "commit", t \in worker'[v].claimed
               PROVE  Due(t, worker[v].clock)'
    BY DEF ClaimCurrent, Due
  <2>1. v # w /\ worker'[v] = worker[v]
    BY <1>4
  <2>2. lock[t] = v /\ Due(t, worker[v].clock)
    BY <2>1 DEF Inv, TypeOK, ClaimCurrent
  <2>3. t \notin rows
    BY <1>3, <2>1, <2>2
  <2>4. QED
    BY <1>5, <2>1, <2>2, <2>3 DEF Due
<1>10. \A t \in Tickets, j \in Clocks : k \notin ticket[t].flagged => events[t][k] = 0
  BY <1>1 DEF Inv, EventAtMostOnce, TypeOK
<1>11. \A v \in Workers, t \in Tickets, j \in Clocks :
         Awaits(v, t, j)' <=> IF v = w THEN t \in rows /\ j = k ELSE Awaits(v, t, j)
  BY <1>4 DEF Awaits
<1>12. PendingOnce'
  <2> SUFFICES ASSUME NEW v \in Workers, NEW t \in Tickets, NEW j \in Clocks, Awaits(v, t, j)'
               PROVE  /\ j \in ticket'[t].flagged
                      /\ events'[t][j] = 0
                      /\ \A u \in Workers : Awaits(u, t, j)' => u = v
    BY DEF PendingOnce
  <2>1. \A u \in Workers : t \in rows /\ j = k => ~Awaits(u, t, j)
    BY <1>3 DEF Inv, PendingOnce, Due
  <2>2. CASE v = w
    BY <1>2, <1>3, <1>5, <1>10, <1>11, <2>1, <2>2 DEF Due
  <2>3. CASE v # w
    <3>1. Awaits(v, t, j)
      BY <1>11, <2>3
    <3>2. ~(t \in rows /\ j = k)
      BY <2>1, <3>1
    <3>3. QED
      BY <1>2, <1>5, <1>11, <3>1, <3>2 DEF Inv, PendingOnce
  <2>4. QED
    BY <2>2, <2>3
<1>13. RecordedOnce'
  <2> SUFFICES ASSUME NEW t \in Tickets, NEW j \in Clocks
               PROVE  audit'[t][j] = IF j \in ticket'[t].flagged THEN 1 ELSE 0
    BY DEF RecordedOnce
  <2>1. audit[t][j] = IF j \in ticket[t].flagged THEN 1 ELSE 0
    BY DEF Inv, RecordedOnce
  <2>2. CASE t \in rows /\ j = k
    BY <1>3, <1>5, <1>6, <2>1, <2>2 DEF Due
  <2>3. CASE ~(t \in rows /\ j = k)
    BY <1>5, <1>6, <2>1, <2>3
  <2>4. QED
    BY <2>2, <2>3
<1>14. EventAtMostOnce'
  <2> SUFFICES ASSUME NEW t \in Tickets, NEW j \in Clocks
               PROVE  events[t][j] <= IF j \in ticket'[t].flagged THEN 1 ELSE 0
    BY <1>2 DEF EventAtMostOnce
  <2>1. events[t][j] <= IF j \in ticket[t].flagged THEN 1 ELSE 0
    BY DEF Inv, EventAtMostOnce
  <2>2. events[t][j] \in Nat /\ (j \in ticket[t].flagged => j \in ticket'[t].flagged)
    BY <1>5 DEF Inv, TypeOK
  <2>3. QED
    BY <2>1, <2>2
<1>15. QED
  BY <1>8, <1>9, <1>12, <1>13, <1>14 DEF Inv

LEMMA DispatchInv ==
    ASSUME Inv, NEW w \in Workers, NEW t \in Tickets, Dispatch(w, t)
    PROVE  Inv'
<1> DEFINE k == worker[w].clock
           next == [worker[w] EXCEPT !.claimed = @ \ {t}]
<1>1. worker[w] \in Worker /\ k \in Clocks /\ Awaits(w, t, k)
  BY DEF Dispatch, Inv, TypeOK, Worker, Awaits
<1>2. /\ events' = [events EXCEPT ![t][k] = @ + 1]
      /\ worker' = [worker EXCEPT ![w] = next]
      /\ UNCHANGED <<ticket, lock, healthy, errors, crashes, audit, dropped>>
  BY <1>1 DEF Dispatch
<1>3. /\ next \in Worker /\ next.phase = "dispatch"
      /\ next.claimed = worker[w].claimed \ {t} /\ next.clock = k
  BY <1>1 DEF Worker, Awaits
<1>4. events[t][k] = 0 /\ k \in ticket[t].flagged
  BY <1>1 DEF Inv, PendingOnce
<1> HIDE DEF next, k
<1>5. /\ worker' \in [Workers -> Worker] /\ worker'[w] = next
      /\ \A v \in Workers : v # w => worker'[v] = worker[v]
  BY <1>2, <1>3 DEF Inv, TypeOK
<1>6. /\ events' \in [Tickets -> [Clocks -> Nat]]
      /\ \A s \in Tickets, j \in Clocks :
           events'[s][j] = IF s = t /\ j = k THEN 1 ELSE events[s][j]
  BY <1>1, <1>2, <1>4 DEF Inv, TypeOK
<1>7. TypeOK'
  <2>1. ASSUME NEW s \in Tickets, NEW v \in Workers
        PROVE  lock'[s] = v <=> worker'[v].phase = "commit" /\ s \in worker'[v].claimed
    BY <1>1, <1>2, <1>3, <1>5 DEF Inv, TypeOK, Awaits
  <2>2. QED
    BY <1>2, <1>5, <1>6, <2>1 DEF Inv, TypeOK
<1>8. ClaimCurrent'
  BY <1>2, <1>3, <1>5 DEF Inv, ClaimCurrent, Due
<1>9. \A v \in Workers, s \in Tickets, j \in Clocks :
        Awaits(v, s, j)' => Awaits(v, s, j) /\ ~(s = t /\ j = k)
  <2> SUFFICES ASSUME NEW v \in Workers, NEW s \in Tickets, NEW j \in Clocks, Awaits(v, s, j)'
               PROVE  Awaits(v, s, j) /\ ~(s = t /\ j = k)
    OBVIOUS
  <2>1. CASE v = w
    BY <1>1, <1>3, <1>5, <2>1 DEF Awaits, k
  <2>2. CASE v # w
    <3>1. Awaits(v, s, j)
      BY <1>5, <2>2 DEF Awaits
    <3>2. QED
      BY <1>1, <2>2, <3>1 DEF Inv, PendingOnce
  <2>3. QED
    BY <2>1, <2>2
<1>10. PendingOnce'
  BY <1>2, <1>6, <1>9 DEF Inv, PendingOnce
<1>11. RecordedOnce'
  BY <1>2 DEF Inv, RecordedOnce
<1>12. EventAtMostOnce'
  BY <1>2, <1>4, <1>6 DEF Inv, EventAtMostOnce
<1>13. QED
  BY <1>7, <1>8, <1>10, <1>11, <1>12 DEF Inv

LEMMA InvNext == Inv /\ [Next]_vars => Inv'
<1> SUFFICES ASSUME Inv, [Next]_vars
             PROVE  Inv'
  OBVIOUS
<1>1. ASSUME NEW w \in Workers, WorkerStep(w)
      PROVE  Inv'
  BY <1>1, StartCycleInv, ClaimInv, CommitInv, FinishClockInv, DispatchInv DEF WorkerStep
<1>2. ASSUME NEW w \in Workers, TransactionFails(w) \/ Crash(w)
      PROVE  Inv'
  BY <1>2, TransactionFailsInv, CrashInv
<1>3. ASSUME NEW w \in Workers, NEW t \in Tickets, EvaluateFails(w, t)
      PROVE  Inv'
  BY <1>3, EvaluateFailsInv
<1>4. ASSUME NEW t \in Tickets,
             ApiLock(t) \/ ApiCommit(t) \/ \E k \in Clocks : DeadlinePasses(t, k)
      PROVE  Inv'
  BY <1>4, ApiInv
<1>5. CASE UNCHANGED vars
  BY <1>5 DEF vars, Inv, TypeOK, ClaimCurrent, PendingOnce, Awaits, Due,
              RecordedOnce, EventAtMostOnce
<1>6. QED
  BY <1>1, <1>2, <1>3, <1>4, <1>5 DEF Next

(***************************************************************************)
(* The theorems                                                            *)
(***************************************************************************)
LEMMA Invariant == Spec => []Inv
<1>1. QED
  BY InitInv, InvNext, PTL DEF Spec

\* The tables and the workers keep their types, and the row locks belong to the
\* transactions in progress.
THEOREM TypeCorrect == Spec => []TypeOK
<1>1. Inv => TypeOK
  BY DEF Inv
<1>2. QED
  BY <1>1, Invariant, PTL

\* A breach leaves one comment and one history entry, together with its flag.
THEOREM BreachRecordedOnce == Spec => []RecordedOnce
<1>1. Inv => RecordedOnce
  BY DEF Inv
<1>2. QED
  BY <1>1, Invariant, PTL

\* The automation engine is told of a breach at most once, after the commit.
THEOREM BreachAnnouncedAtMostOnce == Spec => []EventAtMostOnce
<1>1. Inv => EventAtMostOnce
  BY DEF Inv
<1>2. QED
  BY <1>1, Invariant, PTL

\* Only the commit flags a ticket, and what it flags was due under its lock.
THEOREM BreachesAreCurrent == Spec => BreachIsCurrent
<1> DEFINE Current ==
      \A t \in Tickets, k \in Clocks :
         k \in ticket'[t].flagged \ ticket[t].flagged
            => ticket[t].open /\ (k = Response => ~ticket[t].responded)
<1>1. ASSUME Inv, NEW w \in Workers, Commit(w)
      PROVE  Current
  <2>1. \A t \in worker[w].claimed : Due(t, worker[w].clock)
    BY <1>1 DEF Commit, Inv, ClaimCurrent, TypeOK, Worker
  <2>2. \A t \in Tickets, k \in Clocks :
          k \in ticket'[t].flagged \ ticket[t].flagged
             => t \in worker[w].claimed /\ k = worker[w].clock
    BY <1>1 DEF Commit, Inv, TypeOK, Ticket
  <2>3. QED
    BY <2>1, <2>2 DEF Due
<1>2. ASSUME Inv, NEW t \in Tickets,
             ApiLock(t) \/ ApiCommit(t) \/ \E k \in Clocks : DeadlinePasses(t, k)
      PROVE  Current
  BY <1>2, FlagsUntouched
<1>3. ASSUME UNCHANGED ticket
      PROVE  Current
  BY <1>3
<1>4. ASSUME Inv, [Next]_vars
      PROVE  [Current]_vars
  <2>1. ASSUME NEW w \in Workers, WorkerStep(w)
        PROVE  Current
    BY <1>1, <1>3, <1>4, <2>1 DEF WorkerStep, StartCycle, Claim, FinishClock, Dispatch
  <2>2. ASSUME NEW w \in Workers,
               TransactionFails(w) \/ Crash(w) \/ \E t \in Tickets : EvaluateFails(w, t)
        PROVE  Current
    BY <1>3, <2>2 DEF TransactionFails, Crash, EvaluateFails
  <2>3. QED
    BY <1>2, <1>4, <2>1, <2>2 DEF Next
<1>5. QED
  BY <1>4, Invariant, PTL DEF Spec, BreachIsCurrent

(***************************************************************************)
(* Health, for a worker that does not retry                                *)
(***************************************************************************)
\* What the process has lost in this cycle is on the record that ends in its
\* health: the failed flag of the cycle, or the verdict of the cycle that ended.
Noticed(w) ==
    IF worker[w].phase = "sleep" THEN ~healthy[w] ELSE worker[w].failed
LossNoticed == \A w \in Workers : dropped[w] => Noticed(w)
HealthInv == Inv /\ LossNoticed

\* The end of a clock passes a failure on: to the cycle, or to the health.
LEMMA ProceedNotices ==
    ASSUME TypeOK, NEW w \in Workers, NEW k \in Clocks, NEW failed \in BOOLEAN,
           Proceed(w, k, failed), worker[w].failed \/ failed
    PROVE  Noticed(w)'
<1>1. CycleFailed(w, failed)
  BY DEF CycleFailed
<1>2. CASE k = Escalation
  <2>1. worker'[w].phase = "sleep"
    BY <1>2 DEF Proceed, TypeOK, Asleep
  <2>2. ~healthy'[w]
    BY <1>1, <1>2 DEF Proceed, TypeOK
  <2>3. QED
    BY <2>1, <2>2 DEF Noticed
<1>3. CASE k # Escalation
  <2>1. worker'[w].phase = "claim" /\ worker'[w].failed = CycleFailed(w, failed)
    BY <1>3 DEF Proceed, TypeOK
  <2>2. QED
    BY <1>1, <2>1 DEF Noticed
<1>4. QED
  BY <1>2, <1>3

\* Without retries a check that fails is given up, and that is noticed.
LEMMA GivingUpIsNoticed ==
    ASSUME MaxRetries = 0, TypeOK, NEW w \in Workers, RetryOrGiveUp(w)
    PROVE  Noticed(w)'
<1>1. ~(worker[w].attempt < MaxRetries)
  BY DEF TypeOK, Worker
<1>2. Proceed(w, IF worker[w].clock = Escalation THEN Escalation ELSE Response, TRUE)
  BY <1>1, Zenon DEF RetryOrGiveUp
<1>3. (IF worker[w].clock = Escalation THEN Escalation ELSE Response) \in Clocks
  BY DEF Escalation, Response, Clocks
<1>4. QED
  BY <1>2, <1>3, ProceedNotices

\* A worker that leaves its work writes nothing of the others.
LEMMA OthersUntouched ==
    ASSUME TypeOK, NEW w \in Workers, NEW k, NEW failed,
           Proceed(w, k, failed) \/ RetryOrGiveUp(w)
    PROVE  \A v \in Workers : v # w => worker'[v] = worker[v] /\ healthy'[v] = healthy[v]
<1>1. ASSUME NEW j, NEW gone, Proceed(w, j, gone)
      PROVE  \A v \in Workers : v # w => worker'[v] = worker[v] /\ healthy'[v] = healthy[v]
  <2>1. CASE j = Escalation
    BY <1>1, <2>1 DEF TypeOK, Proceed
  <2>2. CASE j # Escalation
    BY <1>1, <2>2 DEF TypeOK, Proceed
  <2>3. QED
    BY <2>1, <2>2
<1>2. CASE RetryOrGiveUp(w) /\ worker[w].attempt < MaxRetries
  BY <1>2 DEF TypeOK, RetryOrGiveUp
<1>3. CASE RetryOrGiveUp(w) /\ ~(worker[w].attempt < MaxRetries)
  BY <1>1, <1>3 DEF RetryOrGiveUp
<1>4. QED
  BY <1>1, <1>2, <1>3

LEMMA HealthStep ==
    ASSUME MaxRetries = 0, HealthInv, [Next]_vars PROVE HealthInv'
<1> USE DEF HealthInv
<1> SUFFICES LossNoticed'
  BY InvNext
<1>1. TypeOK
  BY DEF Inv
<1>2. ASSUME NEW w \in Workers,
             \A v \in Workers \ {w} : /\ worker'[v] = worker[v] /\ healthy'[v] = healthy[v]
                                      /\ dropped'[v] = dropped[v],
             dropped'[w] => Noticed(w)'
      PROVE  LossNoticed'
  BY <1>2 DEF LossNoticed, Noticed
<1>3. ASSUME NEW w \in Workers, UNCHANGED <<healthy, dropped>>,
             \A v \in Workers \ {w} : worker'[v] = worker[v],
             worker[w].phase # "sleep", worker'[w].phase # "sleep",
             worker'[w].failed = worker[w].failed
      PROVE  LossNoticed'
  BY <1>2, <1>3 DEF LossNoticed, Noticed
<1>4. ASSUME NEW w \in Workers, StartCycle(w) PROVE LossNoticed'
  BY <1>1, <1>2, <1>4 DEF StartCycle, TypeOK
<1>5. ASSUME NEW w \in Workers, Claim(w) PROVE LossNoticed'
  <2>1. worker[w] \in Worker
    BY <1>1 DEF TypeOK
  <2>2. /\ worker'[w].phase = "commit" /\ worker'[w].failed = worker[w].failed
        /\ \A v \in Workers \ {w} : worker'[v] = worker[v]
    BY <1>1, <1>5, <2>1 DEF Claim, TypeOK, Worker
  <2>3. QED
    BY <1>3, <1>5, <2>2 DEF Claim
<1>6. ASSUME NEW w \in Workers, Commit(w) PROVE LossNoticed'
  <2>1. worker[w] \in Worker
    BY <1>1 DEF TypeOK
  <2>2. /\ worker'[w].phase = "dispatch" /\ worker'[w].failed = worker[w].failed
        /\ \A v \in Workers \ {w} : worker'[v] = worker[v]
    BY <1>1, <1>6, <2>1 DEF Commit, TypeOK, Worker
  <2>3. QED
    BY <1>3, <1>6, <2>2 DEF Commit
<1>7. ASSUME NEW w \in Workers, NEW t \in Tickets, Dispatch(w, t) PROVE LossNoticed'
  <2>1. worker[w] \in Worker
    BY <1>1 DEF TypeOK
  <2>2. /\ worker'[w].phase = worker[w].phase /\ worker'[w].failed = worker[w].failed
        /\ \A v \in Workers \ {w} : worker'[v] = worker[v]
    BY <1>1, <1>7, <2>1 DEF Dispatch, TypeOK, Worker
  <2>3. QED
    BY <1>3, <1>7, <2>2 DEF Dispatch
<1>8. ASSUME NEW w \in Workers, FinishClock(w) PROVE LossNoticed'
  <2>1. worker[w].clock \in Clocks /\ worker[w].phase # "sleep"
    BY <1>1, <1>8 DEF FinishClock, TypeOK, Worker
  <2>2. dropped[w] => Noticed(w)'
    BY <1>1, <1>8, <2>1, ProceedNotices DEF FinishClock, LossNoticed, Noticed
  <2>3. QED
    BY <1>1, <1>2, <1>8, <2>1, <2>2, OthersUntouched DEF FinishClock
<1>9. ASSUME NEW w \in Workers, TransactionFails(w) PROVE LossNoticed'
  BY <1>1, <1>2, <1>9, GivingUpIsNoticed, OthersUntouched DEF TransactionFails
<1>10. ASSUME NEW w \in Workers, NEW t \in Tickets, EvaluateFails(w, t) PROVE LossNoticed'
  <2>1. \A v \in Workers \ {w} : dropped'[v] = dropped[v]
    BY <1>1, <1>10 DEF EvaluateFails, TypeOK
  <2>2. QED
    BY <1>1, <1>2, <1>10, <2>1, GivingUpIsNoticed, OthersUntouched DEF EvaluateFails
<1>11. ASSUME NEW w \in Workers, Crash(w) PROVE LossNoticed'
  <2>1. worker'[w].phase = "sleep" /\ ~healthy'[w]
    BY <1>1, <1>11 DEF Crash, TypeOK, Asleep
  <2>2. QED
    BY <1>1, <1>2, <1>11, <2>1 DEF Crash, TypeOK, Noticed
<1>12. ASSUME UNCHANGED <<worker, healthy, dropped>> PROVE LossNoticed'
  BY <1>12 DEF LossNoticed, Noticed
<1>13. QED
  BY <1>4, <1>5, <1>6, <1>7, <1>8, <1>9, <1>10, <1>11, <1>12
     DEF Next, WorkerStep, ApiLock, ApiCommit, DeadlinePasses, vars

\* Run without retries, as server.go runs it, a worker that says it is healthy
\* has handed over every event of its latest cycle.
THEOREM HealthIsHonest == ASSUME MaxRetries = 0 PROVE Spec => []HealthyLostNothing
<1>1. Init => HealthInv
  BY InitInv DEF Init, HealthInv, LossNoticed
<1>2. HealthInv => HealthyLostNothing
  BY DEF HealthInv, LossNoticed, Noticed, HealthyLostNothing
<1>3. HealthInv /\ [Next]_vars => HealthInv'
  BY HealthStep
<1>4. QED
  BY <1>1, <1>2, <1>3, PTL DEF Spec
=============================================================================
