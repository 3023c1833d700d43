----------------------------- MODULE SlaWorker -----------------------------
(***************************************************************************)
(* The background SLA worker (internal/worker/worker.go): several          *)
(* processes poll the tickets whose deadlines have passed, claim them with *)
(* FOR UPDATE SKIP LOCKED, record the breach in one transaction and then,  *)
(* outside it, hand one event per ticket to the automation engine.         *)
(*                                                                         *)
(* The ticket rows are shared with API transactions that answer, resolve   *)
(* and reopen tickets; while one of them holds a row the worker skips it.  *)
(***************************************************************************)
EXTENDS Naturals, FiniteSets

CONSTANTS
    Tickets,     \* rows of table tickets
    Deadlines,   \* the deadlines that the SLA policy of the tickets sets
    Workers,     \* worker processes
    MaxRetries,  \* retries of a failed check (0 in server.go)
    MaxErrors,   \* bound: failed statements and failed evaluations
    MaxCrashes,  \* bound: worker processes that die or are shut down
    NoOne, Api   \* holders of a row lock that are not workers

\* The three calls of processDeadline in a cycle, in their order; the first two
\* are one check with its own retries, the third is another.
Clocks == 1..3
Resolution == 1
Response == 2
Escalation == 3

ASSUME ConstantsAssumption ==
    /\ Deadlines \in SUBSET Clocks
    /\ MaxRetries \in Nat
    /\ MaxErrors \in Nat
    /\ MaxCrashes \in Nat
    /\ NoOne \notin Workers \cup {Api}
    /\ Api \notin Workers

VARIABLES
    ticket,   \* the columns the worker reads and writes
    lock,     \* who holds the lock on each row
    worker,   \* where each process is in its cycle
    healthy,  \* ReadyHealthy: the last cycle of the process went well
    errors, crashes,
    audit,    \* system comment and history entry per ticket and clock
    events,   \* events handed to the automation engine per ticket and clock
    dropped   \* history: the process lost an event in its latest cycle

vars == <<ticket, lock, worker, healthy, errors, crashes, audit, events, dropped>>

Ticket == [open : BOOLEAN, responded : BOOLEAN,
           passed : SUBSET Clocks, flagged : SUBSET Clocks]

\* claimed: tickets of the transaction, then those still to be dispatched.
Worker == [phase : {"sleep", "claim", "commit", "dispatch"}, clock : Clocks,
           attempt : 0..MaxRetries, claimed : SUBSET Tickets, failed : BOOLEAN]

Asleep == [phase |-> "sleep", clock |-> Resolution, attempt |-> 0,
           claimed |-> {}, failed |-> FALSE]

\* Types, and row locks that are held exactly by the transactions in progress.
TypeOK ==
    /\ ticket \in [Tickets -> Ticket]
    /\ lock \in [Tickets -> Workers \cup {NoOne, Api}]
    /\ worker \in [Workers -> Worker]
    /\ healthy \in [Workers -> BOOLEAN]
    /\ errors \in 0..MaxErrors
    /\ crashes \in 0..MaxCrashes
    /\ audit \in [Tickets -> [Clocks -> Nat]]
    /\ events \in [Tickets -> [Clocks -> Nat]]
    /\ dropped \in [Workers -> BOOLEAN]
    /\ \A t \in Tickets, w \in Workers :
         lock[t] = w <=> worker[w].phase = "commit" /\ t \in worker[w].claimed

(***************************************************************************)
(* The API and the clock                                                   *)
(***************************************************************************)
DeadlinePasses(t, k) ==
    /\ k \in Deadlines
    /\ k \notin ticket[t].passed
    /\ ticket' = [ticket EXCEPT ![t].passed = @ \cup {k}]
    /\ UNCHANGED <<lock, worker, healthy, errors, crashes, audit, events, dropped>>

\* A status change or a comment locks the row first ...
ApiLock(t) ==
    /\ lock[t] = NoOne
    /\ lock' = [lock EXCEPT ![t] = Api]
    /\ UNCHANGED <<ticket, worker, healthy, errors, crashes, audit, events, dropped>>

\* ... and answers, resolves or reopens the ticket, or changes nothing.
ApiCommit(t) ==
    /\ lock[t] = Api
    /\ lock' = [lock EXCEPT ![t] = NoOne]
    /\ \/ UNCHANGED ticket
       \/ \E open \in BOOLEAN : ticket' = [ticket EXCEPT ![t].open = open]
       \/ ticket' = [ticket EXCEPT ![t].responded = TRUE]
    /\ UNCHANGED <<worker, healthy, errors, crashes, audit, events, dropped>>

(***************************************************************************)
(* One call of processDeadline                                             *)
(***************************************************************************)
\* Variant: the flag is not part of the condition.
Due_Repeats(t, k) ==
    /\ ticket[t].open
    /\ k \in ticket[t].passed
    /\ k = Response => ~ticket[t].responded

\* The WHERE clause.
Due(t, k) ==
    /\ ticket[t].open
    /\ k \in ticket[t].passed
    /\ k \notin ticket[t].flagged
    /\ k = Response => ~ticket[t].responded

\* Variant: the row is not locked, nor skipped when it is.
Claimable_Unlocked(t, k) == Due(t, k)

\* FOR UPDATE SKIP LOCKED.
Claimable(t, k) == Due(t, k) /\ lock[t] = NoOne

Claim(w) ==
    /\ worker[w].phase = "claim"
    /\ LET rows == {t \in Tickets : Claimable(t, worker[w].clock)} IN
         /\ worker' = [worker EXCEPT ![w].phase = "commit", ![w].claimed = rows]
         /\ lock' = [t \in Tickets |-> IF t \in rows THEN w ELSE lock[t]]
    /\ UNCHANGED <<ticket, healthy, errors, crashes, audit, events, dropped>>

\* Variant: the locks outlive the transaction.
Unlock_Forgotten(w) == UNCHANGED lock

Unlock(w) == lock' = [t \in Tickets |-> IF lock[t] = w THEN NoOne ELSE lock[t]]

\* Flag, comment and history of every claimed ticket, then COMMIT.
Commit(w) ==
    /\ worker[w].phase = "commit"
    /\ LET k == worker[w].clock
           rows == worker[w].claimed IN
         /\ ticket' = [t \in Tickets |-> IF t \in rows
                         THEN [ticket[t] EXCEPT !.flagged = @ \cup {k}] ELSE ticket[t]]
         /\ audit' = [t \in Tickets |-> IF t \in rows
                        THEN [audit[t] EXCEPT ![k] = @ + 1] ELSE audit[t]]
    /\ Unlock(w)
    /\ worker' = [worker EXCEPT ![w].phase = "dispatch"]
    /\ UNCHANGED <<healthy, errors, crashes, events, dropped>>

Dispatch(w, t) ==
    /\ worker[w].phase = "dispatch"
    /\ t \in worker[w].claimed
    /\ events' = [events EXCEPT ![t][worker[w].clock] = @ + 1]
    /\ worker' = [worker EXCEPT ![w].claimed = @ \ {t}]
    /\ UNCHANGED <<ticket, lock, healthy, errors, crashes, audit, dropped>>

(***************************************************************************)
(* The cycle: two checks, each with its retries                            *)
(***************************************************************************)
CheckOf(k) == IF k = Escalation THEN {Escalation} ELSE {Resolution, Response}
FirstOf(k) == IF k = Escalation THEN Escalation ELSE Resolution

\* Variant: the outcome of the last check decides alone.
CycleFailed_LastOnly(w, now) == now

\* lastFailed: a check that gave up makes the cycle a failure.
CycleFailed(w, now) == worker[w].failed \/ now

\* After the last clock the cycle ends; otherwise the next clock is claimed.
Proceed(w, k, failed) ==
    IF k = Escalation
    THEN /\ worker' = [worker EXCEPT ![w] = Asleep]
         /\ healthy' = [healthy EXCEPT ![w] = ~CycleFailed(w, failed)]
    ELSE /\ worker' = [worker EXCEPT ![w] =
                         [phase |-> "claim", clock |-> k + 1,
                          attempt |-> IF CheckOf(k + 1) = CheckOf(k)
                                      THEN worker[w].attempt ELSE 0,
                          claimed |-> {}, failed |-> CycleFailed(w, failed)]]
         /\ UNCHANGED healthy

\* The ticker fires (and once at start).
StartCycle(w) ==
    /\ worker[w].phase = "sleep"
    /\ worker' = [worker EXCEPT ![w].phase = "claim"]
    /\ dropped' = [dropped EXCEPT ![w] = FALSE]
    /\ UNCHANGED <<ticket, lock, healthy, errors, crashes, audit, events>>

FinishClock(w) ==
    /\ worker[w].phase = "dispatch"
    /\ worker[w].claimed = {}
    /\ Proceed(w, worker[w].clock, FALSE)
    /\ UNCHANGED <<ticket, lock, errors, crashes, audit, events, dropped>>

\* runWithRetry: the check starts over at its first clock, or gives up; the
\* clocks of the check that come later are then not looked at in this cycle.
RetryOrGiveUp(w) ==
    IF worker[w].attempt < MaxRetries
    THEN /\ worker' = [worker EXCEPT ![w].phase = "claim",
                         ![w].clock = FirstOf(@), ![w].attempt = @ + 1,
                         ![w].claimed = {}]
         /\ UNCHANGED healthy
    ELSE Proceed(w, IF worker[w].clock = Escalation THEN Escalation ELSE Response, TRUE)

\* A statement fails before the commit: the transaction is rolled back.
TransactionFails(w) ==
    /\ worker[w].phase \in {"claim", "commit"}
    /\ errors < MaxErrors
    /\ errors' = errors + 1
    /\ Unlock(w)
    /\ RetryOrGiveUp(w)
    /\ UNCHANGED <<ticket, crashes, audit, events, dropped>>

\* Evaluate returns an error (its event was handed over): the loop stops there
\* and the tickets after it, already flagged, are never looked at again.
EvaluateFails(w, t) ==
    /\ worker[w].phase = "dispatch"
    /\ t \in worker[w].claimed
    /\ errors < MaxErrors
    /\ errors' = errors + 1
    /\ events' = [events EXCEPT ![t][worker[w].clock] = @ + 1]
    /\ dropped' = [dropped EXCEPT ![w] = @ \/ worker[w].claimed # {t}]
    /\ RetryOrGiveUp(w)
    /\ UNCHANGED <<ticket, lock, crashes, audit>>

\* The process dies or is stopped: its transaction is rolled back, its events
\* are gone, and it is not ready until it has completed a cycle.
Crash(w) ==
    /\ crashes < MaxCrashes
    /\ worker[w].phase # "sleep"
    /\ crashes' = crashes + 1
    /\ worker' = [worker EXCEPT ![w] = Asleep]
    /\ healthy' = [healthy EXCEPT ![w] = FALSE]
    /\ Unlock(w)
    /\ UNCHANGED <<ticket, errors, audit, events, dropped>>

Init ==
    /\ ticket = [t \in Tickets |-> [open |-> TRUE, responded |-> FALSE,
                                    passed |-> {}, flagged |-> {}]]
    /\ lock = [t \in Tickets |-> NoOne]
    /\ worker = [w \in Workers |-> Asleep]
    /\ healthy = [w \in Workers |-> FALSE]
    /\ errors = 0
    /\ crashes = 0
    /\ audit = [t \in Tickets |-> [k \in Clocks |-> 0]]
    /\ events = [t \in Tickets |-> [k \in Clocks |-> 0]]
    /\ dropped = [w \in Workers |-> FALSE]

WorkerStep(w) ==
    \/ StartCycle(w) \/ Claim(w) \/ Commit(w) \/ FinishClock(w)
    \/ \E t \in Tickets : Dispatch(w, t)

Next ==
    \/ \E w \in Workers :
         \/ WorkerStep(w) \/ TransactionFails(w) \/ Crash(w)
         \/ \E t \in Tickets : EvaluateFails(w, t)
    \/ \E t \in Tickets :
         \/ ApiLock(t) \/ ApiCommit(t)
         \/ \E k \in Clocks : DeadlinePasses(t, k)

Spec == Init /\ [][Next]_vars

Polls(w, k) == worker[w].phase = "claim" /\ worker[w].clock = k

\* The claim of w finds a row that is due and unlocked.
ClaimRow(w, t, k) == Claim(w) /\ Polls(w, k) /\ Due(t, k) /\ lock[t] = NoOne

\* The workers keep polling and API transactions end.  Of the database it is
\* assumed that no row is locked by the API at every single poll (a transaction
\* lasts milliseconds, a poll comes every minute), nor lost in every race.
Fairness ==
    /\ \A w \in Workers : WF_vars(WorkerStep(w))
    /\ \A t \in Tickets : WF_vars(ApiCommit(t))
    /\ \A w \in Workers, t \in Tickets, k \in Clocks :
         /\ []<>Polls(w, k) => []<>(Polls(w, k) /\ lock[t] # Api)
         /\ SF_vars(ClaimRow(w, t, k))

FairSpec == Spec /\ Fairness

(***************************************************************************)
(* Properties                                                              *)
(***************************************************************************)
\* A breach is recorded once, with its flag: neither two workers that poll at
\* once, nor a retry, nor a crash leaves two comments or a flag without one.
RecordedOnce ==
    \A t \in Tickets, k \in Clocks :
        audit[t][k] = IF k \in ticket[t].flagged THEN 1 ELSE 0

\* The automation engine hears of a breach at most once, and never of one that
\* was not committed.
EventAtMostOnce ==
    \A t \in Tickets, k \in Clocks :
        events[t][k] <= IF k \in ticket[t].flagged THEN 1 ELSE 0

\* A breach is recorded only against a ticket that is open, and a response
\* breach only while nobody has answered, at the moment of the commit.
BreachIsCurrent ==
    [][\A t \in Tickets, k \in Clocks :
         k \in ticket'[t].flagged \ ticket[t].flagged
            => ticket[t].open /\ (k = Response => ~ticket[t].responded)]_vars

\* A worker that reports healthy has lost no event of its latest cycle.  This
\* holds without retries, as server.go runs it: a retry of the check finds the
\* tickets flagged, succeeds, and hides the loss.
HealthyLostNothing ==
    \A w \in Workers : healthy[w] /\ worker[w].phase = "sleep" => ~dropped[w]

\* A deadline that has passed is acted on, or answered or resolved in time,
\* whatever the row locks, retries and crashes of the way.
DueIsHandled ==
    \A t \in Tickets, k \in Clocks : Due(t, k) ~> ~Due(t, k)
=============================================================================
