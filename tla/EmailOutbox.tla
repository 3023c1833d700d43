---------------------------- MODULE EmailOutbox ----------------------------
(***************************************************************************)
(* The PostgreSQL email outbox: infrastructure/email/queue.go and          *)
(* infrastructure/postgres/email_outbox_repo.go.                           *)
(*                                                                         *)
(* Several worker goroutines (five per process, any number of processes)   *)
(* claim a row under a one-minute lease, talk to the mail server outside   *)
(* any transaction, and finish the row with a statement fenced on the      *)
(* attempt they claimed.  Emails are numbered in the order of created_at.  *)
(* Time is abstract: a lease or a back-off may run out at any moment.      *)
(***************************************************************************)
EXTENDS Naturals, FiniteSets

CONSTANTS
    EmailCount,    \* rows that can be enqueued
    Workers,       \* delivery goroutines
    MaxAttempts,   \* attempts after which a failure is terminal (5 in the code)
    MaxCrashes,    \* bound: times a worker dies between claim and finish
    MaxOverruns,   \* bound: times a lease runs out under a live worker
    MaxLostReplies \* bound: times the server takes a mail and the call errors

ASSUME BoundsAssumption ==
    /\ EmailCount \in Nat
    /\ MaxAttempts \in Nat \ {0}
    /\ MaxCrashes \in Nat
    /\ MaxOverruns \in Nat
    /\ MaxLostReplies \in Nat

Emails == 1..EmailCount

VARIABLES
    row,        \* table email_outbox
    worker,     \* what each goroutine is doing
    delivered,  \* copies the mail server has accepted (outside the database)
    crashes,    \* counts against MaxCrashes
    overruns,   \* counts against MaxOverruns
    lost        \* counts against MaxLostReplies

vars == <<row, worker, delivered, crashes, overruns, lost>>

Status == {"absent", "pending", "sending", "sent", "failed"}

\* ready: available_at has passed.  leased: leased_until is in the future.
Row == [status : Status, attempts : Nat, ready : BOOLEAN, leased : BOOLEAN]

Waiting == [phase |-> "waiting"]
Job == [phase : {"send", "finish"}, email : Emails, attempt : Nat, ok : BOOLEAN]

TypeOK ==
    /\ row \in [Emails -> Row]
    /\ worker \in [Workers -> {Waiting} \cup Job]
    /\ delivered \in [Emails -> Nat]
    /\ crashes \in Nat
    /\ overruns \in Nat
    /\ lost \in Nat

(***************************************************************************)
(* Enqueue and claim                                                       *)
(***************************************************************************)
\* Enqueue joins the caller's transaction: this step is that commit.
Enqueue(e) ==
    /\ row[e].status = "absent"
    /\ \A d \in Emails : d < e => row[d].status # "absent"
    /\ row' = [row EXCEPT ![e] = [status |-> "pending", attempts |-> 0,
                                  ready |-> TRUE, leased |-> FALSE]]
    /\ UNCHANGED <<worker, delivered, crashes, overruns, lost>>

\* Variant: a row under lease is never taken over.
Claimable_NoTakeover(e) == row[e].status = "pending" /\ row[e].ready

\* The WHERE clause of Claim's inner SELECT.
Claimable(e) ==
    \/ row[e].status = "pending" /\ row[e].ready
    \/ row[e].status = "sending" /\ ~row[e].leased

\* The oldest claimable row; SKIP LOCKED makes concurrent claims disjoint.
Claim(w, e) ==
    /\ worker[w] = Waiting
    /\ Claimable(e)
    /\ \A d \in Emails : d < e => ~Claimable(d)
    /\ row' = [row EXCEPT ![e].status = "sending", ![e].attempts = @ + 1,
                          ![e].leased = TRUE]
    /\ worker' = [worker EXCEPT ![w] =
                    [phase |-> "send", email |-> e,
                     attempt |-> row[e].attempts + 1, ok |-> FALSE]]
    /\ UNCHANGED <<delivered, crashes, overruns, lost>>

(***************************************************************************)
(* Send and finish                                                         *)
(***************************************************************************)
\* sender.SendContext: the server takes the mail, or the call errors.
Accepted(w) ==
    /\ worker[w].phase = "send"
    /\ worker' = [worker EXCEPT ![w].phase = "finish", ![w].ok = TRUE]
    /\ delivered' = [delivered EXCEPT ![worker[w].email] = @ + 1]
    /\ UNCHANGED <<row, crashes, overruns, lost>>

Refused(w) ==
    /\ worker[w].phase = "send"
    /\ worker' = [worker EXCEPT ![w].phase = "finish", ![w].ok = FALSE]
    /\ UNCHANGED <<row, delivered, crashes, overruns, lost>>

\* The server takes the mail and the call still errors (a timeout on the reply).
ReplyLost(w) ==
    /\ worker[w].phase = "send"
    /\ lost < MaxLostReplies
    /\ lost' = lost + 1
    /\ worker' = [worker EXCEPT ![w].phase = "finish", ![w].ok = FALSE]
    /\ delivered' = [delivered EXCEPT ![worker[w].email] = @ + 1]
    /\ UNCHANGED <<row, crashes, overruns>>

\* Variant: the outcome is written without looking at the send's result.
Outcome_AlwaysSent(w) == "sent"

\* Finish: sent, failed for good at the limit, or back to pending.
Outcome(w) ==
    IF worker[w].ok THEN "sent"
    ELSE IF worker[w].attempt >= MaxAttempts THEN "failed"
    ELSE "pending"

\* Variant: fenced on the status but not on the attempt.
Fenced_ByStatus(w) == row[worker[w].email].status = "sending"

\* The WHERE clause of Finish.
Fenced(w) ==
    /\ row[worker[w].email].status = "sending"
    /\ row[worker[w].email].attempts = worker[w].attempt

Finish(w) ==
    /\ worker[w].phase = "finish"
    /\ worker' = [worker EXCEPT ![w] = Waiting]
    /\ IF Fenced(w)
       THEN row' = [row EXCEPT ![worker[w].email].status = Outcome(w),
                               ![worker[w].email].ready = FALSE,
                               ![worker[w].email].leased = FALSE]
       ELSE UNCHANGED row
    /\ UNCHANGED <<delivered, crashes, overruns, lost>>

(***************************************************************************)
(* Time and failures                                                       *)
(***************************************************************************)
BackoffElapses(e) ==
    /\ row[e].status = "pending"
    /\ ~row[e].ready
    /\ row' = [row EXCEPT ![e].ready = TRUE]
    /\ UNCHANGED <<worker, delivered, crashes, overruns, lost>>

\* A live worker is still on the attempt the row is leased for.
Held(e) == \E w \in Workers :
    /\ worker[w] # Waiting
    /\ worker[w].email = e
    /\ worker[w].attempt = row[e].attempts

LeaseExpires(e) ==
    /\ row[e].status = "sending"
    /\ row[e].leased
    /\ ~Held(e)
    /\ row' = [row EXCEPT ![e].leased = FALSE]
    /\ UNCHANGED <<worker, delivered, crashes, overruns, lost>>

\* A send that takes longer than the lease: the row is up for grabs while its
\* worker is still talking to the server.
LeaseOverruns(e) ==
    /\ row[e].status = "sending"
    /\ row[e].leased
    /\ Held(e)
    /\ overruns < MaxOverruns
    /\ overruns' = overruns + 1
    /\ row' = [row EXCEPT ![e].leased = FALSE]
    /\ UNCHANGED <<worker, delivered, crashes, lost>>

\* The process dies, is shut down (the context Finish runs under is cancelled)
\* or cannot reach the database: the row keeps its lease.
Crash(w) ==
    /\ worker[w] # Waiting
    /\ crashes < MaxCrashes
    /\ crashes' = crashes + 1
    /\ worker' = [worker EXCEPT ![w] = Waiting]
    /\ UNCHANGED <<row, delivered, overruns, lost>>

Init ==
    /\ row = [e \in Emails |-> [status |-> "absent", attempts |-> 0,
                                ready |-> FALSE, leased |-> FALSE]]
    /\ worker = [w \in Workers |-> Waiting]
    /\ delivered = [e \in Emails |-> 0]
    /\ crashes = 0
    /\ overruns = 0
    /\ lost = 0

WorkerStep(w) == \/ \E e \in Emails : Claim(w, e)
                 \/ Accepted(w) \/ Refused(w) \/ Finish(w)
ClockStep(e) == BackoffElapses(e) \/ LeaseExpires(e)

Next ==
    \/ \E e \in Emails : Enqueue(e) \/ ClockStep(e) \/ LeaseOverruns(e)
    \/ \E w \in Workers : WorkerStep(w) \/ ReplyLost(w) \/ Crash(w)

Spec == Init /\ [][Next]_vars

\* Each goroutine wakes every second until the context ends, and time passes.
Fairness ==
    /\ \A w \in Workers : WF_vars(WorkerStep(w))
    /\ \A e \in Emails : WF_vars(ClockStep(e))

FairSpec == Spec /\ Fairness

(***************************************************************************)
(* Properties                                                              *)
(***************************************************************************)
\* A row that says sent was handed to the server at least once: a takeover, a
\* stale finish or a crash between send and finish never invents a delivery.
SentMeansDelivered == \A e \in Emails : row[e].status = "sent" => delivered[e] > 0

\* At most one worker can still settle an email: of those that claimed it, only
\* the holder of the latest attempt passes the fence of Finish.
OneSettler ==
    \A v, w \in Workers :
        /\ worker[v] # Waiting /\ worker[w] # Waiting
        /\ worker[v].email = worker[w].email
        /\ Fenced(v) /\ Fenced(w)
        => v = w

\* Sent and failed are final: a late finish of an overrun attempt neither
\* reopens a settled email (a needless duplicate) nor changes its outcome.
SettledIsFinal ==
    [][\A e \in Emails :
         row[e].status \in {"sent", "failed"} => row'[e].status = row[e].status]_vars

\* Every committed email is eventually settled, through retries, takeovers and a
\* bounded number of crashes: none is stranded in pending or sending.
EveryEmailSettles ==
    \A e \in Emails :
        row[e].status = "pending" ~> row[e].status \in {"sent", "failed"}

\* The outbox implements EmailDelivery: pending and sending are one state to the
\* outside.
StateOf(e) ==
    IF row[e].status \in {"pending", "sending"} THEN "queued" ELSE row[e].status

Delivery == INSTANCE EmailDelivery
    WITH state <- [e \in Emails |-> StateOf(e)], copies <- delivered

ImplementsDelivery == Delivery!Spec
=============================================================================
