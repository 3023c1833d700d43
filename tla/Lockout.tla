------------------------------ MODULE Lockout ------------------------------
(***************************************************************************)
(* The failed-login counter and the account lock (application/auth:        *)
(* Login, handleFailedLogin; infrastructure/postgres/user_repo.go).        *)
(*                                                                         *)
(* Login reads the row once; the counter is then bumped by one statement,  *)
(* the decision to lock is taken on the value read before, and the lock is *)
(* a second statement.  The errors of the three statements are dropped.    *)
(* One account is enough: nothing of this touches two rows.                *)
(***************************************************************************)
EXTENDS Naturals, FiniteSets

CONSTANTS
    Requests,         \* logins of the account that may be in flight
    MaxFailed,        \* maxFailedAttempts (5 in the code)
    LockoutDuration,  \* clock ticks a lock lasts (15 minutes in the code)
    MaxErrors         \* bound: statements that fail or are cancelled

ASSUME BoundsAssumption ==
    /\ IsFiniteSet(Requests)
    /\ MaxFailed \in Nat \ {0, 1}
    /\ LockoutDuration \in Nat \ {0}
    /\ MaxErrors \in Nat

VARIABLES
    fails,      \* users.failed_login_attempts, saturated at MaxFailed
    lockLeft,   \* ticks until users.locked_until, 0 when past or null
    login,      \* what each request read and still has to write
    errors,     \* counts against MaxErrors
    guesses,    \* history: wrong passwords compared since the account was
                \* last locked or its counter reset
    locked      \* history: a lock was written since the counter was reset

vars == <<fails, lockLeft, login, errors, guesses, locked>>

Idle == [step |-> "idle"]
Pending == [step : {"increment"}, seen : 0..MaxFailed] \cup [step : {"lock", "reset"}]

TypeOK ==
    /\ fails \in 0..MaxFailed
    /\ lockLeft \in 0..LockoutDuration
    /\ login \in [Requests -> {Idle} \cup Pending]
    /\ errors \in 0..MaxErrors
    /\ guesses \in Nat
    /\ locked \in BOOLEAN

(***************************************************************************)
(* Login                                                                   *)
(***************************************************************************)
\* Variant: the lock is not looked at.
Readable_Always == TRUE

\* A locked account is refused before the password is compared.
Readable == lockLeft = 0

\* The row is read and the password compared with the hash it held.
LoginWrong(r) ==
    /\ login[r] = Idle
    /\ Readable
    /\ login' = [login EXCEPT ![r] = [step |-> "increment", seen |-> fails]]
    /\ guesses' = guesses + 1
    /\ UNCHANGED <<fails, lockLeft, errors, locked>>

LoginRight(r) ==
    /\ login[r] = Idle
    /\ Readable
    /\ login' = [login EXCEPT ![r] = [step |-> "reset"]]
    /\ UNCHANGED <<fails, lockLeft, errors, guesses, locked>>

\* Variant: the comparison is strict.
AfterIncrement_Strict(seen) ==
    IF seen + 1 > MaxFailed THEN [step |-> "lock"] ELSE Idle

\* What handleFailedLogin does next, from the counter it read before.
AfterIncrement(seen) ==
    IF seen + 1 >= MaxFailed THEN [step |-> "lock"] ELSE Idle

\* IncrementFailedAttempts: +1 in the database, or an error nobody looks at.
IncrementFailedAttempts(r) ==
    \/ /\ fails' = IF fails < MaxFailed THEN fails + 1 ELSE fails
       /\ UNCHANGED errors
    \/ /\ errors < MaxErrors
       /\ errors' = errors + 1
       /\ UNCHANGED fails

HandleFailedLogin(r) ==
    /\ login[r].step = "increment"
    /\ IncrementFailedAttempts(r)
    /\ login' = [login EXCEPT ![r] = AfterIncrement(login[r].seen)]
    /\ UNCHANGED <<lockLeft, guesses, locked>>

\* until = now + lockoutDuration, whatever locked_until holds.
Until == LockoutDuration

LockAccount(r) ==
    /\ login[r].step = "lock"
    /\ login' = [login EXCEPT ![r] = Idle]
    /\ \/ /\ lockLeft' = Until
          /\ guesses' = 0
          /\ locked' = TRUE
          /\ UNCHANGED errors
       \/ /\ errors < MaxErrors
          /\ errors' = errors + 1
          /\ UNCHANGED <<lockLeft, guesses, locked>>
    /\ UNCHANGED fails

\* A right password clears the counter and the lock, also one that another
\* request wrote after this one had read the row.
ResetFailedAttempts(r) ==
    /\ login[r].step = "reset"
    /\ login' = [login EXCEPT ![r] = Idle]
    /\ \/ /\ fails' = 0
          /\ lockLeft' = 0
          /\ guesses' = 0
          /\ locked' = FALSE
          /\ UNCHANGED errors
       \/ /\ errors < MaxErrors
          /\ errors' = errors + 1
          /\ UNCHANGED <<fails, lockLeft, guesses, locked>>

\* Time.  The statements of one request take no noticeable part of the lock.
Tick ==
    /\ lockLeft > 0
    /\ lockLeft' = lockLeft - 1
    /\ UNCHANGED <<fails, login, errors, guesses, locked>>

Init ==
    /\ fails = 0
    /\ lockLeft = 0
    /\ login = [r \in Requests |-> Idle]
    /\ errors = 0
    /\ guesses = 0
    /\ locked = FALSE

Next ==
    \/ \E r \in Requests :
         \/ LoginWrong(r) \/ LoginRight(r) \/ HandleFailedLogin(r)
         \/ LockAccount(r) \/ ResetFailedAttempts(r)
    \/ Tick

Spec == Init /\ [][Next]_vars

\* Only the clock is fair: no request has to finish, and none has to stop.
FairSpec == Spec /\ WF_vars(Tick)

(***************************************************************************)
(* Properties                                                              *)
(***************************************************************************)
\* Between two locks (or resets) at most MaxFailed wrong passwords are compared
\* by requests that come one at a time; each further request in flight can add
\* two, one that read the counter below the threshold and one that read it at
\* the threshold but has not locked yet; a statement that fails adds one.
GuessBudget == guesses <= MaxFailed + 2 * (Cardinality(Requests) - 1) + errors

\* A lock always ends: the attempts still in flight may renew it, but nothing
\* that arrives while the account is locked can.
LockEnds == lockLeft > 0 ~> lockLeft = 0
=============================================================================
