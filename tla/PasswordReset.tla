--------------------------- MODULE PasswordReset ---------------------------
(***************************************************************************)
(* Password-reset tokens of one account (application/auth/password_reset,  *)
(* infrastructure/postgres/password_reset_repo and _atomic).               *)
(*                                                                         *)
(* RequestReset and ConfirmReset run transactions of several statements    *)
(* under PostgreSQL's READ COMMITTED: each statement sees what had been    *)
(* committed when it began, a write locks its row until the transaction    *)
(* ends, and a statement that waited for a row looks at it again.  A       *)
(* transaction caught in a cycle of waits is rolled back.                  *)
(***************************************************************************)
EXTENDS Naturals, FiniteSets

CONSTANTS
    Tokens,       \* tokens that can be generated
    Procs,        \* handler goroutines
    NoProc        \* nobody holds the lock

ASSUME ProcAssumption == NoProc \notin Procs

VARIABLES
    token,      \* committed rows of password_reset_tokens
    active,     \* users.active
    tokenLock,  \* who holds the lock on a token row
    userLock,   \* who holds the lock on the account's row
    proc,       \* what each goroutine is doing
    uses,       \* history: committed password changes per token
    overtaken   \* history: tokens a later committed transaction had to kill

resetVars == <<token, active, tokenLock, userLock, proc, uses, overtaken>>

Absent == [exists |-> FALSE, used |-> FALSE, expired |-> FALSE]

\* A goroutine is idle, or in a step of a transaction.  Its token is none or the
\* one presented; todo: rows the UPDATE in progress has still to visit; marked:
\* rows this transaction has marked used; seen: rows it is bound to kill, as
\* history.
NoTransaction == [step |-> "idle"]

(***************************************************************************)
(* Helper formulas                                                         *)
(***************************************************************************)
Unused(t) == token[t].exists /\ ~token[t].used
Redeemable(t) == Unused(t) /\ ~token[t].expired

\* The rows a statement that begins now will visit.
Unspent == {t \in Tokens : Unused(t)}

Begin(x, step, held) ==
    proc' = [proc EXCEPT ![x] = [step |-> step, token |-> held, todo |-> {},
                                 marked |-> {}, seen |-> {}]]

\* The end of a transaction: its locks are gone.
Release(x) ==
    /\ tokenLock' = [t \in Tokens |-> IF tokenLock[t] = x THEN NoProc ELSE tokenLock[t]]
    /\ userLock' = IF userLock = x THEN NoProc ELSE userLock
    /\ proc' = [proc EXCEPT ![x] = NoTransaction]

Rollback(x) ==
    /\ Release(x)
    /\ UNCHANGED <<token, active, uses, overtaken>>

\* A statement of x waits for a lock of y.
WaitsFor(x, y) ==
    /\ x # y
    /\ \/ /\ proc[x].step \in {"markRequest", "markConfirm"}
          /\ \E t \in proc[x].todo : tokenLock[t] = y
          /\ \A t \in proc[x].todo : tokenLock[t] \notin {NoProc, x}
       \/ /\ proc[x].step = "confirm"
          /\ \E t \in proc[x].token : tokenLock[t] = y
       \/ /\ proc[x].step = "password"
          /\ userLock = y

(***************************************************************************)
(* UPDATE password_reset_tokens SET used=TRUE WHERE NOT used               *)
(***************************************************************************)
\* Variant: only the token that is presented is marked.
RowsToMark_Own(x) == proc[x].token \cap Unspent

RowsToMark(x) == Unspent

\* The statement begins with a snapshot of the unspent rows ...
BeginMark(x, step) ==
    proc' = [proc EXCEPT ![x].step = step, ![x].todo = RowsToMark(x),
                         ![x].seen = IF step = "markRequest" THEN Unspent ELSE @]

\* ... and visits them: it waits for the lock of a row and checks it again.
MarkRow(x, t) ==
    /\ proc[x].step \in {"markRequest", "markConfirm"}
    /\ t \in proc[x].todo
    /\ tokenLock[t] \in {NoProc, x}
    /\ IF Unused(t)
       THEN /\ tokenLock' = [tokenLock EXCEPT ![t] = x]
            /\ proc' = [proc EXCEPT ![x].todo = @ \ {t}, ![x].marked = @ \cup {t}]
       ELSE /\ proc' = [proc EXCEPT ![x].todo = @ \ {t}]
            /\ UNCHANGED tokenLock
    /\ UNCHANGED <<token, active, userLock, uses, overtaken>>

(***************************************************************************)
(* RequestReset and CreateToken                                            *)
(***************************************************************************)
\* GetByEmail finds active accounts only; the token is generated next.
RequestReset(x, t) ==
    /\ proc[x] = NoTransaction
    /\ active
    /\ ~token[t].exists
    /\ \A y \in Procs : proc[y] # NoTransaction => t \notin proc[y].token
    /\ Begin(x, "request", {t})
    /\ UNCHANGED <<token, active, tokenLock, userLock, uses, overtaken>>

CreateToken(x) ==
    /\ proc[x].step = "request"
    /\ BeginMark(x, "markRequest")
    /\ UNCHANGED <<token, active, tokenLock, userLock, uses, overtaken>>

\* The new row, and the mail in the outbox, are written by the transaction.
InsertToken(x) ==
    /\ proc[x].step = "markRequest"
    /\ proc[x].todo = {}
    /\ proc' = [proc EXCEPT ![x].step = "commitRequest"]
    /\ UNCHANGED <<token, active, tokenLock, userLock, uses, overtaken>>

Spend(rows) == [t \in Tokens |-> IF t \in rows THEN [token[t] EXCEPT !.used = TRUE]
                                 ELSE token[t]]

CommitRequest(x) ==
    /\ proc[x].step = "commitRequest"
    /\ token' = [t \in Tokens |-> IF t \in proc[x].token
                                  THEN [Absent EXCEPT !.exists = TRUE]
                                  ELSE Spend(proc[x].marked)[t]]
    /\ overtaken' = overtaken \cup proc[x].seen
    /\ Release(x)
    /\ UNCHANGED <<active, uses>>

(***************************************************************************)
(* ConfirmReset and ConsumeAndUpdatePassword                               *)
(***************************************************************************)
\* FindValidToken and the expiry check; the new password is hashed after it.
ConfirmReset(x, t) ==
    /\ proc[x] = NoTransaction
    /\ Redeemable(t)
    /\ Begin(x, "confirm", {t})
    /\ UNCHANGED <<token, active, tokenLock, userLock, uses, overtaken>>

\* Variant: the locked row is not looked at again.
StillValid_Unchecked(t) == TRUE

StillValid(t) == Redeemable(t)

\* SELECT ... FOR UPDATE of the token, with the conditions checked again.
LockToken(x) ==
    /\ proc[x].step = "confirm"
    /\ \E t \in proc[x].token :
         /\ tokenLock[t] = NoProc
         /\ IF StillValid(t)
            THEN /\ tokenLock' = [tokenLock EXCEPT ![t] = x]
                 /\ proc' = [proc EXCEPT ![x].step = "password", ![x].seen = Unspent]
            ELSE /\ proc' = [proc EXCEPT ![x] = NoTransaction]
                 /\ UNCHANGED tokenLock
    /\ UNCHANGED <<token, active, userLock, uses, overtaken>>

Resettable == active

\* UPDATE users SET password ... AND active; no row updated rolls back.
UpdatePassword(x) ==
    /\ proc[x].step = "password"
    /\ userLock = NoProc
    /\ IF Resettable
       THEN /\ userLock' = x
            /\ proc' = [proc EXCEPT ![x].step = "beginMark"]
            /\ UNCHANGED <<token, active, tokenLock, uses, overtaken>>
       ELSE Rollback(x)

ConsumeTokens(x) ==
    /\ proc[x].step = "beginMark"
    /\ BeginMark(x, "markConfirm")
    /\ UNCHANGED <<token, active, tokenLock, userLock, uses, overtaken>>

\* The sessions are revoked and the transaction commits.
CommitConfirm(x) ==
    /\ proc[x].step = "markConfirm"
    /\ proc[x].todo = {}
    /\ token' = Spend(proc[x].marked)
    /\ uses' = [t \in Tokens |-> IF t \in proc[x].token THEN uses[t] + 1 ELSE uses[t]]
    /\ overtaken' = overtaken \cup proc[x].seen
    /\ Release(x)
    /\ UNCHANGED active

(***************************************************************************)
(* The rest of the system                                                  *)
(***************************************************************************)
\* Variant: a cycle of waits is not broken.
InCycle_Never(x) == FALSE

\* x waits for a transaction that, through others, waits for x.
InCycle(x) ==
    \E path \in [1..Cardinality(Procs) -> Procs] :
        \E n \in 2..Cardinality(Procs) :
            /\ path[1] = x
            /\ \A i \in 1..(n - 1) : WaitsFor(path[i], path[i + 1])
            /\ WaitsFor(path[n], x)

DeadlockVictim(x) ==
    /\ proc[x] # NoTransaction
    /\ InCycle(x)
    /\ Rollback(x)

\* A statement or the outbox insert errors, the context is cancelled, or the
\* process dies: the transaction is rolled back.
Fail(x) ==
    /\ proc[x] # NoTransaction
    /\ Rollback(x)

\* An administrator deactivates or reactivates the account, when its row is free.
SetActive ==
    /\ userLock = NoProc
    /\ active' = ~active
    /\ UNCHANGED <<token, tokenLock, userLock, proc, uses, overtaken>>

Expire(t) ==
    /\ token[t].exists
    /\ ~token[t].expired
    /\ token' = [token EXCEPT ![t].expired = TRUE]
    /\ UNCHANGED <<active, tokenLock, userLock, proc, uses, overtaken>>

ResetInit ==
    /\ token = [t \in Tokens |-> Absent]
    /\ active = TRUE
    /\ tokenLock = [t \in Tokens |-> NoProc]
    /\ userLock = NoProc
    /\ proc = [x \in Procs |-> NoTransaction]
    /\ uses = [t \in Tokens |-> 0]
    /\ overtaken = {}

\* The statements of a transaction that has begun.
Statement(x) ==
    \/ CreateToken(x) \/ InsertToken(x) \/ CommitRequest(x)
    \/ LockToken(x) \/ UpdatePassword(x) \/ ConsumeTokens(x) \/ CommitConfirm(x)
    \/ \E t \in Tokens : MarkRow(x, t)

ResetNext ==
    \/ \E x \in Procs :
         \/ Statement(x) \/ DeadlockVictim(x) \/ Fail(x)
         \/ \E t \in Tokens : RequestReset(x, t) \/ ConfirmReset(x, t)
    \/ SetActive
    \/ \E t \in Tokens : Expire(t)

ResetSpec == ResetInit /\ [][ResetNext]_resetVars

\* The database runs the statements it was given, hands a released row to those
\* that queue for it (strong fairness: newcomers do not overtake for ever) and
\* breaks deadlocks.  Nobody has to ask for a reset, no failure has to happen.
ResetFairness ==
    \A x \in Procs : SF_resetVars(Statement(x)) /\ WF_resetVars(DeadlockVictim(x))

ResetFairSpec == ResetSpec /\ ResetFairness

(***************************************************************************)
(* Properties                                                              *)
(***************************************************************************)
\* However many confirmations present one token at once, the password changes
\* at most once for it.
SingleUse == \A t \in Tokens : uses[t] <= 1

\* A token that was unspent when a later transaction looked at the table is dead
\* once that transaction has committed: a new request kills the tokens before
\* it, and a confirmation kills every other token of the account.
NoOvertakenToken == \A t \in overtaken : ~Unused(t)

\* Every request that was begun ends: waits on row locks, crossed in any order
\* by requests and confirmations, never last for ever.
TransactionsEnd == \A x \in Procs : proc[x] # NoTransaction ~> proc[x] = NoTransaction
=============================================================================
