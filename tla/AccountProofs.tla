--------------------------- MODULE AccountProofs ---------------------------
(***************************************************************************)
(* Proofs about one account: the lock (Lockout), for every finite set of   *)
(* requests in flight, every threshold and duration and every bound on     *)
(* failed statements; and the reset of its password (PasswordReset), for   *)
(* any tokens and any number of transactions at once.                      *)
(***************************************************************************)
EXTENDS Lockout, PasswordReset, FiniteSetTheorems, TLAPS

(***************************************************************************)
(* The strengthening of GuessBudget.  Counting is the set of requests that *)
(* have compared a wrong password and not yet counted it; Locking those    *)
(* that will end in a LockAccount whatever happens to the counter.  Below  *)
(* the last step before the threshold every guess is counted, in flight or *)
(* covered by an error; from there on, every further guess is by a request *)
(* of Locking, and only one whose LockAccount errs leaves without a lock.  *)
(***************************************************************************)
Counting == {r \in Requests : login[r].step = "increment"}
Locking == {r \in Requests : \/ login[r].step = "lock"
                             \/ /\ login[r].step = "increment"
                                /\ login[r].seen + 1 >= MaxFailed}

BelowBudget ==
    fails + 1 < MaxFailed => guesses <= fails + errors + Cardinality(Counting)

AtBudget ==
    fails + 1 >= MaxFailed
        => guesses + 2 <= MaxFailed + errors + Cardinality(Requests) + Cardinality(Locking)

BudgetInv == TypeOK /\ BelowBudget /\ AtBudget

(***************************************************************************)
(* Type correctness                                                        *)
(***************************************************************************)
LEMMA InitType == Init => TypeOK
<1> SUFFICES ASSUME Init PROVE TypeOK
  OBVIOUS
<1>1. login \in [Requests -> {Idle} \cup Pending]
  BY DEF Init
<1>2. fails \in 0..MaxFailed /\ lockLeft \in 0..LockoutDuration /\ errors \in 0..MaxErrors
  BY BoundsAssumption DEF Init
<1>3. QED
  BY <1>1, <1>2 DEF Init, TypeOK

\* Each step leaves the variables in their types.
LEMMA NextType == TypeOK /\ [Next]_vars => TypeOK'
<1> SUFFICES ASSUME TypeOK, [Next]_vars PROVE TypeOK'
  OBVIOUS
<1> USE BoundsAssumption
<1>1. ASSUME NEW r \in Requests, LoginWrong(r) PROVE TypeOK'
  <2>1. [step |-> "increment", seen |-> fails] \in Pending
    BY DEF TypeOK, Pending
  <2>2. QED
    BY <1>1, <2>1 DEF TypeOK, LoginWrong
<1>2. ASSUME NEW r \in Requests, LoginRight(r) PROVE TypeOK'
  <2>1. [step |-> "reset"] \in Pending
    BY DEF Pending
  <2>2. QED
    BY <1>2, <2>1 DEF TypeOK, LoginRight
<1>3. ASSUME NEW r \in Requests, HandleFailedLogin(r) PROVE TypeOK'
  <2>1. AfterIncrement(login[r].seen) \in {Idle} \cup Pending
    BY DEF AfterIncrement, Pending
  <2>2. fails' \in 0..MaxFailed /\ errors' \in 0..MaxErrors
    BY <1>3 DEF TypeOK, HandleFailedLogin, IncrementFailedAttempts
  <2>3. QED
    BY <1>3, <2>1, <2>2 DEF TypeOK, HandleFailedLogin
<1>4. ASSUME NEW r \in Requests, LockAccount(r) PROVE TypeOK'
  <2>1. login' \in [Requests -> {Idle} \cup Pending]
    BY <1>4 DEF TypeOK, LockAccount
  <2>2. errors' \in 0..MaxErrors
    BY <1>4 DEF TypeOK, LockAccount
  <2>3. lockLeft' \in 0..LockoutDuration /\ guesses' \in Nat /\ locked' \in BOOLEAN
    <3>1. CASE UNCHANGED <<lockLeft, guesses, locked>>
      BY <3>1 DEF TypeOK
    <3>2. CASE lockLeft' = Until /\ guesses' = 0 /\ locked' = TRUE
      BY <3>2 DEF Until
    <3>3. QED
      BY <1>4, <3>1, <3>2 DEF LockAccount
  <2>4. QED
    BY <1>4, <2>1, <2>2, <2>3 DEF TypeOK, LockAccount
<1>5. ASSUME NEW r \in Requests, ResetFailedAttempts(r) PROVE TypeOK'
  <2>1. login' \in [Requests -> {Idle} \cup Pending]
    BY <1>5 DEF TypeOK, ResetFailedAttempts
  <2>2. errors' \in 0..MaxErrors
    BY <1>5 DEF TypeOK, ResetFailedAttempts
  <2>3. fails' \in 0..MaxFailed /\ lockLeft' \in 0..LockoutDuration
        /\ guesses' \in Nat /\ locked' \in BOOLEAN
    <3>1. CASE UNCHANGED <<fails, lockLeft, guesses, locked>>
      BY <3>1 DEF TypeOK
    <3>2. CASE fails' = 0 /\ lockLeft' = 0 /\ guesses' = 0 /\ locked' = FALSE
      <4>1. 0 \in 0..MaxFailed /\ 0 \in 0..LockoutDuration /\ 0 \in Nat
        OBVIOUS
      <4>2. QED
        BY <3>2, <4>1
    <3>3. QED
      BY <1>5, <3>1, <3>2 DEF ResetFailedAttempts
  <2>4. QED
    BY <2>1, <2>2, <2>3 DEF TypeOK
<1>6. CASE Tick
  BY <1>6 DEF TypeOK, Tick
<1>7. CASE UNCHANGED vars
  BY <1>7 DEF TypeOK, vars
<1>8. QED
  BY <1>1, <1>2, <1>3, <1>4, <1>5, <1>6, <1>7 DEF Next

\* Every reachable state is well typed: in particular the lock never lasts
\* longer than lockoutDuration from its latest writing.
THEOREM TypeCorrect == Spec => []TypeOK
BY InitType, NextType, PTL DEF Spec

(***************************************************************************)
(* The guess budget                                                        *)
(***************************************************************************)
LEMMA Sizes ==
    /\ Cardinality(Requests) \in Nat
    /\ IsFiniteSet(Counting) /\ Cardinality(Counting) \in Nat
    /\ Cardinality(Counting) <= Cardinality(Requests)
    /\ IsFiniteSet(Locking) /\ Cardinality(Locking) \in Nat
    /\ Cardinality(Locking) <= Cardinality(Requests)
<1>1. Counting \in SUBSET Requests /\ Locking \in SUBSET Requests
  BY DEF Counting, Locking
<1>2. QED
  BY <1>1, BoundsAssumption, FS_CardinalityType, FS_Subset

LEMMA BudgetInit == Init => BudgetInv
<1> SUFFICES ASSUME Init PROVE BudgetInv
  OBVIOUS
<1>1. QED
  BY InitType, Sizes, BoundsAssumption DEF Init, BudgetInv, BelowBudget, AtBudget

\* A wrong password read below the threshold joins Counting, one read at the
\* threshold joins Locking as well.
LEMMA BudgetLoginWrong ==
    ASSUME BudgetInv, NEW r \in Requests, LoginWrong(r)
    PROVE  BelowBudget' /\ AtBudget'
<1> USE BoundsAssumption
<1>1. fails \in Nat /\ errors \in Nat /\ guesses \in Nat /\ fails' = fails
      /\ errors' = errors /\ guesses' = guesses + 1
  BY DEF BudgetInv, TypeOK, LoginWrong
<1>2. login' = [login EXCEPT ![r] = [step |-> "increment", seen |-> fails]]
      /\ login[r] = Idle /\ login \in [Requests -> {Idle} \cup Pending]
  BY DEF BudgetInv, TypeOK, LoginWrong
<1>3. Counting' = Counting \cup {r} /\ r \notin Counting
  BY <1>2 DEF Counting, Idle
<1>4. Cardinality(Counting') = Cardinality(Counting) + 1
  BY <1>3, Sizes, FS_AddElement
<1>5. BelowBudget'
  BY <1>1, <1>4, Sizes DEF BudgetInv, BelowBudget
<1>6. ASSUME fails + 1 >= MaxFailed PROVE AtBudget'
  <2>1. Locking' = Locking \cup {r} /\ r \notin Locking
    BY <1>1, <1>2, <1>6 DEF Locking, Idle
  <2>2. Cardinality(Locking') = Cardinality(Locking) + 1
    BY <2>1, Sizes, FS_AddElement
  <2>3. QED
    BY <1>1, <1>6, <2>2, Sizes DEF BudgetInv, AtBudget
<1>7. QED
  BY <1>1, <1>5, <1>6 DEF AtBudget

\* Counting a guess moves it from Counting to the counter or to the errors, and
\* a request of Locking stays there.
LEMMA BudgetHandleFailedLogin ==
    ASSUME BudgetInv, NEW r \in Requests, HandleFailedLogin(r)
    PROVE  BelowBudget' /\ AtBudget'
<1> USE BoundsAssumption
<1>1. login' = [login EXCEPT ![r] = AfterIncrement(login[r].seen)]
      /\ login[r].step = "increment" /\ login \in [Requests -> {Idle} \cup Pending]
      /\ guesses' = guesses
  BY DEF BudgetInv, TypeOK, HandleFailedLogin
<1>2. login[r].seen \in 0..MaxFailed
  BY <1>1 DEF Idle, Pending
<1>3. fails \in Nat /\ errors \in Nat /\ guesses \in Nat /\ MaxFailed \in Nat
  BY DEF BudgetInv, TypeOK
<1>4. \/ fails' = fails + 1 /\ errors' = errors
      \/ fails' = fails /\ errors' = errors /\ fails >= MaxFailed
      \/ fails' = fails /\ errors' = errors + 1
  BY <1>1, <1>3 DEF HandleFailedLogin, IncrementFailedAttempts
<1>5. Counting' = Counting \ {r} /\ r \in Counting
  BY <1>1 DEF Counting, AfterIncrement, Idle
<1>6. Cardinality(Counting') = Cardinality(Counting) - 1
  BY <1>5, Sizes, FS_RemoveElement
<1>7. Locking' = Locking
  <2>1. \A q \in Requests : q # r => login'[q] = login[q]
    BY <1>1
  <2>2. r \in Locking' <=> r \in Locking
    BY <1>1, <1>2 DEF Locking, AfterIncrement, Idle
  <2>3. QED
    BY <2>1, <2>2 DEF Locking
<1>8. BelowBudget'
  BY <1>1, <1>3, <1>4, <1>6, Sizes DEF BudgetInv, BelowBudget
<1>9. CASE fails + 1 < MaxFailed
  <2>1. guesses <= fails + errors + Cardinality(Requests)
    BY <1>3, <1>9, Sizes DEF BudgetInv, BelowBudget
  <2>2. AtBudget'
    BY <1>1, <1>3, <1>4, <1>7, <1>9, <2>1, Sizes DEF AtBudget
  <2>3. QED
    BY <1>8, <2>2
<1>10. CASE fails + 1 >= MaxFailed
  <2>1. guesses + 2 <= MaxFailed + errors + Cardinality(Requests) + Cardinality(Locking)
    BY <1>10 DEF BudgetInv, AtBudget
  <2>2. AtBudget'
    BY <1>1, <1>3, <1>4, <1>7, <2>1, Sizes DEF AtBudget
  <2>3. QED
    BY <1>8, <2>2
<1>11. QED
  BY <1>3, <1>9, <1>10

\* A lock restarts the count; a lock that errs pays for the guess it loses.
LEMMA BudgetLockAccount ==
    ASSUME BudgetInv, NEW r \in Requests, LockAccount(r)
    PROVE  BelowBudget' /\ AtBudget'
<1> USE BoundsAssumption
<1>1. fails \in Nat /\ errors \in Nat /\ guesses \in Nat /\ fails' = fails
      /\ login' = [login EXCEPT ![r] = Idle] /\ login[r].step = "lock"
      /\ login \in [Requests -> {Idle} \cup Pending]
  BY DEF BudgetInv, TypeOK, LockAccount
<1>2. Counting' = Counting
  BY <1>1 DEF Counting, Idle
<1>3. Locking' = Locking \ {r} /\ r \in Locking
  BY <1>1 DEF Locking, Idle
<1>4. Cardinality(Locking') = Cardinality(Locking) - 1 /\ Cardinality(Locking') \in Nat
  BY <1>3, Sizes, FS_RemoveElement, FS_CardinalityType
<1>5. CASE guesses' = 0 /\ errors' = errors
  BY <1>1, <1>2, <1>4, <1>5, Sizes DEF BudgetInv, BelowBudget, AtBudget
<1>6. CASE guesses' = guesses /\ errors' = errors + 1
  BY <1>1, <1>2, <1>4, <1>6, Sizes DEF BudgetInv, BelowBudget, AtBudget
<1>7. QED
  BY <1>5, <1>6 DEF LockAccount

LEMMA BudgetNext == BudgetInv /\ [Next]_vars => BudgetInv'
<1> SUFFICES ASSUME BudgetInv, [Next]_vars PROVE BudgetInv'
  OBVIOUS
<1> USE BoundsAssumption
<1>1. TypeOK'
  BY NextType DEF BudgetInv
<1>2. ASSUME NEW r \in Requests, LoginRight(r) PROVE BelowBudget' /\ AtBudget'
  <2>1. Counting' = Counting /\ Locking' = Locking
    BY <1>2 DEF BudgetInv, TypeOK, LoginRight, Counting, Locking, Idle
  <2>2. QED
    BY <1>2, <2>1 DEF BudgetInv, BelowBudget, AtBudget, LoginRight
<1>3. ASSUME NEW r \in Requests, ResetFailedAttempts(r) PROVE BelowBudget' /\ AtBudget'
  <2>1. Counting' = Counting /\ Locking' = Locking
    BY <1>3 DEF BudgetInv, TypeOK, ResetFailedAttempts, Counting, Locking, Idle
  <2>2. fails \in Nat /\ errors \in Nat /\ guesses \in Nat
    BY DEF BudgetInv, TypeOK
  <2>3. CASE guesses' = 0 /\ fails' = 0 /\ errors' = errors
    BY <2>1, <2>2, <2>3, Sizes DEF BudgetInv, BelowBudget, AtBudget
  <2>4. CASE guesses' = guesses /\ fails' = fails /\ errors' = errors + 1
    BY <2>1, <2>2, <2>4, Sizes DEF BudgetInv, BelowBudget, AtBudget
  <2>5. QED
    BY <1>3, <2>3, <2>4 DEF ResetFailedAttempts
<1>4. ASSUME Tick PROVE BelowBudget' /\ AtBudget'
  <2>1. Counting' = Counting /\ Locking' = Locking
    BY <1>4 DEF Tick, Counting, Locking
  <2>2. fails' = fails /\ errors' = errors /\ guesses' = guesses
    BY <1>4 DEF Tick
  <2>3. QED
    BY <2>1, <2>2 DEF BudgetInv, BelowBudget, AtBudget
<1>5. ASSUME UNCHANGED vars PROVE BelowBudget' /\ AtBudget'
  <2>1. Counting' = Counting /\ Locking' = Locking
    BY <1>5 DEF vars, Counting, Locking
  <2>2. fails' = fails /\ errors' = errors /\ guesses' = guesses
    BY <1>5 DEF vars
  <2>3. QED
    BY <2>1, <2>2 DEF BudgetInv, BelowBudget, AtBudget
<1>6. BelowBudget' /\ AtBudget'
  <2>1. ASSUME NEW r \in Requests, LoginWrong(r) PROVE BelowBudget' /\ AtBudget'
    BY <2>1, BudgetLoginWrong
  <2>2. ASSUME NEW r \in Requests, HandleFailedLogin(r) PROVE BelowBudget' /\ AtBudget'
    BY <2>2, BudgetHandleFailedLogin
  <2>3. ASSUME NEW r \in Requests, LockAccount(r) PROVE BelowBudget' /\ AtBudget'
    BY <2>3, BudgetLockAccount
  <2>4. QED
    BY <1>2, <1>3, <1>4, <1>5, <2>1, <2>2, <2>3 DEF Next
<1>7. QED
  BY <1>1, <1>6 DEF BudgetInv

LEMMA BudgetImplies == BudgetInv => GuessBudget
<1> SUFFICES ASSUME BudgetInv PROVE GuessBudget
  OBVIOUS
<1>1. fails \in Nat /\ errors \in Nat /\ guesses \in Nat
  BY BoundsAssumption DEF BudgetInv, TypeOK
<1>2. QED
  BY <1>1, Sizes, BoundsAssumption DEF BudgetInv, BelowBudget, AtBudget, GuessBudget

\* However many logins of the account are in flight, the wrong passwords
\* compared between two locks stay within the budget: the stale read of the
\* counter costs at most one guess per request, the late lock one more.
THEOREM GuessesBounded == Spec => []GuessBudget
<1>1. Spec => []BudgetInv
  BY BudgetInit, BudgetNext, PTL DEF Spec
<1>2. QED
  BY <1>1, BudgetImplies, PTL

(***************************************************************************)
(* Password reset.  A row that is used stays used.  A transaction holds    *)
(* the rows it has marked, and a confirmation that got past its lock holds *)
(* an unused token, so nobody else spends it; what a transaction saw       *)
(* unspent is spent by somebody, marked, or still to be visited.           *)
(***************************************************************************)
Requesting == {"request", "markRequest", "commitRequest"}
Holding == {"password", "beginMark", "markConfirm"}
Marking == {"markRequest", "commitRequest", "markConfirm"}

Transaction ==
    [step : Requesting \cup Holding \cup {"confirm"}, token : {{t} : t \in Tokens},
     todo : SUBSET Tokens, marked : SUBSET Tokens, seen : SUBSET Tokens]

ResetTypeOK ==
    /\ token \in [Tokens -> [exists : BOOLEAN, used : BOOLEAN, expired : BOOLEAN]]
    /\ active \in BOOLEAN
    /\ tokenLock \in [Tokens -> Procs \cup {NoProc}]
    /\ userLock \in Procs \cup {NoProc}
    /\ proc \in [Procs -> {NoTransaction} \cup Transaction]
    /\ uses \in [Tokens -> Nat]
    /\ overtaken \in SUBSET Tokens

Dead(t) == token[t].exists /\ token[t].used

\* The token of a request is its own and not yet a row.
Unborn(x) ==
    proc[x].step \in Requesting =>
        \A t \in proc[x].token :
            /\ ~token[t].exists
            /\ \A y \in Procs : proc[y].step \in Requesting /\ t \in proc[y].token => y = x

HoldsToken(x) ==
    proc[x].step \in Holding =>
        \A t \in proc[x].token : Unused(t) /\ tokenLock[t] = x /\ t \in proc[x].seen

HoldsMarked(x) ==
    proc[x] # NoTransaction => \A t \in proc[x].marked : Unused(t) /\ tokenLock[t] = x

SeenDies(x) ==
    proc[x] # NoTransaction =>
        \A t \in proc[x].seen :
            /\ token[t].exists
            /\ proc[x].step \in Marking =>
                 token[t].used \/ t \in proc[x].todo \/ t \in proc[x].marked

AllVisited(x) == proc[x].step = "commitRequest" => proc[x].todo = {}

Bound(x) == Unborn(x) /\ HoldsToken(x) /\ HoldsMarked(x) /\ SeenDies(x) /\ AllVisited(x)

Settled(t) ==
    /\ uses[t] <= 1
    /\ uses[t] > 0 => Dead(t)
    /\ t \in overtaken => Dead(t)

ResetInv == ResetTypeOK /\ (\A x \in Procs : Bound(x)) /\ (\A t \in Tokens : Settled(t))

LEMMA ResetInitial == ResetInit => ResetInv
<1> SUFFICES ASSUME ResetInit PROVE ResetInv
  OBVIOUS
<1>1. ResetTypeOK
  BY DEF ResetInit, ResetTypeOK, Absent
<1>2. ASSUME NEW x \in Procs PROVE Bound(x)
  <2>1. proc[x] = NoTransaction /\ proc[x].step = "idle"
    BY DEF ResetInit, NoTransaction
  <2>2. QED
    BY <2>1 DEF Bound, Unborn, HoldsToken, HoldsMarked, SeenDies, AllVisited, Requesting, Holding
<1>3. ASSUME NEW t \in Tokens PROVE Settled(t)
  BY DEF ResetInit, Settled
<1>4. QED
  BY <1>1, <1>2, <1>3 DEF ResetInv

\* What a process in a transaction is doing, spelled out.
LEMMA InTransaction ==
    ASSUME ResetInv, NEW x \in Procs, proc[x].step # "idle"
    PROVE  proc[x] \in Transaction
BY DEF ResetInv, ResetTypeOK, NoTransaction

(***************************************************************************)
(* A step of x as the other transactions see it.                           *)
(***************************************************************************)
Others(t, x) == tokenLock[t] # x /\ tokenLock[t] # NoProc

Spares(x) ==
    /\ \A y \in Procs : y # x => proc'[y] = proc[y]
    /\ \A t \in Tokens : Others(t, x) => tokenLock'[t] = tokenLock[t]
    /\ \A t \in Tokens : Others(t, x) /\ Unused(t) => Unused(t)'
    /\ \A t \in Tokens : token[t].exists => token'[t].exists
    /\ \A t \in Tokens : Dead(t) => Dead(t)'
    /\ \A t \in Tokens : token'[t].exists =>
         token[t].exists \/ (proc[x].step \in Requesting /\ t \in proc[x].token)
    /\ proc'[x].step \in Requesting => \A t \in proc'[x].token :
         \/ proc[x].step \in Requesting /\ t \in proc[x].token
         \/ \A y \in Procs : proc[y] # NoTransaction => t \notin proc[y].token

LEMMA OthersBound ==
    ASSUME ResetInv, NEW x \in Procs, Spares(x), NEW y \in Procs, y # x
    PROVE  Bound(y)'
<1>1. proc'[y] = proc[y] /\ Bound(y)
  BY DEF Spares, ResetInv
<1>2. CASE proc[y] = NoTransaction
  <2>1. proc'[y].step = "idle"
    BY <1>1, <1>2 DEF NoTransaction
  <2>2. QED
    BY <1>1, <1>2, <2>1
    DEF Bound, Unborn, HoldsToken, HoldsMarked, SeenDies, AllVisited, Requesting, Holding
<1>3. CASE proc[y] # NoTransaction
  <2>1. /\ proc[y].token \in SUBSET Tokens /\ proc[y].marked \in SUBSET Tokens
        /\ proc[y].seen \in SUBSET Tokens
    BY <1>3 DEF ResetInv, ResetTypeOK, Transaction
  <2>2. \A t \in Tokens : tokenLock[t] = y =>
           tokenLock'[t] = y /\ (Unused(t) => Unused(t)')
    BY ProcAssumption DEF Spares, Others
  <2>3. HoldsToken(y)' /\ HoldsMarked(y)'
    BY <1>1, <2>1, <2>2 DEF Bound, HoldsToken, HoldsMarked
  <2>4. SeenDies(y)'
    BY <1>1, <2>1 DEF Bound, SeenDies, Spares, Dead
  <2>5. ASSUME proc[y].step \in Requesting, NEW t \in proc[y].token
        PROVE  /\ ~token'[t].exists
               /\ \A z \in Procs : proc'[z].step \in Requesting /\ t \in proc'[z].token => z = y
    <3>1. /\ ~token[t].exists
          /\ \A z \in Procs : proc[z].step \in Requesting /\ t \in proc[z].token => z = y
      BY <1>1, <2>5 DEF Bound, Unborn
    <3>2. ~(proc[x].step \in Requesting /\ t \in proc[x].token)
      BY <3>1
    <3>3. ~token'[t].exists
      BY <2>1, <3>1, <3>2 DEF Spares
    <3>4. ~(proc'[x].step \in Requesting /\ t \in proc'[x].token)
      BY <1>3, <3>2 DEF Spares
    <3>5. QED
      BY <3>1, <3>3, <3>4 DEF Spares
  <2>6. Unborn(y)'
    BY <1>1, <2>5 DEF Unborn
  <2>7. AllVisited(y)'
    BY <1>1 DEF Bound, AllVisited
  <2>8. QED
    BY <2>3, <2>4, <2>6, <2>7 DEF Bound
<1>4. QED
  BY <1>2, <1>3

LEMMA StepKeeps ==
    ASSUME ResetInv, NEW x \in Procs, Spares(x), ResetTypeOK', Bound(x)',
           UNCHANGED <<uses, overtaken>> \/ \A t \in Tokens : Settled(t)'
    PROVE  ResetInv'
<1>1. \A y \in Procs : Bound(y)'
  BY OthersBound
<1>2. \A t \in Tokens : Settled(t)'
  BY DEF ResetInv, Settled, Spares
<1>3. QED
  BY <1>1, <1>2 DEF ResetInv

\* A transaction that ended is bound to nothing.
LEMMA EndedIsBound ==
    ASSUME NEW x \in Procs, proc'[x] = NoTransaction
    PROVE  Bound(x)'
<1>1. proc'[x].step = "idle"
  BY DEF NoTransaction
<1>2. QED
  BY <1>1 DEF Bound, Unborn, HoldsToken, HoldsMarked, SeenDies, AllVisited, Requesting, Holding

LEMMA RollbackKeeps ==
    ASSUME ResetInv, NEW x \in Procs, Rollback(x)
    PROVE  ResetInv'
<1>1. /\ UNCHANGED <<token, active, uses, overtaken>>
      /\ \A t \in Tokens : tokenLock'[t] = IF tokenLock[t] = x THEN NoProc ELSE tokenLock[t]
      /\ proc' = [proc EXCEPT ![x] = NoTransaction]
  BY DEF Rollback, Release
<1>2. proc'[x] = NoTransaction /\ proc'[x].step \notin Requesting
  BY <1>1 DEF ResetInv, ResetTypeOK, NoTransaction, Requesting
<1>3. ResetTypeOK'
  BY DEF ResetInv, ResetTypeOK, Rollback, Release
<1>4. Spares(x)
  BY <1>1, <1>2 DEF Spares, Others, Unused, Dead, ResetInv, ResetTypeOK
<1>5. QED
  BY <1>1, <1>2, <1>3, <1>4, EndedIsBound, StepKeeps

LEMMA RequestResetKeeps ==
    ASSUME ResetInv, NEW x \in Procs, NEW t \in Tokens, RequestReset(x, t)
    PROVE  ResetInv'
<1> DEFINE tx == [step |-> "request", token |-> {t}, todo |-> {}, marked |-> {}, seen |-> {}]
<1>1. /\ proc[x] = NoTransaction /\ ~token[t].exists
      /\ \A y \in Procs : proc[y] # NoTransaction => t \notin proc[y].token
      /\ proc' = [proc EXCEPT ![x] = tx]
      /\ UNCHANGED <<token, active, tokenLock, userLock, uses, overtaken>>
  BY DEF RequestReset, Begin
<1>2. tx \in Transaction
  BY DEF Transaction, Requesting
<1>3. ResetTypeOK'
  BY <1>1, <1>2 DEF ResetInv, ResetTypeOK
<1>4. proc'[x] = tx /\ \A y \in Procs : y # x => proc'[y] = proc[y]
  BY <1>1 DEF ResetInv, ResetTypeOK
<1>5. Spares(x)
  BY <1>1, <1>4 DEF Spares, Unused, Dead
<1>6. Bound(x)'
  <2>1. \A y \in Procs : proc'[y].step \in Requesting /\ t \in proc'[y].token => y = x
    BY <1>1, <1>4 DEF Requesting, NoTransaction
  <2>2. QED
    BY <1>1, <1>4, <2>1
    DEF Bound, Unborn, HoldsToken, HoldsMarked, SeenDies, AllVisited, Holding
<1>7. QED
  BY <1>1, <1>3, <1>5, <1>6, StepKeeps

LEMMA ConfirmResetKeeps ==
    ASSUME ResetInv, NEW x \in Procs, NEW t \in Tokens, ConfirmReset(x, t)
    PROVE  ResetInv'
<1> DEFINE tx == [step |-> "confirm", token |-> {t}, todo |-> {}, marked |-> {}, seen |-> {}]
<1>1. /\ proc' = [proc EXCEPT ![x] = tx]
      /\ UNCHANGED <<token, active, tokenLock, userLock, uses, overtaken>>
  BY DEF ConfirmReset, Begin
<1>2. tx \in Transaction
  BY DEF Transaction
<1>3. ResetTypeOK'
  BY <1>1, <1>2 DEF ResetInv, ResetTypeOK
<1>4. proc'[x] = tx /\ \A y \in Procs : y # x => proc'[y] = proc[y]
  BY <1>1 DEF ResetInv, ResetTypeOK
<1>5. Spares(x)
  BY <1>1, <1>4 DEF Spares, Unused, Dead, Requesting
<1>6. Bound(x)'
  BY <1>4 DEF Bound, Unborn, HoldsToken, HoldsMarked, SeenDies, AllVisited, Holding, Requesting
<1>7. QED
  BY <1>1, <1>3, <1>5, <1>6, StepKeeps

LEMMA CreateTokenKeeps ==
    ASSUME ResetInv, NEW x \in Procs, CreateToken(x)
    PROVE  ResetInv'
<1> DEFINE tx == [proc[x] EXCEPT !.step = "markRequest", !.todo = Unspent, !.seen = Unspent]
<1>1. proc[x].step = "request" /\ proc[x] \in Transaction
  BY InTransaction DEF CreateToken
<1>2. /\ tx \in Transaction /\ tx.step = "markRequest" /\ tx.token = proc[x].token
      /\ tx.todo = Unspent /\ tx.marked = proc[x].marked /\ tx.seen = Unspent
  BY <1>1 DEF Transaction, Requesting, Unspent
<1>3. /\ proc' = [proc EXCEPT ![x] = tx]
      /\ UNCHANGED <<token, active, tokenLock, userLock, uses, overtaken>>
  BY DEF CreateToken, BeginMark, RowsToMark, ResetInv, ResetTypeOK
<1>4. ResetTypeOK'
  BY <1>2, <1>3 DEF ResetInv, ResetTypeOK
<1>5. proc'[x] = tx /\ \A y \in Procs : y # x => proc'[y] = proc[y]
  BY <1>3 DEF ResetInv, ResetTypeOK
<1> HIDE DEF tx
<1>6. Spares(x)
  BY <1>1, <1>2, <1>3, <1>5 DEF Spares, Unused, Dead, Requesting
<1>7. Bound(x)'
  <2>1. Bound(x) /\ proc[x] # NoTransaction
    BY <1>1 DEF ResetInv, NoTransaction
  <2>2. Unborn(x)'
    BY <1>1, <1>2, <1>3, <1>5, <2>1 DEF Bound, Unborn, Requesting
  <2>3. HoldsToken(x)' /\ HoldsMarked(x)' /\ AllVisited(x)'
    BY <1>2, <1>3, <1>5, <2>1
    DEF Bound, HoldsToken, HoldsMarked, AllVisited, Holding, Unused
  <2>4. SeenDies(x)'
    BY <1>2, <1>3, <1>5 DEF SeenDies, Unspent, Unused
  <2>5. QED
    BY <2>2, <2>3, <2>4 DEF Bound
<1>8. QED
  BY <1>3, <1>4, <1>6, <1>7, StepKeeps

LEMMA InsertTokenKeeps ==
    ASSUME ResetInv, NEW x \in Procs, InsertToken(x)
    PROVE  ResetInv'
<1> DEFINE tx == [proc[x] EXCEPT !.step = "commitRequest"]
<1>1. proc[x].step = "markRequest" /\ proc[x] \in Transaction /\ proc[x].todo = {}
  BY InTransaction DEF InsertToken
<1>2. /\ tx \in Transaction /\ tx.step = "commitRequest" /\ tx.token = proc[x].token
      /\ tx.todo = proc[x].todo /\ tx.marked = proc[x].marked /\ tx.seen = proc[x].seen
  BY <1>1 DEF Transaction, Requesting
<1>3. /\ proc' = [proc EXCEPT ![x] = tx]
      /\ UNCHANGED <<token, active, tokenLock, userLock, uses, overtaken>>
  BY DEF InsertToken
<1>4. ResetTypeOK'
  BY <1>2, <1>3 DEF ResetInv, ResetTypeOK
<1>5. proc'[x] = tx /\ \A y \in Procs : y # x => proc'[y] = proc[y]
  BY <1>3 DEF ResetInv, ResetTypeOK
<1> HIDE DEF tx
<1>6. Spares(x)
  BY <1>1, <1>2, <1>3, <1>5 DEF Spares, Unused, Dead, Requesting
<1>7. Bound(x)'
  <2>1. Bound(x) /\ proc[x] # NoTransaction
    BY <1>1 DEF ResetInv, NoTransaction
  <2>2. Unborn(x)'
    BY <1>1, <1>2, <1>3, <1>5, <2>1 DEF Bound, Unborn, Requesting
  <2>3. HoldsToken(x)' /\ HoldsMarked(x)' /\ AllVisited(x)' /\ SeenDies(x)'
    BY <1>1, <1>2, <1>3, <1>5, <2>1
    DEF Bound, HoldsToken, HoldsMarked, AllVisited, SeenDies, Marking, Holding, Unused
  <2>4. QED
    BY <2>2, <2>3 DEF Bound
<1>8. QED
  BY <1>3, <1>4, <1>6, <1>7, StepKeeps

LEMMA MarkRowKeeps ==
    ASSUME ResetInv, NEW x \in Procs, NEW t \in Tokens, MarkRow(x, t)
    PROVE  ResetInv'
<1> DEFINE tx == [proc[x] EXCEPT !.todo = @ \ {t},
                                 !.marked = IF Unused(t) THEN @ \cup {t} ELSE @]
<1>1. /\ proc[x].step \in {"markRequest", "markConfirm"} /\ proc[x] \in Transaction
      /\ t \in proc[x].todo /\ tokenLock[t] \in {NoProc, x}
  BY InTransaction DEF MarkRow
<1>2. /\ tx \in Transaction
      /\ tx.step = proc[x].step /\ tx.token = proc[x].token /\ tx.seen = proc[x].seen
      /\ tx.todo = proc[x].todo \ {t}
      /\ tx.marked = IF Unused(t) THEN proc[x].marked \cup {t} ELSE proc[x].marked
  BY <1>1 DEF Transaction
<1>3. /\ proc' = [proc EXCEPT ![x] = tx]
      /\ UNCHANGED <<token, active, userLock, uses, overtaken>>
  BY <1>1 DEF MarkRow, Transaction
<1>4. IF Unused(t) THEN tokenLock' = [tokenLock EXCEPT ![t] = x] ELSE UNCHANGED tokenLock
  BY DEF MarkRow
<1>5. ResetTypeOK'
  BY <1>2, <1>3, <1>4 DEF ResetInv, ResetTypeOK
<1>6. proc'[x] = tx /\ \A y \in Procs : y # x => proc'[y] = proc[y]
  BY <1>3 DEF ResetInv, ResetTypeOK
<1>7. /\ \A u \in Tokens : tokenLock[u] = x => tokenLock'[u] = x
      /\ Unused(t) => tokenLock'[t] = x
      /\ \A u \in Tokens : Others(u, x) => tokenLock'[u] = tokenLock[u]
  BY <1>1, <1>4 DEF Others, ResetInv, ResetTypeOK
<1> HIDE DEF tx
<1>8. Spares(x)
  BY <1>1, <1>2, <1>3, <1>6, <1>7 DEF Spares, Unused, Dead, Requesting
<1>9. Bound(x)'
  <2>1. Bound(x) /\ proc[x] # NoTransaction
    BY <1>1 DEF ResetInv, NoTransaction
  <2>2. Unborn(x)'
    BY <1>1, <1>2, <1>3, <1>6, <2>1 DEF Bound, Unborn
  <2>3. /\ proc[x].token \in SUBSET Tokens /\ proc[x].marked \in SUBSET Tokens
        /\ proc[x].seen \in SUBSET Tokens
    BY <1>1 DEF Transaction
  <2>4. HoldsToken(x)' /\ HoldsMarked(x)'
    BY <1>2, <1>3, <1>6, <1>7, <2>1, <2>3 DEF Bound, HoldsToken, HoldsMarked, Unused
  <2>5. SeenDies(x)' /\ AllVisited(x)'
    BY <1>1, <1>2, <1>3, <1>6, <2>1, <2>3
    DEF Bound, SeenDies, AllVisited, Unused, Marking
  <2>6. QED
    BY <2>2, <2>4, <2>5 DEF Bound
<1>10. QED
  BY <1>3, <1>5, <1>8, <1>9, StepKeeps

LEMMA LockTokenKeeps ==
    ASSUME ResetInv, NEW x \in Procs, LockToken(x)
    PROVE  ResetInv'
<1>1. /\ proc[x].step = "confirm" /\ proc[x] \in Transaction
      /\ UNCHANGED <<token, active, userLock, uses, overtaken>>
  BY InTransaction DEF LockToken
<1>2. PICK t \in proc[x].token :
         /\ tokenLock[t] = NoProc
         /\ IF StillValid(t)
            THEN /\ tokenLock' = [tokenLock EXCEPT ![t] = x]
                 /\ proc' = [proc EXCEPT ![x].step = "password", ![x].seen = Unspent]
            ELSE /\ proc' = [proc EXCEPT ![x] = NoTransaction]
                 /\ UNCHANGED tokenLock
  BY DEF LockToken
<1>3. t \in Tokens /\ proc[x].token = {t}
  BY <1>1, <1>2 DEF Transaction
<1>4. CASE StillValid(t)
  <2> DEFINE tx == [proc[x] EXCEPT !.step = "password", !.seen = Unspent]
  <2>1. /\ tx \in Transaction /\ tx.step = "password" /\ tx.token = {t}
        /\ tx.todo = proc[x].todo /\ tx.marked = proc[x].marked /\ tx.seen = Unspent
    BY <1>1, <1>3 DEF Transaction, Holding, Unspent
  <2>2. /\ tokenLock' = [tokenLock EXCEPT ![t] = x]
        /\ proc' = [proc EXCEPT ![x] = tx]
    BY <1>2, <1>4 DEF ResetInv, ResetTypeOK
  <2>3. ResetTypeOK'
    BY <1>1, <1>3, <2>1, <2>2 DEF ResetInv, ResetTypeOK
  <2>4. /\ proc'[x] = tx /\ \A y \in Procs : y # x => proc'[y] = proc[y]
        /\ tokenLock'[t] = x
        /\ \A u \in Tokens : u # t => tokenLock'[u] = tokenLock[u]
    BY <1>3, <2>2 DEF ResetInv, ResetTypeOK
  <2> HIDE DEF tx
  <2>5. Spares(x)
    BY <1>1, <1>2, <2>1, <2>4 DEF Spares, Others, Unused, Dead, Requesting
  <2>6. Bound(x) /\ proc[x] # NoTransaction /\ proc[x].marked \in SUBSET Tokens
    BY <1>1 DEF ResetInv, NoTransaction, Transaction
  <2>7. HoldsToken(x)' /\ HoldsMarked(x)'
    <3>1. Unused(t) /\ t \in Unspent
      BY <1>3, <1>4 DEF StillValid, Redeemable, Unspent
    <3>2. Unused(t)' /\ t \in proc'[x].seen
      BY <1>1, <2>1, <2>4, <3>1 DEF Unused
    <3>3. HoldsToken(x)'
      BY <2>1, <2>4, <3>2 DEF HoldsToken
    <3>4. HoldsMarked(x)'
      BY <1>1, <1>2, <2>1, <2>4, <2>6 DEF Bound, HoldsMarked, Unused
    <3>5. QED
      BY <3>3, <3>4
  <2>8. Unborn(x)' /\ SeenDies(x)' /\ AllVisited(x)'
    BY <1>1, <2>1, <2>4
    DEF Unborn, SeenDies, AllVisited, Requesting, Marking, Unspent, Unused
  <2>9. QED
    BY <1>1, <2>3, <2>5, <2>7, <2>8, StepKeeps DEF Bound
<1>5. CASE ~StillValid(t)
  <2>1. proc' = [proc EXCEPT ![x] = NoTransaction] /\ UNCHANGED tokenLock
    BY <1>2, <1>5
  <2>2. /\ proc'[x] = NoTransaction /\ proc'[x].step = "idle"
        /\ \A y \in Procs : y # x => proc'[y] = proc[y]
    BY <2>1 DEF ResetInv, ResetTypeOK, NoTransaction
  <2>3. ResetTypeOK'
    BY <1>1, <2>1 DEF ResetInv, ResetTypeOK
  <2>4. Spares(x)
    BY <1>1, <2>1, <2>2 DEF Spares, Unused, Dead, Requesting
  <2>5. QED
    BY <1>1, <2>2, <2>3, <2>4, EndedIsBound, StepKeeps
<1>6. QED
  BY <1>4, <1>5

LEMMA UpdatePasswordKeeps ==
    ASSUME ResetInv, NEW x \in Procs, UpdatePassword(x)
    PROVE  ResetInv'
<1>1. CASE ~Resettable
  BY <1>1, RollbackKeeps DEF UpdatePassword
<1>2. CASE Resettable
  <2> DEFINE tx == [proc[x] EXCEPT !.step = "beginMark"]
  <2>1. proc[x].step = "password" /\ proc[x] \in Transaction
    BY InTransaction DEF UpdatePassword
  <2>2. /\ tx \in Transaction /\ tx.step = "beginMark" /\ tx.token = proc[x].token
        /\ tx.todo = proc[x].todo /\ tx.marked = proc[x].marked /\ tx.seen = proc[x].seen
    BY <2>1 DEF Transaction, Holding
  <2>3. /\ proc' = [proc EXCEPT ![x] = tx] /\ userLock' = x
        /\ UNCHANGED <<token, active, tokenLock, uses, overtaken>>
    BY <1>2 DEF UpdatePassword
  <2>4. ResetTypeOK'
    BY <2>2, <2>3 DEF ResetInv, ResetTypeOK
  <2>5. proc'[x] = tx /\ \A y \in Procs : y # x => proc'[y] = proc[y]
    BY <2>3 DEF ResetInv, ResetTypeOK
  <2> HIDE DEF tx
  <2>6. Spares(x)
    BY <2>1, <2>2, <2>3, <2>5 DEF Spares, Unused, Dead, Requesting
  <2>7. Bound(x) /\ proc[x] # NoTransaction
    BY <2>1 DEF ResetInv, NoTransaction
  <2>8. Unborn(x)' /\ HoldsToken(x)' /\ HoldsMarked(x)' /\ AllVisited(x)' /\ SeenDies(x)'
    BY <2>1, <2>2, <2>3, <2>5, <2>7
    DEF Bound, Unborn, HoldsToken, HoldsMarked, AllVisited, SeenDies, Marking, Holding,
        Requesting, Unused
  <2>9. QED
    BY <2>3, <2>4, <2>6, <2>8, StepKeeps DEF Bound
<1>3. QED
  BY <1>1, <1>2

LEMMA ConsumeTokensKeeps ==
    ASSUME ResetInv, NEW x \in Procs, ConsumeTokens(x)
    PROVE  ResetInv'
<1> DEFINE tx == [proc[x] EXCEPT !.step = "markConfirm", !.todo = Unspent]
<1>1. proc[x].step = "beginMark" /\ proc[x] \in Transaction
  BY InTransaction DEF ConsumeTokens
<1>2. /\ tx \in Transaction /\ tx.step = "markConfirm" /\ tx.token = proc[x].token
      /\ tx.todo = Unspent /\ tx.marked = proc[x].marked /\ tx.seen = proc[x].seen
  BY <1>1 DEF Transaction, Holding, Unspent
<1>3. /\ proc' = [proc EXCEPT ![x] = tx]
      /\ UNCHANGED <<token, active, tokenLock, userLock, uses, overtaken>>
  BY DEF ConsumeTokens, BeginMark, RowsToMark, ResetInv, ResetTypeOK
<1>4. ResetTypeOK'
  BY <1>2, <1>3 DEF ResetInv, ResetTypeOK
<1>5. proc'[x] = tx /\ \A y \in Procs : y # x => proc'[y] = proc[y]
  BY <1>3 DEF ResetInv, ResetTypeOK
<1> HIDE DEF tx
<1>6. Spares(x)
  BY <1>1, <1>2, <1>3, <1>5 DEF Spares, Unused, Dead, Requesting
<1>7. Bound(x)'
  <2>1. Bound(x) /\ proc[x] # NoTransaction /\ proc[x].seen \in SUBSET Tokens
    BY <1>1 DEF ResetInv, NoTransaction, Transaction
  <2>2. Unborn(x)' /\ HoldsToken(x)' /\ HoldsMarked(x)' /\ AllVisited(x)'
    BY <1>1, <1>2, <1>3, <1>5, <2>1
    DEF Bound, Unborn, HoldsToken, HoldsMarked, AllVisited, Holding, Requesting, Unused
  <2>3. SeenDies(x)'
    BY <1>2, <1>3, <1>5, <2>1 DEF Bound, SeenDies, Unspent, Unused
  <2>4. QED
    BY <2>2, <2>3 DEF Bound
<1>8. QED
  BY <1>3, <1>4, <1>6, <1>7, StepKeeps

\* What the end of a transaction does to locks and processes.
LEMMA Released ==
    ASSUME ResetInv, NEW x \in Procs, Release(x)
    PROVE  /\ proc'[x] = NoTransaction /\ proc'[x].step = "idle"
           /\ \A y \in Procs : y # x => proc'[y] = proc[y]
           /\ \A t \in Tokens : Others(t, x) => tokenLock'[t] = tokenLock[t]
           /\ proc' \in [Procs -> {NoTransaction} \cup Transaction]
           /\ tokenLock' \in [Tokens -> Procs \cup {NoProc}]
           /\ userLock' \in Procs \cup {NoProc}
BY DEF Release, ResetInv, ResetTypeOK, NoTransaction, Others

LEMMA CommitRequestKeeps ==
    ASSUME ResetInv, NEW x \in Procs, CommitRequest(x)
    PROVE  ResetInv'
<1>1. /\ proc[x].step = "commitRequest" /\ proc[x] \in Transaction
      /\ Release(x) /\ UNCHANGED <<active, uses>> /\ overtaken' = overtaken \cup proc[x].seen
  BY InTransaction DEF CommitRequest
<1>2. \A t \in Tokens :
         token'[t] = IF t \in proc[x].token THEN [Absent EXCEPT !.exists = TRUE]
                     ELSE IF t \in proc[x].marked THEN [token[t] EXCEPT !.used = TRUE]
                     ELSE token[t]
  BY DEF CommitRequest, Spend
<1>3. token' \in [Tokens -> [exists : BOOLEAN, used : BOOLEAN, expired : BOOLEAN]]
  BY DEF CommitRequest, Spend, ResetInv, ResetTypeOK, Absent
<1>4. proc[x].seen \in SUBSET Tokens /\ proc[x].marked \in SUBSET Tokens
  BY <1>1 DEF Transaction
<1>5. Bound(x) /\ proc[x] # NoTransaction
  BY <1>1 DEF ResetInv, NoTransaction
<1>6. ResetTypeOK'
  BY <1>1, <1>3, <1>4, Released DEF ResetInv, ResetTypeOK
<1>7. \A t \in Tokens :
         /\ token'[t].exists <=> token[t].exists \/ t \in proc[x].token
         /\ token[t].exists => (token'[t].used <=> token[t].used \/ t \in proc[x].marked)
  <2>1. \A t \in proc[x].token : ~token[t].exists
    BY <1>1, <1>5 DEF Bound, Unborn, Requesting
  <2>2. \A t \in Tokens : token[t] \in [exists : BOOLEAN, used : BOOLEAN, expired : BOOLEAN]
    BY DEF ResetInv, ResetTypeOK
  <2>3. QED
    BY <1>2, <2>1, <2>2 DEF Absent
<1>8. Spares(x)
  <2>1. \A t \in Tokens : Others(t, x) => t \notin proc[x].marked
    BY <1>5 DEF Bound, HoldsMarked, Others
  <2>2. QED
    BY <1>1, <1>7, <2>1, Released DEF Spares, Unused, Dead, Requesting
<1>9. ASSUME NEW t \in Tokens PROVE Settled(t)'
  <2>1. Settled(t)
    BY DEF ResetInv
  <2>2. t \in proc[x].seen => Dead(t)'
    BY <1>1, <1>5, <1>7 DEF Bound, SeenDies, AllVisited, Marking, Dead
  <2>3. QED
    BY <1>1, <1>8, <2>1, <2>2 DEF Settled, Spares
<1>10. QED
  BY <1>1, <1>6, <1>8, <1>9, Released, EndedIsBound, StepKeeps

LEMMA CommitConfirmKeeps ==
    ASSUME ResetInv, NEW x \in Procs, CommitConfirm(x)
    PROVE  ResetInv'
<1>1. /\ proc[x].step = "markConfirm" /\ proc[x] \in Transaction /\ proc[x].todo = {}
      /\ Release(x) /\ UNCHANGED active /\ overtaken' = overtaken \cup proc[x].seen
      /\ uses' = [t \in Tokens |-> IF t \in proc[x].token THEN uses[t] + 1 ELSE uses[t]]
  BY InTransaction DEF CommitConfirm
<1>2. \A t \in Tokens :
         token'[t] = IF t \in proc[x].marked THEN [token[t] EXCEPT !.used = TRUE]
                     ELSE token[t]
  BY DEF CommitConfirm, Spend
<1>3. token' \in [Tokens -> [exists : BOOLEAN, used : BOOLEAN, expired : BOOLEAN]]
  BY DEF CommitConfirm, Spend, ResetInv, ResetTypeOK
<1>4. proc[x].seen \in SUBSET Tokens /\ proc[x].marked \in SUBSET Tokens
  BY <1>1 DEF Transaction
<1>5. Bound(x) /\ proc[x] # NoTransaction
  BY <1>1 DEF ResetInv, NoTransaction
<1>6. uses' \in [Tokens -> Nat]
  BY <1>1 DEF ResetInv, ResetTypeOK
<1>7. ResetTypeOK'
  BY <1>1, <1>3, <1>4, <1>6, Released DEF ResetInv, ResetTypeOK
<1>8. \A t \in Tokens :
         /\ token'[t].exists <=> token[t].exists
         /\ token'[t].used <=> token[t].used \/ t \in proc[x].marked
  <2>1. \A t \in Tokens : token[t] \in [exists : BOOLEAN, used : BOOLEAN, expired : BOOLEAN]
    BY DEF ResetInv, ResetTypeOK
  <2>2. QED
    BY <1>2, <2>1
<1>9. Spares(x)
  <2>1. \A t \in Tokens : Others(t, x) => t \notin proc[x].marked
    BY <1>5 DEF Bound, HoldsMarked, Others
  <2>2. QED
    BY <1>1, <1>8, <2>1, Released DEF Spares, Unused, Dead, Requesting
<1>10. ASSUME NEW t \in Tokens PROVE Settled(t)'
  <2>1. Settled(t) /\ uses[t] \in Nat
    BY DEF ResetInv, ResetTypeOK
  <2>2. t \in proc[x].seen => Dead(t)'
    BY <1>1, <1>5, <1>8 DEF Bound, SeenDies, Marking, Dead
  <2>3. t \in proc[x].token => uses[t] = 0 /\ Dead(t)'
    <3>1. SUFFICES ASSUME t \in proc[x].token PROVE uses[t] = 0 /\ Dead(t)'
      OBVIOUS
    <3>2. Unused(t) /\ t \in proc[x].seen
      BY <1>1, <1>5, <3>1 DEF Bound, HoldsToken, Holding
    <3>3. uses[t] = 0
      BY <2>1, <3>2 DEF Settled, Dead, Unused
    <3>4. QED
      BY <2>2, <3>2, <3>3
  <2>4. QED
    BY <1>1, <1>9, <2>1, <2>2, <2>3 DEF Settled, Spares
<1>11. QED
  BY <1>1, <1>7, <1>9, <1>10, Released, EndedIsBound, StepKeeps

\* The account is deactivated or a token expires: nothing of the above moves.
LEMMA RestKeeps ==
    ASSUME ResetInv,
           SetActive \/ (\E t \in Tokens : Expire(t)) \/ UNCHANGED resetVars
    PROVE  ResetInv'
<1>1. /\ UNCHANGED <<tokenLock, proc, uses, overtaken>>
      /\ \A t \in Tokens : token'[t].exists = token[t].exists /\ token'[t].used = token[t].used
  BY DEF SetActive, Expire, resetVars, ResetInv, ResetTypeOK
<1>2. ResetTypeOK'
  <2>1. ASSUME NEW t \in Tokens, Expire(t)
        PROVE  ResetTypeOK'
    <3>1. token[t] \in [exists : BOOLEAN, used : BOOLEAN, expired : BOOLEAN]
      BY DEF ResetInv, ResetTypeOK
    <3>2. QED
      BY <2>1, <3>1 DEF Expire, ResetInv, ResetTypeOK
  <2>2. CASE SetActive \/ UNCHANGED resetVars
    BY <2>2 DEF SetActive, resetVars, ResetInv, ResetTypeOK
  <2>3. QED
    BY <2>1, <2>2
<1>3. ASSUME NEW x \in Procs PROVE Bound(x)'
  <2>1. Bound(x)
    BY DEF ResetInv
  <2>2. proc[x] # NoTransaction =>
          /\ proc[x].token \in SUBSET Tokens /\ proc[x].marked \in SUBSET Tokens
          /\ proc[x].seen \in SUBSET Tokens
    BY DEF ResetInv, ResetTypeOK, Transaction
  <2>3. proc[x].step \in Requesting \cup Holding => proc[x] # NoTransaction
    BY DEF NoTransaction, Requesting, Holding
  <2>4. Unborn(x)' /\ AllVisited(x)'
    BY <1>1, <2>1, <2>2, <2>3 DEF Bound, Unborn, AllVisited
  <2>5. HoldsToken(x)' /\ HoldsMarked(x)'
    BY <1>1, <2>1, <2>2, <2>3 DEF Bound, HoldsToken, HoldsMarked, Unused
  <2>6. SeenDies(x)'
    BY <1>1, <2>1, <2>2 DEF Bound, SeenDies
  <2>7. QED
    BY <2>4, <2>5, <2>6 DEF Bound
<1>4. ASSUME NEW t \in Tokens PROVE Settled(t)'
  BY <1>1 DEF ResetInv, Settled, Dead
<1>5. QED
  BY <1>2, <1>3, <1>4 DEF ResetInv

LEMMA ResetInvNext == ResetInv /\ [ResetNext]_resetVars => ResetInv'
<1> SUFFICES ASSUME ResetInv, [ResetNext]_resetVars PROVE ResetInv'
  OBVIOUS
<1>1. ASSUME NEW x \in Procs, Statement(x) PROVE ResetInv'
  BY <1>1, CreateTokenKeeps, InsertTokenKeeps, CommitRequestKeeps, LockTokenKeeps,
     UpdatePasswordKeeps, ConsumeTokensKeeps, CommitConfirmKeeps, MarkRowKeeps DEF Statement
<1>2. ASSUME NEW x \in Procs, DeadlockVictim(x) \/ Fail(x) PROVE ResetInv'
  BY <1>2, RollbackKeeps DEF DeadlockVictim, Fail
<1>3. QED
  BY <1>1, <1>2, RequestResetKeeps, ConfirmResetKeeps, RestKeeps DEF ResetNext

LEMMA ResetInvariant == ResetSpec => []ResetInv
<1>1. QED
  BY ResetInitial, ResetInvNext, PTL DEF ResetSpec

\* However many confirmations present one token at once, and whatever requests,
\* failures and deadlocks cross them, the password changes at most once for it.
THEOREM TokensWorkOnce == ResetSpec => []SingleUse
<1>1. ResetInv => SingleUse
  BY DEF ResetInv, Settled, SingleUse
<1>2. QED
  BY <1>1, ResetInvariant, PTL

\* A token that a later transaction saw unspent is dead once that transaction
\* has committed, whichever of them marked it.
THEOREM OvertakenTokensDie == ResetSpec => []NoOvertakenToken
<1>1. ResetInv => NoOvertakenToken
  BY DEF ResetInv, ResetTypeOK, Settled, NoOvertakenToken, Dead, Unused
<1>2. QED
  BY <1>1, ResetInvariant, PTL
=============================================================================
