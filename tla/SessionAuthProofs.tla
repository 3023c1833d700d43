------------------------- MODULE SessionAuthProofs -------------------------
(***************************************************************************)
(* Proofs about SessionAuth, for every set of accounts, roles, tokens,     *)
(* challenges and requests and every bound.                                *)
(***************************************************************************)
EXTENDS SessionAuth, FiniteSetTheorems, TLAPS

(***************************************************************************)
(* Type correctness                                                        *)
(***************************************************************************)
\* The trigger rewrites rows into rows.
LEMMA RevokeRowsType ==
    ASSUME TypeOK, NEW u \in Users
    PROVE  RevokeRows(u) \in [Pairs -> SessionRow \cup {NoRow}]
BY DEF TypeOK, RevokeRows, SessionRow

\* Whatever row an UPDATE of the account stores, the step keeps the types.
LEMMA UpdateUserRowType ==
    ASSUME TypeOK, NEW u \in Users, NEW row \in UserRow, UpdateUserRow(u, row)
    PROVE  TypeOK'
<1>1. users' \in [Users -> UserRow]
  BY DEF TypeOK, UpdateUserRow
<1>2. sessions' \in [Pairs -> SessionRow \cup {NoRow}]
  BY RevokeRowsType DEF TypeOK, UpdateUserRow
<1>3. epoch' \in [Users -> Nat]
  BY DEF TypeOK, UpdateUserRow
<1>4. QED
  BY <1>1, <1>2, <1>3 DEF TypeOK, UpdateUserRow

LEMMA InitType == Init => TypeOK
<1> SUFFICES ASSUME Init PROVE TypeOK
  OBVIOUS
<1>1. users \in [Users -> UserRow]
  BY DEF Init, UserRow
<1>2. QED
  BY <1>1 DEF Init, TypeOK

LEMMA NextType == TypeOK /\ [Next]_vars => TypeOK'
<1> SUFFICES ASSUME TypeOK, [Next]_vars PROVE TypeOK'
  OBVIOUS
<1>1. ASSUME NEW u \in Users, UpdateUser(u) PROVE TypeOK'
  <2>1. PICK role \in Roles, active \in BOOLEAN :
          UpdateUserRow(u, [users[u] EXCEPT !.role = role, !.active = active])
    BY <1>1 DEF UpdateUser
  <2>2. [users[u] EXCEPT !.role = role, !.active = active] \in UserRow
    BY DEF TypeOK, UserRow
  <2>3. QED
    BY <2>1, <2>2, UpdateUserRowType
<1>2. ASSUME NEW u \in Users, ResetPassword(u) PROVE TypeOK'
  <2>1. [users[u] EXCEPT !.password = @ + 1] \in UserRow
    BY DEF TypeOK, UserRow
  <2>2. QED
    BY <1>2, <2>1, UpdateUserRowType DEF ResetPassword
<1>3. ASSUME NEW u \in Users, SetMFA(u) PROVE TypeOK'
  <2>1. PICK on \in BOOLEAN : UpdateUserRow(u, [users[u] EXCEPT !.mfa = on])
    BY <1>3 DEF SetMFA
  <2>2. [users[u] EXCEPT !.mfa = on] \in UserRow
    BY DEF TypeOK, UserRow
  <2>3. QED
    BY <2>1, <2>2, UpdateUserRowType
<1>4. ASSUME NEW r \in Requests, NEW u \in Users, LoginVerify(r, u) PROVE TypeOK'
  <2>1. req'[r] \in LoginReq
    BY <1>4 DEF TypeOK, LoginVerify, LoginReq, Proof, UserRow
  <2>2. QED
    BY <1>4, <2>1 DEF TypeOK, LoginVerify
<1>5. ASSUME NEW r \in Requests, NEW p \in Pairs, CreateSession(r, p) PROVE TypeOK'
  <2>1. req[r] \in LoginReq
    BY <1>5 DEF TypeOK, CreateSession, Idle, LoginReq, RotateReq, ConsumeReq
  <2>2. sessions'[p] \in SessionRow /\ claims'[p] \in Claims
    BY <1>5, <2>1 DEF TypeOK, CreateSession, LoginReq, SessionRow, Claims
  <2>3. QED
    BY <1>5, <2>2 DEF TypeOK, CreateSession, Finish
<1>6. ASSUME NEW r \in Requests, NEW p \in Pairs, RefreshRead(r, p) PROVE TypeOK'
  <2>1. req'[r] \in RotateReq
    BY <1>6 DEF TypeOK, RefreshRead, Issued, RotateReq, Claims
  <2>2. QED
    BY <1>6, <2>1 DEF TypeOK, RefreshRead
<1>7. ASSUME NEW r \in Requests, NEW c \in Challenges, CreateChallenge(r, c) PROVE TypeOK'
  <2>1. req[r] \in LoginReq
    BY <1>7 DEF TypeOK, CreateChallenge, Idle, LoginReq, RotateReq, ConsumeReq
  <2>2. challenges'[c] \in ChallengeRow
    BY <1>7, <2>1, ConstantsAssumption
       DEF TypeOK, CreateChallenge, LoginReq, ChallengeRow, Proof
  <2>3. QED
    BY <1>7, <2>2 DEF TypeOK, CreateChallenge, Finish
<1>8. ASSUME NEW r \in Requests, NEW c \in Challenges, MFALoginRead(r, c) PROVE TypeOK'
  <2>1. req'[r] \in ConsumeReq
    BY <1>8 DEF TypeOK, MFALoginRead, ChallengeRow, ConsumeReq
  <2>2. QED
    BY <1>8, <2>1 DEF TypeOK, MFALoginRead
<1>9. ASSUME NEW r \in Requests, ConsumeChallenge(r) PROVE TypeOK'
  <2> DEFINE c == req[r].challenge
  <2>1. req[r] \in ConsumeReq
    BY <1>9 DEF TypeOK, ConsumeChallenge, Idle, LoginReq, RotateReq, ConsumeReq
  <2>2. CASE Consumable(c)
    <3>1. challenges[c] \in ChallengeRow
      BY <2>1, <2>2 DEF TypeOK, Consumable, ConsumeReq
    <3>2. [challenges[c] EXCEPT !.attempts = @ + 1, !.consumed = req[r].valid] \in ChallengeRow
      <4>1. challenges[c].attempts + 1 \in 0..MaxAttempts
        BY <2>2, <3>1, ConstantsAssumption DEF Consumable, ChallengeRow
      <4>2. req[r].valid \in BOOLEAN
        BY <2>1 DEF ConsumeReq
      <4>3. QED
        BY <3>1, <4>1, <4>2 DEF ChallengeRow
    <3>3. challenges' \in [Challenges -> ChallengeRow \cup {NoRow}]
      BY <1>9, <2>1, <2>2, <3>2 DEF TypeOK, ConsumeChallenge, SpendChallenge, ConsumeReq
    <3>4. req' \in [Requests -> {Idle} \cup LoginReq \cup RotateReq \cup ConsumeReq]
      BY <1>9, <2>1, <2>2, <3>1
         DEF TypeOK, ConsumeChallenge, Finish, ConsumeReq, LoginReq, Proof, ChallengeRow
    <3>5. QED
      BY <1>9, <3>3, <3>4 DEF TypeOK, ConsumeChallenge
  <2>3. CASE ~Consumable(c)
    BY <1>9, <2>3 DEF TypeOK, ConsumeChallenge, Finish
  <2>4. QED
    BY <2>2, <2>3
<1>10. ASSUME NEW r \in Requests, RefreshRotate(r) PROVE TypeOK'
  <2>1. req[r] \in RotateReq
    BY <1>10 DEF TypeOK, RefreshRotate, Idle, LoginReq, RotateReq, ConsumeReq
  <2>2. CASE Rotatable(r)
    <3>1. PICK q \in Pairs : Rotate(r, q)
      BY <1>10, <2>2 DEF RefreshRotate
    <3>2. sessions[req[r].pair] \in SessionRow
      BY <2>1, <2>2 DEF TypeOK, Rotatable, Active, RotateReq
    <3>3. sessions' \in [Pairs -> SessionRow \cup {NoRow}]
      BY <2>1, <3>1, <3>2 DEF TypeOK, Rotate, RotateReq
    <3>4. claims' \in [Pairs -> Claims \cup {NoClaims}]
      BY <2>1, <3>1 DEF TypeOK, Rotate, RotateReq, Claims
    <3>5. QED
      BY <1>10, <3>3, <3>4 DEF TypeOK, RefreshRotate, Finish
  <2>3. CASE ~Rotatable(r)
    BY <1>10, <2>3 DEF TypeOK, RefreshRotate, Finish
  <2>4. QED
    BY <2>2, <2>3
<1>11. ASSUME NEW r \in Requests, Abandon(r) PROVE TypeOK'
  BY <1>11 DEF TypeOK, Abandon, Finish
<1>12. ASSUME NEW p \in Pairs, RevokeSession(p) \/ ExpireSession(p) PROVE TypeOK'
  <2>1. sessions[p] \in SessionRow
    BY <1>12 DEF TypeOK, RevokeSession, ExpireSession
  <2>2. /\ [sessions[p] EXCEPT !.revoked = TRUE] \in SessionRow
        /\ [sessions[p] EXCEPT !.expired = TRUE] \in SessionRow
    BY <2>1 DEF SessionRow
  <2>3. QED
    BY <1>12, <2>2 DEF TypeOK, RevokeSession, ExpireSession
<1>13. ASSUME NEW c \in Challenges, ExpireChallenge(c) PROVE TypeOK'
  <2>1. challenges'[c] \in ChallengeRow
    BY <1>13 DEF TypeOK, ExpireChallenge, ChallengeRow
  <2>2. QED
    BY <1>13, <2>1 DEF TypeOK, ExpireChallenge
<1>14. CASE UNCHANGED vars
  BY <1>14 DEF TypeOK, vars
<1>15. QED
  BY <1>1, <1>2, <1>3, <1>4, <1>5, <1>6, <1>7, <1>8, <1>9, <1>10, <1>11, <1>12,
     <1>13, <1>14 DEF Next

\* Every reachable state is well typed.
THEOREM TypeCorrect == Spec => []TypeOK
BY InitType, NextType, PTL DEF Spec

(***************************************************************************)
(* A refused token stays refused                                           *)
(***************************************************************************)
\* The verdict on p reads only p's row, p's claims and its account's row: a
\* step that touches none of the three leaves it as it was.
LEMMA VerdictFrame ==
    ASSUME NEW p \in Pairs,
           sessions'[p] = sessions[p], claims'[p] = claims[p], users' = users
    PROVE  Authenticates(p)' <=> Authenticates(p)
BY DEF Authenticates, Issued, Active, CurrentUser

\* An update of an account revokes every token of that account, or changes none
\* of the columns the verdict reads.
LEMMA UpdateRefuses ==
    ASSUME TypeOK, NEW u \in Users, NEW row, UpdateUserRow(u, row),
           NEW p \in Pairs, ~Authenticates(p)
    PROVE  ~Authenticates(p)'
<1>1. CASE row = users[u]
  <2>1. users' = users
    BY <1>1 DEF UpdateUserRow, TypeOK
  <2>2. QED
    BY <1>1, <2>1, VerdictFrame DEF UpdateUserRow
<1>2. CASE row # users[u]
  <2>1. sessions' = RevokeRows(u) /\ claims' = claims
    BY <1>2 DEF UpdateUserRow
  <2>2. CASE sessions[p] # NoRow /\ sessions[p].user = u
    <3>1. sessions'[p] = [sessions[p] EXCEPT !.revoked = TRUE]
      BY <2>1, <2>2 DEF RevokeRows
    <3>2. sessions[p] \in SessionRow
      BY <2>2 DEF TypeOK
    <3>3. sessions'[p].revoked
      BY <3>1, <3>2 DEF SessionRow
    <3>4. QED
      BY <3>3 DEF Authenticates, Active
  <2>3. CASE ~(sessions[p] # NoRow /\ sessions[p].user = u)
    <3>1. sessions'[p] = sessions[p]
      BY <2>1, <2>3 DEF RevokeRows
    <3>2. SUFFICES ASSUME Authenticates(p)' PROVE Authenticates(p)
      OBVIOUS
    <3>3. claims[p].user # u /\ claims[p] # NoClaims
      BY <2>1, <2>3, <3>1, <3>2 DEF Authenticates, Active, Issued
    <3>4. users'[claims[p].user] = users[claims[p].user]
      BY <3>3 DEF UpdateUserRow, TypeOK, Claims
    <3>5. QED
      BY <2>1, <3>1, <3>2, <3>4 DEF Authenticates, Active, Issued, CurrentUser
  <2>4. QED
    BY <2>2, <2>3
<1>3. QED
  BY <1>1, <1>2

LEMMA NextRefuses ==
    ASSUME TypeOK, [Next]_vars, NEW p \in Pairs, Issued(p), ~Authenticates(p)
    PROVE  ~Authenticates(p)'
<1>1. ASSUME NEW u \in Users, UpdateUser(u) \/ ResetPassword(u) \/ SetMFA(u)
      PROVE  ~Authenticates(p)'
  <2>1. PICK row : UpdateUserRow(u, row)
    BY <1>1 DEF UpdateUser, ResetPassword, SetMFA
  <2>2. QED
    BY <2>1, UpdateRefuses
<1>2. ASSUME NEW r \in Requests, NEW q \in Pairs, CreateSession(r, q)
      PROVE  ~Authenticates(p)'
  <2>1. p # q
    BY <1>2 DEF CreateSession
  <2>2. QED
    BY <1>2, <2>1, VerdictFrame DEF CreateSession, TypeOK
<1>3. ASSUME NEW r \in Requests, RefreshRotate(r)
      PROVE  ~Authenticates(p)'
  <2>1. CASE Rotatable(r)
    <3>1. PICK q \in Pairs : ~Issued(q) /\ Rotate(r, q)
      BY <1>3, <2>1 DEF RefreshRotate
    <3>2. p # q
      BY <3>1
    <3>3. CASE p = req[r].pair
      <4>1. sessions'[p] = NoRow
        BY <3>1, <3>2, <3>3 DEF Rotate, TypeOK
      <4>2. QED
        BY <4>1 DEF Authenticates, Active
    <3>4. CASE p # req[r].pair
      <4>1. sessions'[p] = sessions[p] /\ claims'[p] = claims[p]
        BY <3>1, <3>2, <3>4 DEF Rotate, TypeOK
      <4>2. QED
        BY <1>3, <4>1, VerdictFrame DEF RefreshRotate
    <3>5. QED
      BY <3>3, <3>4
  <2>2. CASE ~Rotatable(r)
    BY <1>3, <2>2, VerdictFrame DEF RefreshRotate
  <2>3. QED
    BY <2>1, <2>2
<1>4. ASSUME NEW q \in Pairs, RevokeSession(q) \/ ExpireSession(q)
      PROVE  ~Authenticates(p)'
  <2>1. CASE p = q
    <3>1. sessions[q] \in SessionRow
      BY <1>4 DEF RevokeSession, ExpireSession, TypeOK
    <3>2. sessions'[q].revoked \/ sessions'[q].expired
      BY <1>4, <3>1 DEF RevokeSession, ExpireSession, TypeOK, SessionRow
    <3>3. QED
      BY <2>1, <3>2 DEF Authenticates, Active
  <2>2. CASE p # q
    <3>1. sessions'[p] = sessions[p]
      BY <1>4, <2>2 DEF RevokeSession, ExpireSession, TypeOK
    <3>2. QED
      BY <1>4, <3>1, VerdictFrame DEF RevokeSession, ExpireSession
  <2>3. QED
    BY <2>1, <2>2
<1>5. ASSUME UNCHANGED <<users, sessions, claims>>
      PROVE  ~Authenticates(p)'
  BY <1>5, VerdictFrame
<1>6. QED
  BY <1>1, <1>2, <1>3, <1>4, <1>5
     DEF Next, vars, LoginVerify, RefreshRead, CreateChallenge, MFALoginRead,
         ConsumeChallenge, Abandon, ExpireChallenge

\* No token that the API has begun to refuse is ever accepted again.
THEOREM TokensNeverRevive == Spec => NeverRevives
<1>1. TypeOK /\ [Next]_vars
        => [\A p \in Pairs : Issued(p) /\ ~Authenticates(p) => ~Authenticates(p)']_vars
  BY NextRefuses
<1>2. QED
  BY <1>1, TypeCorrect, PTL DEF Spec, NeverRevives

(***************************************************************************)
(* One winner per refresh token                                            *)
(***************************************************************************)
\* A row is held only under jtis that were handed out, and a refresh token that
\* was spent is on no row: the second fact is what makes the compare-and-set of
\* RotateSession miss when a twin request arrives late.
RowsIssued == \A p \in Pairs : sessions[p] # NoRow => Issued(p)
SpentGone ==
    \A q \in Pairs :
        Issued(q) /\ claims[q].parent # NoPair
            => Issued(claims[q].parent) /\ sessions[claims[q].parent] = NoRow
RotationInv == TypeOK /\ RowsIssued /\ SpentGone /\ OneRotationWinner

LEMMA RotationInit == Init => RotationInv
<1> SUFFICES ASSUME Init PROVE RotationInv
  OBVIOUS
<1>1. /\ \A p \in Pairs : sessions[p] = NoRow
      /\ \A p \in Pairs : ~Issued(p)
  BY DEF Init, Issued
<1>2. QED
  BY <1>1, InitType DEF RotationInv, RowsIssued, SpentGone, OneRotationWinner

LEMMA RotationStep == RotationInv /\ [Next]_vars => RotationInv'
<1> SUFFICES ASSUME RotationInv, [Next]_vars PROVE (RowsIssued /\ SpentGone /\ OneRotationWinner)'
  BY NextType DEF RotationInv
<1> USE DEF RotationInv
<1>1. ASSUME UNCHANGED claims,
             \A p \in Pairs : sessions'[p] = NoRow <=> sessions[p] = NoRow
      PROVE  (RowsIssued /\ SpentGone /\ OneRotationWinner)'
  <2>1. (RowsIssued /\ OneRotationWinner)'
    BY <1>1 DEF RowsIssued, OneRotationWinner, Issued
  <2>2. SpentGone'
    BY <1>1 DEF SpentGone, Issued, TypeOK, Claims
  <2>3. QED
    BY <2>1, <2>2
<1>2. ASSUME NEW u \in Users, UpdateUser(u) \/ ResetPassword(u) \/ SetMFA(u)
      PROVE  (RowsIssued /\ SpentGone /\ OneRotationWinner)'
  <2>1. PICK row : UpdateUserRow(u, row)
    BY <1>2 DEF UpdateUser, ResetPassword, SetMFA
  <2>2. ASSUME NEW p \in Pairs PROVE RevokeRows(u)[p] = NoRow <=> sessions[p] = NoRow
    <3>1. sessions[p] # NoRow => [sessions[p] EXCEPT !.revoked = TRUE] \in SessionRow
      BY DEF TypeOK, SessionRow
    <3>2. QED
      BY <3>1, NullsAssumption DEF RevokeRows
  <2>3. QED
    BY <1>1, <2>1, <2>2 DEF UpdateUserRow
<1>3. ASSUME NEW r \in Requests, NEW p \in Pairs, CreateSession(r, p)
      PROVE  (RowsIssued /\ SpentGone /\ OneRotationWinner)'
  <2>1. claims'[p].parent = NoPair /\ ~Issued(p)
    BY <1>3 DEF CreateSession, TypeOK
  <2>2. \A q \in Pairs \ {p} : sessions'[q] = sessions[q] /\ claims'[q] = claims[q]
    BY <1>3 DEF CreateSession, TypeOK
  <2>3. claims'[p] \in Claims
    BY <1>3, NextType DEF CreateSession, TypeOK, LoginReq, Idle, RotateReq, ConsumeReq, Claims
  <2>4. RowsIssued'
    BY <2>2, <2>3, NullsAssumption DEF RowsIssued, Issued
  <2>5. SpentGone'
    BY <2>1, <2>2 DEF SpentGone, Issued, TypeOK, Claims
  <2>6. OneRotationWinner'
    BY <2>1, <2>2 DEF OneRotationWinner, Issued
  <2>7. QED
    BY <2>4, <2>5, <2>6
<1>4. ASSUME NEW r \in Requests, RefreshRotate(r)
      PROVE  (RowsIssued /\ SpentGone /\ OneRotationWinner)'
  <2>1. CASE Rotatable(r)
    <3> DEFINE old == req[r].pair
    <3>1. old \in Pairs /\ sessions[old] # NoRow
      BY <1>4, <2>1 DEF RefreshRotate, Rotatable, Active, TypeOK, Idle, LoginReq,
                        RotateReq, ConsumeReq
    <3>2. PICK q \in Pairs : ~Issued(q) /\ Rotate(r, q)
      BY <1>4, <2>1 DEF RefreshRotate
    <3>3. old # q /\ Issued(old)
      BY <3>1, <3>2 DEF RowsIssued
    <3>4. claims'[q].parent = old /\ sessions'[old] = NoRow /\ claims'[old] = claims[old]
      BY <3>1, <3>2, <3>3 DEF Rotate, TypeOK
    <3>5. \A p \in Pairs \ {q} : claims'[p] = claims[p]
      BY <3>2 DEF Rotate, TypeOK
    <3>6. \A p \in Pairs \ {old, q} : sessions'[p] = sessions[p]
      BY <3>1, <3>2 DEF Rotate, TypeOK
    <3>7. claims'[q] \in Claims
      BY <1>4, <3>2, NextType DEF RefreshRotate, Rotate, TypeOK, Idle, LoginReq,
                                 RotateReq, ConsumeReq, Claims
    <3>8. \A p \in Pairs : Issued(p) => claims[p].parent # old
      BY <3>1, ConstantsAssumption DEF SpentGone, Issued
    <3>9. RowsIssued'
      BY <3>4, <3>5, <3>6, <3>7, NullsAssumption DEF RowsIssued, Issued
    <3>10. SpentGone'
      <4> SUFFICES ASSUME NEW p \in Pairs, Issued(p)', claims'[p].parent # NoPair
                   PROVE  (Issued(claims[p].parent) /\ sessions[claims[p].parent] = NoRow)'
        BY DEF SpentGone
      <4>1. CASE p = q
        BY <3>3, <3>4, <4>1 DEF Issued
      <4>2. CASE p # q
        <5> DEFINE par == claims[p].parent
        <5>1. claims'[p] = claims[p] /\ Issued(p)
          BY <3>5, <4>2 DEF Issued
        <5>2. par \in Pairs /\ Issued(par) /\ sessions[par] = NoRow /\ par # q
          BY <3>2, <5>1 DEF SpentGone, TypeOK, Issued, Claims
        <5>3. QED
          BY <3>4, <3>5, <3>6, <5>1, <5>2 DEF Issued
      <4>3. QED
        BY <4>1, <4>2
    <3>11. OneRotationWinner'
      BY <3>4, <3>5, <3>8 DEF OneRotationWinner, Issued
    <3>12. QED
      BY <3>9, <3>10, <3>11
  <2>2. CASE ~Rotatable(r)
    BY <1>1, <1>4, <2>2 DEF RefreshRotate
  <2>3. QED
    BY <2>1, <2>2
<1>5. ASSUME NEW p \in Pairs, RevokeSession(p) \/ ExpireSession(p)
      PROVE  (RowsIssued /\ SpentGone /\ OneRotationWinner)'
  <2>1. sessions[p] \in SessionRow /\ sessions[p] # NoRow
    BY <1>5 DEF RevokeSession, ExpireSession, TypeOK
  <2>2. /\ [sessions[p] EXCEPT !.revoked = TRUE] \in SessionRow
        /\ [sessions[p] EXCEPT !.expired = TRUE] \in SessionRow
    BY <2>1 DEF SessionRow
  <2>3. sessions'[p] \in SessionRow
    BY <1>5, <2>2 DEF RevokeSession, ExpireSession, TypeOK
  <2>4. QED
    BY <1>1, <1>5, <2>1, <2>3, NullsAssumption DEF RevokeSession, ExpireSession, TypeOK
<1>6. ASSUME UNCHANGED <<sessions, claims>>
      PROVE  (RowsIssued /\ SpentGone /\ OneRotationWinner)'
  BY <1>1, <1>6
<1>7. QED
  BY <1>2, <1>3, <1>4, <1>5, <1>6
     DEF Next, vars, LoginVerify, RefreshRead, CreateChallenge, MFALoginRead,
         ConsumeChallenge, Abandon, ExpireChallenge

\* However many requests race, a refresh token is exchanged at most once.
THEOREM RefreshHasOneWinner == Spec => []OneRotationWinner
<1>1. Init => RotationInv
  BY RotationInit
<1>2. QED
  BY <1>1, RotationStep, PTL DEF Spec, RotationInv

(***************************************************************************)
(* No session survives an identity change                                  *)
(***************************************************************************)
SurvivorInv == TypeOK /\ NoSurvivor

LEMMA UpdateLeavesNoSurvivor ==
    ASSUME SurvivorInv, NEW u \in Users, NEW row, UpdateUserRow(u, row)
    PROVE  NoSurvivor'
<1>1. CASE row = users[u]
  BY <1>1 DEF SurvivorInv, UpdateUserRow, NoSurvivor
<1>2. CASE row # users[u]
  <2> SUFFICES ASSUME NEW p \in Pairs, sessions'[p] # NoRow, ~sessions'[p].revoked
               PROVE  sessions'[p].born = epoch'[sessions'[p].user]
    BY DEF NoSurvivor
  <2>1. sessions' = RevokeRows(u) /\ epoch' = [epoch EXCEPT ![u] = @ + 1]
    BY <1>2 DEF UpdateUserRow
  <2>2. sessions[p] # NoRow /\ sessions[p] \in SessionRow
    BY <2>1 DEF RevokeRows, SurvivorInv, TypeOK
  <2>3. sessions[p].user # u /\ sessions'[p] = sessions[p]
    BY <2>1, <2>2 DEF RevokeRows, SessionRow
  <2>4. QED
    BY <2>1, <2>2, <2>3 DEF SurvivorInv, NoSurvivor, TypeOK, SessionRow
<1>3. QED
  BY <1>1, <1>2

LEMMA SurvivorStep == SurvivorInv /\ [Next]_vars => SurvivorInv'
<1> SUFFICES ASSUME SurvivorInv, [Next]_vars PROVE NoSurvivor'
  BY NextType DEF SurvivorInv
<1> USE DEF SurvivorInv
<1>1. ASSUME NEW u \in Users, UpdateUser(u) \/ ResetPassword(u) \/ SetMFA(u)
      PROVE  NoSurvivor'
  BY <1>1, UpdateLeavesNoSurvivor DEF UpdateUser, ResetPassword, SetMFA
<1>2. ASSUME NEW r \in Requests, NEW p \in Pairs, CreateSession(r, p)
      PROVE  NoSurvivor'
  BY <1>2 DEF CreateSession, NoSurvivor, TypeOK
<1>3. ASSUME NEW r \in Requests, RefreshRotate(r)
      PROVE  NoSurvivor'
  <2>1. CASE Rotatable(r)
    <3>1. PICK q \in Pairs : ~Issued(q) /\ Rotate(r, q)
      BY <1>3, <2>1 DEF RefreshRotate
    <3>2. req[r].pair \in Pairs
      BY <1>3 DEF RefreshRotate, TypeOK, Idle, LoginReq, RotateReq, ConsumeReq
    <3>3. QED
      BY <1>3, <2>1, <3>1, <3>2
         DEF RefreshRotate, Rotate, Rotatable, Active, NoSurvivor, TypeOK
  <2>2. CASE ~Rotatable(r)
    BY <1>3, <2>2 DEF RefreshRotate, NoSurvivor
  <2>3. QED
    BY <2>1, <2>2
<1>4. ASSUME NEW p \in Pairs, RevokeSession(p) \/ ExpireSession(p)
      PROVE  NoSurvivor'
  <2>1. sessions[p] \in SessionRow
    BY <1>4 DEF RevokeSession, ExpireSession, TypeOK
  <2>2. /\ sessions'[p].born = sessions[p].born
        /\ sessions'[p].user = sessions[p].user
        /\ sessions[p].revoked => sessions'[p].revoked
    BY <1>4, <2>1 DEF RevokeSession, ExpireSession, TypeOK, SessionRow
  <2>3. QED
    BY <1>4, <2>2 DEF RevokeSession, ExpireSession, NoSurvivor, TypeOK
<1>5. ASSUME UNCHANGED <<sessions, epoch>>
      PROVE  NoSurvivor'
  BY <1>5 DEF NoSurvivor
<1>6. QED
  BY <1>1, <1>2, <1>3, <1>4, <1>5
     DEF Next, vars, LoginVerify, RefreshRead, CreateChallenge, MFALoginRead,
         ConsumeChallenge, Abandon, ExpireChallenge

\* An identity change ends every session that was in the table, through any
\* refresh that read the account before the change and rotates after it.
THEOREM IdentityChangeEndsSessions == Spec => []NoSurvivor
<1>1. Init => SurvivorInv
  <2>1. Init => \A p \in Pairs : sessions[p] = NoRow
    BY DEF Init
  <2>2. QED
    BY <2>1, InitType DEF SurvivorInv, NoSurvivor
<1>2. QED
  BY <1>1, SurvivorStep, PTL DEF Spec, SurvivorInv

(***************************************************************************)
(* What a session shows of the account it was opened for                   *)
(***************************************************************************)
\* A proof given at an epoch of the account that is not over: the password of
\* that epoch is still the present one.
PasswordCurrent(u, read, password) ==
    /\ read <= epoch[u]
    /\ read = epoch[u] => password = users[u].password

\* ... and an account with MFA was asked for its second factor.
FactorsShown(u, proof) ==
    proof.read = epoch[u] /\ users[u].mfa => proof.challenge # NoChallenge

\* Everything that a login leaves behind on its way to the table is as good as
\* the row it becomes: the request, the challenge and the request that spends it.
SessionsProved ==
    \A p \in Pairs : sessions[p] # NoRow =>
        /\ PasswordCurrent(sessions[p].user, sessions[p].proof.read, sessions[p].proof.password)
        /\ FactorsShown(sessions[p].user, sessions[p].proof)
LoginsProved ==
    \A r \in Requests : req[r].step \in {"issue", "challenge"} =>
        /\ PasswordCurrent(req[r].user, req[r].proof.read, req[r].proof.password)
        /\ req[r].step = "issue" => FactorsShown(req[r].user, req[r].proof)
ChallengesProved ==
    \A c \in Challenges : challenges[c] # NoRow =>
        PasswordCurrent(challenges[c].user, challenges[c].read, challenges[c].password)
ConsumersAimed ==
    \A r \in Requests : req[r].step = "consume" =>
        /\ challenges[req[r].challenge] # NoRow
        /\ challenges[req[r].challenge].user = req[r].user
AllProved == SessionsProved /\ LoginsProved /\ ChallengesProved /\ ConsumersAimed
CredentialInv == TypeOK /\ AllProved

\* An update of the account begins a new epoch, or changes no column.
LEMMA UpdateBeginsEpoch ==
    ASSUME TypeOK, NEW u \in Users, NEW row, UpdateUserRow(u, row)
    PROVE  \A v \in Users : /\ epoch'[v] \in Nat /\ epoch[v] <= epoch'[v]
                            /\ epoch'[v] = epoch[v] => users'[v] = users[v]
<1> SUFFICES ASSUME NEW v \in Users
             PROVE  /\ epoch'[v] \in Nat /\ epoch[v] <= epoch'[v]
                    /\ epoch'[v] = epoch[v] => users'[v] = users[v]
  OBVIOUS
<1>1. CASE row = users[u]
  BY <1>1 DEF UpdateUserRow, TypeOK
<1>2. CASE row # users[u]
  BY <1>2 DEF UpdateUserRow, TypeOK
<1>3. QED
  BY <1>1, <1>2

LEMMA UpdateKeepsProofs ==
    ASSUME CredentialInv, NEW u \in Users, NEW row, UpdateUserRow(u, row)
    PROVE  AllProved'
<1> USE DEF CredentialInv, AllProved
<1>1. UNCHANGED <<challenges, claims, req>>
  BY DEF UpdateUserRow
<1>2. \A v \in Users : /\ epoch[v] \in Nat /\ epoch'[v] \in Nat /\ epoch[v] <= epoch'[v]
                       /\ epoch'[v] = epoch[v] => users'[v] = users[v]
  BY UpdateBeginsEpoch DEF TypeOK
<1>3. ASSUME NEW p \in Pairs, sessions'[p] # NoRow
      PROVE  /\ sessions[p] # NoRow
             /\ sessions'[p].user = sessions[p].user
             /\ sessions'[p].proof = sessions[p].proof
  <2>1. sessions' = sessions \/ sessions' = RevokeRows(u)
    BY DEF UpdateUserRow
  <2>2. sessions[p] # NoRow => sessions[p] \in SessionRow
    BY DEF TypeOK
  <2>3. QED
    BY <1>3, <2>1, <2>2 DEF RevokeRows, SessionRow
<1>4. SessionsProved'
  <2> SUFFICES ASSUME NEW p \in Pairs, sessions'[p] # NoRow
               PROVE  /\ PasswordCurrent(sessions[p].user, sessions[p].proof.read,
                                         sessions[p].proof.password)'
                      /\ FactorsShown(sessions[p].user, sessions[p].proof)'
    BY DEF SessionsProved
  <2>1. sessions[p] \in SessionRow
    BY <1>3 DEF TypeOK
  <2>2. /\ sessions[p].user \in Users
        /\ sessions[p].proof.read \in Nat
    BY <2>1 DEF SessionRow, Proof
  <2>3. /\ PasswordCurrent(sessions[p].user, sessions[p].proof.read, sessions[p].proof.password)
        /\ FactorsShown(sessions[p].user, sessions[p].proof)
    BY <1>3 DEF SessionsProved
  <2>4. QED
    BY <1>2, <1>3, <2>2, <2>3 DEF PasswordCurrent, FactorsShown
<1>5. LoginsProved'
  <2> SUFFICES ASSUME NEW r \in Requests, req[r].step \in {"issue", "challenge"}
               PROVE  /\ PasswordCurrent(req[r].user, req[r].proof.read, req[r].proof.password)'
                      /\ req[r].step = "issue" => FactorsShown(req[r].user, req[r].proof)'
    BY <1>1 DEF LoginsProved
  <2>1. req[r] \in LoginReq
    BY DEF TypeOK, Idle, LoginReq, RotateReq, ConsumeReq
  <2>2. req[r].user \in Users /\ req[r].proof.read \in Nat
    BY <2>1 DEF LoginReq, Proof
  <2>3. QED
    BY <1>1, <1>2, <2>2 DEF LoginsProved, PasswordCurrent, FactorsShown
<1>6. ChallengesProved'
  <2> SUFFICES ASSUME NEW c \in Challenges, challenges[c] # NoRow
               PROVE  PasswordCurrent(challenges[c].user, challenges[c].read,
                                      challenges[c].password)'
    BY <1>1 DEF ChallengesProved
  <2>1. challenges[c].user \in Users /\ challenges[c].read \in Nat
    BY DEF TypeOK, ChallengeRow
  <2>2. QED
    BY <1>1, <1>2, <2>1 DEF ChallengesProved, PasswordCurrent
<1>7. ConsumersAimed'
  BY <1>1 DEF ConsumersAimed
<1>8. QED
  BY <1>4, <1>5, <1>6, <1>7

\* A step that writes one kind of row leaves the others as they were.
LEMMA CredentialStep == CredentialInv /\ [Next]_vars => CredentialInv'
<1> SUFFICES ASSUME CredentialInv, [Next]_vars PROVE AllProved'
  BY NextType DEF CredentialInv
<1> USE DEF CredentialInv, AllProved
<1>1. ASSUME NEW u \in Users, UpdateUser(u) \/ ResetPassword(u) \/ SetMFA(u)
      PROVE  AllProved'
  BY <1>1, UpdateKeepsProofs DEF UpdateUser, ResetPassword, SetMFA
<1>2. ASSUME UNCHANGED <<users, epoch>>
      PROVE  /\ UNCHANGED sessions => SessionsProved'
             /\ UNCHANGED challenges => ChallengesProved'
             /\ UNCHANGED req => LoginsProved'
             /\ UNCHANGED <<req, challenges>> => ConsumersAimed'
  BY <1>2 DEF SessionsProved, ChallengesProved, LoginsProved, ConsumersAimed,
              PasswordCurrent, FactorsShown
<1>3. ASSUME NEW r \in Requests, UNCHANGED <<users, epoch, challenges>>,
             \A s \in Requests \ {r} : req'[s] = req[s],
             req'[r].step \in {"issue", "challenge"} =>
                /\ PasswordCurrent(req'[r].user, req'[r].proof.read, req'[r].proof.password)
                /\ req'[r].step = "issue" => FactorsShown(req'[r].user, req'[r].proof),
             req'[r].step = "consume" =>
                /\ challenges[req'[r].challenge] # NoRow
                /\ challenges[req'[r].challenge].user = req'[r].user
      PROVE  LoginsProved' /\ ConsumersAimed'
  BY <1>3 DEF LoginsProved, ConsumersAimed, PasswordCurrent, FactorsShown
<1>4. ASSUME NEW r \in Requests, Finish(r), UNCHANGED <<users, epoch, challenges>>
      PROVE  LoginsProved' /\ ConsumersAimed'
  BY <1>3, <1>4 DEF Finish, Idle, TypeOK
<1>5. ASSUME NEW r \in Requests, NEW u \in Users, LoginVerify(r, u) PROVE AllProved'
  <2>1. /\ req'[r].user = u
        /\ req'[r].proof = [password |-> users[u].password, read |-> epoch[u],
                            challenge |-> NoChallenge]
        /\ req'[r].step = IF users[u].mfa THEN "challenge" ELSE "issue"
    BY <1>5 DEF LoginVerify, TypeOK
  <2>2. PasswordCurrent(u, epoch[u], users[u].password)
    BY DEF PasswordCurrent, TypeOK
  <2>3. QED
    BY <1>2, <1>3, <1>5, <2>1, <2>2 DEF LoginVerify, FactorsShown, TypeOK
<1>6. ASSUME NEW r \in Requests, NEW p \in Pairs, CreateSession(r, p) PROVE AllProved'
  <2>1. /\ sessions'[p].user = req[r].user
        /\ sessions'[p].proof = req[r].proof
        /\ \A q \in Pairs \ {p} : sessions'[q] = sessions[q]
    BY <1>6 DEF CreateSession, TypeOK
  <2>2. /\ PasswordCurrent(req[r].user, req[r].proof.read, req[r].proof.password)
        /\ FactorsShown(req[r].user, req[r].proof)
    BY <1>6 DEF CreateSession, LoginsProved
  <2>3. SessionsProved'
    BY <1>6, <2>1, <2>2 DEF CreateSession, SessionsProved, PasswordCurrent, FactorsShown
  <2>4. QED
    BY <1>2, <1>4, <1>6, <2>3 DEF CreateSession
<1>7. ASSUME NEW r \in Requests, NEW c \in Challenges, CreateChallenge(r, c) PROVE AllProved'
  <2>1. /\ challenges'[c].user = req[r].user
        /\ challenges'[c].read = req[r].proof.read
        /\ challenges'[c].password = req[r].proof.password
        /\ \A d \in Challenges \ {c} : challenges'[d] = challenges[d]
    BY <1>7 DEF CreateChallenge, TypeOK
  <2>2. PasswordCurrent(req[r].user, req[r].proof.read, req[r].proof.password)
    BY <1>7 DEF CreateChallenge, LoginsProved
  <2>3. ChallengesProved'
    BY <1>7, <2>1, <2>2 DEF CreateChallenge, ChallengesProved, PasswordCurrent
  <2>4. req' = [req EXCEPT ![r] = Idle] /\ UNCHANGED <<users, epoch, sessions>>
    BY <1>7 DEF CreateChallenge, Finish
  <2>5. LoginsProved'
    BY <2>4 DEF LoginsProved, PasswordCurrent, FactorsShown, Idle, TypeOK
  <2>6. ConsumersAimed'
    <3> SUFFICES ASSUME NEW s \in Requests, req'[s].step = "consume"
                 PROVE  /\ challenges'[req'[s].challenge] # NoRow
                        /\ challenges'[req'[s].challenge].user = req'[s].user
      BY DEF ConsumersAimed
    <3>1. s # r /\ req'[s] = req[s]
      BY <2>4 DEF Idle, TypeOK
    <3>2. req[s] \in ConsumeReq
      BY <3>1 DEF TypeOK, Idle, LoginReq, RotateReq, ConsumeReq
    <3>3. challenges[req[s].challenge] # NoRow /\ req[s].challenge \in Challenges
      BY <3>1, <3>2 DEF ConsumersAimed, ConsumeReq
    <3>4. QED
      BY <1>7, <2>1, <3>1, <3>3 DEF ConsumersAimed, CreateChallenge
  <2>7. QED
    BY <1>2, <2>3, <2>4, <2>5, <2>6
<1>8. ASSUME NEW r \in Requests, NEW c \in Challenges, MFALoginRead(r, c) PROVE AllProved'
  <2>1. /\ req'[r].step = "consume" /\ req'[r].challenge = c
        /\ req'[r].user = challenges[c].user
        /\ \A s \in Requests \ {r} : req'[s] = req[s]
    BY <1>8 DEF MFALoginRead, TypeOK
  <2>2. QED
    BY <1>2, <1>3, <1>8, <2>1 DEF MFALoginRead
<1>9. ASSUME NEW r \in Requests, ConsumeChallenge(r) PROVE AllProved'
  <2> DEFINE c == req[r].challenge
  <2>1. req[r] \in ConsumeReq /\ c \in Challenges
    BY <1>9 DEF ConsumeChallenge, TypeOK, Idle, LoginReq, RotateReq, ConsumeReq
  <2>2. challenges[c] \in ChallengeRow /\ challenges[c].user = req[r].user
    BY <1>9, <2>1 DEF ConsumersAimed, ConsumeChallenge, TypeOK
  <2>3. UNCHANGED <<users, sessions, epoch>>
    BY <1>9 DEF ConsumeChallenge
  <2>4. \A d \in Challenges :
          /\ challenges'[d] = NoRow <=> challenges[d] = NoRow
          /\ challenges[d] # NoRow => /\ challenges'[d].user = challenges[d].user
                                      /\ challenges'[d].read = challenges[d].read
                                      /\ challenges'[d].password = challenges[d].password
    <3>1. CASE ~Consumable(c)
      BY <1>9, <3>1 DEF ConsumeChallenge
    <3>2. CASE Consumable(c)
      <4>1. challenges'[c] = [challenges[c] EXCEPT !.attempts = @ + 1, !.consumed = req[r].valid]
        BY <1>9, <2>1, <3>2 DEF ConsumeChallenge, SpendChallenge, TypeOK
      <4>2. challenges[c].attempts + 1 \in 0..MaxAttempts /\ req[r].valid \in BOOLEAN
        BY <2>1, <2>2, <3>2, ConstantsAssumption DEF Consumable, ChallengeRow, ConsumeReq
      <4>3. challenges'[c] \in ChallengeRow
        BY <2>2, <4>1, <4>2 DEF ChallengeRow
      <4>4. \A d \in Challenges \ {c} : challenges'[d] = challenges[d]
        BY <1>9, <2>1, <3>2 DEF ConsumeChallenge, SpendChallenge, TypeOK
      <4>5. QED
        BY <2>2, <4>1, <4>3, <4>4, NullsAssumption DEF ChallengeRow
    <3>3. QED
      BY <3>1, <3>2
  <2>5. SessionsProved' /\ ChallengesProved'
    BY <1>2, <2>3, <2>4 DEF ChallengesProved, PasswordCurrent
  <2>6. /\ \A s \in Requests \ {r} : req'[s] = req[s]
        /\ \/ req'[r] = Idle
           \/ req'[r] = [step |-> "issue", user |-> req[r].user, role |-> req[r].role,
                         proof |-> [password |-> challenges[c].password,
                                    read |-> challenges[c].read, challenge |-> c]]
    BY <1>9 DEF ConsumeChallenge, Finish, TypeOK
  <2>7. PasswordCurrent(req[r].user, challenges[c].read, challenges[c].password)
    BY <2>1, <2>2, NullsAssumption DEF ChallengesProved
  <2>8. LoginsProved'
    <3>1. c # NoChallenge
      BY <2>1, ConstantsAssumption
    <3>2. QED
      BY <2>3, <2>6, <2>7, <3>1 DEF LoginsProved, PasswordCurrent, FactorsShown, Idle
  <2>9. ConsumersAimed'
    <3> SUFFICES ASSUME NEW s \in Requests, req'[s].step = "consume"
                 PROVE  /\ challenges'[req'[s].challenge] # NoRow
                        /\ challenges'[req'[s].challenge].user = req'[s].user
      BY DEF ConsumersAimed
    <3>1. s # r /\ req'[s] = req[s]
      BY <2>6 DEF Idle
    <3>2. req[s] \in ConsumeReq
      BY <3>1 DEF TypeOK, Idle, LoginReq, RotateReq, ConsumeReq
    <3>3. QED
      BY <2>4, <3>1, <3>2 DEF ConsumersAimed, ConsumeReq
  <2>10. QED
    BY <2>5, <2>8, <2>9
<1>10. ASSUME NEW r \in Requests, NEW p \in Pairs, RefreshRead(r, p) PROVE AllProved'
  <2>1. req'[r].step = "rotate" /\ \A s \in Requests \ {r} : req'[s] = req[s]
    BY <1>10 DEF RefreshRead, TypeOK
  <2>2. QED
    BY <1>2, <1>3, <1>10, <2>1 DEF RefreshRead
<1>11. ASSUME NEW r \in Requests, RefreshRotate(r) PROVE AllProved'
  <2>1. SessionsProved'
    <3>1. CASE Rotatable(r)
      <4>1. PICK q \in Pairs : Rotate(r, q)
        BY <1>11, <3>1 DEF RefreshRotate
      <4>2. req[r].pair \in Pairs /\ sessions[req[r].pair] # NoRow
        BY <1>11, <3>1 DEF RefreshRotate, Rotatable, Active, TypeOK, Idle, LoginReq, RotateReq,
                           ConsumeReq
      <4>3. \A p \in Pairs : sessions'[p] # NoRow =>
              \E o \in Pairs : sessions[o] # NoRow /\ sessions'[p] = sessions[o]
        BY <4>1, <4>2 DEF Rotate, TypeOK
      <4>4. QED
        BY <1>11, <4>3 DEF RefreshRotate, SessionsProved, PasswordCurrent, FactorsShown
    <3>2. CASE ~Rotatable(r)
      BY <1>2, <1>11, <3>2 DEF RefreshRotate
    <3>3. QED
      BY <3>1, <3>2
  <2>2. QED
    BY <1>2, <1>4, <1>11, <2>1 DEF RefreshRotate
<1>12. ASSUME NEW r \in Requests, Abandon(r) PROVE AllProved'
  BY <1>2, <1>4, <1>12 DEF Abandon
<1>13. ASSUME NEW p \in Pairs, RevokeSession(p) \/ ExpireSession(p) PROVE AllProved'
  <2>1. sessions[p] \in SessionRow
    BY <1>13 DEF RevokeSession, ExpireSession, TypeOK
  <2>2. /\ sessions'[p].user = sessions[p].user
        /\ sessions'[p].proof = sessions[p].proof
        /\ \A q \in Pairs \ {p} : sessions'[q] = sessions[q]
    BY <1>13, <2>1 DEF RevokeSession, ExpireSession, TypeOK, SessionRow
  <2>3. SessionsProved'
    BY <1>13, <2>1, <2>2, NullsAssumption
       DEF RevokeSession, ExpireSession, SessionsProved, PasswordCurrent, FactorsShown
  <2>4. QED
    BY <1>2, <1>13, <2>3 DEF RevokeSession, ExpireSession
<1>14. ASSUME NEW c \in Challenges, ExpireChallenge(c) PROVE AllProved'
  <2>1. challenges[c] \in ChallengeRow
    BY <1>14 DEF ExpireChallenge, TypeOK
  <2>2. /\ challenges'[c].user = challenges[c].user
        /\ challenges'[c].read = challenges[c].read
        /\ challenges'[c].password = challenges[c].password
        /\ challenges'[c] \in ChallengeRow
        /\ \A d \in Challenges \ {c} : challenges'[d] = challenges[d]
    BY <1>14, <2>1 DEF ExpireChallenge, TypeOK, ChallengeRow
  <2>3. ChallengesProved'
    BY <1>14, <2>1, <2>2, NullsAssumption DEF ExpireChallenge, ChallengesProved, PasswordCurrent
  <2>4. ConsumersAimed'
    <3> SUFFICES ASSUME NEW r \in Requests, req[r].step = "consume"
                 PROVE  /\ challenges'[req[r].challenge] # NoRow
                        /\ challenges'[req[r].challenge].user = req[r].user
      BY <1>14 DEF ExpireChallenge, ConsumersAimed
    <3>1. req[r].challenge \in Challenges
      BY DEF TypeOK, Idle, LoginReq, RotateReq, ConsumeReq
    <3>2. /\ challenges[req[r].challenge] # NoRow
          /\ challenges[req[r].challenge].user = req[r].user
      BY DEF ConsumersAimed
    <3>3. QED
      BY <2>2, <3>1, <3>2, NullsAssumption
  <2>5. QED
    BY <1>2, <1>14, <2>3, <2>4 DEF ExpireChallenge
<1>15. CASE UNCHANGED vars
  BY <1>2, <1>15 DEF vars
<1>16. QED
  BY <1>1, <1>5, <1>6, <1>7, <1>8, <1>9, <1>10, <1>11, <1>12, <1>13, <1>14, <1>15 DEF Next

\* Whatever a login straddles and however often its session is rotated, a session
\* that claims the present epoch was opened with the present password and, where
\* the account asks for it, with a second factor.
THEOREM SessionsShowCredentials == Spec => []CredentialsProved
<1>1. Init => CredentialInv
  <2>1. Init => \A r \in Requests : req[r].step = "idle"
    BY DEF Init, Idle
  <2>2. QED
    BY <2>1, InitType DEF Init, CredentialInv, AllProved, SessionsProved, LoginsProved,
                          ChallengesProved, ConsumersAimed
<1>2. CredentialInv => CredentialsProved
  BY DEF CredentialInv, AllProved, SessionsProved, PasswordCurrent, FactorsShown,
         CredentialsProved, Active
<1>3. QED
  BY <1>1, <1>2, CredentialStep, PTL DEF Spec

(***************************************************************************)
(* A challenge opens one session                                           *)
(***************************************************************************)
Opened(p, c) == sessions[p] # NoRow /\ sessions[p].proof.challenge = c
Opening(r, c) == req[r].step = "issue" /\ req[r].proof.challenge = c
Spent(c) == challenges[c] # NoRow /\ challenges[c].consumed

\* Whoever came through a challenge left it spent, and came alone.
CameAlone(c) ==
    /\ \A p, q \in Pairs : Opened(p, c) /\ Opened(q, c) => p = q
    /\ \A r, s \in Requests : Opening(r, c) /\ Opening(s, c) => r = s
    /\ \A p \in Pairs, r \in Requests : ~(Opened(p, c) /\ Opening(r, c))
SpentByUser ==
    \A c \in Challenges :
        /\ \A p \in Pairs : Opened(p, c) => Spent(c)
        /\ \A r \in Requests : Opening(r, c) => Spent(c)
OneEach == \A c \in Challenges : CameAlone(c)
ChallengeInv == RotationInv /\ SpentByUser /\ OneEach

\* A step through which nobody new comes and no challenge is restored.
LEMMA NobodyNew ==
    ASSUME SpentByUser, OneEach,
           \A c \in Challenges, p \in Pairs : Opened(p, c)' => Opened(p, c),
           \A c \in Challenges, r \in Requests : Opening(r, c)' => Opening(r, c),
           \A c \in Challenges : Spent(c) => Spent(c)'
    PROVE  (SpentByUser /\ OneEach)'
BY DEF SpentByUser, OneEach, CameAlone

\* Spending leaves the rows of the other challenges alone, and never unspends.
LEMMA ConsumeSpends ==
    ASSUME TypeOK, NEW r \in Requests, ConsumeChallenge(r)
    PROVE  /\ \A c \in Challenges : Spent(c) => Spent(c)'
           /\ \A s \in Requests \ {r} : req'[s] = req[s]
           /\ \/ req'[r] = Idle
              \/ \E c \in Challenges : /\ ~Spent(c) /\ Spent(c)'
                                       /\ req'[r].step = "issue"
                                       /\ req'[r].proof.challenge = c
<1>1. PICK c \in Challenges : req[r] \in ConsumeReq /\ req[r].challenge = c
  BY DEF ConsumeChallenge, TypeOK, Idle, LoginReq, RotateReq, ConsumeReq
<1>2. \A s \in Requests \ {r} : req'[s] = req[s]
  BY DEF ConsumeChallenge, Finish, TypeOK
<1>3. CASE ~Consumable(c)
  BY <1>1, <1>2, <1>3 DEF ConsumeChallenge, Finish, TypeOK, Spent
<1>4. CASE Consumable(c)
  <2>1. challenges[c] \in ChallengeRow
    BY <1>1, <1>4 DEF Consumable, TypeOK
  <2>2. challenges'[c] = [challenges[c] EXCEPT !.attempts = @ + 1, !.consumed = req[r].valid]
    BY <1>1, <1>4 DEF ConsumeChallenge, SpendChallenge, TypeOK
  <2>3. challenges[c].attempts + 1 \in 0..MaxAttempts /\ req[r].valid \in BOOLEAN
    BY <1>1, <1>4, <2>1, ConstantsAssumption DEF Consumable, ChallengeRow, ConsumeReq
  <2>4. challenges'[c] \in ChallengeRow /\ challenges'[c].consumed = req[r].valid
    BY <2>1, <2>2, <2>3 DEF ChallengeRow
  <2>5. \A d \in Challenges \ {c} : challenges'[d] = challenges[d]
    BY <1>1, <1>4 DEF ConsumeChallenge, SpendChallenge, TypeOK
  <2>6. ~Spent(c)
    BY <1>4 DEF Consumable, Spent
  <2>7. \A d \in Challenges : Spent(d) => Spent(d)'
    BY <2>5, <2>6 DEF Spent
  <2>8. CASE req[r].valid
    <3>1. Spent(c)'
      BY <2>4, <2>8, NullsAssumption DEF Spent
    <3>2. req'[r].step = "issue" /\ req'[r].proof.challenge = c
      BY <1>1, <1>4, <2>8 DEF ConsumeChallenge, TypeOK
    <3>3. QED
      BY <1>1, <1>2, <2>6, <2>7, <3>1, <3>2
  <2>9. CASE ~req[r].valid
    BY <1>1, <1>2, <1>4, <2>7, <2>9 DEF ConsumeChallenge, Finish, TypeOK
  <2>10. QED
    BY <2>8, <2>9
<1>5. QED
  BY <1>3, <1>4

LEMMA ChallengeStep == ChallengeInv /\ [Next]_vars => ChallengeInv'
<1> SUFFICES ASSUME ChallengeInv, [Next]_vars PROVE (SpentByUser /\ OneEach)'
  BY RotationStep DEF ChallengeInv
<1> USE DEF ChallengeInv, RotationInv
<1>1. UNCHANGED challenges => \A c \in Challenges : Spent(c) => Spent(c)'
  BY DEF Spent
<1>2. UNCHANGED sessions => \A c \in Challenges, p \in Pairs : Opened(p, c)' => Opened(p, c)
  BY DEF Opened
<1>3. ASSUME NEW r \in Requests, req'[r].step # "issue", \A s \in Requests \ {r} : req'[s] = req[s]
      PROVE  \A c \in Challenges, s \in Requests : Opening(s, c)' => Opening(s, c)
  BY <1>3 DEF Opening
<1>4. \A r \in Requests : Finish(r) => /\ req'[r].step # "issue"
                                       /\ \A s \in Requests \ {r} : req'[s] = req[s]
  BY DEF Finish, Idle, TypeOK
<1>5. ASSUME NEW u \in Users, UpdateUser(u) \/ ResetPassword(u) \/ SetMFA(u)
      PROVE  (SpentByUser /\ OneEach)'
  <2>1. PICK row : UpdateUserRow(u, row)
    BY <1>5 DEF UpdateUser, ResetPassword, SetMFA
  <2>2. ASSUME NEW c \in Challenges, NEW p \in Pairs, Opened(p, c)' PROVE Opened(p, c)
    <3>1. sessions' = sessions \/ sessions' = RevokeRows(u)
      BY <2>1 DEF UpdateUserRow
    <3>2. sessions[p] # NoRow => sessions[p] \in SessionRow
      BY DEF TypeOK
    <3>3. QED
      BY <2>2, <3>1, <3>2 DEF RevokeRows, SessionRow, Opened
  <2>3. QED
    BY <1>1, <2>1, <2>2, NobodyNew DEF UpdateUserRow, Opening
<1>6. ASSUME NEW r \in Requests, NEW u \in Users, LoginVerify(r, u)
      PROVE  (SpentByUser /\ OneEach)'
  <2>1. /\ req'[r].proof.challenge = NoChallenge
        /\ \A s \in Requests \ {r} : req'[s] = req[s]
    BY <1>6 DEF LoginVerify, TypeOK
  <2>2. \A c \in Challenges, s \in Requests : Opening(s, c)' => Opening(s, c)
    BY <2>1, ConstantsAssumption DEF Opening
  <2>3. QED
    BY <1>1, <1>2, <1>6, <2>2, NobodyNew DEF LoginVerify
<1>7. ASSUME NEW r \in Requests, NEW p \in Pairs, CreateSession(r, p)
      PROVE  (SpentByUser /\ OneEach)'
  <2>1. /\ sessions'[p].proof = req[r].proof
        /\ \A q \in Pairs \ {p} : sessions'[q] = sessions[q]
    BY <1>7 DEF CreateSession, TypeOK
  <2>2. /\ req[r].step = "issue" /\ req'[r].step # "issue"
        /\ \A s \in Requests \ {r} : req'[s] = req[s]
    BY <1>4, <1>7 DEF CreateSession
  <2>3. \A c \in Challenges : Spent(c)' <=> Spent(c)
    BY <1>7 DEF CreateSession, Spent
  <2>4. \A c \in Challenges : Opened(p, c)' => Opening(r, c)
    BY <2>1, <2>2 DEF Opened, Opening
  <2>5. \A c \in Challenges : \A q \in Pairs \ {p} : Opened(q, c)' => Opened(q, c)
    BY <2>1 DEF Opened
  <2>6. \A c \in Challenges, s \in Requests : Opening(s, c)' => s # r /\ Opening(s, c)
    BY <2>2 DEF Opening
  <2>7. SpentByUser'
    BY <2>3, <2>4, <2>5, <2>6 DEF SpentByUser
  <2>8. OneEach'
    <3> SUFFICES ASSUME NEW c \in Challenges PROVE CameAlone(c)'
      BY DEF OneEach
    <3>1. CameAlone(c)
      BY DEF OneEach
    <3>2. QED
      BY <2>4, <2>5, <2>6, <3>1 DEF CameAlone
  <2>9. QED
    BY <2>7, <2>8
<1>8. ASSUME NEW r \in Requests, NEW c \in Challenges, CreateChallenge(r, c)
      PROVE  (SpentByUser /\ OneEach)'
  <2>1. \A d \in Challenges : Spent(d) => Spent(d)'
    BY <1>8 DEF CreateChallenge, Spent, TypeOK
  <2>2. QED
    BY <1>2, <1>3, <1>4, <1>8, <2>1, NobodyNew DEF CreateChallenge
<1>9. ASSUME NEW r \in Requests, NEW c \in Challenges, MFALoginRead(r, c)
      PROVE  (SpentByUser /\ OneEach)'
  <2>1. req'[r].step # "issue" /\ \A s \in Requests \ {r} : req'[s] = req[s]
    BY <1>9 DEF MFALoginRead, TypeOK
  <2>2. QED
    BY <1>1, <1>2, <1>3, <1>9, <2>1, NobodyNew DEF MFALoginRead
<1>10. ASSUME NEW r \in Requests, ConsumeChallenge(r)
       PROVE  (SpentByUser /\ OneEach)'
  <2>1. /\ \A d \in Challenges : Spent(d) => Spent(d)'
        /\ \A s \in Requests \ {r} : req'[s] = req[s]
    BY <1>10, ConsumeSpends
  <2>2. \A d \in Challenges, p \in Pairs : Opened(p, d)' <=> Opened(p, d)
    BY <1>10 DEF ConsumeChallenge, Opened
  <2>3. CASE req'[r] = Idle
    BY <1>3, <2>1, <2>2, <2>3, NobodyNew DEF Idle
  <2>4. ASSUME NEW c \in Challenges, ~Spent(c), Spent(c)',
               req'[r].step = "issue", req'[r].proof.challenge = c
        PROVE  (SpentByUser /\ OneEach)'
    <3>1. \A p \in Pairs : ~Opened(p, c)
      BY <2>1, <2>4 DEF SpentByUser
    <3>2. \A s \in Requests : ~Opening(s, c)
      BY <2>1, <2>4 DEF SpentByUser
    <3>3. \A d \in Challenges, s \in Requests :
            Opening(s, d)' => Opening(s, d) \/ (s = r /\ d = c)
      BY <2>1, <2>4 DEF Opening
    <3>4. SpentByUser'
      BY <2>1, <2>2, <2>4, <3>3 DEF SpentByUser
    <3>5. OneEach'
      <4> SUFFICES ASSUME NEW d \in Challenges PROVE CameAlone(d)'
        BY DEF OneEach
      <4>1. CameAlone(d)
        BY DEF OneEach
      <4>2. QED
        BY <2>2, <3>1, <3>2, <3>3, <4>1 DEF CameAlone
    <3>6. QED
      BY <3>4, <3>5
  <2>5. QED
    BY <1>10, <2>3, <2>4, ConsumeSpends
<1>11. ASSUME NEW r \in Requests, NEW p \in Pairs, RefreshRead(r, p)
       PROVE  (SpentByUser /\ OneEach)'
  <2>1. req'[r].step # "issue" /\ \A s \in Requests \ {r} : req'[s] = req[s]
    BY <1>11 DEF RefreshRead, TypeOK
  <2>2. QED
    BY <1>1, <1>2, <1>3, <1>11, <2>1, NobodyNew DEF RefreshRead
<1>12. ASSUME NEW r \in Requests, RefreshRotate(r)
       PROVE  (SpentByUser /\ OneEach)'
  <2>1. /\ \A c \in Challenges, s \in Requests : Opening(s, c)' => Opening(s, c)
        /\ \A c \in Challenges : Spent(c)' <=> Spent(c)
    BY <1>3, <1>4, <1>12 DEF RefreshRotate, Spent
  <2>2. CASE Rotatable(r)
    <3>1. PICK old \in Pairs : old = req[r].pair /\ sessions[old] # NoRow
      BY <1>12, <2>2 DEF RefreshRotate, Rotatable, Active, TypeOK, Idle, LoginReq,
                         RotateReq, ConsumeReq
    <3>2. PICK q \in Pairs : ~Issued(q) /\ Rotate(r, q)
      BY <1>12, <2>2 DEF RefreshRotate
    <3>3. q # old /\ sessions'[old] = NoRow /\ sessions'[q] = sessions[old]
      BY <3>1, <3>2 DEF Rotate, RowsIssued, TypeOK
    <3>4. \A p \in Pairs \ {old, q} : sessions'[p] = sessions[p]
      BY <3>1, <3>2 DEF Rotate, TypeOK
    <3>5. \A c \in Challenges : /\ ~Opened(old, c)'
                                /\ Opened(q, c)' => Opened(old, c)
      BY <3>1, <3>3 DEF Opened
    <3>6. \A c \in Challenges : \A p \in Pairs \ {old, q} : Opened(p, c)' => Opened(p, c)
      BY <3>4 DEF Opened
    <3>7. SpentByUser'
      BY <2>1, <3>1, <3>5, <3>6 DEF SpentByUser
    <3>8. OneEach'
      <4> SUFFICES ASSUME NEW c \in Challenges PROVE CameAlone(c)'
        BY DEF OneEach
      <4>1. CameAlone(c)
        BY DEF OneEach
      <4>2. QED
        BY <2>1, <3>1, <3>5, <3>6, <4>1 DEF CameAlone
    <3>9. QED
      BY <3>7, <3>8
  <2>3. CASE ~Rotatable(r)
    BY <1>2, <1>12, <2>1, <2>3, NobodyNew DEF RefreshRotate
  <2>4. QED
    BY <2>2, <2>3
<1>13. ASSUME NEW r \in Requests, Abandon(r)
       PROVE  (SpentByUser /\ OneEach)'
  BY <1>1, <1>2, <1>3, <1>4, <1>13, NobodyNew DEF Abandon
<1>14. ASSUME NEW p \in Pairs, RevokeSession(p) \/ ExpireSession(p)
       PROVE  (SpentByUser /\ OneEach)'
  <2>1. sessions[p] \in SessionRow
    BY <1>14 DEF RevokeSession, ExpireSession, TypeOK
  <2>2. /\ sessions'[p].proof = sessions[p].proof
        /\ \A q \in Pairs \ {p} : sessions'[q] = sessions[q]
    BY <1>14, <2>1 DEF RevokeSession, ExpireSession, TypeOK, SessionRow
  <2>3. \A c \in Challenges, q \in Pairs : Opened(q, c)' => Opened(q, c)
    BY <1>14, <2>2 DEF RevokeSession, ExpireSession, Opened
  <2>4. QED
    BY <1>1, <1>14, <2>3, NobodyNew DEF RevokeSession, ExpireSession, Opening
<1>15. ASSUME NEW c \in Challenges, ExpireChallenge(c)
       PROVE  (SpentByUser /\ OneEach)'
  <2>1. challenges[c] \in ChallengeRow
    BY <1>15 DEF ExpireChallenge, TypeOK
  <2>2. /\ challenges'[c] \in ChallengeRow
        /\ challenges'[c].consumed = challenges[c].consumed
        /\ \A d \in Challenges \ {c} : challenges'[d] = challenges[d]
    BY <1>15, <2>1 DEF ExpireChallenge, TypeOK, ChallengeRow
  <2>3. \A d \in Challenges : Spent(d) => Spent(d)'
    BY <2>2, NullsAssumption DEF Spent
  <2>4. QED
    BY <1>2, <1>15, <2>3, NobodyNew DEF ExpireChallenge, Opening
<1>16. CASE UNCHANGED vars
  BY <1>1, <1>2, <1>16, NobodyNew DEF vars, Opening
<1>17. QED
  BY <1>5, <1>6, <1>7, <1>8, <1>9, <1>10, <1>11, <1>12, <1>13, <1>14, <1>15, <1>16 DEF Next

\* A set whose members are all one member has at most one.
LEMMA AtMostOne ==
    ASSUME NEW S, \A x, y \in S : x = y
    PROVE  \/ Cardinality(S) = 0 /\ S = {}
           \/ Cardinality(S) = 1 /\ S # {}
<1>1. CASE S = {}
  <2>1. Cardinality({}) = 0
    BY FS_EmptySet
  <2>2. Cardinality(S) = 0
    BY <1>1, <2>1, Zenon
  <2>3. QED
    BY <1>1, <2>2
<1>2. CASE S # {}
  <2>1. PICK x \in S : S = {x}
    BY <1>2
  <2>2. QED
    BY <1>2, <2>1, FS_Singleton
<1>3. QED
  BY <1>1, <1>2

\* Codes that are right at the same moment, retries and rotations included, leave
\* at most one session of a challenge, in the table or on its way there.
THEOREM ChallengesOpenOneSession == Spec => []ChallengeOpensOneSession
<1>1. Init => ChallengeInv
  <2>1. Init => \A r \in Requests : req[r].step = "idle"
    BY DEF Init, Idle
  <2>2. Init => \A p \in Pairs : sessions[p] = NoRow
    BY DEF Init
  <2>3. Init => SpentByUser /\ OneEach
    BY <2>1, <2>2 DEF SpentByUser, OneEach, CameAlone, Opened, Opening
  <2>4. QED
    BY <2>3, RotationInit DEF ChallengeInv
<1>2. ChallengeInv => ChallengeOpensOneSession
  <2> SUFFICES ASSUME ChallengeInv, NEW c \in Challenges
               PROVE  Cardinality({p \in Pairs : Opened(p, c)})
                      + Cardinality({r \in Requests : Opening(r, c)}) <= 1
    BY DEF ChallengeOpensOneSession, Opened, Opening
  <2> DEFINE S == {p \in Pairs : Opened(p, c)}
             R == {r \in Requests : Opening(r, c)}
  <2>1. CameAlone(c)
    BY DEF ChallengeInv, OneEach
  <2>2. \A p, q \in S : p = q
    BY <2>1 DEF CameAlone
  <2>3. \A r, s \in R : r = s
    BY <2>1 DEF CameAlone
  <2>4. S = {} \/ R = {}
    BY <2>1 DEF CameAlone
  <2> HIDE DEF S, R
  <2>5. (Cardinality(S) = 0 /\ S = {}) \/ (Cardinality(S) = 1 /\ S # {})
    BY <2>2, AtMostOne
  <2>6. (Cardinality(R) = 0 /\ R = {}) \/ (Cardinality(R) = 1 /\ R # {})
    BY <2>3, AtMostOne
  <2>7. Cardinality(S) + Cardinality(R) <= 1
    BY <2>4, <2>5, <2>6
  <2>8. QED
    BY <2>7 DEF S, R
<1>3. QED
  BY <1>1, <1>2, ChallengeStep, PTL DEF Spec
=============================================================================
