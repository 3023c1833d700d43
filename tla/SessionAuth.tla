---------------------------- MODULE SessionAuth ----------------------------
(***************************************************************************)
(* Sessions, refresh-token rotation, MFA challenges and the revocation     *)
(* trigger of the Go backend (application/auth, infrastructure/postgres).  *)
(*                                                                         *)
(* Every handler is a goroutine that reads a user row in one statement and *)
(* acts on what it read in a later one; nothing holds the row in between.  *)
(* A request is therefore a record in `req` that carries what it has read, *)
(* and each action below is one SQL statement (or one transaction).        *)
(*                                                                         *)
(* An access token and its refresh token are always minted together, so    *)
(* one Pair stands for both jtis of a row; each operation presents the     *)
(* half it needs (a token of the wrong type is refused before any state is *)
(* read).  A password is the ordinal of its write: bcrypt salts every      *)
(* hash, so no two writes store the same value.                            *)
(***************************************************************************)
EXTENDS Naturals, FiniteSets

CONSTANTS
    Users,          \* accounts
    Roles,          \* user_role values
    Pairs,          \* access/refresh jti pairs that can ever be minted
    Challenges,     \* jtis of MFA tokens that can ever be minted
    Requests,       \* handler goroutines
    MaxAttempts,    \* codes one challenge accepts (5 in the code)
    MaxChanges,     \* bound on identity changes per account
    NoPair, NoChallenge, NoRow, NoClaims

ASSUME ConstantsAssumption ==
    /\ MaxAttempts \in Nat
    /\ MaxChanges \in Nat
    /\ NoPair \notin Pairs
    /\ NoChallenge \notin Challenges

VARIABLES
    users,       \* table users: the columns the revocation trigger watches
    sessions,    \* table user_sessions, indexed by the jtis a row holds now
    challenges,  \* table mfa_challenges
    claims,      \* the JWTs handed to clients: identity, and the refresh spent
    req,         \* what each request has read so far
    epoch        \* history: committed identity changes per account

vars == <<users, sessions, challenges, claims, req, epoch>>

(***************************************************************************)
(* Types                                                                   *)
(***************************************************************************)
UserRow == [password : Nat, role : Roles, active : BOOLEAN, mfa : BOOLEAN]

\* What a login proved, kept with the session as history: the password it was
\* checked against, the epoch of that check, and the MFA challenge it spent.
Proof == [password : Nat, read : Nat, challenge : Challenges \cup {NoChallenge}]

SessionRow == [user : Users, revoked : BOOLEAN, expired : BOOLEAN,
               proof : Proof, born : Nat]

ChallengeRow == [user : Users, role : Roles, attempts : 0..MaxAttempts,
                 consumed : BOOLEAN, expired : BOOLEAN,
                 password : Nat, read : Nat]

Claims == [user : Users, role : Roles, parent : Pairs \cup {NoPair}]

Idle == [step |-> "idle"]
LoginReq == [step : {"issue", "challenge"}, user : Users, role : Roles, proof : Proof]
RotateReq == [step : {"rotate"}, user : Users, role : Roles, pair : Pairs]
ConsumeReq == [step : {"consume"}, user : Users, role : Roles,
               challenge : Challenges, valid : BOOLEAN]

ASSUME NullsAssumption ==
    /\ NoRow \notin SessionRow \cup ChallengeRow
    /\ NoClaims \notin Claims

TypeOK ==
    /\ users \in [Users -> UserRow]
    /\ sessions \in [Pairs -> SessionRow \cup {NoRow}]
    /\ challenges \in [Challenges -> ChallengeRow \cup {NoRow}]
    /\ claims \in [Pairs -> Claims \cup {NoClaims}]
    /\ req \in [Requests -> {Idle} \cup LoginReq \cup RotateReq \cup ConsumeReq]
    /\ epoch \in [Users -> Nat]

(***************************************************************************)
(* Helper formulas                                                         *)
(***************************************************************************)
Issued(p) == claims[p] # NoClaims
Active(p) == /\ sessions[p] # NoRow
             /\ ~sessions[p].revoked
             /\ ~sessions[p].expired

\* currentUser: the account is active and still has the role in the token.
CurrentUser(u, role) == users[u].active /\ users[u].role = role

\* AuthenticateAccess: the verdict the API would give on this access token.
Authenticates(p) ==
    /\ Issued(p)
    /\ Active(p)
    /\ sessions[p].user = claims[p].user
    /\ CurrentUser(claims[p].user, claims[p].role)

Finish(r) == req' = [req EXCEPT ![r] = Idle]

(***************************************************************************)
(* The identity trigger (migration 000011)                                 *)
(***************************************************************************)
RevokeRows(u) ==
    [p \in Pairs |->
        IF sessions[p] # NoRow /\ sessions[p].user = u
        THEN [sessions[p] EXCEPT !.revoked = TRUE]
        ELSE sessions[p]]

\* Variant: the trigger does not watch `active`.
UpdateUserRow_ActiveUnwatched(u, row) ==
    /\ users' = [users EXCEPT ![u] = row]
    /\ IF row = users[u]
       THEN UNCHANGED <<sessions, epoch>>
       ELSE /\ epoch[u] < MaxChanges
            /\ sessions' = IF [row EXCEPT !.active = TRUE] = [users[u] EXCEPT !.active = TRUE]
                           THEN sessions ELSE RevokeRows(u)
            /\ epoch' = [epoch EXCEPT ![u] = @ + 1]
    /\ UNCHANGED <<challenges, claims, req>>

\* An UPDATE of the row of u; the trigger compares the watched columns and
\* revokes in the same transaction.
UpdateUserRow(u, row) ==
    /\ users' = [users EXCEPT ![u] = row]
    /\ IF row = users[u]
       THEN UNCHANGED <<sessions, epoch>>
       ELSE /\ epoch[u] < MaxChanges
            /\ sessions' = RevokeRows(u)
            /\ epoch' = [epoch EXCEPT ![u] = @ + 1]
    /\ UNCHANGED <<challenges, claims, req>>

\* user.Service.Update and Deactivate: an administrator writes role and active.
UpdateUser(u) ==
    \E role \in Roles, active \in BOOLEAN :
        UpdateUserRow(u, [users[u] EXCEPT !.role = role, !.active = active])

\* ConsumeAndUpdatePassword: a reset stores a new hash, on active accounts only.
ResetPassword(u) ==
    /\ users[u].active
    /\ UpdateUserRow(u, [users[u] EXCEPT !.password = @ + 1])

\* EnableMFA and DisableMFA.
SetMFA(u) ==
    \E on \in BOOLEAN : UpdateUserRow(u, [users[u] EXCEPT !.mfa = on])

(***************************************************************************)
(* Login: read and verify, then issue tokens or open a challenge           *)
(***************************************************************************)
\* Variant: the mfa_enabled check is dropped.
LoginVerify_NoMFA(r, u) ==
    /\ req[r] = Idle
    /\ users[u].active
    /\ req' = [req EXCEPT ![r] =
                 [step |-> "issue", user |-> u, role |-> users[u].role,
                  proof |-> [password |-> users[u].password, read |-> epoch[u],
                             challenge |-> NoChallenge]]]
    /\ UNCHANGED <<users, sessions, challenges, claims, epoch>>

\* GetByEmail and the password comparison against the row that was read; a
\* login that fails leaves this part of the state alone (module Lockout has
\* the failure counter).
LoginVerify(r, u) ==
    /\ req[r] = Idle
    /\ users[u].active
    /\ req' = [req EXCEPT ![r] =
                 [step |-> IF users[u].mfa THEN "challenge" ELSE "issue",
                  user |-> u, role |-> users[u].role,
                  proof |-> [password |-> users[u].password, read |-> epoch[u],
                             challenge |-> NoChallenge]]]
    /\ UNCHANGED <<users, sessions, challenges, claims, epoch>>

\* issueTokens: the JWTs carry the identity that was read earlier, and the row
\* is inserted without looking at the account again.
CreateSession(r, p) ==
    /\ req[r].step = "issue"
    /\ ~Issued(p)
    /\ sessions' = [sessions EXCEPT ![p] =
                      [user |-> req[r].user, revoked |-> FALSE, expired |-> FALSE,
                       proof |-> req[r].proof, born |-> epoch[req[r].user]]]
    /\ claims' = [claims EXCEPT ![p] =
                    [user |-> req[r].user, role |-> req[r].role, parent |-> NoPair]]
    /\ Finish(r)
    /\ UNCHANGED <<users, challenges, epoch>>

CreateChallenge(r, c) ==
    /\ req[r].step = "challenge"
    /\ challenges[c] = NoRow
    /\ challenges' = [challenges EXCEPT ![c] =
                        [user |-> req[r].user, role |-> req[r].role, attempts |-> 0,
                         consumed |-> FALSE, expired |-> FALSE,
                         password |-> req[r].proof.password,
                         read |-> req[r].proof.read]]
    /\ Finish(r)
    /\ UNCHANGED <<users, sessions, claims, epoch>>

(***************************************************************************)
(* MFALogin: read the account, then spend the challenge, then issue        *)
(***************************************************************************)
\* currentUser and GetMFASecret.  The second statement re-reads mfa_enabled;
\* it can only refuse more, so one read stands for both.  `valid` is whether
\* the presented TOTP code matches the secret.
MFALoginRead(r, c) ==
    /\ req[r] = Idle
    /\ challenges[c] # NoRow
    /\ CurrentUser(challenges[c].user, challenges[c].role)
    /\ users[challenges[c].user].mfa
    /\ \E valid \in BOOLEAN :
         req' = [req EXCEPT ![r] =
                   [step |-> "consume", user |-> challenges[c].user,
                    role |-> challenges[c].role, challenge |-> c, valid |-> valid]]
    /\ UNCHANGED <<users, sessions, challenges, claims, epoch>>

\* The WHERE clause of ConsumeChallenge.
Consumable(c) ==
    /\ challenges[c] # NoRow
    /\ ~challenges[c].expired
    /\ ~challenges[c].consumed
    /\ challenges[c].attempts < MaxAttempts

\* Variant: wrong codes are counted and a right one leaves no mark.
SpendChallenge_WrongOnly(c, valid) ==
    challenges' = [challenges EXCEPT ![c].attempts = IF valid THEN @ ELSE @ + 1]

SpendChallenge(c, valid) ==
    challenges' = [challenges EXCEPT ![c].attempts = @ + 1, ![c].consumed = valid]

ConsumeChallenge(r) ==
    /\ req[r].step = "consume"
    /\ LET c == req[r].challenge IN
         IF Consumable(c)
         THEN /\ SpendChallenge(c, req[r].valid)
              /\ IF req[r].valid
                 THEN req' = [req EXCEPT ![r] =
                                [step |-> "issue", user |-> req[r].user,
                                 role |-> req[r].role,
                                 proof |-> [password |-> challenges[c].password,
                                            read |-> challenges[c].read,
                                            challenge |-> c]]]
                 ELSE Finish(r)
         ELSE /\ Finish(r)
              /\ UNCHANGED challenges
    /\ UNCHANGED <<users, sessions, claims, epoch>>

(***************************************************************************)
(* Refresh and logout                                                      *)
(***************************************************************************)
RefreshRead(r, p) ==
    /\ req[r] = Idle
    /\ Issued(p)
    /\ CurrentUser(claims[p].user, claims[p].role)
    /\ req' = [req EXCEPT ![r] = [step |-> "rotate", user |-> claims[p].user,
                                  role |-> claims[p].role, pair |-> p]]
    /\ UNCHANGED <<users, sessions, challenges, claims, epoch>>

\* The WHERE clause of RotateSession: the row still holds the presented jti.
Rotatable(r) == /\ Active(req[r].pair)
                /\ sessions[req[r].pair].user = req[r].user

\* Variant: a row is inserted for the fresh jtis and the old one is kept.
Rotate_Insert(r, q) ==
    /\ sessions' = [sessions EXCEPT ![q] = sessions[req[r].pair]]
    /\ claims' = [claims EXCEPT ![q] = [user |-> req[r].user, role |-> req[r].role,
                                        parent |-> req[r].pair]]

\* RotateSession: the row that holds the old jtis now holds the fresh ones.
Rotate(r, q) ==
    /\ sessions' = [sessions EXCEPT ![q] = sessions[req[r].pair],
                                    ![req[r].pair] = NoRow]
    /\ claims' = [claims EXCEPT ![q] = [user |-> req[r].user, role |-> req[r].role,
                                        parent |-> req[r].pair]]

RefreshRotate(r) ==
    /\ req[r].step = "rotate"
    /\ Finish(r)
    /\ IF Rotatable(r)
       THEN \E q \in Pairs : ~Issued(q) /\ Rotate(r, q)
       ELSE UNCHANGED <<sessions, claims>>
    /\ UNCHANGED <<users, challenges, epoch>>

\* Logout: RevokeSession by the jti of the access token.
RevokeSession(p) ==
    /\ sessions[p] # NoRow
    /\ sessions' = [sessions EXCEPT ![p].revoked = TRUE]
    /\ UNCHANGED <<users, challenges, claims, req, epoch>>

(***************************************************************************)
(* Time and failures                                                       *)
(***************************************************************************)
ExpireSession(p) ==
    /\ sessions[p] # NoRow
    /\ sessions' = [sessions EXCEPT ![p].expired = TRUE]
    /\ UNCHANGED <<users, challenges, claims, req, epoch>>

ExpireChallenge(c) ==
    /\ challenges[c] # NoRow
    /\ challenges' = [challenges EXCEPT ![c].expired = TRUE]
    /\ UNCHANGED <<users, sessions, claims, req, epoch>>

\* A request whose context is cancelled, whose statement errors or whose
\* process dies stops where it is; no session and no token outlive it.
Abandon(r) ==
    /\ req[r] # Idle
    /\ Finish(r)
    /\ UNCHANGED <<users, sessions, challenges, claims, epoch>>

Init ==
    /\ \E role \in [Users -> Roles], mfa \in [Users -> BOOLEAN] :
         users = [u \in Users |-> [password |-> 0, role |-> role[u],
                                   active |-> TRUE, mfa |-> mfa[u]]]
    /\ sessions = [p \in Pairs |-> NoRow]
    /\ challenges = [c \in Challenges |-> NoRow]
    /\ claims = [p \in Pairs |-> NoClaims]
    /\ req = [r \in Requests |-> Idle]
    /\ epoch = [u \in Users |-> 0]

Next ==
    \/ \E u \in Users : UpdateUser(u) \/ ResetPassword(u) \/ SetMFA(u)
    \/ \E r \in Requests :
         \/ \E u \in Users : LoginVerify(r, u)
         \/ \E p \in Pairs : CreateSession(r, p) \/ RefreshRead(r, p)
         \/ \E c \in Challenges : CreateChallenge(r, c) \/ MFALoginRead(r, c)
         \/ ConsumeChallenge(r) \/ RefreshRotate(r) \/ Abandon(r)
    \/ \E p \in Pairs : RevokeSession(p) \/ ExpireSession(p)
    \/ \E c \in Challenges : ExpireChallenge(c)

Spec == Init /\ [][Next]_vars

(***************************************************************************)
(* Properties                                                              *)
(***************************************************************************)
\* A token that the API refuses, because its session was revoked, rotated or
\* expired or its account changed, is refused for ever: no later deactivation
\* and reactivation, role change back, late refresh or late insert revives it.
NeverRevives ==
    [][\A p \in Pairs : Issued(p) /\ ~Authenticates(p) => ~Authenticates(p)']_vars

\* Whatever the number of requests that present one refresh token at once, at
\* most one of them is answered with a new pair (RotateSession's compare-and-set).
OneRotationWinner ==
    \A p, q \in Pairs :
        /\ Issued(p) /\ Issued(q)
        /\ claims[p].parent = claims[q].parent
        /\ claims[p].parent # NoPair
        => p = q

\* No unrevoked session row, rotated any number of times since, was inserted
\* before the latest change of its account's password, role, state or MFA flag.
NoSurvivor ==
    \A p \in Pairs :
        sessions[p] # NoRow /\ ~sessions[p].revoked
            => sessions[p].born = epoch[sessions[p].user]

\* An MFA challenge opens at most one session, counting the sessions still on
\* their way to the table, however many requests present a right code at once.
ChallengeOpensOneSession ==
    \A c \in Challenges :
        Cardinality({p \in Pairs : sessions[p] # NoRow /\ sessions[p].proof.challenge = c})
        + Cardinality({r \in Requests : req[r].step = "issue" /\ req[r].proof.challenge = c})
            <= 1

\* A live session whose login did not straddle an identity change was opened
\* with the current password and, when the account has MFA on, with a challenge.
CredentialsProved ==
    \A p \in Pairs :
        Active(p) /\ sessions[p].proof.read = epoch[sessions[p].user]
            => LET u == users[sessions[p].user] IN
                 /\ sessions[p].proof.password = u.password
                 /\ u.mfa => sessions[p].proof.challenge # NoChallenge
=============================================================================
