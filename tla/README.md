# Trickreport in TLA+

Trickreport is a multi-tenant service desk: a Go API over PostgreSQL
(`src/backend`), three Next.js applications over one workspace package
(`src/apps`, `src/packages/workspace`) and an older Astro frontend
(`src/frontend`).  This directory holds TLA+ models of the parts whose
correctness depends on the order of steps, TLC configurations that check them
on small instances, and proofs that TLAPS checks for every value of the
constants.

The API keeps almost all its state in PostgreSQL and runs one goroutine per
request.  What makes it hard is therefore not shared memory but statements: a
handler reads a row in one statement, decides, and writes in another, while
other handlers, two background workers, other processes and browser tabs do the
same.  The models take one SQL statement, or one transaction where the row
locks make it atomic, as the unit of a step.

## 1. Inventory

| Part | State | Operations | What is hard | What makes it correct |
|---|---|---|---|---|
| Sessions (`application/auth`) | `users`, `user_sessions`, `mfa_challenges`, JWTs at clients | Login, MFALogin, Refresh, Logout, AuthenticateAccess, identity trigger | accounts change between read and insert; one refresh token presented twice | revoked is for ever; one rotation winner; no session from before an identity change |
| Lockout (`application/auth/service.go`) | `failed_login_attempts`, `locked_until` | handleFailedLogin, reset | decision on a stale counter, dropped errors | bounded guesses between two locks; a lock ends |
| Password reset | `password_reset_tokens`, `users.password` | RequestReset, ConfirmReset | two transactions cross under READ COMMITTED, deadlocks | a token is used once; later ones kill earlier ones |
| MFA enrolment (`auth/mfa.go`) | `mfa_secret`, `mfa_enabled` | Setup, Verify, Enable, Disable | check and write in two statements | an enabled secret was confirmed |
| Email outbox | `email_outbox` | Enqueue, Claim, send, Finish | leases, crashes, lost replies | settled once, truthfully; every mail settles |
| SLA worker | deadlines and flags of `tickets`, comments, history | runCycle, processDeadline, runWithRetry | several processes, crash between commit and dispatch | recorded once, announced at most once, handled eventually |
| Ticket lifecycle | `tickets`, `ticket_history` | ChangeStatus, Assign, automation actions | check outside the transaction, stale screens, transactions that begin long before they write | closed is final; the history accounts for the row; decisions are made on the row they change |
| Automation engine | rules; goroutine per event | Evaluate, runActions | asynchronous, stale snapshot | a rule is all or nothing |
| Ticket creation | `ticket_idempotency`, `tickets` | Create, CreateIdempotent | concurrent and repeated requests with one key | one ticket per key, an answer about the right ticket |
| Workspace drafts | IndexedDB store, one cookie per browser | saveDraft, deleteDraft, syncDraft, api | tabs, leases, timeouts, change of user | no draft lost, none under another account, no duplicate |
| Legacy offline queue (`frontend/src/lib/offline`) | IndexedDB, service worker | attemptSync, resolveConflict | as above | as above |
| Realtime hub (`realtime`) | registered clients, a buffered channel each, three goroutines per connection | ServeWs, Register, Broadcast, Unregister, revocation guard, shutdown | slow clients dropped in mid-broadcast, everything racing with shutdown | the right recipients, no gaps, no send on a closed channel, nobody left behind |
| ITSM changes (`application/itsm`) | `changes`, `approvals` with history, catalogue requests | UpdateChangeStatus, RequestService, DecideApproval | read, check, gate and write in separate statements; an approval inserted last | no change passes the gate without an approval; one decision each; nothing waits unasked |
| ITSM catalogue, inventory, problems | `catalog_*`, `ci_types`, `assets`, `ci_relationships`, `problems` and link tables | create, update, delete, link | deletions cascade while links are inserted; a PATCH writes the whole row it read; MSP writes assets too | links lead somewhere; a problem is only set back by overlapping edits |
| MSP (`application/msp`) | the 18 tables of migration 000015, with `tickets` and `assets` | 54 handlers, one of them a webhook | the viewer's clients are read before the rows; sums are priced before they are booked; an alert's ticket is committed before the alert | nobody sees another client; references stay within a client; billed means drafted; one open alert, with its ticket; no remote session without consent |
| CX (`application/cx`) | customers, conversations, messages, channels, rules, surveys | handlers, inbound e-mail, WhatsApp webhook | stale rows written back, two deliveries of one thread, a sender created twice | as above; mail is kept; a rating is earned; a first response is real |
| Notifications, knowledge base, analytics, attachments, SLA policies, user administration | rows | CRUD and queries | little | typing and tenancy |
| HTTP middleware, rate limiter, CSRF, configuration, bootstrap | buckets, none | per request | bucket sweep | limits hold |

How they interact: `Login` runs the lockout and opens sessions or MFA
challenges; a password reset and every administrative change of an account fire
the trigger that revokes sessions; a reset and the ticket services write the
outbox inside their own transactions; ticket changes and the SLA worker start
evaluations of the automation rules, which write the ticket again; the
workspace posts tickets, with an idempotency key, through the same session
cookie that sign-in writes.  MSP makes tickets, for alerts too, and imports
assets into the inventory that ITSM keeps; the services publish events to the
hub, which runs beside them in the same process.

The list `hazards` of PROJECT.json gives, line by line, what can go wrong there
and which property would notice.

## 2. Plan

Done, in this order of importance: sessions, outbox, lockout, password reset,
SLA worker, ticket lifecycle with the automation engine, ticket creation with
drafts, changes with their approvals; then MSP, CX and the rest of ITSM, composed
in `ServiceDesk`, and the realtime hub.  To come:

1. `MfaEnrolment` - the race of Setup and Enable, composed with the trigger.
2. `LegacyOffline` and the rate limiter, if their protocols earn it.
3. Abstract specifications worth having: a "ticket box" that `TicketIntake`
   implements, a session register for `SessionAuth`, and an inbox for `Cx`.

## 3. Modules

Every `X.tla` is a specification, `MCX.tla` gives it model values.  The theorems
are in `SessionAuthProofs`, `AccountProofs` (of `Lockout` and `PasswordReset`),
`OutboundProofs` (of `EmailOutbox` and `RealtimeHub`), `SlaWorkerProofs`,
`TicketLifecycleProofs`, `TicketIntakeProofs`, `ChangeControlProofs` and
`ServiceDeskProofs`.  `PasswordReset` and `RealtimeHub` share a module of proofs with
another specification, so theirs are called `ResetInit`, `ResetSpec`, `HubInit`,
`HubSpec` and so on.

### SessionAuth
`users`, `sessions` and `challenges` are the tables; `claims` is what clients
hold; `req` is what each goroutine has read so far; `epoch` counts identity
changes (history).  An access token and its refresh token are minted together
and stand for one `Pair`; a rotation moves the row from one pair to the next, as
the UPDATE does.  `LoginVerify` is GetByEmail and the password comparison,
`CreateSession` is the insert of issueTokens, with the identity that was read
earlier.  `UpdateUserRow` is any UPDATE of the account together with the trigger
of migration 000011, which compares old and new values.  Left out: signature
checks, LDAP, Register (a session for an account nobody else knows yet), the
in-memory blacklist (bypassed when a session repository is wired, as it is).

### Lockout
One account.  Three statements (increment, lock, reset), each of which may fail
unnoticed, as the code drops their errors.  `seen` is the counter that Login
read.  The counter is saturated at the threshold: no comparison distinguishes
higher values.

### PasswordReset
One account, tokens, and transactions step by step.  A row lock is a variable; a
statement sees the rows committed when it began (`todo`) and checks each again
when it gets its lock.  `InCycle` is PostgreSQL's deadlock detector.  `uses` and
`overtaken` are history.

### EmailOutbox and EmailDelivery
`EmailOutbox` has one record per row of `email_outbox`, with `ready` and `leased`
for the two timestamps, and workers that claim, send and finish.
`EmailDelivery` is what a caller may rely on: at-least-once delivery, one final
verdict.  The refinement maps pending and sending to "queued" and the
deliveries of the mail server to `copies`.

### SlaWorker
`worker` says where each process is in its cycle: three calls of processDeadline
in two checks, each with its retries.  `lock` is the row locks, shared with API
transactions (`ApiLock`, `ApiCommit`).  `Commit` writes flag, comment and history;
`Dispatch` hands over one event.  `MaxRetries` is a constant; the server runs
without retries.

### TicketLifecycle
One ticket with its history.  `ReadTicket` is the service up to its transaction;
`UpdateStatus` is the transaction (row lock, version compare, transition check,
history) and the start of the evaluation; a `job` is the goroutine of an
evaluation, which takes one snapshot and runs the rules one transaction each.
`screen` is the page each user looks at; a request may or may not carry the
version of that page, because the workspace sends it and the older form does
not.

An entry of `ticket_history` keeps nothing of the order of the changes but
`created_at`, the BEGIN of its transaction.  The model counts time in versions of
the ticket: `at` of an entry is the version when its transaction began, and
entries with one `at` can be listed in either order.  A status change began after
the read of the version it compares, a rule after the rule before it (`since`), an
assignment or a breach at any time since the server started (`booted`); `Lag`
bounds how many changes come in between.  The sequence `history` has the entries as
they were committed, which only the model knows; a property that speaks of its
order says so.

### TicketIntake
The browser (tabs, the shared cookie, the IndexedDB store with leases) and the
server (reserve key, commit, or answer again).  A request carries the cookie of
the moment it leaves, may be lost on the way in or out, and is answered with a
ticket or a 409.  Each tab has one form with one key; saving it makes another.
A tab may be killed in the middle of a draft (`Abandon`) and fail with its own
copy of one that another tab has deleted meanwhile (`GiveUp`).  `scenario` is
chosen once: which tabs, accounts and payloads a behaviour uses.

### ChangeControl
One action per statement.  `ReadChange` is GetChange with the check of the move,
`CheckGate` the query for an approved approval, `WriteChange` the UPDATE of the
whole row that was read, `LookForPending` and `CreateApproval` what follows a move
to awaiting_approval; a catalogue request joins them at `CreateApproval`.
`WriteDecision` is the transaction that updates the approval and inserts its
history.  `Fail` ends a request anywhere.  The two time stamps of a change are
Booleans; `cutOff` is history.  Left out: the links and the plan of a change,
which are in `Itsm`.

### RealtimeHub
The hub is one goroutine, so each case of its select is one action (`Register`,
`Unregister`, `Broadcast`, `Stop`); a meeting on an unbuffered channel is one
step of both sides.  Of a connection, `serve`, `reader`, `writer` and `guard` are
its goroutines, `send` and `open` its buffered channel, `conn` the socket.
`reader` is "leaving" between the failed read and its meeting with the hub, which
is where a client may be dropped or the hub may stop.  `Write` empties the
channel, as writePump does.  `log`, `since` and `received` are history.  The
code's broadcast iterates the clients in random order; it is one step here,
because no other goroutine can tell.  Left out: the adapter of
`infrastructure/realtime` (it renames fields), ping timing, origin checks.

### Tables and Requests
What the three areas below share.  `Tables` has the statements the repositories
are made of (insert under a condition, update by id, one column, delete) on a
record of tables, and `InScope`, the restriction of a query to a list of clients,
where nil and the empty list differ.  `Requests` has the database `db`, the
requests between two of their statements (`calls`), and the last answer (`page`).
A handler is one action if it decides and writes in one statement (`AtOnce`), and
otherwise an action that reads and decides (`Begin`) and one that writes what it
decided on whatever the database is by then (`Write`, `Continue`).  Checks that
several SELECTs make before the write are taken together: what can be seen of
them is only that they are earlier than the write.  A call that never continues
is a server that died or a connection that was lost between two statements, so
every prefix of a handler is in the model.  A request that is refused changes
nothing and is no step.

### MspDomain, MspStore, MspService, Msp
One module per layer of the code: `domain/msp` (rules without state), the
repository with the keys of migration 000015 (each operator is a statement or
transaction and returns the database), what the service decides on rows it has
read, and the handlers of `/msp` as actions, with the names of the code.  Each
read is two steps, the viewer's clients and the rows; its answer is the set of
clients the rows are of.  A text is a name or ""; amounts are cents, days
numbers; a contract's SLA is one number and one override.  `saw` of a draft is
history.  A token is what the code compares, its hash.

### CxDomain, CxStore, CxService, Cx
The same for `/cx`, with migration 000016.  Adding a message and taking in mail
take several writes, each an action: `StoreMessage`, `MoveConversation`,
`AnswerMessage`; `InsertSender`, `FindThread`, `OpenThread`, `ReopenThread`,
`StoreInbound`.  `Lower` is the constant that stands for SQL's LOWER.  `ended` of
a conversation is history: it had been resolved or closed.

### ItsmDomain, ItsmStore, ItsmService, Itsm
The same for the writing routes of the catalogue, the inventory, problems and the
links and plan of changes, with migrations 000012 to 000014.  Reading them is open
to every user of the tenant and is left out.  The status of a change and its
approval are in `ChangeControl`: neither module reads what the other keeps.

### ServiceDesk
The three areas over one database: the next-state relation, the rows each table
may hold (assumed of the rows before the first request) and all properties.

## 4. Runs

Eleven runs end without an error:

| Run | Instance | Distinct states | Shows |
|---|---|---|---|
| Session | 1 account, 3 token pairs, 1 challenge, 2 requests, 2 identity changes | 752 k | a challenge opens one session; sessions show the factors asked for; one rotation wins; no session survives an identity change; nothing revives |
| EmailOutbox | 2 emails, 2 workers, 2 attempts, a crash, 2 overruns, a lost reply; fair | 130 k | one worker settles a row; the outbox implements EmailDelivery; every email settles |
| Lockout | 3 requests, threshold 3, one failed statement; fair | 17 k | guesses between two locks; a lock ends |
| PasswordReset | 3 tokens, 2 transactions; fair | 59 k | single use; overtaken tokens; no transaction waits for ever |
| SlaWorker | 2 tickets, 2 workers, one deadline, an error, a crash | 529 k | recorded once, on current tickets; a healthy worker has lost nothing |
| SlaLive | 1 ticket with 3 deadlines, 1 worker, a retry, 2 errors, a crash; fair | 69 k | announced at most once; a due deadline is handled |
| TicketLifecycle | 2 users, 3 rules, 2 evaluations and 2 user changes, not more than 3 together, a lag of 2 | 1 273 k | a user's status change is listed after what came before it; resolution time; decisions on the row they were made on |
| TicketIntake | 1 tab with 2 people and 2 payloads, 3 tickets; and 2 tabs of 1 person, 2 tickets; 2 requests | 2 486 k | one ticket per key; right answers; no draft is lost |
| ChangeControl | 1 change, 1 catalogue ticket, 2 requests, 2 approvals, an agent and a client | 1 527 k | the approval gate; one decision; what waits was asked for |
| ServiceDesk | 4 users, a tenant with a row or two in most tables, 29 scenarios of 2 to 4 requests | 815 k | see below |
| RealtimeHub | 2 connections, the second of the same or another tenant, 2 events, room for 1 message; fair | 122 k | no send on a closed channel; streams without gaps; everybody returns |

The properties of ServiceDesk: what a request links to is there and of its client
(`ReferencesHold`); end users see their clients' rows and no notes
(`AnswersStayScoped`); billed marks and drafts agree (`BilledIffDrafted`), and only
drafts made at the same time bill the same minutes (`RebilledOnlyByARace`); an open
alert is the only one of its resource and has its ticket (`OpenAlertsAreTicketed`);
`NoSessionWithoutConsent`; `SurveysAreEarned`; `FirstResponseIsReal`; only
overlapping edits set a problem back (`OnlyOverlapUndoes`); mail is lost only to a
rival delivery or conversation, or with its customer (`MailIsKept`).

One run, InboxAcknowledged, ends in a counterexample; see section 6.

What the types of a module say (`TypeOK`), and what a proof settles for good
without telling a run apart (`SentMeansDelivered`, `ClosedIsFinal`,
`HistoryAccounts`, `VersionedEditIsInformed`, `RowsAreCoherent`), is proved and not run.

The bounds.  Each hazard needs two actors that cross, and sometimes a third that
arrives late: two of each kind, and three where the third matters (three logins
for the counter, three pairs for a rotation that follows another, three tokens
for one that is overtaken twice).  Where a second object of a kind would only
repeat the first (accounts, changes), there is one; ChangeControl still tells
targets apart, because its approvals are also about a ticket.  ServiceDesk has two
clients and two customers, since its properties are about keeping them apart, and
a behaviour follows one scenario: the handlers of one area with the deletion that
cascades through it, two or three requests at once, four for the life of a remote
session.  Handlers of different areas cross only in the tables they share, and the
scenarios of the inventory join those.  Counters that the
code leaves unbounded (identity changes, crashes, lost replies, lease overruns,
failed statements, user changes, changes during one transaction, tickets, approvals) are bounded by constants
named `Max...` and `Lag`, large enough that each fault happens, and twice where a second
one could make a difference.  Thresholds of the code are smaller in the
instances: one wrong MFA code of five, two delivery attempts, three wrong
passwords.  The theorems hold for every value.  SLA properties are checked on two
instances, because two workers and two tickets are needed for what concerns the
batch, and three deadlines with retries for liveness; TicketIntake has its two
scenarios for the same reason.  A ticket has two user changes and one evaluation in
flight, or one and two (`MaxWork`); a lag of two is what it takes for two transactions
to begin in one order and write in the other, with a change between their beginnings.
Conversations are opened without a thread or with that of a WhatsApp sender, who
may write meanwhile.  A buffer of one message instead of 256 lets a
client be full after one event; only one connection has a session that can end, as
guards do not meet each other.

Symmetry is used for token pairs, challenges, requests, evaluations,
tickets, workers and tabs, and only in runs without a liveness property.
`CHECK_DEADLOCK FALSE` appears in EmailOutbox.cfg, where the system comes to rest
when every email has settled and the crashes are used up, in RealtimeHub.cfg, where
nothing is left after shutdown, and in ServiceDesk.cfg and InboxAcknowledged.cfg,
where a behaviour ends with its last request.

### Fairness
* EmailOutbox: each goroutine wakes every second until shutdown
  (`queue.go:45`), and clocks advance.  Crashes, overruns and lost replies are
  bounded but never forced, and never forbidden.
* Lockout: only the clock is fair.
* PasswordReset: a goroutine keeps executing the transaction it has begun; the
  database hands over locks without starving a waiter and resolves deadlocks.
* SlaWorker: the ticker of `worker.go:90` keeps firing; API transactions end; a
  row is not found locked at every single poll.  This is an assumption about
  PostgreSQL and the load (a poll per minute against transactions of
  milliseconds), not something the code enforces.
* RealtimeHub: the scheduler runs every goroutine that can run, and select picks
  at random among channels that are ready, so none is passed over for ever.  A
  guard asks once a second (`client.go`).  No peer is made to hang up, no session
  to end and no server to stop.

Safety properties are checked and proved without fairness.

## 5. Proofs

| Theorem | For every | Argument |
|---|---|---|
| SessionAuthProofs: TypeCorrect, TokensNeverRevive, RefreshHasOneWinner, IdentityChangeEndsSessions, SessionsShowCredentials, ChallengesOpenOneSession | set of users, roles, pairs, challenges, requests | The invariant adds to the types that a live row belongs to an issued pair, that the row of a pair which has a successor is gone, and that an unrevoked row was born in the present epoch.  A pair without a live row never gets one back: rows are inserted for pairs that were never issued.  `CredentialInv`: whatever a request, a challenge or a session says was shown was shown to the account as it was in the epoch it was read in.  `ChallengeInv`: a challenge that some session was opened with, or is being opened with, is spent, and belongs to that one alone. |
| OutboundProofs: TypeCorrect, NoInventedDelivery, OneWorkerSettles, SettledStaysSettled, OutboxImplementsDelivery | number of emails, workers, attempts, faults | `Carried`: a worker's attempt never exceeds its row's, and equal attempts mean one worker; a worker that reports success has a delivered copy.  The fence on (status, attempts) then makes Finish unique, and every step maps to a step of EmailDelivery or to a stutter. |
| OutboundProofs: HubClosesOnce, StreamsAreGapless | set of connections, tenants, events, size of the buffer | `HubInv`: what a client received, followed by what is in its channel, is a beginning of what the log holds for it from its registration on, and all of it while it is registered; its channel is open exactly that long.  `Reads` says it by index, so that no recursion is needed. |
| AccountProofs: TypeCorrect, GuessesBounded | finite set of requests, threshold, duration, errors | A potential: guesses are covered by the counter, the requests in flight weighted by what they have seen, and the failed statements. |
| AccountProofs: TokensWorkOnce, OvertakenTokensDie | tokens, transactions | `ResetInv` says of each transaction (`Bound`) that it holds the rows it has marked, that what it saw dies with it and that it has visited all of it when it commits, and of each token (`Settled`) that it was used at most once and is dead once used or overtaken. |
| SlaWorkerProofs: TypeCorrect, BreachRecordedOnce, BreachAnnouncedAtMostOnce, BreachesAreCurrent, HealthIsHonest | tickets, workers, retries, errors, crashes | `ClaimCurrent`: what a transaction has claimed is still due, because its locks keep the API and the other workers away.  `PendingOnce`: an event that is still to be dispatched is flagged, not sent, and in one worker's hands.  `LossNoticed` in `HealthInv`: a worker that dropped an event has marked its cycle as failed or, when it sleeps again, is not healthy; this one assumes `MaxRetries = 0`, the value the server has, and is false with retries. |
| ChangeControlProofs: TypeCorrect, GateHolds, RowsStayCoherent, OneDecision, NobodyWaitsForNothing | users, roles, changes, requests, tickets, approvals | `RowsGood`: not only the rows in the table but also those that requests hold are coherent and covered by an approval, with a legal move ahead of them.  So what is written back is good however old it is, since approvals are never withdrawn.  `DecisionsAimed`: a decision on its way was made by somebody entitled to it. |
| TicketLifecycleProofs: TypeCorrect, ClosedStaysClosed, DecisionsAreCurrent, VersionedEditsAreInformed, HistoryAccountsForTheRow, EditsComeLast, ResolutionTimeStands | users, rules, jobs, changes, work, lag | `RowsArePast`: a row that a request or a screen holds has a lower version than the ticket or is the present row, since every write takes a version.  Equal versions then mean equal rows.  `Recorded`: the history has an entry per version; in every column each value balances (`Balanced`: entries to it against entries from it, one more for the first value and one for the present one), which an entry keeps because it starts at the value the column has under the lock; and no entry began later than the change before it (`Stamped`), a user's status change exactly then. |
| TicketIntakeProofs: KeysMakeOneTicket, AnswersAreRight, DraftsSurvive | tabs, people, payloads, scenarios, requests, lost messages | The invariant is the types, the three properties, `KeysReservedOnce` (no two requests hold a reservation of one key, and none of a key that has a ticket), `AnswerNames` (an answer names a ticket with its author, key and data) and `WaitsForItsOwn` (a tab waits for a request with the key it sent, and no two tabs for one).  A draft leaves the store only with such an answer or with its discard. |
| ServiceDeskProofs: ConsentIsGiven, AlertsLead, MoneyAgrees, OnlyRacesRebill, AnswersAreScoped, OnlyStaleUndoes, RatingsAreEarned, AnswersAreReadable, MailStays, ReferencesAlwaysHold | users and roles, rows before the first request, scenarios, inputs, requests at once | see below |

In `ServiceDesk` one of 130 actions at most touches what a property is about.  The
lemmas up to `Steps` sort them: a step is quiet (it keeps the eleven tables in
question and leaves no call behind that will touch them) or one of some forty that
are named; and the named ones of an area keep the tables of the others (`OffAlerts`,
`OffBills`, `OffCare` ...).  `Numbered` says that calls have numbers of their own below
`serial`; `Known` that a number is taken and no call is left to insert a row with
it, so that a row that is read once is never confused with a later one.  On top of
these is one invariant for each area, about the rows and the rows that calls carry
alike, because what a call carries is what it will write however stale it is by then:
`SessionInv` (both carry their consent), `AlertInv` (an open alert is the only one, a
call that will insert one has a ticket), `BillInv` (a draft in the making knows the
drafts it read, and bills its own client), `ReadInv` (the scope of a read is its
viewer's), `ProblemInv` (a PATCH never undoes the row it was decided on), `CareInv` (a
conversation that is written back fits the one that is there), `MailInv` (a delivery
keeps a customer of a number that is never given again, and the conversation it has
found, reopened or opened is there, with that customer, as long as the customer is).
The last one makes a delivery that is turned away prove why: an INSERT that inserts
nothing met a rival or a deleted customer, and nothing else.

`ReferencesAlwaysHold` is about 23 tables, so it sorts the steps again.  An INSERT
asks for some of what its row names (the foreign keys) and the rest was asked for
earlier, by another statement: that a ticket, a contract or a project is of the
client.  What was asked for earlier can be gone, and `RefInv` says why the row still
fits.  A row that waits to be inserted is `Aimed`: what it links to is there and of
its client, if the client is still there, because contracts, projects and contexts
only go with their client, and the INSERT does ask for that one, whose number is
never given again.  A row that waits to be written back `Agrees` with the one that is
there in the columns references depend on (`Columns`): in the tables whose rows are
written back no UPDATE changes those, so any two versions of one row are `Alike`.  A
statement is `Tame` when it leaves the assets alone, makes no client, takes no
contract, project or context away and adds only rows that fit; nearly all are.  Those
that are not have a lemma each: creating and deleting clients and assets, renaming an
asset, and the import of a discovered one.  `RefLeft` says what such a step owes.
The ratings come from `CareInv`.

The proofs assume the named assumptions of each module on its constants and nothing
else.  `ServiceDesk` starts from a tenant with rows, so two of them are about those:
`FirstIdAssumption` (no row has the number of a request to come, and none of those is
NULL) and `SoundAssumption` (the rows are such as the program leaves behind: what the
properties say of them, with their foreign keys, and unique ids).  `LowerAssumption`
says that LOWER of an address that is in lower case already changes nothing.
`NothingAssumption` of `TicketIntake` keeps the value for "no request" apart from
requests.  TLC evaluates them on every run, and checked each inductive invariant on
the instances before it was proved.

Only model-checked: liveness (`EveryEmailSettles`, `LockEnds`, `TransactionsEnd`,
`DueIsHandled`, `EverybodyReturns`), which needs reasoning about ENABLED that is out
of the prover's reach.  Every invariant and every action property that a passing run
checks is the statement of a theorem.

## 6. Where code and documents disagree

One run ends in a counterexample against a sentence of the repository (quoted in
`findings` of PROJECT.json): the WhatsApp webhook answers every conflict with 200,
"duplicate delivery, already ingested", and some conflicts are two new messages
that met, or a customer who was deleted in between; then the message is nowhere
(InboxAcknowledged).

Others were found on the way and are no runs of their own:

* a login reads the account, compares the password and inserts the session in
  statements of their own (`auth/service.go:319`), so one that straddles a password
  change leaves a session opened by the old password, where the plan of the
  stabilisation says that password changes revoke sessions
  (`docs/superpowers/plans/2026-10-21-estabilizacion-integral.md:55`);
* the history of a ticket is to be chronological (`docs/08-views.md:28`) and is listed
  by the BEGIN of the transactions (`ticket_repo.go:460`, migration `000001:117`).
  Assignments, priorities, rules and the worker begin before they have the row and
  compare no version, so of two that overlap the one that took effect can be listed
  before the one it replaced, and the latest assignment in the list is then not the
  assignee.  The entries still account for the row (`HistoryAccounts`), and a user's
  status change, whose version was read before its transaction began, is always listed
  after what came before it (`EditsAreListedLast`);
* concurrent failures can bring the counter to the threshold without a lock
  (`auth/service.go:290`, against the comment at 283): each looks at the counter it
  read, and the errors of the statements are dropped;
* two agents can both take a conversation (`application/cx/service.go:322`), which
  the comment there, and `domain/cx/cx.go:246`, say the server prevents: the check
  and the UPDATE are two statements;
* two billing runs of overlapping periods can bill the same minutes
  (`RebilledOnlyByARace` says that only this can), although
  `msp_repo.go:848` says a draft never bills twice: it marks the rows without asking
  whether they are billed by now;
* two first deliveries of an alert both make a ticket before the index of migration
  000015 refuses the second alert, where `domain/msp/msp.go:684` says that a race
  cannot duplicate the ticket; a crash in between leaves one too;
* two PATCHes of a problem at once move it along no transition (closed back to open)
  and drop the cause that one of them recorded (`application/itsm/service.go:425`).

The models reach more states that a reader of the code may not expect and that no
property forbids, because nothing in the repository promises otherwise or because
the promise is the weaker one that is checked:

* an MFA login that was begun before a password change completes after it;
* an email whose workers die between claim and finish is tried more often than
  the limit says; the limit is applied by the statement that finishes;
* two reset requests at once leave two links that work, each once;
* a crash, or a failed evaluation, between the commit of an SLA breach and its
  dispatch loses the event: it is announced at most once, where src/README.md:11
  says exactly once.  `HealthyLostNothing` says when that can be noticed;
* the older status form sends no version, so it edits what it does not show;
* a draft can be posted under an account that signed in during the
  synchronisation;
* a submission whose answer was lost, and that is then saved as a draft, has two
  keys and makes two tickets;
* a change that was moved on while a request held its older row is moved back by
  that request, even from closed; what such a write guarantees is
  `RowsAreCoherent`;
* an approval that was given stays in force when its change is rejected, drafted
  again and submitted again; and rejecting the one approval of a change does not
  move the change;
* MSP: a technician can be booked twice for one time by two requests at once;
  interventions, projects, drafts and remote sessions are written back from a stale
  row, so that a cancelled one may be started, a void draft issued, a denied session
  begun; the intervention a time entry names may be another client's; a blank domain
  is unique like any other, and a blank status passes the validation of an update and
  fails in the database; several sources may have one webhook token; a draft that is
  voided leaves its rows billed; profit counts minutes both as entries and in issued
  drafts, and truncates where drafts round;
* CX: a stale row that is written back loses an assignment or a first response and
  reopens what was closed; a message can be added to a conversation that is closed
  meanwhile; a release reopens a conversation that was resolved or closed; a rule may
  assign an end user; two customers may get one phone number; a message that was stored can
  be answered with an error, when the move of its conversation fails; addresses are looked
  up without regard to case and unique with regard to it;
* a connection that arrives while the hub stops waits at Register for ever
  (`realtime/client.go:181`).

## 7. Not modelled

MFA enrolment, the legacy offline queue and the rate limiter are planned
(section 2).  Of MSP: lists of rows that belong to no client (technicians,
availability, sources), the report, date filters, the hourly rate of a contract
(nothing stores it) and the clock times of SLA deadlines.  Of CX: lists of
configuration, the verification handshake of the webhook, date filters.  Of ITSM:
reads, the report, free texts and attributes.  Of tickets: comments, the first
response, lists and exports, and the automation actions add_comment and send_email.

Knowledge base, analytics, attachments, notifications, SLA policies and user
administration are row-at-a-time CRUD or queries without a protocol; middleware,
configuration, bootstrap and the three applications around the workspace keep no
state of their own.  SMTP, S3, LDAP and PostgreSQL itself are external: the models
contain what the code relies on (row locks, READ COMMITTED, unique indexes,
at-least-once delivery).
