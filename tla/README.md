# Seven Network Manager, specified

TLA+ models of the control plane of Seven Network Manager: the code that writes to
PostgreSQL from several requests, dispatchers and processes at once. Every definition is
translated from the Rust source and the migrations; `PROJECT.json` gives the lines of each.

## 1. The system

| component | state | operations | what is hard |
|---|---|---|---|
| outbox, `crates/platform-events`, migration 0004 | `outbox_events`, `outbox_delivery_attempts`, `event_consumptions`; the tasks and the semaphore of each dispatcher | `enqueue`, `claim`, `mark_published`, `mark_failed`, `record_consumption`, `dispatch_once` | leases that run out under a slow publisher, stale tasks, crashes, error returns that leave tasks behind |
| audit chain, `crates/audit-store`, `crates/security/src/audit.rs`, migration 0007 | `audit_events`, one hash chain per organization | `append`, `append_in_tx`, `verify_organization_chain` | concurrent appends to one chain, rollback after the append, order of locks and commits |
| inventory, `crates/inventory-store`, `crates/domain/src/inventory.rs`, migration 0009 | `devices`, `device_identifiers`, `device_facts`, `device_lifecycle_events` | `create_manual`, `update_metadata`, `transition_lifecycle`, `reconcile_observation`, queries | discovery against people, one identifier found twice at the same time, lost updates, lock order |
| sessions, `apps/backend/src/auth.rs`, migration 0005 | `sessions`, `session_refresh_tokens` | `login`, `refresh`, `logout`, `authenticate_access`, `bootstrap_admin` | concurrent refreshes, reuse detection, revocation against rotation, deadlock, lost answers |
| authorization, `apps/backend/src/authorization.rs`, `crates/security/src/rbac.rs` | role bindings, read only | `authenticate`, `require_site_permission` | decisions on what has changed since |
| inventory API, `apps/backend/src/inventory_api.rs` | none | one handler per inventory operation, `audit_denial` | authentication, authorization and mutation are separate transactions; the audit of a denial is best effort; a timeout drops the handler anywhere |
| credential vault, `crates/security-store`, `crates/security/src/vault.rs`, migrations 0006 and 0008 | `credential_profiles`, `credential_ciphertexts`, the key ring of a process | create, resolve, replace, deactivate, rotate | unguarded replacement, several key rings |
| service accounts, `crates/identity-store`, migration 0003 | `service_accounts`, their credentials and role bindings | create, disable, issue, revoke, authenticate, bind role | issue against disable, revoke against authenticate |
| backend process, `apps/backend/src/{main,db,redis_state}.rs`, `bootstrap_admin` of `auth.rs` | the scope and administrator rows, whether it serves | start-up with two bootstraps, readiness, request timeout, shutdown | replicas that start side by side, die and start again |
| domain rules, `crates/domain/src/*.rs` | none | approvals, summaries of changes, trials, IPAM, merging, monitoring, discovery, providers, governance | boundary cases, decisions that outlive their reasons |
| site runtime, `apps/site-runtime`, `crates/executor-core` | none between requests | one authenticated probe per request | guard, and two timeouts that race the network |
| token, TOTP and password primitives | none | encode, decode, hash, verify | clock skew |
| observability, front end, scripts, deployment | none of interest | | |

How they interact. An inventory mutation is one PostgreSQL transaction: it changes the
device, then calls `AuditStore::append_in_tx` and `OutboxStore::enqueue` in the same
transaction, and commits. The audit append takes the chain lock of the organization, so all
mutations of an organization queue there until the holder commits. Dispatchers in any number
of processes claim the committed outbox rows. The API authenticates with the access token and
the `sessions` row, reads the role bindings and then calls the store, each in a transaction of
its own; the user it does that for may be the one that a starting replica bootstraps. Service
accounts and the domain rules have no caller in the repository yet: their models say what a
caller can rely on. There is no shared memory between requests apart from connection pools; all races are between transactions,
and between database time and the tasks of a dispatcher.

What makes each correct:

- Outbox: nothing leaves before its transaction commits; row and delivery log agree; a
  settled event stays settled; every committed event settles; leases exclude each other as
  long as they are long enough; of all who record an event for a consumer, one at most is
  told to be the first.
- Audit chain: no gap, no fork, only growth, mutation and record together, and verification
  finds exactly the damage.
- Inventory: a strong identifier has one device, nobody's change is lost, declarations win
  over observations, devices out of service are left alone by discovery, the trail of
  records is gapless, every request ends.
- Sessions: one chain of tokens per session, revocation is complete and final, no false
  alarm, every request ends.
- Vault: what is resolved is in force, nothing readable becomes unreadable, rotation shows
  nowhere, a rolled out key is never missed.
- Service accounts: a no is final whatever was being issued at the time, a credential that lives
  gets in, and nobody gets more than scopes and own roles allow.
- API: what is done was permitted, for the site of the device, although the permission is checked
  earlier; answers and audit events are true; a lost answer can be retried.
- Backend process: replicas that start together make one binding of the administrator, serve on a
  complete scope only, and leave the administrator's password and status alone.
- Domain rules and runtime: each rule decides like its reference definition, and no decision
  comes back by itself; every probe has its verdict before the request times out.

## 2. The modules

Each component has a detailed module, most have an abstract one that states its promise, an `MC` module
for TLC and, where there are proofs, a `Proofs` module.

| abstract | detailed | for TLC | proofs |
|---|---|---|---|
| `EventDelivery` | `Outbox` | `MCOutbox` | `OutboxProofs` |
| `AuditLog` | `AuditChain` | `MCAuditChain` | `AuditProofs` |
| `DeviceRegister`, with `Lifecycle` | `Inventory` | `MCInventory` | `InventoryProofs` |
| `RefreshFamily` | `AuthSession` | `MCAuthSession` | `AuthProofs` |
| `SecretBox` | `Vault` | `MCVault` | `VaultProofs` |
| | `ServiceAccount` | `MCServiceAccount` | `ServiceAccountProofs` |
| | `Bootstrap` | part of `MCDeviceApi` | `DeviceApiProofs` |
| | `DeviceApi`, a composition of `Bootstrap` and `DeviceRegister` | `MCDeviceApi` | `DeviceApiProofs` |
| the reference definitions in `Decisions` | `DomainRules`, with `Lifecycle`; `Decisions` puts them beside what changes | `MCDecisions` | `DecisionsProofs` |

Operators called "Mutant:" in a comment are plausible bugs of the definition that follows
them. They are used in no specification; replacing the definition by one of them makes TLC
refute the property that `PROJECT.json` names beside it.

### Transactions

All detailed modules treat PostgreSQL alike. A transaction is READ COMMITTED: a statement
sees what was committed when it began. Writes stay in the transaction's record and appear in
one action, its commit. `FOR UPDATE` and `UPDATE` take a row lock that lasts until the end of
the transaction, and wait for it; an insert under a unique index waits for open transactions
that inserted the same key. An action stretches from one wait to the next, which is all that
others can observe. Every transaction may be rolled back at any point (error, timeout,
cancelled request, dead process). PostgreSQL itself is external: it is modelled by how the
code uses it.

### Outbox

A row of `outbox_events` is `row[e]`. Time matters only as a difference: `ttl` is the rest of
the lease and `wait` the rest of the back-off, and `Tick` shrinks both. A task is one iteration
of the loop in `dispatch_once`, from the claimed copy of the row to its mark; it carries the
attempt number of its copy, which `mark_failed` uses. `Claim` is `claim`; `Spawn` gets a permit
of the semaphore; `PublishOk`, `PublishErr` and `Panic` are what `publish` may do;
`MarkPublished` and `MarkFailed` are the two marks with all their ways to refuse, and `MarkError` is
a mark one of whose statements fails, so that the row stays leased; `Return` ends
a call, with an error as soon as one awaited task ended with one, leaving the others to run on.
`Crash` takes the tasks of a process away. A commit may also succeed and its answer be lost: then
`ClaimLost` leaves rows leased to a worker that knows nothing of them, and a task ends with an error
although it has marked its row. `RecordConsumption` takes any id (`EventId`), at any time and any
number of times: `event_consumptions` does not refer to the outbox, so the model ties a consumption
to no hand-over. `firsts` is a history: how often `record_consumption` has answered `true` for
a consumer and an id. Simplifications: `Return` does not fix the order in
which handles are awaited, which allows more behaviours than the code; a worker runs one
`dispatch_once` at a time, as its host loop would; `backlog` is a count and is left out.

### Audit chain

`Begin` to `Commit` follow one caller's transaction around `append_in_tx`: lock, position, seal
and insert, then the rest of the caller's transaction. `Hash` is a perfect hash: the sequence of
everything hashed so far, so it is one-to-one. `Verify` is `verify_organization_chain` as a
function of the rows. `PutIn(o)` are the rows that somebody could add with a seal of their own, and
`EndHash(o)` the hash that the next row of the store would carry. The row that `bootstrap_admin` writes has no chain position and is not
part of a chain.

### Inventory

`tx[t]` is an open request with the statement it is at. `Lookup` runs the `SELECT ... FOR UPDATE`
on the identifiers in the order of the request; `Load` is `load_device_in_tx` with the checks
after it; `Upsert` is `upsert_identifier` with its wait on `uq_device_strong_identifier_scope`;
the `Write` actions are the rest of each operation up to and including its commit: facts,
canonical fields, lifecycle event, audit record and outbox event. One field of the device
stands for all. `trail` is the last audit record, which carries the same two views as the
event. What the chain lock adds is the subject of `AuditChain`: after it a transaction needs
no other row, so here the lock and the commit are one action. `validate` accepts an observation
with weak identifiers alone: `PresentWeakObservation` looks for nothing and ends in a new device every
time, which `DeviceRegister` allows (`Discover` without an identifier). Left out: the rows of weak
identifiers (never matched, never unique), observed facts and `last_seen_at` (nothing reads them to decide),
normalisation, queries. The hostname may also come from an identifier of kind hostname and is
then not declared; the field of the model is one of the others.

### Sessions

One session and its family of tokens; a token is its generation. `LockToken`, `LockSession`
(`FOR UPDATE OF rt, s`), `LockFamily` and `LockLast` (`revoke_family`) take the row locks one by
one, `Rotate` and `CommitRevocation` commit. An UPDATE of the family sees the rows that were
committed when it began, so it may miss the token of a rotation in flight. Answers may be
lost after a commit. `late` says whether the session was over when the request read its clock,
before it waited, and stays with the request, so that it can be said whom a token was issued to:
a session that expires during the wait is still rotated, one that had expired before is not.
Requests are numbered as they arrive: which of the idle ones comes next makes
no difference, so no symmetry is lost by it. `DeviceApi` has the access token, the SELECT of
`authenticate` and the statuses of session and user; here they play no part, since `refresh` reads
neither.

### Vault

`profile` and `cipher` are the two tables; a call is one method of a `CredentialVaultStore`, of
which every process has one with a key ring of its own (`Ring`, `Current`). A ciphertext is a
record of key version, associated data and secret, and `Decrypt` compares like `decrypt` does:
associated data first, then the key. A kind is what the caller writes; `Trim` is what `str::trim`
makes of it. `CheckReplace` is the unlocked read of `replace_secret`, `UpdateCipher` and
`CommitReplace` its transaction; `LockProfile`, `LockCipher` and `CommitRotate` are
`rotate_profile_key`. Commits may be answered with an error, `Drop` is everything that fails
before. `seen` is a history: what was in force since a call began. Left out: names and their
uniqueness (a refused insert is a `Drop`), limits of lengths, versions beyond `i32` (always refused,
also a `Drop`), summaries.

### Service accounts

`calls[c]` is a request with the statement it is at. `disable_account` is a transaction of two
UPDATEs, whose rows stay locked until it commits (`AccountLocked`, `CredentialLocked`); the others
are one statement, or two that commit by themselves. `IssueRead` is the SELECT of the INSERT
in `issue_credential`: its snapshot may be older than a disabling that commits before `IssueInsert`, and
the foreign key does not make it wait. `AuthenticateSelect` reads credential, account and
permissions in one statement, `AuthenticateTouch` writes `last_used_at` and answers. All tokens
share one visible prefix, so `Matches` has to tell them apart by their hash. `bind_role` checks
like the trigger of migration 0003. `barred` is a history: somebody had been told no before this
request began. Left out: the syntax of scopes, CIDRs, names and tokens; nothing in the repository
takes a role away, `Unbind` stands for an administrator of the database.

### Start of a replica

`Bootstrap` follows `main` through `bootstrap_scope` (three upserts and a commit) and `bootstrap_admin`
(user, role, permissions, the query for a binding and its insert, commit). An upsert locks its row,
or the key of one that does not exist yet, until its transaction ends. No unique index covers a
binding without a site: `OneBinding` rests on the lock of the user's row, held while `FindBinding`
looks. `Exit` is an error or a death at any point; `Disable` and `Unbind` are what somebody does in the
database. A replica that is not configured to bootstrap serves at once.

### Device API

One user's requests. `Present` is the clock and the decoding of the token in `authenticate`,
`Authenticate` its SELECT, `RequirePermission` the query of `require_site_permission`, then one of
`View`, `Create`, `Change`, `AnswerUnchanged`, `Refuse`, or `AuditDenial`. The inventory takes part
as `DeviceRegister`, which `Inventory` implements: `Create` and `Change` are its `Enter`, `Edit` and
`Move`. `AnswersChanged` lets the answer of a committed change get lost; `Abandon` is the timeout layer,
a failing statement or a lost connection before that. `BootStep` is a step of `Bootstrap`; the requests
of a replica that dies are over. Sessions open, end and expire, roles come and go (`BindSite`), others
enter devices. `moments` is a history: of every request, whether it was authentic and entitled at
some moment of it, written independently of what the handlers look at. `list_devices` is a `View`: it
answers with what is in scope. Discovery has no handler.

### Rules and probes

`DomainRules` has the pure rules: `is_valid_for`, `summarize_targets`, `effective_state` and `decide` of
trials, the lifetime rules of tokens, `ResourceScope::contains` and `authorize`, `prefixes_conflict`,
`decide_merge`, and the guards of a probe. `Decisions` puts one subject of a rule beside what changes
it: the clock, edits of the plan, targets that answer, a trial in use. Of the site runtime it has the
handler `tcp_connect` with its order of refusals and its two timers; a timer that is due fires before
the clock goes on. A subject has one of a few shapes (`Shape`: a plan, its results, a license, a token,
two prefixes, two devices, a probe); `Subject`, the set of those a run looks at, is any set of
them. `Id` stands for ids and names, which the rules only compare.

## 3. What the runs show

| run | instance | shows |
|---|---|---|
| `outbox_safety` | 2 events, 2 workers, 1 consumer, 2 attempts, 2 faults | row and log agree, attempts are unique and bounded by `MaxAttempts` plus the faults, leases exclude without faults, settled is final, `EventDelivery` is implemented (hand-over and settlement; one first consumption at most) |
| `outbox_liveness` | 2 events, 2 workers, 1 permit for a batch of 2, 1 fault | every committed event settles and every call returns |
| `audit_chain` | 3 transactions, 2 organizations | no position is taken twice, the chain is linked, verification accepts no selection of the rows but a beginning, no changed row but a resealed last one, and no row put in but one sealed as the next; `AuditLog` is implemented, every transaction ends |
| `auth_sessions` | 4 requests, generations 0 to 3 | one chain, complete revocation, no token for a request that began after the expiry, no false alarm, `RefreshFamily` is implemented, every request is answered |
| `inventory_safety` | 2 devices, 2 identifiers in both orders, 2 requests at a time | one owner per identifier, no lost update, declarations win, gapless trail, `DeviceRegister` is implemented |
| `inventory_liveness` | the same, fewer versions | every request ends although lock orders differ |
| `inventory_review` | 1 device, 1 request at a time | a counterexample, see section 7 |
| `vault_safety` | 1 profile, 2 organizations, 3 stores with 3 keys, 2 calls at a time | resolved secrets are in force, readable stays readable, a rolled out key is never missed, `SecretBox` is implemented |
| `vault_kind` | the same | a counterexample, see section 7 |
| `service_accounts` | 4 requests, 2 credentials, 1 account, its own role and a foreign one, 2 addresses | a no is final, authentication is exact |
| `device_api` | 2 requests, 2 sites, 1 device, 1 role, 2 replicas, 2 starts | what is done was permitted, answers are true, a retry is safe, bootstraps keep their promise and do not wait in a circle |
| `domain_rules` | about 11 000 subjects, clock 0 to 6 | every rule agrees with its reference definition, no decision comes back |

Every property of a passing run has a mutant in `PROJECT.json`, an operator called "Mutant:" above,
with which the same run refutes it.

Bounds and why they are enough. *Outbox*: two events are needed for a batch larger than the
semaphore, two workers for a stolen lease, two attempts for a retry and a dead letter; with two
faults a stale task meets a second claim by its own worker or by another one. A lease of one
tick runs out on the second, so both sides of the boundary occur. One `EventId` is enough: pairs of
a consumer and an id have nothing in common. *Audit*: three transactions
give a holder, a waiter and one that reads after the other's rollback; verification is checked
on every subset of the rows, every one-column change and every row put in. *Inventory*: two identifiers are the
fewest that deadlock, two devices the fewest in conflict. Ids of devices are uuids in the code and
finite here: `IdsLeft` admits a request that needs one only while there is an id for it and for every
open discovery, so no request is stuck for want of one. `MaxVersion` 3 lets a
device be created, retired and brought back. Two requests at a time cover every pair; longer
circles are left to the larger instances. Observations come with or without strong identifiers; a
manual entry without any makes the same new row as such an observation, so `IdLists` has no empty
list. *Sessions*: a deadlock needs a
revocation and a rotation; four requests add a reuse after it and a second revocation. With
four generations a token can be stale, current and in flight at once.
*Vault*: calls never run out, so behaviours are unbounded; two at a time cover a write in flight
across another one, a rotation or a deactivation. The stores have a ring without the new key, one
with it that still uses the old one, and one that uses it and has a third key in reserve, which are
the phases of a key change. Profiles do not touch each other's rows. *Service accounts*: the longest
story is an issue that overlaps a disabling, an answer and a later authentication, and one more
request beside them; a second credential is needed for rotation with overlap, a foreign role for
the trigger. Accounts share no rows. *Device API*: two requests cover a retry and a pair with
one expected version; `Request` has one of each kind, one of them for the wrong site; two starts
give two replicas side by side or one that dies and comes back. The role of the user is bound for one
site (`Bindable`), the administrator's for the organization. *Rules*: three bits of address give every
nesting of prefixes; `MaxTargets` 3 mixes three outcomes; `Horizon` is past every expiry in the
subjects and past `Limit`, the timeout of a whole request; a lifetime of 3 and a skew of 1 put
tokens on both sides of each limit.

`MaxFaults`, `MaxVersion`, `IdsLeft`, `MaxGen`, `MaxCalls`, `MaxStarts`, `MaxTargets`, `MaxUsage` and `Horizon`
are the only bounds in guards.

`CHECK_DEADLOCK FALSE`, outside the vault: requests, transactions, versions, starts and the clock are finite
in every instance, so behaviours end; that nobody waits for ever is what the liveness properties check.

Fairness. Nothing forces a client to send a request, a producer to commit or a fault to happen.
*Outbox*: the host calls `dispatch_once` again (weak fairness of `Claim` over all workers), the
runtime polls its tasks, publishers answer, time passes. *Audit, inventory, sessions*: strong
fairness of a request's own steps, since the server polls what it has accepted and PostgreSQL
queues the waiters of a lock, so a waiter that finds it free again and again does get it; weak
fairness of deadlock detection, which runs after `deadlock_timeout`. The other modules state no
liveness: a service account request waits for one transaction that itself waits for nobody, and
every API request is ended by the timeout layer.

## 4. What is proved

TLAPS checks these for every value of the constants.

- `OutboxProofs`: `TypeCorrect`, `LogAgrees`, `Settled`, `AttemptsStayBounded`, `LeasesExclude`, `Delivers`. None of the
  properties is inductive: a stale task could mark a row of which nothing is known.
  The invariant `IInv` adds that an owned row is pending, that no attempt number of a task or
  of the log exceeds the counter of its row, and that a delivered task's event was sent.
  `Claim` then hands out a number nobody has, so a mark that gets through is the only one of its
  attempt, and a row with an owner cannot be settled. `LeasesExclude` adds that as long as there
  was no fault a task's row still names it and has not expired. `AttemptsStayBounded` keeps an
  account (`Accounted`): `claim` never looks at the counter, and a stale task whose worker owns the row
  again releases it although the counter has moved on. There are never more such stragglers than there
  were faults, and the next attempt number and the stragglers together never pass `MaxAttempts` plus the
  faults. `Delivers` shows that each step is a step of `EventDelivery` or
  leaves it unchanged; a consumption is a step of it only for a pair that is not recorded yet.
- `AuditProofs`: `TypeCorrect`, `PositionsStayFresh`, `ChainStaysLinked`, `KeepsThePromise`,
  `VerificationIsExact`, `OneHashVouchesForAll`. The
  invariant is mutual exclusion of the chain lock, positions that equal the end of the chain while
  the lock is held, the link of every row and hashes that grow along the chain; a commit by the holder extends the chain and no
  other transaction holds a position in it. `KeepsThePromise` also needs that a transaction which
  has not ended has no row yet.
  `VerificationIsExact` names the rows of a chain by their positions and counts those: a selection of
  them passes exactly if each position has as many below it as it should, which makes it a
  beginning. A row put in beside them is met last, after the whole chain, and has to carry its end
  (`PutInIsSeen`). `OneHashVouchesForAll` (the property `OneHashVouches` is in `AuditProofs`) asks the
  opposite question, of tables that anybody may have rewritten in any number of rows, as long as no
  position is in twice (`uq_audit_chain_sequence`): if verification accepts one and it still has a hash
  that the store once sealed, then every row up to it is the store's. The least position at which that
  failed would have the hash of the row before it, for which it did not fail. It ranges over all tables
  there could be, which is why no run checks it. What it vouches for is what `verify_organization_chain`
  reads, position, canonical payload and hashes, not the columns that repeat the payload.
- `VaultProofs`: `TypeCorrect`, `ResolvesInForce`, `RolloutIsSafe`, `NothingGetsLost`, `KeepsThePromise`.
  A call writes back what it computed some steps earlier, so the invariant says what every
  ciphertext in flight was made for: the secret asked for and the associated data of the stored
  row, or, for a rotation, the secret that is stored now. The latter survives other calls only
  because the ciphertext row is locked. Every stored version is current in some store, from which
  `RolloutIsSafe` follows; rows keep organization and kind, from which `NothingGetsLost` does.
- `InventoryProofs`: `TypeIsKept`, `OneOwnerOnly`, `NothingIsLost`, `TrailHasNoGap`, `KeepsTheRegister`. The
  invariant `IInv` says what an open transaction may rely on (`HoldsInv`, `Apart`): the device it is about
  to insert does not exist and no other transaction names it; the device it has loaded is locked by it
  and as it was loaded, which is why `Load` reads FOR UPDATE; the identifiers it has inserted have no
  device, and no other open transaction has inserted them, because `Upsert` waits for those that
  have. Rows that have an identifier or a declared fact exist (`RowsInv`). A commit then writes what its
  device as it is becomes by one operation, and disturbs nobody else's device or identifiers; `ObserveInv`
  and `ChangeInv` carry what was accepted (in service, at the expected version) from `Load` to the write.
- `AuthProofs`: `TypeIsKept`, `OneChain`, `AnswersStayTrue`, `EndsForCause`, `OneLiveToken`. The
  invariant says which rows a request holds at each statement (`LocksInv`) and what its reuse test
  has found (`DecisionInv`). A request about to rotate holds its token and the session, so nobody
  consumes the one or revokes the other meanwhile; as the token is not consumed it is the last of
  the chain (`FreshIsLast`), so its successor is new. Whoever consumed a token was answered
  (`ConsumedByRequest`), from which `EndsForCause` follows: a second request with that token exists.
  `OneLiveToken` counts the chain. What expiry decides, it decides when a request begins: `DecisionInv` and
`AnswerInv` carry that from `late` to the answer.
- `ServiceAccountProofs`: `TypeIsKept`, `ANoIsFinal`, `AuthenticateDecidesRight`. The invariant adds that a
  disabling that has locked the account is the only one (`OneDisabling`), that roles are bound within
  their organization (`RolesAreOwn`), and for each request what it was told (`ToldInv`) and that a request
  which is ruled out finds the account disabled or the credential revoked (`BarredInv`).
- `DeviceApiProofs`, about the bootstraps alone: `BootstrapIsSafe`, `RestartsLeaveTheUserAlone`,
  `StartsDoNotDeadlock`. By `BootInv` a replica between its upsert of the user and its commit holds the
  user's row (`UserIsLocked`), so what it has found about the binding is still true when it commits
  (`NotFoundIsAbsent`). A replica has come further than every row it holds (`HoldersAreAhead`), so
  whoever waits waits for one that is further on.
- `DeviceApiProofs`, about the composition: `TypeIsKept`, `OnlyPermittedIsDone`, `AnswersTellTheTruth`,
  `RetriesAreSafe`, `PartsAreImplemented`, `UserIsKeptBeside`, `BootIsSafeBeside`. Each request remembers in
  `moments` what has been true during it; the invariant of a request says that a test it has passed was
  true at one of them, and that a change it made took the device past the expected version, from which
  `RetriesAreSafe` follows since versions only grow. `PartsAreImplemented` shows that every step of the
  composition is a step of `Bootstrap` or leaves it unchanged, and one of `DeviceRegister` or leaves that
  unchanged; what is proved of `Bootstrap` alone then holds beside the requests.
- `DecisionsProofs`: `RulesDecideRight`, `DecisionsStay`. Most rules agree with their reference definition
  whenever the subject has its shape, so one moment is enough; the trial and the probe need an
  invariant: no usage is above the limit of the license, and the deadlines of a probe lie where its
  two timers put them. Two blocks of addresses are nested or apart since of two powers of two the
  lesser divides the greater; `Least`, the least counterexample, takes the place of the induction over the
  length of a prefix. `DecisionsStay` goes through the steps: time only goes on, results are only added.

Assumptions, all about constants: `OutboxAssumption` (positive bounds, `NoWorker` is no worker),
`VaultAssumption` (a store has its current key, as `CredentialVaultStore::new` demands; trimming yields a
kind), `NoneAssumption` (the absent value is no other), `AuthAssumption`, `ServiceAccountAssumption`
(organizations of accounts and roles are organizations), `BootstrapAssumption`, `RulesAssumption` and
`DecisionsAssumption` (sizes are natural numbers and ordered as the code orders them), `SubjectAssumption`
(the subjects have their shapes and start as the code makes them), `DeviceApiAssumption` (every
device has a site, requests other than creations name a device), `InventoryAssumption` (no id is both a
device and an identifier); in all of them the placeholders for nobody and nothing are no members. `PowersAssumption` says what a
power of two is, of which the provers know nothing; it is true for every `Width`, and TLC evaluates it for
the one of the run. The audit proofs need none beyond the hash being one-to-one, which is
how `Hash` is defined.

Only model-checked: the four liveness properties (`NothingIsStranded`, `EveryAppendEnds`,
`EveryCallIsAnswered`, `EveryRequestEnds`), since they rest on fairness and ENABLED, which the prover does
not handle. Every other property of a passing run is the property of a theorem.

## 5. Not modelled

- Sessions: the password check of `login`, cookies and CSRF; they decide on one request alone.
- Inventory: `same_l3_identity` and the listing queries; the rows of weak identifiers, which never
  match; observed facts, whose order by time nothing in the repository decides.
- Authorization: `authorize_approval`, a comparison of two actors without a caller, and the syntax of
  permissions.
- Rules: `suppression_decision` and the validations of discovery, providers and governance look at single
  fields.
- Process: readiness reads each dependency once and keeps nothing; `config.rs` is not part of any
  target; `redis_state` has a ping.
- Password hashing, token encodings, TOTP and encryption are computations on bytes; encryption appears
  as perfect in `Vault`.
- Schema foundation: tables without code.
- Observability, front end, scripts and deployment files have no behaviour that the properties are about.

## 6. Plan

1. `MutationPipeline`: an inventory mutation with the chain lock and the outbox in one composition of
   the abstract modules: the record, the event and the change are one.
2. Larger instances of the inventory, with circles of three transactions.
3. `login` and the statuses of user and session across `DeviceApi` and `AuthSession`, as soon as the code
   lets one of them depend on the other.

## 7. Findings

`inventory_review`: the test `discovery_cannot_skip_review_and_become_managed`
(`crates/domain/src/inventory.rs:330`) only looks at the direct step. `can_transition_to` also has
discovered to unmanaged and unmanaged to managed, and the run shows a discovered device that is
managed after these two, with no entry for `pending_review` in its lifecycle events.

`vault_kind`: `create` seals a secret for the kind as it was passed (`crates/security-store/src/lib.rs:52`)
and stores the trimmed kind (line 66), from which `resolve_secret` and `rotate_profile_key` rebuild the
associated data. With a blank around the kind the profile is created with success and cannot be
resolved or rotated until its secret is replaced, although the test
`database_never_stores_plaintext_secret` (line 473) asserts that what was created resolves.

Noted while modelling, and no contradiction to anything written down:

- Two discoveries of one unknown thing end with one device and a `DuplicateIdentifier` error for the
  other, not with an update. An observation that has only weak identifiers creates a device every time
  it is reported. An observation that is older than the last one still overwrites the shown
  field.
- A reuse of a refresh token that is detected by the victim of a deadlock is answered as an outage and
  not recorded. `refresh` and `/me` do not look at the user's status, and `access_revoked_before` is never
  written: a disabled user is kept out by `authenticate` alone.
- `max_attempts` is exceeded by one for every fault: a crash, a panic, a lease that runs out under its
  task, a failing mark, a claim whose answer is lost.
- An answer of `authenticate` that was right when its statement read the rows is given even if the
  credential is revoked before. A refresh that waits for its rows while the session expires still
  gets its token.
- A start with bootstrap settings binds an unbound administrator again; it neither enables a disabled
  one nor changes the password.
- A credential that is issued while its account is being disabled is not revoked; the account's
  status in `authenticate` is all that stops it.
- An approval stays valid when the action, risk or `dry_run` of its plan is edited; it is the target, the
  input and the provider that are compared. A change whose targets were all rolled back or not
  attempted is summarized as partially succeeded.
- `TrialState::Inactive` and `starts_at` decide nothing. A retired device is never reported as a duplicate
  of another one that shares only a strong identifier with it. The executor ignores `interface_scope`
  when it connects.
