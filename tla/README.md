# Swooshz Platform: a specification, its checks and its proofs

This directory holds TLA+ models of the parts of the platform that are hard to
test: who belongs to a workspace while several people change it at once, the
one-time tokens that open an app, the sign-in state a browser carries to its
identity provider and back, the process that serves the requests, the guarded
operations on the platform's own database with the checks that go before them,
the activation of the role it runs as, and the store that lets a backup be
restored once. Each model is translated from the TypeScript under `src/src/` or
from the scripts under `src/scripts/`. TLC checks all of them on small instances;
TLAPS proves their safety properties for every instance.

    tlc -workers 2 -config WorkspaceAdmin_members.cfg MCWorkspaceAdmin
    tlapm IdentityProofs.tla

`PROJECT.json` is the index: components, runs, the source lines of every
definition, hazards, findings and theorems.

## 1. The system

The platform is one Node process over one PostgreSQL database. It signs people
in through an OIDC provider, keeps platform sessions, lets the administrators of
a workspace manage its members, and lets a member open an app that runs
elsewhere: the app's backend redeems a launch token and later asks whether the
access still holds. Operators work on the database directly: seed commands,
migrations, guarded grant and ownership changes, recovery.

| Part | State | Operations | What is hard | What must hold |
|---|---|---|---|---|
| Workspace administration (`platform/workspace-admin-service.ts`) | memberships, pending approvals, audit events, sessions | add, change role, disable, reactivate, remove, revoke an approval; app entitlement | concurrent admins, each judged on a snapshot | no workspace loses its last admin; every change has its event; the last membership takes the sessions along |
| Identity resolution (`auth/platform-identity-resolver.ts`) | users, provider identities, sessions | sign in a known identity; accept pending approvals at a first sign-in | check and insert are separate for a known identity; acceptance is all or nothing | an approval is not lost, and does not let anybody into a workspace that has no admin |
| Seed command (`platform/internal-access-seed-service.ts`) | the same tables | first-admin approval; internal membership | no transaction for the second, no audit event | one first admin at most waits for a workspace |
| Logout (`auth/session-revocation-service.ts`) | sessions | find, then revoke | two statements | nothing revoked becomes usable |
| Repositories and transactions (`db/repositories.ts`) | snapshot, row lock, retries | run a body SERIALIZABLE, retry 40001 | snapshot older than the lock; lost acknowledgement of COMMIT | a mutation is committed at most once and is judged on what is true at its commit |
| App launch (`platform/app-launch-*.ts`) | launch tokens | issue, consume | reads and writes without a transaction | a token is answered once |
| Validation grants (`platform/access-validation-grant-service.ts`) | grants and finalization handles | issue, register, consume a handle, validate, revoke | consume before the judgement; expiry at a boundary | a handle opens one session; nothing is finalized after the launch has expired |
| Access decision (`access/decide-app-access.ts`) | none | six reads, one answer | rows change between reads | no fact is taken from an earlier decision |
| Sign-in state (`http/auth-handlers.ts`, `auth/callback-service.ts`, `db/auth-state-repository.ts`) | auth states, two cookies | start, callback | tabs share cookies; concurrent counts; deletion of spent rows | a state is spent once, in the browser that started it, in time |
| OIDC adapter (`auth/generic-oidc-*.ts`) | none kept | exchange, verify, ask for the userinfo | keys that rotate or are for something else, audiences of several, who a userinfo is of | an identity names the account of the sign-in whose state came back |
| Session context (`platform/session-context-service.ts`, `http/handlers.ts`) | none | build responses | reads only | as the access decision |
| CSRF tokens (`http/csrf-*.ts`, `db/csrf-token-repository.ts`) | at most eight tokens per session and purpose | issue (prune, count, evict), verify | serializable without a retry, clock read before the awaits | the bound; nothing is evicted without need |
| Durable database operations (`db/durable-operations.ts`) | the database's privileges, one call's progress | admit, observe, lock, recheck, apply, commit, verify, roll back, invert, restore | several calls, broken connections, a COMMIT whose end is unknown | a plan lands on the state it was made for; a receipt does not overstate |
| Process lifecycle (`runtime/node-bootstrap.ts`, `scripts/platform-start.mjs`) | server, pool, signal handlers | start, stop, two signals | requests in flight at a stop, a signal before start has returned, the loss of a connection | a stop takes the database from nobody who still waits; nothing is left open |
| Recovery controller store (`scripts/platform-recovery-controller-store.py`) | epochs on disk: record, manifest, ledger, binding, hash-chained frames | create, bind, transition, supersede, consume a restore, ingest a frame | a crash between two files; two processes; creation without a lock | a restore is permitted for one transition; an epoch that loads is consistent |
| Persisted locator (`scripts/platform-persisted-locator-adapter.py`) | one request, three threads, a bounded queue | answer which backup to restore | psql that hangs, floods or breaks off; deadlines | what is answered is true of the database, and given when the query is over |
| Runtime activation contract (`scripts/platform-runtime-activation-contract.mjs`) | tracker, permits, journal, one psql in docker | validate, install the password, enable LOGIN, verify, finalise, roll back | the client, the container and the daemon fail apart; evidence grows old; the endpoint moves | no change is forgotten; what is reported is what the database holds |
| Database readiness and posture (`db/readiness.ts`, `runtime-posture.ts`, `runtime-grant-contract.ts`) | none of their own; the catalogue | compare the catalogue with a contract, at a start and before an operation | role memberships, defaults that take effect later, two implementations of one judgement | what passes the checks gives the runtime its contract and no more |
| HTTP routing and headers (`http/node-adapter.ts`, `route-contracts.ts`, `origin-validation.ts`, `runtime-config.ts`) | none | match, check, dispatch | a table of contracts and a branch per route that nothing ties to it | a handler runs only with what its contract asks for |
| Accounts and apps; pages and public site; configuration and secrets; test harnesses | none that an operation changes | | | |

How they interact: every part but the recovery store (files) and the last row
shares the database; the process keeps nothing between requests. HTTP handlers call the platform
services, which call repositories. A row is the only thing two requests have in
common, so concurrency is interleaved statements. A removal in workspace
administration ends sessions that the access decision of a launch reads; a
sign-in writes the session and the memberships an admin mutation reads; a
durable operation and its observations meet in the database's own locks, and what
it may leave behind is what the posture and the readiness judge: the posture
before the process listens, the readiness before and after every operation. The
activation gives the runtime role the password and the LOGIN it then starts with.
The recovery store and the locator work for an operator who restores a backup
while the platform is down.

## 2. The modules

### WorkspaceAdmin: the core

`member`, `pending`, `user`, `sessions` are the tables `memberships`,
`workspace_membership_approvals`, `users` with `auth_identities`, `sessions`;
`inactive` and `suspended` are the statuses an operator may change. A person
stands for one normalized e-mail with the one user row and the one provider
identity it may have. `trail` is the audit log, kept as the memberships it
replays to. `seeded` is history: the rows the seed command inserted, which have
no event. Each mutation of `workspace-admin-service.ts` is one action, because
the code wraps each in one serializable transaction (the next module is about
whether that is enough). What is not in a transaction is split at its awaits:
`CheckKnownIdentity` / `CreateSession`, `FindSessionToRevoke` /
`RevokeFoundSession`.

### AdminTransaction and AdminLedger: the transactions beneath it

`AdminTransaction` takes the same mutations apart: `Authorize` (the first read,
which fixes the snapshot), `LockForAdminMutation` (`FOR UPDATE` on the
workspace), `Refuse`, `Write`, `Commit`, `SerializationFailure` with its retry,
`Fail`. The database's serializable validation is modelled by read-write
conflicts (`Precedes`, `Serializable`): a transaction may not commit as the
middle of two conflicts, nor as the first of two whose middle has committed. It
is external code, modelled from how `db/repositories.ts` uses it. `AdminLedger`
is the abstract promise: each committed change is made by somebody else who is
an active admin at that very step, and the step that ends a user's last
membership ends the sessions. `ImplementsLedger` is the refinement, with the
identity mapping on `member` and `live`. A serialization failure whose code is
hidden by a wrapping error (drizzle-orm wraps what the driver throws, and the
`*Safely` helpers wrap again, so `isSerializationFailure` may not see 40001) is
`Fail`: not retried, and nothing is committed.

### AppLaunch

One user, session, workspace and app; their rows are `world`, changed meanwhile
by admins, the user and the operator. A request (`slot`) captures `now`, reads
one row per step in the order of `PlanOf`, and only then writes; every write is
the guarded UPDATE of the repository. `held` is history: the facts that have
been true at some instant of the request.

### SignInState

`rows` is `auth_states`, `binding` and `session` are the browser's two cookies.
A start is `BeginStart`, `Prune` (DELETE and count in one snapshot),
`StoreState` (INSERT and COMMIT, refused when another start has committed since
the snapshot), `AnswerStart`. A callback is `BeginCallback` (the binding
cookie), `FindState`, `ConsumeState`, `SignIn`. Any answer may be lost. A
callback may carry any state and any code. `session` is the accounts a session
names. `flow` and `signedIn` are history.

### OidcIdentity

What the adapter and the verifier make of everything that arrives for one code: one
operator per check of theirs, `Verified` for all of them in a row, `Accounts` for the
subject and the email that the resolver then looks up. SignIn takes any identity of
`Identities`. What a provider vouches for is `AnswersAssumption`: of the tokens it has
made for the platform (`Genuine`), whose sign-in, nonce and email they carry; of its
userinfo, whose email it calls verified; of its keys, which are for signatures. Tokens
made for somebody else, or signed by somebody else, say anything.

### DurableOperation

`executeDurablePlan`, several calls at once against one database. The committed
state is the set of rights in force (`db`); a digest is the state it is computed
from; a right lies on an object, and the rights on the objects a plan touches
are the authority its inverse is bound to. One action per step with an await:
`Admit`, `Observe`, `RequestTargetLock`, `AcquireTargetLock`, `Revalidate`,
`ObserveAfterLock`, `ApplyOperation`, `Commit`, `FinalVerify`, and the recovery
`Rollback`, `VerifyRestoration`, `RequestInverse` ... `VerifyAfterInverse`,
`ExecuteRestoreCapability`, `VerifyRestore`. `MakeReceipt` is the construction
and validation of receipts with its fallback, whole. `FinishOrphan` is the
server: a transaction whose client is gone is rolled back, or, if it had been
sent COMMIT, perhaps committed. `Drift` and `ExecuteRestoreCapability` change
the database without the lock; `disturbed` remembers under whom.

What the model shows of the code besides its properties:
* the inverse is revalidated in its own transaction only, on a snapshot taken
  before it has the lock, with no observation after the lock as the forward plan
  has;
* `NOT_COMMITTED` may be answered for a COMMIT that the server performs later,
  when the driver's error has no network code (`commitFailureCode`); restoration
  may likewise be `VERIFIED` before a lost COMMIT lands;
* a committed plan without an operation whose final observation fails has
  neither a valid receipt nor a valid fallback, so the call throws (`Rejected`);
* the readiness checks after a commit do not compare the database with the state
  the plan intended;
* `scripts/platform-db-operation.mjs` passes no restore capability, so from the
  command line a plan with a pending migration is always refused.

### DurablePlan: what a plan's statements do

`DurableOperation` takes a right as a bit. `DurablePlan` has the access lists of a
relation, a type and the default privileges, with grantors, grant options, owners
and lists that are still NULL, as PostgreSQL changes them (`Granted`, `Revoked`,
`Renamed`, external), and beside it what the code predicts (`Derived`:
`deriveInverseModel`), the inverse it freezes (`Frozen`) and how it judges the
state it finds (`Restoration`, `StillPredicted`). One call runs alone, but one thing
may be changed by hand at any moment: a right, an unknown object, the activation of
the runtime, a membership, or the target itself. `MigrateDatabase` is
`scripts/db-migrate.mjs`; `OperatorCommand` is `scripts/platform-db-operation.mjs`.
The two verifications after an inverse are one step here (`DurableOperation` has
both); a connection breaks only at the final verification.

`CheckedInverseRestores` is said of plans run by the owner of their lists
(`RunsAsOwner`). It had been said of every plan, and the bound of its run hid that
this is false: what a superuser grants is granted by the owner of the list, while the
model of the code takes it to be the user's, and five statements by hand can make the
list look as predicted for an inverse that then revokes as somebody else. An owner's
list at its default is left out for a like reason: a REVOKE without effect writes it
out.

### HttpRoutes and PlatformServer: the process and its requests

`HttpRoutes` holds the contract table of `route-contracts.ts` and, separately, the
checks each branch of `node-adapter.ts` makes (`RouteChecks`, `SecuredBranches`);
that the second keeps the first is a property, not a definition. A path is a
sequence of segments, one of which may not decode. `PlatformServer` is the process:
`Start`, `Listen`, `Listening`, `Signal`, `ServerClosed`, `PoolEnded`,
`IdleConnectionLost`, and every request from one await to the next: `Arrive`,
`Dispatch`, `LookUpToken`, `ReadSession`, then `CommitChange`, `Revoke`, or
`BeginIssue` and `InsertToken`. The CSRF table (`tokens`) is written by serializable
transactions that are not retried. The mutations behind the admin routes are one
step (AdminTransaction takes them apart), and the launch, sign-in and service
routes one step with any answer (AppLaunch and SignInState have them).

### RecoveryEpoch and RecoveryStore; PersistedLocator

`RecoveryStore` is the store on disk (`disk`: the documents of each epoch in both
layouts) and the controllers, separate processes that share nothing but the disk
and the lock files (`call`: what a controller has still to write). `Write` replaces
one document; `Interrupt` ends a call between any two, as a failure or a crash does:
the lock is released and nothing is cleaned up. `Loads` is the reader with its
checks between documents, and decides what a crash has left. `RecoveryEpoch` is the
promise: each operation in one step, or the epoch closed for ever. The mapping
(`Seen`) gives of an epoch under a write what it was before, of any other what a
reader gets. A digest is the content it is computed from.

`PersistedLocator` is one request: the main thread (`Main`), two readers and the
writer (`Threads`), the queue of events, psql and PostgreSQL (`External`), and time
in ticks since psql was started. What psql prints is pieces of the marker, of an
answer, or something else, in any order and any chunks.

### DockerPsql and RuntimeActivation

`DockerPsql` is one psql in a container of its own: the docker client, the
container, the timers and the termination that settles a call only when both are
known to be gone. Its operators are handlers on a record `d`; `RuntimeActivation`,
which owns `d`, makes actions of them, and adds the tracker, the journal, the
permits with their attestations, a provider that may move the endpoint to another
branch (`Rebind`), and the wrapper. The repository has the wrapper only in
`tests/platform-runtime-activation-postgres.test.mjs:262-440`, and the model drives
the contract in that order.

### DatabaseCatalogue and DatabasePosture

`DatabaseCatalogue` is a catalogue as a value - roles with their attributes,
memberships with their three options, access lists, column grants, owners, default
privileges, objects, the migration ledger - and what PostgreSQL lets a role do
under it (`Usable`, `Creates`, `Owned`, `MaySet`: external). `DatabasePosture` is
what the platform asks of it (`RuntimePosture`, `GrantSetExact` in SQL and
`GrantSetError` in TypeScript, `ReadinessReport`, `CanonicalVerification`), and the
operators' statements, a start and the migrations after it. `PlatformConfiguration`
is what three programs make of one environment: the start (`ConfigurationAccepted`,
then `DependenciesComposed`), the dry-run check (`ReadinessMissing`,
`ReadinessInvalid`) and the seed command (`SeedRead`). A variable has one of the few
values its readers tell apart, a URL is its scheme, host and form; operators set,
mistype or lose one variable at a time (`Configure`).

What these models show of the code besides their properties:
* a plan passes when its commit and the final verification do, but that
  verification compares role posture and readiness, not what the statements were to
  do: a GRANT by somebody without the right is a warning to PostgreSQL, and the call
  passes having changed nothing;
* a revoke from PUBLIC that changes nothing still makes a NULL access list explicit,
  and the inverse then refuses; a superuser's plan on the migrator's objects is
  predicted with the wrong grantor and cannot be undone by its inverse; a committed
  plan that breaks the runtime's grants makes the state unobservable, and the answer
  is AMBIGUOUS without the inverse being tried; undoing a change of owner loses the
  rights the new owner had (the verification sees it);
* durable operations require the runtime role without LOGIN and without memberships,
  so they only run before its activation;
* the posture looks at type ownership and at USAGE on `public` in no query, and a
  routine with a NULL list is only seen by the readiness check; both are harmless
  while the other checks hold, which `OnlyContract` and `ReadyForMigrations` show;
* `supersede` of an active epoch whose runner has started writes a record that the
  loader rejects (the epoch is closed rather than superseded);
* two termination attempts, the default, can leave an activation's call unsettled
  after a single failed docker command; a rollback permit that expires before its
  use blocks the rollback;
* the loss of an idle connection ends the process, since the pool has no error
  listener; a second signal of the same kind kills it; a CSRF lookup that fails is
  answered 403 and a path that does not decode 500.

## 3. The runs

| Run | Instance | Distinct states | What it shows |
|---|---|---|---|
| `workspace` | one workspace with 3 people (one with a user row only), 3 sessions, 1 expiry, b may be deactivated; or two workspaces (one may be suspended) with 2 people, 2 sessions, 1 logout; 1 seeded membership | 289,051 | `TypeOK`, `AuditReplays`, `NeverOrphaned`, `RequestedApprovalsAwaitUnknown`, `BlockedOnlyByOperator`, `AdminRetained`, `GainsAreGranted`, `LastMembershipEndsSessions` |
| `admin` | two requests of six kinds by three people in two workspaces, one retry, under fairness | 1,202,672 | `TypeOK`, `AppliedAtMostOnce`, `ImplementsLedger`, `EveryRequestEnds` |
| `launch_race` | 2 requests at once, 1 token, 2 grants, 2 handles, 1 change of the world, 1 tick | 939,321 | `TypeOK`, `DecidedOnLiveFacts`, `TokenSpentOnce`, `HandleSpentOnce`, `FinalizedWithinLaunch` |
| `sign_in` | 3 states, 2 browsers, 2 starts and 2 callbacks at once, room for 2 states, 1 tick | 2,147,655 | `SignInTypeOK`, `StateSpentOnce`, `SignedInWhereStarted`, `ConsumedInTime`, `WithinCapacity` |
| `durable_race` | 2 calls with every pair of seven plans, 2 faults, 1 change by hand, under fairness | 181,800 | `TypeOK`, `ReceiptTruthful`, `ForwardOnPlannedState`, `EveryCallEnds` |
| `plans` | five databases, every plan of one or two statements on a relation or on default privileges, some on a type and on owners, by owner, outsider and superuser, 1 change by hand | 849,595 | `PlanInvariant`, `CheckedInverseRestores` |
| `server` | 2 requests and 2 sessions, room for 2 tokens, 2 signals, 2 ticks, under fairness; or one request of any shape to any of the 35 routes | 215,601 | `TokenInvariant`, `StopInvariant`, `RoutingInvariant`, `ShutdownEnds` |
| `recovery` | an epoch of each layout, 2 controllers, 1 interruption | 135,090 | `StoreInvariant`, `ImplementsEpoch` |
| `locator` | one request, a queue of 2 events, every timeout of 1 or 2 ticks, at most 2 rows of a kind, under fairness | 2,672,103 | `AnswersAreTrue`, `EveryRequestAnswered` |
| `activation` | one attempt, 4 docker rounds of which 1 fails, attestations valid for 2 ticks, 4 ticks, under fairness | 332,109 | `ActivationSafe`, `AttemptEnds` |
| `gates` | 2 changes by operators, of any parts of the catalogue or of any variables of the hosted environment (of the local one 1), a start, migrations | 146,584 | `PostureInvariant`, `ReportsAgree` |

`late_session` ends in a counterexample to `SessionCreationAuthorized`, a sentence
of the documents that the code does not keep: a known identity passes the
membership check, is removed, and its session is inserted afterwards.

A property that is a conjunction names its parts, each defined and explained by
itself in the module: `TokenInvariant` is `TypeOK`, `TokensBounded`,
`GivenTokenKept`, `ChangesByRight`; `StopInvariant` is `NobodyCutOff`,
`NothingLeftBehind`; `RoutingInvariant` is `ContractKept`, `NoRouteHidden`;
`StoreInvariant` is `TypeOK`, `OneRestore`, `UnconsumedIsTrue`, `NoCircularWait`;
`AnswersAreTrue` is `TypeOK`, `NotExecutedIsTrue`, `AnsweredOnceOver`,
`ResultIsTheDatabases`; `ActivationSafe` is `ActivationTypeOK`, `ChangesTracked`,
`SettledIsDead`, `OutcomeIsTrue` at every state and `DriftWindow` at every step;
`PostureInvariant` is `TypeOK`, `OnlyContract`, `RestartStillAdmitted`,
`HostedStart`, `RefusedBeforeConnecting`; `ReportsAgree` is `GrantChecksAgree`,
`ReadyForMigrations`, `NotReadyNamesAFailure`, `VerificationsAgree`,
`JudgementsAgree`; `PlanInvariant` is `PlanTypeOK`,
`DoneOrUndone`.

Every property of the passing runs has a mutant, and so has nearly every such
part: an operator in the module, marked `MUTANT`, that changes one definition the
way a plausible bug would, and under which the run finds the property violated.

### Bounds

The bounds are constants, and each is just large enough for the case its run is
about. Losing the last admin takes two admins and a third person to see it;
affiliation elsewhere takes two workspaces; the run has either, not both at once
(`OneOrTwo`). A write skew takes two transactions, and so does a wait for the
workspace's row lock; one retry exercises the loop, and the theorem covers every
number (the code's is two). A race on a token takes two requests, a handle swapped
between grants two of each. A count that goes wrong takes two starts and one place
left, and the third state is what would be one too many. In `launch_race` the
session's expiry lies beyond the clock and the entitlement starts as none or
enabled: the first-enable rule and the changes by hand reach the other statuses,
and the theorems hold for every expiry and every set of statuses. In
`durable_race` two faults reach a failed rollback and a failed inverse; one drift
reaches a restoration that fails; the plans whose migration would lock the ledger
are blocked for want of a restore (with one, the call waits for itself: below).

In `plans` two statements are what it takes for one to depend on the other, on one
entry or on the option of another. The plans `Invertible` names - run by the owner,
no list at its default - are the ones whose undoing `DoneOrUndone` promises; of the
others it says what a `restored` answer means.

In `server` two requests are what it takes to overlap; two sessions to confuse
them; a maximum of two tokens to evict the wrong one; a request of any shape is
alone and in a process that serves (`AloneUnlessWellFormed`), since what it is
checked for is its own; and what a request may lack it lacks one at a time. Two
requests are named in one order only (`EachPairOnce`). Tokens live for three ticks
of the clock, so that one may be issued, pushed out, or expire, under two issues that
read the clock at different instants; after the first instant nobody
leaves or signals twice, and the last is for tokens alone (`TokensAtTheLast`): a stop,
a departure and the end of the process ask nothing of the clock.

In `recovery` one interruption is every crash there can be, for the epoch it hits
is closed from then on or is as if nothing had happened. Two epochs are needed for
supersession and two controllers for every wait; one epoch at a time is worked on
(`OneAtWork`, `OneEpochAtATime`, `CreatedFirst`): calls for different epochs share
no document and no lock but those of a supersession.

In `locator` every period is one or two ticks, so that each may end before, at, or
after the others; a queue of two is full after a read of each channel. In
`activation` an attestation may be used up, and a moved endpoint be found out,
before the last tick. The number of rounds of docker cleanup is the one that
suffices for the failures allowed: the code's default of two does not survive one.
In `gates` two changes are what it takes to hide one behind another: a membership
and a grant to the role behind it, a default and its schema, an owner and a list, or
two variables that are read together. The changes of a behaviour are all to the
catalogue or all to the environment (`DriftApart`), for a start asks of each by
itself.

Deadlock is checked wherever the system cannot stop. It is off where it may: no
session id or state left to draw, the clock and the changes at their bound, every
call answered, the process or the attempt ended, an epoch closed.

### Fairness

`AdminTransaction.FairSpec`: weak fairness of `Progress(r)`, the next statement of
a request, its retry when it is doomed included. Node's event loop and the database
go on with every request they have. Failures and logouts have no fairness.
`DurableOperation.FairSpec`: weak fairness of each call's next step, and of
`FinishOrphan`, since the server ends a transaction whose client is gone. Weak
fairness is enough for a queue, for nobody returns to the lock for ever: a call
asks for it twice at most, a request once per attempt.

`PlatformServer.FairSpec`: weak fairness of each request's next step and of the
process's own: a query returns or fails, a body is read within the server's
timeout, and a server that has no connection left closes. Nobody is made to send a
request, to leave or to signal. `PersistedLocator.FairSpec`: the main thread is
scheduled, time passes, and PostgreSQL keeps the timeouts of its session; nothing
is assumed of psql, nor of the threads, which may never run again.
`RuntimeActivation.ActivationFairSpec`: the event loop runs its callbacks and timers, a
client that was killed closes, and a docker command ends, though it may fail.

### Where the code and the documents differ

Each of these was met while modelling, and is reachable in the model named.

* `late_session`, above (`WorkspaceAdmin`; docs/auth-session-security-contract.md:25).
* A first-admin approval for somebody the platform already knows is never looked at
  when that person signs in (`platform-identity-resolver.ts:101`; `WorkspaceAdmin`);
  docs/app-access-contract.md:108 says the sign-in "activates the admin membership".
* A finalization that is refused has consumed its handle, and the grant is validated
  all the same afterwards (`access-validation-grant-service.ts:30`; `AppLaunch`);
  docs/sqag-integration-contract.md:253 says "Finalization is atomic and one-time".
* A call whose plan has a pending migration, or a privilege on the ledger, locks the
  migration ledger (`durable-operations.ts:2882`), then waits for its own second
  observation, which reads the ledger on another connection (`:3842`;
  `DurableOperation`); src/db/README.md:34 lists such plans as accepted.
* A call that was rolled back runs its inverse over what another call of the same
  plan has committed and reported as PASS meanwhile, for it asks only whether the
  objects look as its plan would have left them (`durable-operations.ts:3580`;
  `DurableOperation`); src/db/README.md:38 promises an exact restoration.
* A docker client that dies by itself settles the password installation without its
  container being looked for, so that the rollback may run while psql still works
  (`platform-runtime-activation-contract.mjs:1258`; `RuntimeActivation`);
  docs/hosted-internal-alpha-runbook.md:650 says "Never start database rollback
  while the mutation process may still be alive."
* An issue of a CSRF token that read the clock early and commits late takes the place
  of a token younger than its own: `selectOldestCsrfTokenIds` leaves one place less
  than the maximum and the insertion then fills it, whatever its `createdAt`
  (`db/csrf-token-repository.ts:37`; `PlatformServer`).
  docs/auth-session-security-contract.md:30 says "only the oldest overflow tokens are
  evicted". `GivenTokenKept` says what does hold; an earlier form of it, which was the
  document's, could not be proved, and that is how this was found.
* An environment that `platform-readiness-check.mjs` passes may be refused by the start
  (a retired `AUTH_CLIENT_ID` or `AUTH_CLIENT_SECRET`, a short
  `PLATFORM_SQAG_SERVICE_SECRET` without the handoff, another
  `DATABASE_EXPECTED_RUNTIME_ROLE`) and by the seed command (a padded
  `PLATFORM_SEED_CONFIRM`, an overridden app key or name, a first admin with another
  role, a launch URL that is none). `JudgementsAgree` says that these are all the
  cases (`PlatformConfiguration`).

## 4. The proofs

The `*Proofs` modules hold theorems for any values of the constants that satisfy
the named assumptions of their modules: the roles contain `admin` and people are
finitely many; retries, clocks and bounds are naturals; requests are finitely many
and their paths are sequences of segments; a distinguished `None` or `Nobody` is not
a member; a plan is a sequence of operations the code would accept
(`PlansAssumption`), for a catalogue as PostgreSQL keeps one: who grants is the owner
or was granted the option (`CataloguesAssumption`, `WellGranted`). TLC evaluates the
same assumptions in the runs.

Three of the modules hold the proofs about two specifications that share no variable:
`IdentityProofs` (SignInState, WorkspaceAdmin), `RuntimeRoleProofs`
(RuntimeActivation, DatabasePosture) and `RestorationProofs` (DurablePlan,
PersistedLocator). This is why `Init`, `Next` and the type invariants of one of the two
have its name in theirs (`SignInInit`, `PlanNext`, `ActivationTypeOK`).

| Theorem | States | By |
|---|---|---|
| `IdentityProofs!TypeCorrect` | `[]TypeOK` | inductive as it stands |
| `AdminsRetained` | `AdminRetained` | whoever changes a row of w is another active admin of w whose own row that step leaves alone (`ChangedByAnotherAdmin`) |
| `NoOrphans` | `[]NeverOrphaned` | strengthened: while a workspace has no member, only its one first-admin approval can be accepted; an approval an admin asked for implies that an admin exists, since `AdminsRetained` |
| `AuditLogReplays` | `[]AuditReplays` | each action sets the same fields in both |
| `RequestedAwaitUnknown` | `[]RequestedApprovalsAwaitUnknown` | a first sign-in takes all approvals of its person |
| `GainsGranted` | `GainsAreGranted` | one step per action: which rows it touches, with which role, and who is behind it |
| `BlockedByOperator` | `[]BlockedOnlyByOperator` | strengthened by `Unblocked`: of a workspace into which no membership was seeded, the members are identified, and a first-admin approval waits alone and only while there are none |
| `LastMembershipEnds` | `LastMembershipEndsSessions` | only disable and remove take an affiliation, one at a time |
| `AdminTransactionProofs!TypeCorrect`, `AtMostOnce` | `[]TypeOK`, `[]AppliedAtMostOnce` | parts of `Inv` |
| `LedgerImplemented` | `Spec => Ledger!Spec` | `Inv`: the rows of a snapshot differ from the committed ones only where a transaction in `after` wrote; at commit, `Serializable` rules out that one of those is what the guard depended on |
| `AppLaunchProofs!TypeCorrect`, `LiveDecisions`, `TokensSpentOnce`, `HandlesSpentOnce`, `FinalizedInTime` | the five invariants of `launch_race` | `Inv == TypeOK /\ Addressed /\ TokenChain /\ HandleChain /\ Planned`: a request's target exists; a token that is being spent is held by one request and has no grant yet; likewise a handle; what a request need not read any more has held |
| `IdentityProofs!SignInTypes`, `StatesSpentOnce`, `SessionsStayInBrowser`, `StatesConsumedInTime`, `CapacityKept` | the five invariants of `sign_in` | `Inv == SignInTypeOK /\ Life /\ Ownership /\ Times /\ Counted`: the stages a state passes through and who may hold it at each; whose cookie is for what; which expiry a row has; and that a start which is not overtaken has counted every row |
| `NamesItsSignIn` | an identity that passes is of the sign-in of the state, subject and email | `SignedByProvider`, `MadeForPlatform`: what verifies is `Genuine`; then the nonce, and the userinfo's subject |
| `DurableOperationProofs!TypeCorrect`, `ReceiptsTruthful`, `CommitsOnPlannedState`, `TargetLockExclusive` | `TypeOK`, `ReceiptTruthful`, `ForwardOnPlannedState`, one holder of the lock | `Inv == TypeOK /\ Exclusive /\ Steady /\ \A e : Call(e)`: one transaction holds the lock; the database is on the prestate of whoever is past its last observation and holds it; where a call stands and what it has noted agree with what the server has done |
| `RecoveryStoreProofs!StoreSafe` | `[]StoreInvariant` | `IInv == Typed /\ Locked /\ Planned /\ Created /\ Consumed /\ OneRestore /\ UnconsumedIsTrue`: who holds which lock; what a call has still to write; that of two creations one makes the epoch; that a consumption has its ledger for itself |
| `EpochImplemented` | `ImplementsEpoch` | `Story` and `Halfway` besides: a document still to be written is of the state a call began with, the others of the one it ends with, and a reader gets the first, the second, or an error |
| `RestorationProofs!AnswersTrue` | `[]AnswersAreTrue` | `IInv == Typed /\ Framed /\ Asked /\ Timely /\ Witnessed /\ Ended /\ Unanswered /\ Final`: the statement is in the pipe once at most; an idle session and a statement keep the timeouts they were opened with, so that both are over when the host's deadline is; the end of a channel comes after all that was written to it; nobody but the database writes an answer |
| `PlanHolds` | `[]PlanInvariant` | `PlanIInv == PlanTypeOK /\ CallTyped /\ MadeFrom /\ Froze /\ Follows /\ DoneOrUndone`: the inverse is the one that was frozen, and while nobody else changes the database it is at every stage where the model of the code has it. For this, a list through one statement and back through its inverse (`ListForward`, `ListBackward`), a plan through all of them (`ForwardRuns`, `BackwardRuns`): the model follows the database, and PostgreSQL refuses no step back, since lists stay `WellGranted` (`StaysWell`) |
| `InverseRestores` | `CheckedInverseRestores` | what the plan touches is as predicted when the inverse begins (`Near`), and after each step back it is as the model had it before the statement (`NearBack`, `AllBack`), whatever else has changed |
| `RuntimeRoleProofs!ActivationHolds` | `ActivationSafe` | `AInv == Sorted /\ CallOK(d) /\ Placed /\ Numbered /\ Tracked /\ Quiesced /\ Truth /\ Evidence`: what a call of docker and psql may be while it is under way, settled or dead (`CallOK`); that a change is tracked from before it is possible; that between two calls nothing runs; that a permit is of an attestation still valid |
| `PostureHolds` | `[]PostureInvariant` | `Admission`: nothing is made before an admission, and what is admitted keeps the posture and the configuration; `PostureKept`: what a migration makes under defaults that were checked is open neither to the runtime nor to PUBLIC |
| `ReportsHold` | `[]ReportsAgree` | the report, by cases (`ReportIs`); the three judgements of an environment, variable by variable |
| `PlatformServerProofs!TokensSafe`, `StopSafe` | `[]TokenInvariant`, `[]StopInvariant` | `IInv == Phased /\ Requested /\ Stored /\ GivenTokenKept /\ NobodyCutOff`: what the phase of the process says of pool, listener and handlers; what a request has shown and read; that an issue that is about to insert has made room unless another has committed since |
| `RoutingSafe` | `[]RoutingInvariant` | `Routed` on top of it: row by row, the table agrees with the branches (`RouteAgrees`); the length of a path and its second and third segments tell the one method of its route (`MethodOf`), so no row hides another; at each await a request has passed the checks before it (`RouteOK`) |

None of these properties is inductive by itself: each speaks of results, and what
makes a result right is in the middle of the requests that are under way. The
strengthened invariants were checked by TLC before they were proved.

Trying to prove a property changed four of them. `GivenTokenKept` had been what the
documents say and was false beyond the bounds of its run, which then got a second tick
(above); `CheckedInverseRestores` had been said of superusers too and was false beyond
its one statement by hand (above). `EpochImplemented` needed that a restore is only
authorized once a runner has started, which no property says. `RoutingSafe` needed the
order in which a branch makes its checks, where the property only speaks of the request
that was handled. The activation needed that a grace period or a pending retry implies
a termination under way, and that a client which was never born has no container.

What the theorems add to the runs: `plans` has plans of two statements and one change
by hand, the theorems plans of any length and any number of changes; `gates` has the
catalogue and the environment of one start changed apart and twice at most, the
theorems together and without end; `activation` has four rounds of docker, four ticks
and fixed periods, the theorem any.

Only model-checked:
* liveness (`EveryRequestEnds`, `EveryCallEnds`, `ShutdownEnds`,
  `EveryRequestAnswered`, `AttemptEnds`): the prover does not handle ENABLED;
* `late_session`, which is a counterexample.

No proved module declares or reaches a recursive operator, and the library's theorems
on induction and recursive definitions take an operator the provers cannot
instantiate. What holds after every statement of a plan is therefore defined by a
recursive function of the place in the plan (`Applied`, `Deriving`); that the function
exists (`AppliedIs`, `DerivingIs`) and what holds at each place are proved by
induction over a set of places, from the well-foundedness of the naturals
(`Inductive`; `LeastIsIn` is the same for the least index of a sequence with a
property). The roles reached through memberships are four steps of a closure, which
three lemmas expand.

## 5. What is not modelled, and why

* Of an id token, base64, JSON, the filter on its metadata and the name it gives;
  header and cookie parsing; response headers: functions of one message.
* Row mapping and schema readers; `runtime-grant-contract-validator.mjs`, a static
  reading of SQL and documents: pure functions of texts.
* Pages and the public site; test harnesses and evidence capture, which run a fixed
  sequence of the operations modelled here on a database they discard.
* Of the configuration: the text of a variable (its value is one of those the readers
  tell apart), secrets beyond their length, and what the adapters are built from.
* PostgreSQL, docker and psql themselves: serializable isolation, row and table
  locking, GRANT, REVOKE and ALTER, SET ROLE and default privileges, timeouts and
  exit codes are modelled from how the code relies on them, and marked external.
* In `durable-operations.ts`, columns, serialization to bytes, and the operations on
  memberships and role posture, which `createDurablePlan` refuses to plan.
* In the recovery store, hardening of the file system, the bytes of frames and the
  lexical parsing of requests; that a document is replaced and flushed atomically is
  assumed.
* In the activation contract, redaction, the shape of evidence, and a statement
  under way in the server when its container is removed: psql's statement is applied
  at once or not at all.
* In the posture and the readiness, identity, version and session settings, and the
  rights on a single column, taken as one on the table.
* The posture is asserted once, before the process listens; what operators change
  afterwards is not seen until it starts again, and the model ends with the start.
* Observations the models contain without a property, since no document promises the
  contrary: an admin's update of an app entitlement is not refused while the operator
  has suspended it; revoking by id alone overwrites the time of an earlier
  revocation; a launch token is spent although the grant that should follow could
  not be written; of two sign-ins started at once one may be answered with a failure
  although there is room; the failed callback of one tab clears the binding cookie of
  another's; a committed plan without an operation whose final observation fails gets
  no receipt.

## 6. Plan

1. *done* `WorkspaceAdmin`, then `AdminTransaction` beneath it with `AdminLedger`
   as its abstract promise; `AppLaunch`, `SignInState`, `DurableOperation`; their
   proofs.
2. *done* `RecoveryStore` with `RecoveryEpoch` as its promise, `PersistedLocator`;
   `HttpRoutes` and `PlatformServer`; `DockerPsql` and `RuntimeActivation`;
   `DatabaseCatalogue` and `DatabasePosture`; `DurablePlan`.
3. *done* Proofs of `GainsAreGranted` and `BlockedOnlyByOperator`; of the invariants
   of `PlatformServer` for any number of requests and any maximum; of `RecoveryStore`
   and that it implements `RecoveryEpoch`; of `PersistedLocator`;
   `PlatformConfiguration`.
4. *done* The claims and keys an identity token is judged by (`OidcIdentity`), in
   front of `SignInState`; proofs of `ActivationSafe`, `PostureInvariant`,
   `ReportsAgree`, `PlanInvariant` and `CheckedInverseRestores`.
   Left: the session context's reads.
5. A statement under way in the server when a container is removed, for
   `RuntimeActivation`; column privileges, for `DatabasePosture` and `DurablePlan`.
