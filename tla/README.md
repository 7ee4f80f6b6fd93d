# Zolt: a verification project

TLA+ specifications of the parts of Zolt whose correctness depends on the order
of things: queues, workers, retries, concurrent decisions, deliveries, sessions,
administration. Every
definition is translated from the TypeScript source; `PROJECT.json` maps each
one to its lines.

    tlc -workers 2 -config MCTelemetryPipeline.cfg MCTelemetryPipeline.tla
    tlapm TelemetryPipeline_proofs.tla

## 1. The system

Zolt takes telemetry of energy installations in, analyses it, and keeps
recommendations that people decide on. It runs as four kinds of process:

- **api** (Fastify, `apps/api`): ingest, analysis, decisions, administration,
  an event stream;
- **connector-gateway** (`apps/connector-gateway`): signed GridFlex batches;
- **worker** (`apps/worker`): two BullMQ workers, telemetry and webhooks;
- **console** (`apps/console`): a user interface without state of its own.

They share a Postgres database (`packages/database`), Redis (BullMQ queues,
replay claims, rate counters) and nothing else; what a process keeps in memory
(identity cache, credential cache, the fairness gate, fallbacks of the rate
limiter and of the replay guard) is private to it and dies with it.

### Inventory

| component | state | operations | what is hard |
|---|---|---|---|
| queues (`packages/queue`) | BullMQ jobs of `telemetry-ingest`, `webhook-delivery`, `dead-letter`, `poison-quarantine` | `enqueueTelemetry`, `enqueueWebhookDelivery`, `enqueueDeadLetter`, `retryDeadLetter`, `purgeDeadLetters`, `queueHealth`, `listDeadLetters`, `reconnectQueue`, `pingQueue` | deterministic job ids against retained jobs; a retry of two steps; reconnection under callers |
| telemetry worker (`apps/worker/src/index.ts`) | the job it runs | age check, save, analyse, save recommendations, audit, announce; `failed` handler | a crash between any two awaits, lost locks, stalls, an unawaited dead letter |
| webhook worker (same file, `webhook-dispatcher.ts`) | the job it runs | deliver, record, mark; `failed` handler | a database error after an accepted delivery; concurrent failures |
| fairness gate (`packages/queue`, `TenantFairnessGate`) | `active`, `waiters` | `run` | wake-ups, barging between a resolution and its continuation |
| telemetry and devices (`repositories/telemetry.ts`) | message rows, `lastSequence`, `lastSeen` | `saveTelemetryEnvelope` | upserts by concurrent workers, order judged from an earlier read |
| recommendations (`repositories/recommendations.ts`, `packages/core`) | rows, decisions, feedback | `saveRecommendations`, `updateRecommendationStatus`, feedback | read, check, write by id; upserts meanwhile |
| webhooks (`repositories/webhooks.ts`) | endpoints, delivery rows | list, record, mark, create, rotate | two-statement disabling; the status is not looked at on writing |
| installations (`repositories/installations.ts`) | identities, a 30 s cache per process | resolve, ensure | stale cache, automatic provisioning |
| tenant operations (`repositories/operations.ts`) | tenant, members, retention settings | export, offboard, delete, retention, operators' grants, provisioning | audit before the transaction; several transactions; users deleted from a list read earlier |
| credentials (`repositories/credentials.ts`) | credential rows, a 15 s cache per process | create, approve, resolve, rotate, revoke | a revocation racing a lookup, caches of other processes |
| users, sessions, tokens (`repositories/users.ts`) | users, sessions, one-time tokens, MFA | login, logout, invite, reset, MFA, switch tenant, deactivate | counters and one-time tokens that are read, checked and written |
| roles and installation access (`users.ts`, `fleet.ts`, the routes) | member roles, access rows, audit events | assign, remove, grant, revoke; every scoped read and write | permissions kept from authentication; check and query in separate awaits |
| platform access | grants in memory | request, approve | nothing reads the active grants |
| incidents (`repositories/incidents.ts`) | incidents, comments in a JSON column | open, update, comment | lost updates, audit after the write |
| audit (`repositories/audit.ts`) | append-only events | `writeAuditEvent` | the event and what it records are two statements |
| admission (`packages/auth`) | replay claims, rate counters | `requireApiKey`, `requireSignedIngest`, `enforceRateLimit` | a claim before validation; a fallback to memory |
| gateway (`apps/connector-gateway`) | - | batch ingest | a batch enqueued in part |
| mlops (`packages/mlops`) | model registry of a process | register, promote, drift, list | two champions |
| validation and quality (`packages/core`) | - | check of an envelope, scores, trust | thresholds that are set apart |
| optimisation (`packages/optimisation`) | the plan of a horizon | optimise an hour, simulate it, go on | planner and simulator written apart |
| soak tests (`scripts/soak-supervisor.ts`, `load-test.ts`) | report files, detached processes | start, poll, adopt, restart | files written non-atomically, processes that die |
| other algorithms (twin, analytics, energy pack, copilot) | - | pure functions | boundaries |

Interactions: the API and the gateway enqueue telemetry; the telemetry worker
writes rows and recommendations and enqueues webhook jobs; the webhook worker
calls subscribers and writes back to their endpoints; both workers run every
job through one fairness gate and both send what they give up on to the dead
letter queues; administrators retry and purge those; people decide on
recommendations through the API while workers upsert them; offboarding writes
the same endpoint and installation rows as the workers.

### What makes each part correct

- *ingestion*: an accepted message is processed, or held where an
  administrator sees it, or lost only by a step known to lose messages; no
  message is processed twice at once; subscribers are told only of what is
  stored; every job comes to rest;
- *gate*: its counters are exact, no wake-up is lost, every call runs;
- *recommendations*: decided rows do not reopen, whoever is on record was
  entitled to decide, the audit trail is true;
- *webhooks*: "delivered" rows were delivered, the failure limit neither
  leaks nor fires early, every delivery is accepted or dead-lettered;
- *credentials*: a cache answers for an ended credential for its lifetime at
  most; what was ended never works again; of two keys of a rotation one works;
- *accounts*: only failed logins lock, only a confirmed second factor is asked
  for; a reset or a deactivation ends the sessions of every tenant, a general
  logout those of one, and who is deactivated stays out but for calls that were
  already under way;
- *access*: whatever a user reached was granted, and the audit trail explains it;
- *tenants*: an archived tenant has its offboarding event, and users go with
  their last tenant;
- *devices*: a flag on a message has a reason, whatever order saves come in;
- *admission*: a request is let through once while its signature is in date, a
  claim lasts as long as the signature it stands for, 202 means the whole batch,
  a rate window ends;
- *incidents, models*: a comment is lost by overlapping updates only; one
  champion;
- *queue connection*: reconnecting leaks no connection and loses none;
- *dispatch*: the simulator accepts what the planner proposes, and its clamp hides
  no more than the rounding of a plan;
- *soak tests*: several days are earned by one, and run once.

`PROJECT.json` lists the hazards at their lines with the properties that watch
them.

## 2. The modules

| module | models | extends / instantiates |
|---|---|---|
| `FairnessGate` | `TenantFairnessGate.run` in its three synchronous segments | - |
| `TelemetryPipeline` | a telemetry message from `enqueueTelemetry` to its effects | `WorkLedger` (refinement) |
| `WorkLedger` | what the workers promise for an item of work (abstract) | - |
| `RecommendationLifecycle` | upserts of and decisions on recommendation rows | - |
| `WebhookDelivery` | webhook jobs and the endpoint they report to | `WorkLedger` (refinement) |
| `Credentials` | credential rows, the cache of each process, lookups and administration | - |
| `Admission` | rate counters, replay claims and the gateway's batch loop | - |
| `Incidents` | incidents, their comments and status under concurrent updates | - |
| `Accounts` | one account: login, lockout, second factor, tokens, sessions | - |
| `Tenancy` | tenants from provisioning to hard deletion, members and operators | - |
| `InstallationAccess` | changes of roles and access, and the requests they decide on | - |
| `QueueConnection` | `pingQueue` and `reconnectQueue` | - |
| `ModelRegistry` | the model cards of one process | - |
| `Measurements` | check on arrival, device and message rows, quality | - |
| `Dispatch` | `optimiseSite`, `simulateDispatch` and `runHorizon` | - |
| `SoakHarness` | the soak supervisor, the harnesses and their reports | - |
| `MCRequests` | credentials, admission and decisions side by side | these three |
| `MCOperations` | the nine from `Incidents` to `SoakHarness` side by side | all nine |
| other `MC*` | constants for TLC | the module of the same name |
| `*_proofs` | theorems | the component and `TLAPS`; `Operations_proofs` and `Access_proofs` take several components |

**One step per await.** JavaScript runs to completion between awaits, so an
await is where another request, job or process can get in. Every action is the
code between two awaits, with all it changes. An await that can reject has an
action for that as well.

**FairnessGate.** `active` and `waiters` are the two maps (an absent entry is 0
or the empty sequence); `pc[s]` is where the call of slot `s` is. `RunAdmitted`
and `RunQueued` are the two ways through the synchronous entry of `run`,
`Resume` the continuation after the awaited promise, `Finish` the `finally`
block. Resolving a promise only schedules the continuation: a resolved waiter is
a state of its own, in which other calls may enter.

**TelemetryPipeline.** `state`, `attemptsMade`, `stalledCount`, `lock` and
`aged` are what BullMQ keeps of the job with a message's id; `pc`, `cur`,
`todo`, `targets` are where a worker process is in the job body; `flight` holds
the letters of `void enqueueDeadLetter` calls not yet acknowledged, `letters`
those stored; `admin` is the progress of `retryDeadLetter`. The effects are
`rows`, `recRows`, `audited`, `hooks`. `accepted` and `exposed` are history:
what the API accepted, and what went through a step that can lose a message.
Actions follow the job body in order (`CheckAge`, `Save` or `SavePoisoned` and
`Quarantine`, `Analyse`, `Audit`, `Notify`, `Complete`); `Throw` is the failed
handler. BullMQ itself (`Take`, `Promote`, `RecoverStalled`, `LoseLock`,
`moveToFailed`, `moveToCompleted`) is external and modelled as far as the code
relies on it: a known job id makes an add a no-op; a worker without the lock
changes nothing of the job; stalled jobs run again or fail.

**WorkLedger.** For each item of work a fate (unknown, pending, processed, held,
lost), the moves between fates, and the rule that an item becomes lost only
when it went through a risky step; pending items do not stay pending. Both
workers implement it: `TelemetryPipeline` with `Items <- Messages`, `risky <-
exposed`, `WebhookDelivery` with `Items <- Jobs` and the jobs whose letter was
lost or that stalled out as the risky ones; `fate <- Fate(..)` in each.

**RecommendationLifecycle.** `status` and `decidedBy` are columns, `request[a]`
is the PATCH of principal `a` between its read and its write, or between its
write and its audit event. `Save` is the upsert of an analysis, `Read` the
checks, `Write` the update by id, `Audit` the event.

**WebhookDelivery.** Per job the BullMQ state and the place in the processor;
`status` and `failureCount` are the endpoint's columns, `row[k]` the delivery
row of an idempotency id. `MarkFailure` and `Disable` are the two statements of
`markWebhookResult(.., false)`.

**Credentials.** `status`, `revoked` (revokedAt is set), `overdue` (expiresAt
has passed) and `rotatedFrom` are columns of the credential rows. Time appears
as durations: `cache[p][c]` is how much longer the entry of process `p` is
valid, `elapsed` how long a lookup has been running since it read the clock,
and `endedFor[c]` (history) how long ago `c` was revoked or expired;
`CredentialTick` moves them all. `lookup[k]` is a call of `resolveApiCredential` between its
statements, `request[a]` an approval, a revocation (between the update and the
invalidation of the cache of the API process) or a rotation (find, update,
invalidation, insert). Bulk revocation and offboarding are one statement each
and invalidate nothing.

**Admission.** `count` and `left` are the rate counters and what is left of
their windows, `claim` the replay claims, each in Redis and in the memory of
every process; `limiter[p]` and `guard[p]` say which of the two stores process
`p` uses: Redis until its client throws once, its own memory from then on.
`call[k]` is a request between two awaits: at a rate key (`LimitKey`, `Incr`,
`Pexpire`), at its claim (`Authenticate`, `SetReturns`), in the batch loop
(`Validate`, `Enqueue`, `Accept`). `LimiterThrows` and `GuardThrows` are the two
`catch` blocks, `HandlerThrows` an await of the loop that rejects; a rejected
command may have taken effect. Time appears as durations moved by `Tick`: the
age of a request counts from the first instant its timestamp is acceptable, for
a clock that is ahead, to the last. `granted` and `handled` are history: which
stores let a request through, and which requests were let through at all.

**Incidents.** `incident[i]` is the row, `update[u]` a request between its read
and its write, or before its audit event. The write puts back the whole row that
was read, with one comment appended. `written` and `unseen` are history: what
was written, and what an update had not read.

**Accounts.** `account` is the user row, `session`, `token`, `code` the other
tables; `request[k]` a call with what it read. `WrongPassword` and `CountFailure`, or
`RightPassword`, `FindCode`, `UseCode`, `Enter` and `OpenSession`, are the awaits
of a login; operations in a transaction (reset, deactivation) are one action. A
session has a tenant: `RevokeAll` ends those of one, as `revokeAllUserSessions`
does, a reset and a deactivation those of all (`EndSessions`). `since` and `late`
are history: sessions opened since those of their tenant were last ended, and
those of them opened by calls that were under way at that moment.

**Tenancy.** `work[k]` is a call between two statements: resolution and
provisioning of an identity, the grants of an operator (three upserts per
tenant), an invitation, offboarding (event, then transaction), deletion
(roles, members, transaction, users), retention (tenant by tenant). Constraints
of the database are guards; any await may reject (`WorkFails`). `GrantAll` and
`GrantOne` are what a login grants an operator: every live tenant, or the one that
was asked for, archived or not. `owed` and `unlisted` are history: users whom a
deletion left without a tenant, and those of them who joined after it had read its
list of members.

**InstallationAccess.** A change writes its row and then its audit event, which
may fail (`lost`). A request authenticates, which fixes its permissions, checks
its access and queries; `reached[q]` is what it was given. A route's kind says
where it checks: in the query, before it by id, or before it by external key;
that key names sites of several products, so access to one reaches the others.
The event stream checks once, when it is opened.

**QueueConnection.** A reconnection remembers the connection that is current
(`Reconnect`), awaits its closing and then, in one segment, ends it and makes a
new one (`Replace`), for which it waits (`Landed`). A ping reads which connection
is current whenever it goes on.

**ModelRegistry.** Each operation is synchronous and so one action;
`crowned` remembers who promoted what. Listing the models registers the
built-in ones again.

**Measurements.** `Valid` is the check of time, range and unit (a measurement that no
range covers has neither checked), `ReadDevice`, `SaveDevice` and `SaveRow`
the three statements of `saveTelemetryEnvelope`; times are minutes of lateness,
scores thousandths.

**Dispatch.** `PlanHour` proposes a plan for an hour, simulates it, clamps the
state of charge and goes on; `strategy` is greedy or rolling. An energy is a whole
number of ten-thousandths of a percent of the capacity, the last digit that the
simulator keeps of a state of charge; `Grain` of them are a watt-hour, the last
digit that the planner keeps. Both round to the nearest (`Nearest`), so a plan may
ask for half a watt-hour more than there is: in `tests/optimisation.test.ts:54-69`
the state of charge goes to 14.99993 under a reserve of 15 and is clamped, and
`left` (history) remembers what it was before. What the simulator compares is not
rounded, hence `AfterFloor` and `AfterCeiling`.

**SoakHarness.** Supervisor and harnesses share only `report[kind]`; a report
that is being written may be read as none. Either process may die anywhere.
A multi-day harness that dies leaves its report in progress, and the supervisor
then waits for ever: the properties speak of what may run, not of what must.

## 3. The runs

| run | result | what it shows |
|---|---|---|
| `fairness_gate` | holds | no wake-up is lost; every call runs |
| `fairness_gate_limit` | violated | more than `maximumPerTenant` operations run when a call enters between a resolution and its continuation |
| `telemetry_pipeline` | holds | nothing is lost silently, announcements follow storage, one processor per message, every job settles, `WorkLedger` is implemented |
| `dead_letter_retry` | violated | retrying the letter of a job Redis still retains adds nothing and removes the letter |
| `requests` | holds | *credentials*: caches are stale for the cache lifetime at most, what was ended stays ended, one key of a rotation works; *admission*: claims outlive signatures, no store lets a request through twice, 202 means the whole batch; *decisions*: no reopening, settled rows stay, the actor on record was entitled, the trail is true |
| `recommendation_table` | violated | two decisions that read the same status both write |
| `webhook_delivery` | holds | delivery rows and failure limit are right, `WorkLedger` is implemented; every delivery ends accepted or dead-lettered |
| `webhook_offboarded` | violated | a delivery in progress re-enables an endpoint that offboarding disabled |
| `replay_single_use` | violated | a request claimed in Redis passes again where the Redis client has thrown and the memory of the process stands in |
| `rate_window` | violated | a counter whose PEXPIRE is lost never expires |
| `installation_grants` | violated | access to one product's site reads another product's site of the same external key |
| `operations` | holds | comments are lost only by overlapping updates; locks and second factors are earned; ended sessions are over; offboarding is on record and users leave with their tenant; one connection; feasible plans; one champion; justified flags; earned multi-day soaks; what the lists and the feedback route reached is explained |

The seven violated properties state what a document or a test of the repository
says; `PROJECT.json` quotes them under `findings`.

### Bounds

- *gate*: five slots, two tenants, limit 2. Two operations run, two wait and one
  barges in, for one tenant while another is active; the proofs cover the rest.
- *pipeline*: one message (messages meet only in the fairness gate and in
  `Trim`, which is nondeterministic), two workers (a stale one and its
  successor), one administrator, two attempts instead of five (a first, a last),
  one recommendation and one endpoint, and per behaviour one crash with either a
  lost lock or a trim (`Budgets`). The proofs cover any number of each.
- *decisions*: one row, since requests of different rows share nothing, and
  three principals with disjoint permissions.
- *webhooks*: two jobs, one from an event and one from the test route, attempts
  2 and limit 2 (both can be reached and passed), two faults (`MaxFaults`), one
  retried letter (`MaxRetries`). Deadlock is not checked: all jobs may be done.

- *credentials*: a credential and its replacement, the API and the gateway, two
  administration requests at once of which one rotates, one of the two credentials
  expiring, one lookup, and a cache lifetime of one unit:
  an entry is valid or gone, a lookup fresh or too slow. Credentials are
  interchangeable, and so are requests; the run checks no liveness, so symmetry
  is sound.

- *admission*: two gateways, two calls of the same request at once. A behaviour
  is about one of three requests (a batch of two, a batch whose second message
  does not validate, a request with a rate key and no good credential): limiter
  and guard share no state, so the run explores them side by side and not in all
  combinations. Limit 1, a window of one unit, a skew of one unit: age takes
  every value from the first to the last acceptable instant and beyond, the limit
  is reached and passed. `rate_window` needs one key and no skew.

- *requests*: credentials, admission and decisions share no state, so in each
  behaviour one of them moves (`part`), under the bounds of the three items above.
  `replay_single_use` and `rate_window` take admission alone.

- *installation grants*: one user, two sites of one tenant under one key, one
  change at a time, one request.

- *operations*: the nine components share no state, so in each behaviour one of
  them moves (`part`) and the run explores them side by side. Accounts are taken
  in three parts (second factor, tokens, failed logins) and tenants in three
  (records, people, provisioning); `AccountFocus`, `TenancyFocus`, `SoakFocus` and
  `AccessFocus` say what each leaves out (issuing a token, for one, runs beside no
  other call, and s1 is a manager of one tenant only), `IncidentOrder` that four
  of the seven incident statuses are left out; a person of the two operates the
  tenants that are seeded. Four updates of one incident; two calls
  of one account with threshold 2, two sessions, two secrets; two tenants, two
  users, two calls; four connections for two pings that overlap with two
  reconnections (three are ended); two hours at nine sites with both
  strategies and three states of charge to begin with (`Charges`: the reserve, the
  maximum, the middle); two versions in two scopes; three messages, two of them
  numbered, saved by two workers in any order and again; two harnesses, so that
  a second multi-day soak is possible; four sites (two products
  under one key, two keys, two tenants), two events, one request. Ids that only
  have to be fresh are taken in order; the two calls `c1` and `c2` are
  interchangeable and the run checks no liveness, so symmetry is sound.

Deadlock is not checked for the webhooks, whose jobs may all be done, nor for
`operations`, where a horizon ends and so do requests.

### Fairness

Weak fairness only, and only of steps that something is obliged to take: the
event loop runs scheduled continuations; awaited calls settle (database, Redis
and HTTP clients time out); BullMQ hands out waiting jobs, promotes delayed ones
and checks for stalled ones on its timers. Arrivals, crashes, lock losses,
administrators and subscribers are never obliged to act. Crashes are bounded by
the budgets: liveness would fail, as it should, in a system that never stops
crashing.

`rate_window` assumes in addition that time passes (`Tick`); restarts are never
obliged to happen, and the counterexample needs a single one.

## 4. The theorems

The proofs hold for every value of the constants under the named assumptions.

- **`FairnessGate_proofs`** (`GateAssumption`: a limit of at least 1, finitely
  many slots): `TypeCorrect`, `ActiveIsExact`, `ParkedIsQueued`,
  `NoLostWakeUp`. They are parts of one inductive invariant: `NoLostWakeUp`
  needs the exact count, since the decrement that wakes a waiter is clamped at
  0, and the count needs to know that a running slot has a tenant.
  `ParkedInOrder` is the measure behind `EveryCallRuns`: no step puts a call
  ahead of a parked one, and an operation of its tenant that ends takes one away
  or resolves the call itself. What is left to TLC is that the operations ahead
  do end, which is fairness. `OnlyBargingExceeds` says when the limit holds that
  `fairness_gate_limit` shows broken: as long as no call enters between the
  resolution of a waiter of its tenant and the waiter's continuation
  (*PlacesSuffice*: running and resolved calls together stay within the limit).
- **`TelemetryPipeline_proofs`** (`PipelineAssumption`) builds its invariant in
  four layers, each proved inductive with the help of those below. *Base*: types,
  whoever holds a lock is a worker running that message, stall and attempt
  counters fit the job state, an administrator past the read holds a letter.
  *Work*: while no lock was lost a worker owns its job; a worker past a step
  left the step's effect behind. *Letters*: numbers of letters are below
  `issued`, and letters in flight are of jobs that failed. *Evidence*: each
  accepted message is live, processed, held or exposed, and a worker about to
  complete has either processed or quarantined its message. From these:
  `TypeCorrect`, `AnnouncedIsStored`, `NeverProcessedTwiceAtOnce`,
  `NoSilentLoss`, and `ImplementsLedger`, the safety part of the refinement,
  by mapping each kind of step to a move of the ledger or to a stutter;
  `ProcessedForGood` states the part of it that matters to a reader: no retry,
  purge, trim, crash or stale processor takes a processed message back.
- **`RecommendationLifecycle_proofs`** (`LifecycleAssumption`): `TypeCorrect`,
  `ActorOnRecord`, `TrailIsTrue`, `NeverReopens`, `SettledIsFinal`. A request
  past its check carries a decision its actor may make, whatever happened to
  the row since: that is what makes the invariant inductive.
  `DecisionsAreAuthorised` extends the claim from the row to all that was ever
  written and to the audit trail. `TableHoldsOneByOne` gives the condition of the
  claim that `recommendation_table` refutes: the column follows the transition
  table as long as no two requests are past their checks of one row at a time,
  however many analyses save in between (*StillAllowed*: what a request is about
  to write is still a move from the status there is).

- **`Credentials_proofs`** (`CredentialAssumption`): `TypeCorrect`,
  `StaleBound`, `OneOfTwoKeys`, `EndsForGood`. The invariant has two parts of its
  own. *Dates*: a status that ends a credential stands on a date (revocation or
  expiry) that no later write takes back, though the status itself may be
  overwritten by an approval in progress; this is why an ended credential stays
  unusable. *Ages*: a lookup that found a credential usable started before the
  credential ended, so it has been running at least as long as the credential
  has been ended; since the entry it leaves is shorter by exactly that time, the
  staleness bound follows.

- **`Admission_proofs`** (`AdmissionAssumption`): `TypeCorrect`,
  `ClaimsLastLongEnough`, `OncePerStore`, `AcceptedBatches`. *Remembers*: the
  length of a claim and the age of its request together reach the end of the
  signature; time moves one down and the other up, and this sum is what relates
  the two constants of the code. `OncePerStore` adds that a claim is only ever
  made where there is none, and `OnceWhileInRedis` that one store is enough for all
  processes as long as no client has thrown. *BatchSoFar*: every message before the place of the
  loop is valid and in the queue; with `Places` (where a call may be) it gives
  `AcceptedBatches`.

- **`WebhookDelivery_proofs`** (`WebhookAssumption`): `TypeCorrect`,
  `RecordIsTrue`, `LimitIsEnforced`, `DisabledForAReason`, `NoLetterForgotten`
  (`GivenUpHasLetter`), `ImplementsLedger`, `DeliveredForGood`,
  `DrainedStaysDisabled`.
  *DueToDisable*: a job that is about to disable the endpoint has seen the limit
  reached; *Answered*: a job
  past the call knows its answer. Together they give the record and the limit;
  *JobsFit* (counters against job states) gives the letters. The refinement adds
  *OneWayOut*: a job that stalled out has no letter, so being at risk is for
  good. `DrainedStaysDisabled` gives the condition under which what the
  offboarding documents say is true, which `webhook_offboarded` refutes without
  it: no delivery is in a worker from the offboarding on.

- **`Operations_proofs`** (`QueueAssumption`, `RegistryAssumption`,
  `IncidentAssumption`, `MeasurementAssumption`, `SoakAssumption`,
  `DispatchAssumption`; none for tenancy).
  `NoConnectionLeaks`: at most one reconnection is in progress, and until it
  replaces the connection the one it remembers is current (*OneFlight*).
  `PromotionsCrownOne`: a promotion retires the champions of its scope, and what
  the fallback promotes for a tenant no longer counts for the global scope.
  `CommentsAreKept`: who is about to write has read every comment or has it
  among those not seen (*ReadersKnow*). `FlagsHaveReasons`: whatever a save
  has read of a device is below the highest number; and 15 minutes leave
  nothing of the clock score that high trust asks 0.8 of.
  `MultiDayFollowsDay`: only a closing harness writes a report that passes
  (*EarnedFirst*), and a multi-day harness that is not closing has its report in
  progress (*OneAtATime*). `OffboardingLeavesRecord`: the event stays young while
  its offboarding is in progress (*Recorded*), and what a retention is about to
  delete is not the only event of an archived tenant (*Kept*).
  `DeletionTakesUsers`: who is owed a deletion has no membership (*Left*), and a
  deletion that goes on lists all who had one (*Listed*). It speaks of those the
  deletion had listed; `unlisted` names the others, whom the code leaves without a
  tenant. `TenancyTypeCorrect`, `MeasurementTypeCorrect`: types, down to the bounds of
  the scores.

  *Dispatch.* `PlannerAndSimulatorAgree` and `OnlyTheReserveIsAtStake` hold for any
  site, horizon, limits and strategy. The planner offers the round trip's share of
  what the battery holds, the simulator takes a discharge divided by the square
  root. Lemmas about quotients, their floors, ceilings and nearest numbers bound
  each charge by the room and half a watt-hour, and each discharge by what is held
  above the reserve and half a watt-hour, which the square root makes a whole one at
  most; both are within the 0.05 percent that the simulator lets pass, and they
  are all that the clamp hides. This needs a comparison of the two efficiencies
  (`Foreseen`: the simulated one is not below the planned one, and a watt-hour is no
  more than that tolerance); sites set up the other way are excluded, as they are in
  `PlansAreFeasible`. Without it the limits are kept by the clamp alone, and the
  simulation may object to the reserve, though to nothing else
  (`OnlyTheReserveIsAtStake`). `DispatchAssumption` asks for limits a percent of the
  capacity apart, which is what `sitePlan` makes of limits that are closer, for an
  initial charge between them (a battery that starts below its reserve is in
  violation before any plan), and for a capacity of a kilowatt-hour at least
  (`Grain <= 1000`), below which the simulator counts with one.

  *Together.* `MCOperations` runs the nine components side by side. Every step
  of it is, for each component, a step of that component or a stutter, so the
  conjunction of their invariants is inductive (*OperationsInv*; of the dispatch
  component, which stands still unless it is the one that moves, only what its
  initial values satisfy). It gives `OperationsTypeCorrect` and
  `OperationsTogether`: all invariants of the run `operations`, at once.

- **`Access_proofs`** (`AccountAssumption`, `AccessAssumption`). `LockIsEarned`:
  the count a login will write is not above the failures there were.
  `FactorIsConfirmed`: a call that will enable a factor was shown a code of the
  secret that is there, unless that was replaced. `SessionsAreEnded`: a
  session that works was opened since those of its tenant were last ended, and a call
  that will open one for a deactivated account was under way by then.
  `TrailExplains`, of the lists and the feedback route: rights stand on events (*RightsOnRecord*), events in progress
  fit what was written (*GrantsFit*), and what a request has checked it had the
  right to (*RoutesJustified*); the record only grows. `GrantedWhereKeysDiffer`
  adds the routes by external key, where keys name one site each. `AccessTypeCorrect`:
  the types of the same state, for tenants with and without installations.

Five documented claims are violated as they stand and proved under a condition:
`OnlyBargingExceeds`, `TableHoldsOneByOne`, `DrainedStaysDisabled`,
`OnceWhileInRedis`, `GrantedWhereKeysDiffer`. The conditions are about what the
environment does (when calls, decisions and deliveries come, whether Redis answers,
which keys sites are given), not about the outcome, and each says exactly what breaks
the claim. No such condition is stated for `RetryRequeues` (that no retained job has
the id is the violation itself) and `WindowEnds` (it is liveness).

Only model-checked: liveness (`EveryCallRuns`, `EveryJobSettles`, the `Settles`
part of the pipeline's `KeepsLedger`, `DeliveredOrDeadLettered`), since neither
fairness nor ENABLED is within reach of the prover, and the counterexamples of
the seven violated properties. Every invariant and every safety part of a
refinement that a passing run checks is also a theorem.

## 5. Not modelled

Components without a module are listed in `PROJECT.json` with the reason. Within
the modules: contents of rows and payloads, except where a property tells them
apart; Redis
and Postgres failing for good (an await that rejects is modelled, a store that
loses committed data is not); development settings (no `REDIS_URL`, insecure
authentication, which leaves the signature out); the graceful shutdown, which is a crash that
waits; metrics, logs, rendering.

Left out on purpose:

- *platform access*: the grants live in a map of one process and no check reads
  them (`activePrivilegedAccess` has no caller);
- *webhook creation and secret rotation*: single writes; the quota is counted
  before the insert, so overlapping creations exceed it;
- *twin, analytics, energy pack, copilot*: functions without shared state, over
  floating-point statistics and text, with no bounded exact counterpart to
  check them against;
- *cryptography, SSRF checks*: pure functions and DNS;
- *the load of a soak test*: its counts and latencies are an outcome. The
  supervisor looks for `p95Ms` and `rssMb` at the top of a report, where the
  harness does not write them, so it judges neither;
- *reports, billing, command centre*: computed from reads. The count of useful
  recommendations in a report reads a field that the listing does not return.

What the models show and no property forbids:

- audit events may come in another order than the writes they record, since each is
  a statement of its own;
- a stream that was opened stays open when access is taken away;
- rotating a credential that is still PENDING_APPROVAL makes an ACTIVE one
  (`credentials.ts:386`), although `docs/RUNBOOKS.md:39` has high-risk scopes wait for
  `POST /v1/credentials/:id/approve`; both are administrators' calls;
- "All sessions revoked" (`docs/openapi.yaml:81`) are those of the caller's tenant
  (`users.ts:447`): `EndedIsOut` is stated per tenant, as the code has it;
- whoever is invited to a tenant between the two statements of its deletion that list
  and drop its members is left in no tenant and never deleted. No document promises
  that users are deleted (`docs/POPIA.md:5` and `docs/COMMERCIAL.md:7` speak of the
  tenant's data), so `UsersLeaveWithTenant` excepts them by name.

## 6. Plan

1. A property of the gate and the worker's slots together, once it is settled
   what one tenant may take from the others.
2. `Webhooks`: creation under the quota and rotation of the secret.
3. The contents of recommendation rows: which text a decision is about.
4. Proofs: the measures behind the other liveness properties, as `ParkedInOrder`
   is the one behind `EveryCallRuns`: which steps bring a telemetry job and a
   delivery nearer to their end, and that no other step takes them back.
