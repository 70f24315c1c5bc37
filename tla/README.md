# Verification of the Carlos Revert accounts service

TLA+ models, TLC runs and TLAPS proofs of the accounts service: a Django 5.2 / DRF
application that keeps identities, plans and the daily quota of AI interactions for a
family of applications (Home, Juridia, CLARK, Transcriptor). Paths below are relative
to the repository.

## 1. Inventory

The process structure matters more than the number of lines: gunicorn runs several
worker processes, each serving one request at a time, against one PostgreSQL 16 at its
default isolation, READ COMMITTED. `ATOMIC_REQUESTS` is off, so every ORM statement
outside `transaction.atomic()` commits by itself. There are no background jobs.

| Component | State it keeps | Operations | What is hard about it |
|---|---|---|---|
| Quota service, `apps/usage/services/quota_service.py`, `apps/usage/models.py` | `DailyUsage` (counter per user and local day), `UsageEvent` (status of a request), `InteractionReservation` (idempotence guard, unique `request_id`) | `reserve_interaction`, `validate_interaction`, `complete_interaction`, `fail_interaction`, `check_quota` | races on one `request_id`, races on the last unit, stale user, application and plan, deadlocks of row locks, midnight, lost, repeated and reordered callbacks, crashes |
| Internal permission, `apps/api/permissions.py` | none | authenticates a backend and loads its application | the object it loads is used after others change it |
| Plans, `apps/plans/` | `Plan`, `UserPlan` (one per user), `PlanChangeLog` | `assign_default_plan` (signal on user creation), `assign_plan`, the admin forms, `seed_plans` at every start | a sequence of autocommitted statements at registration, against `assign_plan` under a row lock |
| Email verification, `apps/authentication/services.py` | `EmailVerificationChallenge`, `User.email_verified` | send a code, verify a code | concurrent attempts and resends, delivery failure, expiry, change of address |
| Login and logout, `apps/authentication/backends.py`, the views | sessions (Django) | log in by name or address, after a code, log out | a user loaded before the check is logged in after it |
| Account page, `apps/dashboard/views.py`; user administration, `apps/users/admin.py` | `User` | profile update, logical deletion, the user page and the bulk actions | saves every column of a user read earlier |
| Rate limit, `apps/api/rate_limit.py` | counters in the database cache (`accounts_cache`, at most 300 rows) | `is_rate_limited`, `is_rate_limited_identifier` | `add` and `incr` are several statements, `incr` resets the timeout, `get` deletes by key, the table evicts rows |
| API and web views, `apps/api/views.py`, `apps/authentication/views.py` | sessions (Django) | thin handlers over the services above | which reads happen before the transaction |
| Applications, `apps/applications/` | `ClientApplication` (active, consumes quota, key hash) | administration, key rotation, `seed_applications` | settings that change under a running request |
| Metrics, health, templates, forms, settings, deployment | none | read-only or configuration | nothing that a model would tell apart |


What must be true of each component:

- **Quota service.** No update of a counter is lost or made twice; racing reserves never
  pass a limit; a `request_id` is decided and charged once (a repeat gets the event of a request
  that is still authorized and `request_already_used` after any other decision); an event starts
  once, is final once, and only starts for an active account; every call ends.
- **Plans.** The log of changes is complete and a chain; a plan in use cannot disappear; a
  new user gets FREE without putting FREE back over somebody's change.
- **Email verification, login and account page.** A code works once, a bounded number of times,
  and not after a resend; nobody has a session who neither used a code nor was marked verified by
  an administrator; a verified address is one that received a used code; a block lasts.
- **Rate limit.** Nobody is refused who did not make more calls than the limit in a burst; calls
  that nothing disturbs are admitted up to the limit and no more; a call older than the window
  does not count.

## 2. Modules

| Module | Models | EXTENDS / INSTANCE |
|---|---|---|
| `QuotaService` | `reserve_interaction`, the three callbacks, their locks and the administrators | `Ledger == INSTANCE QuotaLedger` |
| `QuotaLedger` | abstract specification: a ledger of decided requests, charges and refunds, without counters, locks or transactions | |
| `PlanAssignment` | registration's default plan, `assign_plan`, the plan administration, `seed_plans` | `History == INSTANCE PlanHistory` |
| `PlanHistory` | abstract specification: plans given and changed, each change with its entry in one step, the system's entry owed and then written or lost | |
| `EmailVerification` | registration, codes, resends, verification, login, logout, account form, deletion, the user page and bulk actions of the administration | `Access == INSTANCE CodeAccess` |
| `CodeAccess` | abstract specification: codes issued, guessed and used, and who gets in, without workers, locks, clock, addresses or pages | |
| `RateLimit` | both limiter functions, statement by statement over the database cache, with the keys of every view that is limited | |
| `MCQuotaService`, `MCPlanAssignment`, `MCEmailVerification`, `MCRateLimit` | constants and symmetry of the TLC runs | the module they are named after |
| `QuotaServiceProofs`, `QuotaLimitProofs`, `QuotaEventProofs` | proofs about `QuotaService`: types, the limit, the decisions | the last two extend the first |
| `QuotaLedgerProofs` | proofs that `QuotaService` implements `QuotaLedger`, and when a refund returns its unit | the limit and event proofs |
| `PlanAssignmentProofs`, `EmailVerificationProofs`, `RateLimitProofs` | proofs about the module they are named after | it |
| `EmailAccessProofs` | proofs that `EmailVerification` implements `CodeAccess`, and when a verified address was mailed and a block lasts | `EmailVerificationProofs` |

The four state machines meet in three places, each represented in the other by its effect.
The limit that a reserve reads (`QuotaService!plan`) is what `PlanAssignment` assigns:
`SetPlan` changes it at any moment. The account state a reserve and a validation read
(`QuotaService!account`) is what `EmailVerification` writes: `SetAccount` changes it at any
moment, towards any value, whoever made the change. And a call that `RateLimit` may refuse is a
call the other modules need not make: they let every call through, so nothing they show rests
on a limit. All three are over-approximations: what is shown of one machine holds whatever the
others do.

### How state and actions correspond to the code

**Tables.** One variable per table, one function value per row, `None` for an absent row.
`event[r]` keeps the four columns the protocol reads; `usage[u][d]` is
`interaction_count`, with an absent row as 0 (`get_or_create` starts it there).

**Transactions.** A worker has a label `pc[w]`, the statement it is about to execute, and
locals `tx[w]`. An action is the code from one statement that can wait, or whose read can go
stale, to the next; what a transaction wrote is in `tx` until the commit action copies it to
the tables. `Abort(w)` discards the locals at any label: a crash, a lost connection or a
failed statement. Code that runs in autocommit (registration, account form, mail) writes the
tables at each step, and `Abort` leaves what was written.

**Locks.** There is no lock table: `HoldsUsage`, `HoldsEvent`, `HoldsAssignment`,
`HoldsChallenge` and their siblings say who holds a row from the label reached. In
`QuotaService`, `WaitsFor` gives the waits-for graph, `Unblocked` the guard of every
statement that locks, and `OnCycle` the victims the deadlock detector may choose.
The foreign keys of Django are deferred: at COMMIT the inserted rows take FOR KEY SHARE on
application and user, which are the steps `CheckApplicationKey` and `CommitReserve`. That is
how a reserve and a failure with refund can deadlock, and the model has that deadlock.

**The cache.** `django.core.cache.backends.db` is not in the repository; `RateLimit` models it from
how `rate_limit.py` uses it and marks those definitions external. `cache.add()` and `cache.set()`
are a SELECT and then an INSERT or UPDATE chosen by what the SELECT found (`Selected`, `Stored`);
`incr()` is a `get()`, which deletes an expired row by its key (`Purge`), and a `set()` with the
default timeout (`Increments`). `Cull` is an eviction at any moment: which row goes depends on
keys of all other callers. The clock has whole seconds in the rows but a fraction when `get()` compares,
so in the last second of a row both outcomes are possible. Each view of `Views` is the list of keys
it checks in order; `Request` takes the address from the last hop only behind a trusted proxy.

**Stale reads.** `Reserve` copies account and application settings when the session and the
serializer load them; `ReadPlan` copies limit and date before the wait for the counter;
`Verify` looks the user up, and takes the time, before the wait for the challenge;
`LoadAccount` copies the whole row that `SaveNames` and `ChangeEmail` later write back; `Login`
stores a session for the user found before the code or password was checked.

**History variables** (`charge`, `refund`, `validations`, `answers`, `tries`, `uses`, `decided`,
`proved`, `vouched`, `burst`, `calm`) record what happened for the properties. No guard of the code
reads them; only the bound `MaxCalls` looks at `burst`. `burst` counts the checks of a key since
the last pause longer than window and default timeout; `calm` counts the calls admitted in a
stretch closer than either, and whether a concurrent check, a tick within a check, a crash or an
eviction disturbed it.

**Data.** A `request_id`, an action, a plan's key or an address is a model value or a small
number. Codes are numbered as they are drawn: two draws are taken to differ (the code draws
six random digits), and 0 is any typed code that was never drawn. `code_hash` is the code it
was made from. `session` holds the users with a session on some device; closing one session may
leave another, so `Closes` keeps or removes the user. `Authenticated` is Django's `ModelBackend`,
which loads only active users. The users of `EmailVerification` have no access to the
administration: the backend's exception for staff and superusers (`backends.py:22`) is left out.

## 3. Runs

| Run | Question and answer | Bounds |
|---|---|---|
| `quota_race` | Do reserves, validations, completions and failures that race on one user's last unit keep the counter the sum of its day and below the limit, decide a `request_id` once and keep the lifecycle, also around midnight and when an application stops consuming quota? Yes; every deadlock is between a committing reserve and a callback. | 2 workers, 2 request_ids, 2 days, limits 0 and 1 |
| `quota_conflict` | Does whoever is told *authorized* own an admitted, charged event of exactly that user, application and action? Yes. | 2 users, 2 applications, 2 actions, 2 workers, 1 request_id |
| `quota_live` | Does every call end, although callbacks and reserves can deadlock, and is the service a ledger? Yes. | 2 workers, 2 request_ids, 2 days, fairness below |
| `quota_midnight` | Does a refund return the unit its reservation took? No: finding 1. | 2 days |
| `quota_lifecycle` | Does work that `validate` refuses for its account become a rejected event? No: finding 6. | 1 request_id |
| `plan_changes` | Are changes of plan logged, chained and never silent, while plans are edited, deleted and seeded? Yes; `PlanHistory` is implemented. | 2 workers, 3 codes, 4 primary keys, logs of 3 |
| `plan_newcomer` | Does every new user get FREE and an entry? No: finding 2. | 2 users, 2 workers, one of which may die |
| `verify_codes` | Is a code used once, a bounded number of times, and not after a resend, and is every session earned? Yes; `CodeAccess` is implemented. | 1 user, 2 addresses, 2 workers, 2 codes, 2 attempts, 1 administrator's edit |
| `verify_address` | Did the address of a verified account receive a code that was used? No: finding 3. | 3 codes |
| `account_block` | Does a block last until it is lifted? No: finding 4. | 1 code, 1 edit |
| `rate_limit` | Is a refusal always earned by a burst, and are undisturbed calls limited? Yes. | 2 workers, 1 key, limit 2, bursts of 3, a clock of 5 against a default of 2 and a window of 3 |
| `rate_window` | Is a call refused only for calls within its window? No: finding 5. | 1 worker, the three checks of a resend |

Why these bounds are enough to be interesting: every row lock of the code has at most one
holder and the deadlocks found are cycles of two transactions, so two workers meet every
wait; a third would be a second waiter that overtakes, and what the runs check of safety is
proved for any number of them, longer cycles included. Two request_ids
compete for the last unit under limit 1 and start above it under limit 0. Two days are
enough for a reservation and its failure to fall on different dates. A log of three entries
has a middle link; four keys leave room to delete a plan and insert another. Two attempts
are the smallest maximum with a "last but one". One user is enough for `verify_codes` because the
rows of a user are touched only by calls for that user; what two users share, the uniqueness of
addresses, is part of `TypeOK`, which is proved for any number. In `rate_limit` a key is limited at 2, so
that the first call (`add`), the second (`incr`, admitted) and the third (`incr`, refused) differ; the
clock outlives a window and a default timeout after that. Keys do not interact but for evictions,
which are free. In `quota_conflict` both applications consume quota, so its answers must be charged;
users, applications and actions are symmetric in every quota run. `PROJECT.json` gives one mutant per
property: a plausible bug in the code (a lock not taken, a guard dropped, an off-by-one, a
transaction left out) with which the property fails under the same bounds.

`MaxDay`, `MaxLog`, `MaxCodes`, `MaxTime`, `MaxEdits`, `MaxCalls` (checks of a key in a burst) and
the number of primary keys (`Plans`) bound what would be unbounded; `Evicted` names the scopes whose
rows a run evicts. Times are scaled: only their order matters, an hour's window above the default of
300 seconds, a cooldown below it. No bound stops a call that has begun, with two exceptions: a
change of address once every code is drawn, and the insertion of a FREE plan once every key
is used; such a call can still abort. Deadlock checking
stays on in all runs: an administrator, or somebody who opens a form, can always act.

**Fairness** (`QuotaService!FairSpec`, only for `CallsEnd`). `SF(Step(w))`: a gunicorn worker
goes on executing its call, and PostgreSQL serves the waiters of a row, so a statement that
can proceed again and again is not passed over for ever. `WF(BreakDeadlock(w))`: the
deadlock detector runs after `deadlock_timeout` whenever a transaction waits on a cycle.
Nothing is assumed about callers or administrators.

## 4. Proofs

The theorems hold for every number of users, workers, requests, plans and days. They use
only the named assumptions on the constants: NULL is no value of a column, limits are
natural numbers, FREE and PREMIUM are two codes, timeouts and attempts are at least one.

- `QuotaServiceProofs!TypeCorrect`: `TypeOK`. Its invariant `TypeInv` says what the locals of
  a call hold at each label; without that an `EXCEPT` on a user could be anything. The
  counter stays a natural number because a refund credits only a positive counter
  (`Credits`), under the row's lock.
- `QuotaLimitProofs!LimitRespected`: `NeverPastLimit`. The limit alone is not inductive: a
  commit writes `count + 1` from a count read earlier. The invariant adds that the row lock
  excludes (`UsageExclusive`), that the count read is therefore still the count
  (`FreshCount`), and that an admitted transaction saw room (`RoomLeft`).
- `QuotaEventProofs`, seven theorems from one invariant, `EventInv`: `ReservationHasItsEvent`,
  `ValidatedOnce`, `AnswersAreHonest`, `RefusalIsFinal`, `StatusLifecycle`,
  `StartsOnlyActiveAccounts`, `DeadlocksMixCalls`. Each depends on what a call has read
  still being true when it commits, so `CallOK` says that at each label: an inserted
  `request_id` is still free, a locked event has the status that was read, a locked account is
  as it was read. `AnswersAreHonest` needs one more invariant for its last clause, `ChargedInv`: a
  reserve writes its event and its charge in one commit, and a callback moves only an event that
  was admitted, so what was told of it stays charged. `OneHolder` (two calls never hold one
  `request_id`, nor one event) and the
  administrator's wait for a locked user keep it; `TablesInv` adds what an answer already given
  says of the event for ever. `LocksAreOrdered` walks the labels of a knot of waiting calls, however
  large: without a reserve at its foreign keys nobody holds a counter, so each label of a callback
  in turn has nobody left to wait for (`OrderWithoutCommits`).
- `QuotaLedgerProofs!CounterIsTheLedger`: `CounterMatchesLedger`. A charge writes `count + 1` of a
  fresh count (`LimitInv`) for a request without event, a refund credits an event that was
  still processing (`EventInv`); so each enters exactly one row of the ledger (`ColumnsAt`) and
  the cardinalities move with the counter.
- `QuotaLedgerProofs!LedgerImplemented`: `ImplementsLedger`. By the previous theorem the counter
  is what the ledger spent, so an admission saw room (`RoomLeft`) and a refusal saw none
  (`RefusedFull`); every commit maps to one step of `QuotaLedger`, every other step stutters.
- `QuotaLedgerProofs!RefundsMatchCharges`: see finding 1. `SteadyInv` relates the terms a call has
  read (the date, `consumes_quota`) to those in force, and every charged request to its day.
- `PlanAssignmentProofs!TypeCorrect`: `TypeOK`, which contains that codes stay unique and no
  assignment or log entry dangles. The foreign key tests at commit and the two PROTECT
  clauses are what it needs.
- `PlanAssignmentProofs!NoChangeIsSilent`: `NoSilentChange`. `LockInv` says that between
  `LockAssignment` and the commit nobody else writes the row, so `previous` is still the plan
  of the user; `assign_default_plan` writes only where no row exists and nobody is creating one.
- `PlanAssignmentProofs!ChangesFormAChain` and `LastChangeInForce`: `ChangesChain` and
  `LastChangeIsCurrentPlan`, from one invariant because neither is inductive alone: a new entry
  starts from the plan in force, which is where the last one led; deletion clears only
  `previous`, and a plan that a later change starts from is the new plan of an earlier one,
  which PROTECT keeps.
- `PlanAssignmentProofs!HistoryImplemented`: `ImplementsHistory`. The entry that registration has yet
  to write is in no table: `Owed` reads it off the label of the worker, so a crash is the abstract
  `Lose`, and that a user is registered by one worker (`RegisterInv`) makes every entry owed once. A
  commit of `assign_plan` is one `Change` because `LockInv` keeps the plan it read.
- `EmailVerificationProofs!TypeCorrect`: `TypeOK` with the shape of the locals at each label
  (`ShapeInv`). Attempts stay in range because a code is only compared below the maximum and the
  row cannot change between read and write.
- `EmailVerificationProofs!CodesAreUsedOnce`, `GuessesAreBounded`, `OldCodesVerifyNothing`:
  `CodeUsedOnce`, `AttemptsBounded`, `ResendInvalidates`. The counts of comparisons and uses live in
  history variables, those of the code in the row, so the invariant `SafeInv` ties them: for the
  code of a challenge, `tries` is the row's `attempts` and `uses` is whether it is consumed; a code
  that was drawn and not yet saved has neither, and no other holds it.
  `LockInv` is what makes it inductive: between `LockChallenge` and the commit the row read is the row
  there is, because every other writer of the challenge waits for it.
- `EmailVerificationProofs!OnlyVerifiedUsersGetIn`: `SessionsAreEarned`. `EarnedInv` says it of
  every place a verified user can be found: the table, the rows a page loaded, and the users about
  to be logged in; a stale save can bring back `email_verified`, but only of somebody who had it.
- `EmailAccessProofs!AccessImplemented`: `ImplementsAccess`. A code is issued when its challenge is
  saved and lost with the worker that drew it (`ClosedCodes`); a comparison is one guess, because the
  row compared is the row there is (`SafeInv`) and `tries` and `uses` are its columns; a login enters
  only whom `EarnedInv` knows. Expiry, addresses, blocks and mail are stutters.
- `EmailAccessProofs!StableAddressesWereMailed` and `FreshPagesKeepBlocks`: see findings 3 and 4.
- `RateLimitProofs!TypeCorrect`: `TypeOK`; a row that exists counts at least one.
- `RateLimitProofs!RefusalsAreEarned`: `RefusalNeedsABurst`. `BurstInv`: the count in a row that may
  still be alive, and the count a worker is about to write, are at most the checks of the burst and
  the row expires at most `Span` after its last check. Every loss (a lost update, an eviction, a late
  purge) lowers a count, so the bound survives all of them.
- `RateLimitProofs!LoneCallersLimited`: `LoneCallersAreLimited`. `LoneInv` is the bound from the other
  side: as long as a stretch is clean, the row is there, alive, and counts at least what was admitted.
- `RateLimitProofs!PausesForgive` and `LongWindowsForget`: see finding 5. `ForgivenInv` says that a
  check which begins after a pause of `Span`, alone, finds the burst ended.

Every property of the passing runs is proved but one, `CallsEnd`: it needs fairness and
ENABLED, which the prover does not do, and stays with TLC. Its safety core, that waiting calls
only wait for each other when a reserve meets a callback, is `LocksAreOrdered`. The violations of
section 5 are TLC's counterexamples.

What a finding refutes is often true but for one circumstance, and section 5 names it and the
theorem that says so. Those theorems are about the specification restricted to steps without that
circumstance (`SteadySpec`, `CalmSpec`, `StableSpec`, `FreshSpec`) or, for the limiter, about constants
without it; concurrency, crashes and everything else are as in `Spec`, except where `CalmSpec`
names the crash.

## 5. Findings

1. **A refund after midnight credits the wrong day** (`quota_service.py:273`). It decrements
   the counter of the current date; `docs/quota-policy.md:23` promises to give the
   reservation back. The same happens when `consumes_quota` is switched between the two. It holds if
   the date and that switch change only while no reserve runs and no request is open
   (`RefundsMatchCharges`).
2. **Registration is not atomic** (`plans/services.py:20`). A worker that dies between the user
   row and its signal leaves a user without plan, which nothing repairs
   (`docs/production-tour.md:95`). So does each of three other steps: a restart of all workers, the
   deletion of FREE between its read and its use, and an administrator who assigns a plan before the
   signal does. It holds without these four (`CalmNewcomersAreLogged`).
3. **An old code can verify a new address** (`dashboard/views.py:38`). The address and the
   challenge are changed in two commits, and the challenge does not record its address. It holds
   as long as no existing account changes its address (`StableAddressesWereMailed`): resends, expiry
   and stale pages alone do not break it.
4. **Saving the account page lifts a block** (`dashboard/views.py:58`). The save writes every
   column of a row read before the block. `is_active` is lost in the same way. It holds if each
   page that is saved was loaded under the block in force (`FreshPagesKeepBlocks`): no other writer
   undoes one.
5. **A limit does not last its window** (`rate_limit.py:39`). `cache.incr()` writes the row with the
   cache's default timeout: after the second call of a key the window is 300 seconds, longer than
   the cooldown of a minute and shorter than the limits of fifteen minutes and an hour
   (`rate_limit.py:21`, "su ventana temporal"). A refusal of a caller nothing disturbed follows the
   call before within window or default timeout (`PausesForgive`), so the promise holds when no window
   is shorter than the default (`LongWindowsForget`); the cooldown's is.

6. **A refused validation rejects nothing** (`quota_service.py:231`). `Arquitectura.md:180` draws
   `authorized --> rejected_auth` for an account or application that is not valid. `validate` raises
   inside its transaction and leaves the event authorized and its unit taken: after an unblock
   it validates. Only `reserve` writes `rejected_auth`, on a new event. The other arrows of the
   diagram are `StatusLifecycle`, which holds; that the application is inactive cannot happen at
   that line, because the object tested is the one the permission loaded active.

Seen while reading, without a run of their own:

- A repeated `request_id` does not always return the original result, as the docstring at
  `quota_service.py:114` and `Arquitectura.md:124` say: once the event is rejected, processing or
  final the answer is `request_already_used` with 409 (`quota_service.py:140-143`).
  `QuotaService!ReplayAnswer` models it.
- `docs/api.md:13` limits reserve "por usuario"; the key is the user and the address of the caller
  (`api/views.py:239`, `rate_limit.py:20-27`), so each address has its own count.

- A rejection for want of a plan leaves no event: the exception of `_assignment_for`
  (`quota_service.py:174`) rolls back the event that `Arquitectura.md:125` promises for each attempt.
  `QuotaService!PlanNotAssigned` models it.
- A start overwrites edited limits (`seed_plans.py:14-17`, run by `compose.yaml:14-16`), against
  `docs/architecture.md:13` and `README.md:64`. `PlanAssignment!Restart` models it.
- The page that adds a user in the administration names the field `plan` (`users/admin.py:79-88`),
  which the add form does not declare, so it cannot be shown; no action models it.
- `UsageSummaryView` and the account page do not catch the `QuotaError` of a user without plan, and
  the password forms of Django save every column of the user, like the account page.

## 6. Not modelled, and why

- Password change and reset, and django-axes: Django's views with forms of this repository that add
  no step. The exception by which staff log in unverified, and an identifier that is one
  account's name and another's address, are left out of `MayLogIn`.
- Application keys: making, hashing and comparing a key is cryptography over one row; the row's
  `is_active`, which the callbacks test, is in `QuotaService`.
- Metrics, history, health, summaries and the launcher only read. Templates, migrations, serializers
  that only render, settings and static files have no steps.
- The forms of the administration for applications read a row and save all of it; `SetApplication`
  takes the update of the columns at stake. `SaveUser` takes the user page as one step: it writes
  what its form posted, which is any account, so a stale page is among its steps.
- A callback that is never sent, a mail that never arrives: both are behaviours of the models, as
  calls that do not happen and as `Abort`; nothing in the code recovers from them.

## 7. What could follow

1. A composition of registration: `EmailVerification!Register` with the signal of
   `PlanAssignment`, for what a half-registered user can do.
2. Key rotation of applications against a callback that authenticates with the old key.
