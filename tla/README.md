# Verification of bsvibe-python

bsvibe-python is a set of Python packages shared by the BSVibe products: an
audit outbox, authorization helpers, demo tenants, a CLI base, LLM and alert
clients, and thin wrappers of httpx, SQLAlchemy and FastAPI. Most of its hard
behaviour is in small asynchronous components whose steps interleave with other
tasks, other processes and other services. This directory holds TLA+ models of
those components, TLC configurations that check them on small instances, and
TLAPS proofs of the properties that matter most for every instance.

- [Inventory](#inventory): the system's parts, their state and what is hard
- [Modules](#modules): which module models what, and how
- [Runs](#runs): what TLC checks, with which bounds
- [Fairness](#fairness)
- [Theorems](#theorems): what is proved, from what, how
- [Findings](#findings): where the code does not do what is said of it
- [Not modelled](#not-modelled)
- [Plan](#plan): what comes next

To run: `tlc -workers 2 -config outbox_single.cfg MCAuditOutbox.tla` checks one
instance, `tlapm AuditProofs.tla` the proofs of one module.

## Inventory

All paths are below `src/packages/`. P marks the properties that make the
component correct, in words; their names are under [Runs](#runs).

### bsvibe-audit

**Outbox, relay, client** (`outbox/`, `client.py`). State: the `audit_outbox`
table (`delivered_at`, `dead_letter`, `retry_count`, `next_attempt_at`), per
relay a polling task, an open session with its identity map and an httpx client.
Operations: `select_undelivered`, `mark_delivered`, `record_failure`,
`mark_dead_letter`, `run_once`, `start`, `stop`. It talks to BSVibe-Auth's audit
endpoint in batches and hands delivered batches to the alert rules. Hard: no row
is locked or claimed, so two relays work on the same rows and write back counts
they loaded before an HTTP request; crashes and cancellation between the answer
and the commit; a request whose answer is lost. P: events of rolled-back
transactions are never shipped; nothing is marked delivered that was not
ingested; alerts follow the commit; the retry budget holds; every row ends.

**@audit_emit and AuditEmitter** (`decorators.py`, `emitter.py`). No state of
their own: they add a row to the caller's session. Hard: which failures doom the
caller's transaction, with `safe=True` and `safe=False`. P: a domain write and
its audit row stand or fall together.

**retry-failed, list** (`cli.py`). `retry-failed` resets dead rows, commits, then
sends them: relays see the rows in between. P: as for the outbox.

**Alert rules** (`alerts/`). A sliding window of timestamps per rule and key, in
memory, fed by the relay. Hard: the windows use the wall clock, which steps, and
are popped at their old end only; a relay that stops leaves the rest of its batch
unevaluated. P: a rule fires on the configured number of events with one key in
the window, always and only, up to what the clock is off; every rule meets every
event it is for, but for what a stop cuts off.

**Events and settings** (`events/`, `settings.py`). Data classes.

### bsvibe-authz

**ServiceTokenMinter** (`service_token_minter.py`). State: the cached token, its
expiry, an `asyncio.Lock`. Operations: `get_token`, `invalidate`. Hard: bursts of
callers, cancellation at the lock, an expiry counted from the arrival of the
answer, invalidation during a mint. P: one mint at a time and only when needed;
returned tokens are alive; nobody hangs.

**check_permission and PermissionCache** (`deps.py`, `cache.py`, `client.py`).
State: a TTL cache of verdicts. It writes the role tuple that the token claims,
looks in the cache and asks OpenFGA. Hard: the answer of a check is cached
whatever happened while it was in flight. P: verdicts are OpenFGA's, or bounded
in their age; invalidation lasts.

**verify_via_introspection, IntrospectionClient, IntrospectionCache** (`auth.py`,
`introspection.py`, `cache.py`). State: a TTL cache on the monotonic clock, capped
at the token's `exp` on the wall clock. Hard: two clocks; answers overtaking each
other; a failure cached as a denial. P: revocation and expiry take effect within
a bound; a good token is rejected for a reason only.

**Authentication dispatch** (`deps.py`: `get_current_user`, `combined_principal`,
`ServiceKeyAuth`, `_resolve_active_tenant`, `require_permission`,
`check_tenant_permission`, `require_admin`). State: the two caches above, and the
role tuples it writes to OpenFGA. Tries service, demo, session and access tokens
in turn, then lets the `X-Active-Tenant` header choose a tenant, then asks for the
permission. Hard: up to four awaits of two servers, of which any can fail, while
tuples change and other requests write them. P: a person acts for a tenant of
which he was a member during the request; grants and denials are OpenFGA's; a
service stays in its own tenant and audience; no good token is lost on the way.

**Settings and types** (`settings.py`, `types.py`). Data classes.

### bsvibe-demo

**Demo tenants** (`session.py`, `sqlalchemy.py`, `gc.py`, `jwt.py`). State: the
tenants table. Operations: `create_session`, `touch_last_active`,
`find_expired_tenants`, `demo_gc`, `mint_demo_jwt`. Hard: the collector selects
with one statement and deletes with another while visitors touch their tenants
and runs overlap; a crash between commit and JWT. P: prod tenants are never
deleted; a tenant gets its TTL; a JWT does not outlive its tenant for long; every
demo tenant goes.

**LLM guard** (`guard.py`). Edits one call's arguments.

### bsvibe-cli-base

**CLI session** (`http.py`, `keyring.py`, `login_cmd.py`). State: two keyring
slots per profile (access and refresh token), and a client's copy of the refresh
token. Operations: `request` with one refresh and one replay on 401, the persist
callback, `do_login`. Hard: concurrent requests of a client and several processes
refresh with the same token while the auth server rotates it; the refresh request
is retried after a lost answer; keyring writes fail silently. P: the stored login
survives unless a rotated token was lost; a client forgets what it rotated.

**Loopback login** (`loopback_flow.py`). One callback, one code exchange with one
retry. P: the code is used once (with CliSession).

**Profile store** (`profile.py`). State: a YAML file, loaded, changed and saved
as a whole by each operation, without a lock. Hard: lost updates of overlapping
commands, commands of several operations that die between two, a keyring that
refuses. P: names are unique; a profile goes only when it is removed or a stale
file is saved; one default remains; a token reference has a token behind it.

**Commands, output, config** (`cli.py`, `profile_cmd.py`, `output.py`, ...). The
root callback resolves profile, URL and token for a command; the rest parses
arguments and prints.

### bsvibe-llm

**Retry, circuit breaker, fallback** (`retry.py`, `fallback.py`, `client.py`).
State: a call's place in its chain of models and its attempt; the breaker's
failure count and opening time. The products wire the breaker around `complete`.
Hard: two nested retry loops; calls in flight at once end in any order, and a
late success closes the breaker. P: each model gets its attempts, in order; an
open breaker keeps calls out for the recovery time.

**Reasoning probe** (`_ollama_probe.py`, `_reasoning.py`). State: a cache of probe
results for the life of the process. Hard: concurrent first calls all probe and
the last answer stays, also a failed probe's guess. P: a thinking model is asked
to think only because a probe of it failed; a call keeps to one way.

**Metadata, settings** (`metadata.py`, `settings.py`). Data.

### bsvibe-alerts

**Routing and dispatch** (`client.py`, `routing.py`, `dispatch_client.py`). State:
the sends of an alert under way. An alert's severity routes it to channels, in
parallel; a central service may take the events instead. Hard: one channel of
several fails; a POST whose answer is lost was counted all the same; the service
answers what no result can be made of. P: every channel accounts for its alerts;
every event is posted exactly once.

**Channels** (`channels/`). One formatted POST each.

### bsvibe-core, bsvibe-sqlalchemy, bsvibe-fastapi

**HttpClientBase** (`bsvibe_core/http.py`). A lazily built httpx client, retries
on 5xx and network errors, `aclose`. Its retries are what loses rotated tokens in
the CLI; its `aclose` keeps a closed client. Modelled where it matters.

**Logging, settings, exceptions; engine, sessions, Alembic helpers; middleware,
CORS, health.** Configuration and request plumbing without state of their own.

### How the parts meet

```
 handler + @audit_emit --row--> audit_outbox <--select/mark-- OutboxRelay --POST--> BSVibe-Auth
                                     ^                            |
                           retry-failed (operator)                +--> alert rules --> AlertClient --> channels
                                                                  +--> dispatch --> BSVibe-Auth's rules

 service --get_token--> ServiceTokenMinter --POST /oauth/token--> BSVibe-Auth
 request --PAT--> verify_via_introspection --cache--> /oauth/introspect
         --any token--> combined_principal --header--> OpenFGA membership
         --user--> check_permission --tuple, cache--> OpenFGA

 CLI process --request--> product; on 401 --refresh--> BSVibe-Auth --rotated token--> keyring
 login --code--> BSVibe-Auth --tokens--> keyring, then --> config.yaml <-- profile add, use, remove

 product --is_open?--> CircuitBreaker; complete --> FallbackChain --> RetryPolicy --> probe, vendor

 create_session / touch / demo_gc (cron) <--> tenants table
```

## Modules

A task of asyncio runs alone between two awaits, so in the models of one process
a step reaches from one await to the next. Between processes a step is one
database statement with its commit, one keyring write, or one message. Mutants,
the definitions above the ones they alter, are plausible bugs; each property that
a run checks has at least one that breaks it.

| module | models | state in the code |
|---|---|---|
| `AuditDelivery` | what the pipeline promises: at-least-once delivery of committed events | (abstract) |
| `StoredLogin` | what the CLI promises of a stored login: it stays good or its successor gets lost | (abstract) |
| `AuditOutbox` | producers, relays, retry-failed on one table | `tx` a caller's transaction; `rows`, `delivered`, `dead`, `retry`, `wait` the columns; `phase`, `batch`, `reply` a worker's progress; `seen`, `timed` what its session's identity map loaded; `running`, `client` the relay's task and httpx client |
| `ServiceTokenMinter` | one minter and its callers | `cached`, `cachedExp`; `queue` the lock's holder and waiters; `answer` a token on its way |
| `PermissionCheck` | `check_permission`, cache, OpenFGA | `entry` the cache; `tuples` OpenFGA's; `pc`, `asked`, `answer` the tasks |
| `Introspection` | `verify_via_introspection`, cache, auth server | `entry`; `exp`, `revoked` the tokens; `skew` the wall clock's error |
| `DemoTenants` | sessions, touches, collectors, one table | `row`, `lastActive`; `tokenExp`; `touches` UPDATEs under way; `expired` a collector's list |
| `CliSession` | CLI clients, keyring slots, login, auth server | `keyAccess`, `keyRefresh`; `refresh` a client's token; `posted`, `answer`, `tries` its refresh requests; `usable`, `partner` what the server accepts |
| `AlertPipeline` | relays' alert engines, the client and its channels, central dispatch | `windows` the rules' stamps; `due`, `next` a place in `evaluate`; `pending` an alert's sends; `inFlight` a POST to the central service |
| `CliProfiles` | commands of several processes on config.yaml and the keyring | `file`, `keyring`; `loaded`, `draft` an operation between load and save; `entry` what a command holds |
| `LlmClient` | `complete`, its chain and retries, the probe's cache, the breaker | `at`, `attempt`, `failed` the loops' variables; `cache`; `failures`, `opened_at` |
| `AuthDispatch` | a request from its bearer token to the guard's answer | `ask`, `user`, `answer` a request; `cache`, `known` the caches; `tuples`, `revoked` the servers |

`MC*` modules give the constants that a .cfg cannot write and the symmetry sets;
`*Proofs` modules hold the theorems of the modules they extend: `AuditProofs` those
of `AuditOutbox` and `AlertPipeline`, `CliProofs` those of `CliSession` and
`CliProfiles`, which is why the names in `AlertPipeline` and `CliProfiles` differ
from the others' (`AlertsSpec`, `profileVars`).

Correspondence in more detail, where it is not evident from a module's comments:

- **AuditOutbox.** `DomainWrite`, `EmitRow`, `EmitRaises`, `FlushFails`,
  `CommitTx`, `RollbackTx` are the outcomes of a function wrapped in
  `@audit_emit`; an INSERT that fails leaves the session unusable whatever `safe`
  says. `Poll` is the first half of `run_once` (load, send); the second half is one
  of `MarkDelivered` (then `EvaluateAlerts`), `RecordFailure`, `MarkDeadLetter`,
  `IterationFails`. `AuthAnswers` lets a failing endpoint ingest any part of the
  batch. `record_failure` increments what the session loaded (`seen`), because
  `session.get` finds the row in the identity map; `Requeue` resets only the
  columns that differ from what was loaded (`timed`), as SQLAlchemy's UPDATE does.
  A stopped relay's client stays closed: `Poll` is not possible on it, since every
  send raises and the loop only logs it.
- **ServiceTokenMinter.** An uncontended `asyncio.Lock` is acquired without
  suspending, so `Miss` by the first caller goes straight to the request. `Enter`
  is the second look at the cache under the lock. `floor` is history: the key in
  force at a caller's `invalidate`.
- **PermissionCheck.** `Call`, `Provision`, `Provisioned`, `Decide`, `Answered`,
  `CheckFails` follow `check_permission`; a `write_tuple` that lands after its
  client has given up is one of `Administer`'s grants. The cache's asyncio lock is
  never held across an await, so its methods are parts of these steps. `changed` and
  `clean` are history. Callers exempt from the check (demo users, an unconfigured
  OpenFGA) never reach the modelled part.
- **Introspection.** `Lifetime` is the cap of `IntrospectionCache.set`; a network
  error becomes an inactive answer, as in `IntrospectionClient.introspect`, and is
  cached as one. `AdjustClock` lets the wall clock jump within `MaxSkew`.
- **DemoTenants.** `now()` in PostgreSQL is the start of the transaction, hence
  `begun` and the stamps in `touches`, which may land late. One clock serves the
  database and the processes. `Promote` is what a product does to a tenant, the
  case for which the DELETE repeats `is_demo`; it is not part of the package.
- **CliSession.** A grant is a number; the refresh token of a rotating grant is
  that number, `partner[g]` the refresh token that goes with grant g. Tokens have
  no expiry: the product answers 401 whenever it likes, which is all a client
  sees. The persist callback is synchronous, so its client does nothing else
  between its two writes (`Free`), but other processes do. `orphaned` is history:
  tokens rotated on the server whose successor was lost on the way. A rotation of
  `StoredLogin` is under way from the server's answer (`AuthRefreshes`) to the second
  keyring write (`Saved`); an answer that is lost, a process that dies and a keyring
  that refuses are its `Lose`.
- **AlertPipeline.** `RunRule` is `should_fire` with what follows up to the first
  await, since no rule awaits before it fires; `SkipRule` is a rule of another
  event type. `Slid` pops a window at its old end only, as the deque's loop does.
  `Publish` makes one `asyncio.gather` task per channel of the route, registered or
  not, since the lookup is part of the task and a stop may come before it; `Missing`,
  `Send` and `SendFails` are the ends of one, and `Hand` is possible only after all
  of them. A rule's count is positive, since the code fires at the first match
  for any count below 2. History: `born` and `fired` have the true times of the
  matches, `awaited` counts the matches in what was handed over and `lost` those that
  were still to run (`Unrun`) when a relay was stopped. `CaseOf` is the rule and the
  tenant that a match is counted for, by the specification of the key and not by
  `KeyOf`.
- **CliProfiles.** Each operation of `ProfileStore` is a load with its checks and
  a save; a command is a sequence of operations, and `Die` may end it between any
  two (a failed write counts as one, since the temporary file is not renamed).
  A URL and a name are all that is left of a profile's fields. `disturbed` is history.
- **LlmClient.** `BeginProbe`/`BeginSend` are the two ways through
  `_build_kwargs` up to the first await. `Record` and the check of `is_open` in
  `Complete` are a product's wiring of the package's breaker, hence external.
  Lengths of backoffs are left out: a sleep ends some time. `requests` and `unshown`
  are history.
- **AuthDispatch.** An `Arrive...` action is the way from the bearer token to the
  first await, or to the answer when there is none; `Enter`, `FindTenant` and
  `LookUp` are the parts of the way that several awaits lead to. Tokens are
  records of what their verifiers look at. The caches may forget at any time
  (`Lapse`): their clocks are `PermissionCheck`'s and `Introspection`'s subject. A
  server answers and is heard in one step, but a write of OpenFGA may succeed and
  its answer be lost (`Provision` and then the swallowed error are the same).
  `past`, `during` and `shaky` are history.

How the modules meet: `AuditOutbox!EvaluateAlerts` hands a batch over where
`AlertPipeline!Hand` takes one; `AuthDispatch` takes what `PermissionCheck` and
`Introspection` show of the caches as "may lapse at any time" and adds requests
that share them; `CliProfiles!SaveToken` stands for `CliSession`'s login.

## Runs

| run | expects | states | checks |
|---|---|---|---|
| `outbox_shared` | pass | 3,211,025 | `NoUnauditedWrite DeliveredBeforeAlerted BudgetRespected ImplementsDelivery` |
| `outbox_single` | pass | 17,579 | `SettledOneWay EveryFailureCounts EventuallySettled` |
| `outbox_safe` | violation | | `SafeCarriesOn` |
| `minter_safety` | pass | 458,245 | `NoWastedMint ReturnsLiveToken NextTokenIsFresh EveryCallEnds` |
| `permission_roles` | pass | 1,674,425 | `InvalidationHolds StaleOnlyBriefly` |
| `introspection_safety` | pass | 139,689 | `RevocationTakesEffect ExpiryTakesEffect RejectedForReason` |
| `auth_dispatch` | pass | 274,448 | `HeaderVetted DecisionsBacked ServicesStayInTheirOwn RejectedForReason ProvisionsWhereKnown EveryoneAnswered` |
| `demo_safety` | pass | 3,962 | `ProdNeverDeleted FullTermServed TokenOrphanedBriefly EveryDemoEnds` |
| `cli_session` | pass | 262,326 | `LoginSurvives ImplementsStoredLogin` |
| `cli_profiles` | pass | 462,468 | `RefsBacked OneDefault NothingVanishes` |
| `llm_client` | pass | 241,623 | `InOrder OnlyDeadProbesMislead OpenKeepsOut CallsEnd` |
| `alert_pipeline` | pass | 1,807,038 | `AlertsTypeOK NothingSwallowed PostedOnce NoMatchMissed FiresOnBursts` |

Type correctness is a theorem for every component; only the last run, whose
theorems came last, checks it too. Parts of inductive invariants that are
theorems are not checked either (see [Theorems](#theorems)). The states are
distinct ones.

What each shows, and why its bounds are enough:

- **outbox_shared**: two relays and a retry-failed command share two rows with
  `safe=False`, under one stop, crash or failed iteration. Two relays hold the same
  row or different ones, an operator resets what a relay is failing, and ids commit
  out of order. `MaxRetries = 2` has a first failure that requeues and a second
  that kills; `BackoffCap = 1` has a row that waits and one that does not.
  `ImplementsDelivery` is the refinement of `AuditDelivery`.
- **outbox_single**: the deployment the code is written for, one relay and no
  operator, with `safe=True`, two faults, three retries and a batch of one, so that
  a failing row stands before another and could starve it. Here also the
  properties hold that several workers break: a row ends one way, every failure
  counts (and backoffs are waited out, a theorem); and, under fairness, every committed row is
  delivered or dead-lettered provided the relay keeps running on a client that
  `stop` has not closed.
- **minter_safety**: three callers are needed for a waiter behind a waiter that
  is cancelled. Lifetimes 2 and 5 with margin 3 give a token that is stale from
  the start and one that turns stale while it is used. `NextTokenIsFresh`: a token
  returned after an `invalidate` is of a key at least as new as the one in force
  then, unless a mint was under way at that moment (see the remarks).
- **permission_roles**: one user, two roles of which one confers both permissions,
  so that a grant or a revocation changes one verdict, both or none; two tasks,
  so that answers overtake each other; time to 3 covers a cached entry (TTL 1) and
  a check (latency 1) after a change at any time up to 1.
- **introspection_safety**: one token, since the entries of two never meet; the
  three expiries are none, one that cuts an entry short and one that does not; a
  wall clock one second off either way.
- **demo_safety**: a demo tenant and a prod tenant, two overlapping collectors; time
  runs to 8 because a session that starts at 1 may be touched until 1 + MaxSetup +
  TTL and is idle TTL later.
- **cli_session**: two processes and two requests give two requests of one client,
  one request of each, and a login beside them; three grants are a login, a
  rotation and a second one of either. `ImplementsStoredLogin` is the refinement of
  `StoredLogin`: a rotated token is one request's secret until the keyring has it,
  and only the losses named above end a rotation otherwise. `Requests` and `Clients` are symmetric.
- **cli_profiles**: two processes are enough for one to save over the other, three
  commands for a third that meets what the two have left. Two names and two URLs
  give a login under another profile's name or URL; the keyring goes up and down
  at any time.
- **llm_client**: an Ollama model that thinks, though its name does not tell, and a
  vendor's as the fallback, each with two attempts; a call past the gateway with
  tools and one through it without, so that two keys of one model are probed; two
  tasks, one to overtake the other; three calls, one that opens the breaker, one
  that is let in after the recovery and reopens it, one that must be kept out.
- **auth_dispatch**: twelve requests that between them have every kind of token
  (also none, one without a sub, a service's session and a service token whose
  scopes are for two audiences), every dependency and every guard, two at once,
  with OpenFGA and introspection and without either; one change by an
  administrator, which is what can come between two awaits.
- **alert_pipeline**: a rule with a count of 2 in 2 seconds, and a prefix rule;
  two tenants; three events, which is a burst and one more; five seconds, twice
  the window and one; a wall clock one second off either way, so that the window's
  bounds are off by two. A table without an entry, and a channel without
  credentials. The two tenants are symmetric. `NoMatchMissed` is an equation of what
  was handed over with what ran, what a stop cut off and what is still to run: it
  breaks when a failing channel leaves `evaluate` or a rule that fires ends its event.

Bounds that stand in guards: `MaxCommands`, `MaxCalls`, `MaxRequests`, `MaxEvents`
and `MaxBatch` (what is started, called, made or handed over), `MaxFaults` (relay faults), `MaxTime` (all clocks),
`MaxRotations`, `MaxChanges`, `MaxStart`, `MaxGrants`. `MaxLatency`, `MaxSetup` and
`MaxSkew` are not of this kind: they are bounds of the real system, from its
timeouts, and appear in the properties. `CHECK_DEADLOCK FALSE` stands where the
bounded system stops in good order: an outbox with everything settled and its
producers done, a minter at `MaxTime` whose callers are still served, a request
bound that is used up have no next step.

## Fairness

Fairness is assumed only where a liveness property is checked, and only of what
the code or its runtime owes:

- **Outbox** (`EventuallySettled`): the loop keeps polling, every await in it ends
  (requests have timeouts, a commit returns or raises), and time passes. Starting
  a relay, committing a transaction or running retry-failed is owed to nobody;
  the property assumes that some relay stays up.
- **Minter** (`EveryCallEnds`): the event loop resumes a woken waiter, and a token
  request ends by its timeouts, well or badly.
- **Demo tenants** (`EveryDemoEnds`): time passes, a `create_session` ends, cron
  starts the collector again, and not every run of it is killed between its SELECT
  and its DELETE. The last needs strong fairness: `RunDies` can disable `Delete`
  again and again.
- **LLM client** (`CallsEnd`): the event loop runs every task, and probes, the
  bypass, litellm and sleeps end by their timeouts. That calls end at all is then
  the matter of the two loops.
- **Authentication** (`EveryoneAnswered`): the clients of OpenFGA and of the auth
  server have timeouts.

## Theorems

Eight modules of proofs; each states `Spec => []P` or `Spec => [][A]_vars` for
every value of the constants that satisfies the named assumptions of the module,
for any number of workers, tasks, tenants, tokens or requests. The bounds in the
guards are constants too, so they may be as large as one likes.

- **AuditProofs** on `AuditOutbox`, from `EventsAssumption`, `WorkersAssumption`,
  `NumbersAssumption`, `SafeAssumption` where cited. `TypeCorrect` first. The
  safety properties are not inductive: what a step writes comes from a session
  filled several steps before. `Inv` joins them with `SessionsConsistent` (what a
  worker holds is still true when it acts on it) and `UnauditedOnlyIfSafe` (an
  unaudited open transaction exists only with `safe=True`), and `Invariance` proves
  `[]Inv`. `Refinement` shows that every step is a step of `AuditDelivery` or
  leaves its variables alone. With one relay and no operator a second invariant,
  `SoleInv` (the session's counts are the table's, and what it holds is neither
  delivered nor dead), gives `SettlesOneWay`,
  `FailuresCount` and `BackoffsAreWaitedOut`.
- **ServiceTokenMinterProofs**. `Line` (types and the discipline of the line at
  the lock, each needed for the other) is inductive: `LockHolds`. `LifeInv` adds
  `AnswerTimely`: an answer on its way was given after its request was sent, at
  most `MaxLatency` ago. With `LatencyAssumption` (the margin covers the latency,
  as 60 s cover the four timeouts of 10 s) that gives `ExpiryIsTracked`,
  `MintsAreNeeded` and `TokensAreAlive`.
- **PermissionCheckProofs**, **IntrospectionProofs**. The invariant says of an
  answer in flight that, if it is wrong by now, it was overtaken after it was sent,
  which is at most `MaxLatency` ago; and of a cached entry that it lives for TTL at
  most. Hence `CacheIsHonest`, `InvalidationIsLasting`, `VerdictsAreRecent`;
  `RevokedIsRejected`, `ExpiredIsRejected`, `RejectionsHaveReasons`.
- **DemoTenantsProofs**. The invariant says that no stamp, landed or under way, is
  older than the tenant's transaction, that a selected tenant has had its TTL,
  and that a JWT was minted within `MaxSetup`. `SetupAssumption` (set-up is
  shorter than the TTL) keeps the collector away from a tenant whose JWT is still
  to come. Hence `ProdIsSafe`, `TermIsServed`, `OrphansAreBrief`.
- **CliProofs** on `CliSession`. A token that is rotated and not yet saved is known to its
  request only (`Secret`), the token it replaces is spent (`Spent`), and a login's
  grant is known to the login only (`LoginSecret`). Hence `StoredLoginSurvives` and
  `ClientsAreCurrent`. With the same invariant every step is a step of `StoredLogin`
  or leaves its variables alone: `StoredLoginRefinement`. `StoredLoginPromise` shows
  that this refinement alone implies `LoginSurvives`, so that nothing else of
  the clients and of login need be known to rely on it.
- **AuthDispatchProofs**, from the assumptions on tokens and settings, of which
  `IssuedAssumption` says what BSVibe-Auth issues: sessions and demo tokens in
  secrets of their own, service tokens with an audience, every access and service
  token with a subject. The invariant follows one request: where its principal
  comes from (`Origin`) and that a header was vetted (`Vetted`) hold from the first
  await to the answer, because history only grows and no other request touches
  it (`Frame`); and every entry of the caches was once true or failed
  (`CachesBacked`). Hence `HeadersAreVetted`, `DecisionsAreBacked`,
  `ServicesAreTheirOwn`, `RejectionsHaveReasons`, `ProvisionsAreKnown`.
- **LlmClientProofs**. Three arguments. A call counts its requests by the models
  given up and the attempts at the present one (`Counted`, `Ordered`), hence
  `ChainsAreFollowed`. A request that went out while nobody else probed its key
  keeps what the cache says, because nobody probes a key that is in the cache
  (`Settled`, `Fixed`), and the cache is wrong about a thinking model only after a
  failed probe (`CacheHonest`), hence `WaysAreSettled` and `OnlyDeadProbesDo`. The
  breaker's count is the length of the streak of failures that ends what was
  recorded (`Streak`), hence `BreakerKeepsOut` for every threshold.
- In **ServiceTokenMinterProofs** the key of a cached token and of an answer on its
  way is bounded from below by `floor` (`KeyInv`), hence `KeysCorrect` and
  `InvalidationHolds`.

- **AuditProofs** on `AlertPipeline`, from `RulesAssumption`, `BoundsAssumption` and
  `RelaysAssumption` (finitely many relays, none with two engines). That no alert
  is swallowed is a sum over the relays that send it now: a step changes the set of
  them by one (`UnderWayCount`). `PostedOnce` needs that a POST that is out is about
  an event that is still due (`Busy`). `NoMatchMissed` is a sum over the relays too:
  what a slot has left in a batch is a set of places, counted from the batch's end so
  that dropping its first event moves none of them. `AdvanceRuns` shows that the step
  from one rule to the next takes away the first event's place if it was the slot's
  turn on it, and nothing else; `LeftChanges`, that the sum changes by the stepping
  relay's part alone; and a relay that waits for a batch stands at the first rule
  (`FreshStart`), so that it leaves out none. Hence `NoMatchIsMissed`. The windows are the hard part: they are
  stamped with a clock that steps and popped at their old end only, so a window is
  neither sorted nor free of old stamps. `WindowsRight` says what it is all the same:
  a suffix of the true matches (`born`), each stamp off by `MaxSkew` at most, and
  whatever it has dropped older than the window less twice the skew (`Tracked`).
  `SlidKeeps` says what a push leaves of a window, by the minimum of the set of
  positions that are inside (`MinOfNaturals`, from the well-foundedness of the
  naturals), and `TrackedPush` that the account stays true. `FullWindow` and
  `BurstFills` then give `RulesFireOnBursts`, for any count, window and skew. Also
  `AlertsTyped`, `NoneIsSwallowed`, `EventsPostedOnce`.
- **CliProofs** on `CliProfiles`, from `NamesAssumption`. The four changes of a file
  (append, replace, activate, remove) keep its names distinct and its token
  references backed (`...Sound`); `Drafted` says that what a process is about to save
  is one of them applied to what it loaded, however old that is, so a save of a stale
  file is still sound: `ProfilesTyped`, `ReferencesBacked`. A second default is one
  that a running command will settle (`Settled`, `Pending`), hence `DefaultIsOne`. A name
  that a save loses is one that the draft removes, or the file has moved since the
  load: `ProfilesStay`.

Only model-checked: the liveness properties (`EventuallySettled`, `EveryCallEnds`,
`EveryDemoEnds`, `CallsEnd`, `EveryoneAnswered`), since the prover handles no
fairness or ENABLED. Every other property of the passing runs is a theorem. The
violated property is no theorem, of course.

## Findings

`outbox_safe` ends with a counterexample: with `safe=True` a failing INSERT is
swallowed without a savepoint, and the caller's commit then raises, where the
decorator promises that the caller carries on. `decorators.py:232` against
`:146-147`.

Remarks met on the way, with no run of their own.

Races the code allows; where a property bounds the damage it is named:

- Two relays that load a row with count 0 and both fail both write 1
  (`outbox/store.py:137` against `outbox/schema.py:12`). The budget is safe all the
  same (`BudgetRespected`); with one relay every failure counts.
- `invalidate` during a mint is undone by the mint's answer, which may be the old
  key's (`service_token_minter.py:165` against `:118-121`); hence the exception in
  `NextTokenIsFresh`.
- A tenant touched between the collector's SELECT and its DELETE is deleted, since
  the DELETE does not look at `last_active_at` again (`gc.py:44` against
  `session.py:95`); its JWT is left for a short while only
  (`TokenOrphanedBriefly`).
- A keyring that refuses one of two writes, or a second process between them,
  leaves tokens of different grants in the two slots (`keyring.py:171` against
  `tests/test_keyring.py:266`).
- A login of one profile takes the URL of the profile that was active when it
  began, also when it is for another name (`CliProfiles!LoginAs`).

What falls through:

- When the keyring does not answer, `resolve_token` gives a profile's `token_ref`,
  which is its name, as the bearer token (`keyring.py:114` against `config.py:4`);
  `RefsBacked` holds only while the keyring is up.
- `is_transient` knows errors by class or name, so that httpx's `ConnectTimeout`,
  litellm's `Timeout` and the bypass's `HTTPStatusError` for a 5xx are not retried,
  though the docstring of `retry.py` names `httpx.RequestError` as retryable.
- A failed probe's guess by name is cached for the life of the process; in
  gateway mode the probe asks the gateway's URL for Ollama's `/api/show`.
- A session without a sub is a 500: `parse_user_token` raises outside of the try
  around the verifiers. OpenFGA's failure is a 503 at the membership and an
  uncaught 500 at the permission.
- The role in a token is written as a tuple of the tenant the principal acts for,
  which the header may have chosen; `ProvisionsWhereKnown` says how far that goes.
- `CentralAlertRouter.channels_for_async` raises on a body that is JSON but no object
  (`routing.py:193`), and on an object whose `deliveries` is truthy and no list, or a
  list with an element that is no object (`:207-208`): the alert has no route then,
  where the docstring promises the local fallback on a malformed body (`:157-159`).

Wording: the row is dead-lettered at the `max_retries`-th failure, where
`settings.py:69` says "beyond this count"; `demo_gc` returns how many tenants it
selected, where `gc.py:37` says "Returns count deleted"; concurrent introspection
misses are not joined, where `auth.py:159-160` says a burst "cannot stampede"; when
the keyring refuses the access token, `login` prints the refresh token as not
saved although that write may have succeeded.

## Not modelled

- `list_objects`, logging, event building, formatting, printing: nothing a property
  here depends on.
- Signatures of JWTs: the work of a library, and only its verdict appears. Formats
  of settings and claims: validated by pydantic.
- The demo LLM guard, the layout of alert messages, LLM metadata: pure functions of
  their arguments that unit tests cover. `extra` arguments of `complete` may
  override what it computed (also `api_base`); they are left out.
- Engine and sessions: wrappers of SQLAlchemy; their transactions appear in
  `AuditOutbox` and `DemoTenants`. `baseline.py` renders a migration as text;
  `alembic.py` compares two schema dumps in a check that is run by hand or in CI,
  and that ends with an error when two of it meet.
- FastAPI middleware, CORS, health: stateless per request.
- `CentralAlertRouter`: it keeps no state, and the one call the repository makes of it,
  `channels_for` in `publish`, runs inside a loop, where it is the local table. Nothing
  awaits `channels_for_async`; what it does on malformed bodies is under the remarks.
- Deleting a token: one call of the keyring library that no command makes.
- Liveness of the CLI session: a request ends by its timeouts and retries, which
  its type invariant bounds (`tries`). Liveness of alerts: a relay that stops loses what it has
  not evaluated, by design; `NothingSwallowed` counts it as cut off and
  `NoMatchMissed` as lost.
- Lengths of backoffs and jitter of the LLM retries.

## Plan

The outbox came first, since everything else in the products relies on its
atomicity, then the components whose answers are cached or rotated (minter,
permission check, introspection, CLI session), demo tenants, and then alerts,
profiles, the LLM client and the authentication dispatch. What is left, in order of worth:

1. The clocks of the caches inside `AuthDispatch`, so that the bounds on the age of
   a verdict that `PermissionCheck` shows for one task hold for a whole request.
2. `CliSession` composed with `CliProfiles`, whose `SaveToken` writes the keyring
   slots that the clients of the same profile refresh.
3. The parity check of `alembic.py`, if it is ever run concurrently.
