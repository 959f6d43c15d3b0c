# TLA+ models of sdkwork-web-framework

The framework is a set of Rust crates that give an HTTP service one request
pipeline (authentication, rate limits, idempotency, tenant concurrency, audit),
the shared stores the pipeline needs (memory, Redis, SQLx), a guard chain for
gateways, an admin API for the policies, nodes and events behind it, and the
assembly of all this into a running service.  These modules model the parts that
keep state shared by several tasks or processes, and the decisions that depend on
the order in which an application, its modules or its clients act; they check
them with TLC on small instances and prove the most important properties with
TLAPS for instances of any size.  Paths below are relative to
the repository; `core` is `crates/sdkwork-web-core/src`.

## 1. The system

| Part | State | Operations | Hard behaviour | What makes it correct |
|---|---|---|---|---|
| Request pipeline (`sdkwork-web-axum/src/middleware.rs`, `core/api_chain.rs`, `core/interceptors.rs`) | per request `WebCallState`: key, fingerprint, leader flag, replay, admission key | 18 `before` stages, handler, `after` stages in reverse, undo on refusal, drop guard | a request may be dropped at any await; handler panics and timeouts; a stage failing after others reserved; two requests with one key | one handler per reservation, faithful replays, reservations and slots always given back, every request ends |
| Idempotency stores (`core/stores.rs`, `sdkwork-web-store-redis`, `sdkwork-web-store-sqlx/src/idempotency.rs`) | a row per key: fingerprint, optional response, expiry | `begin`, `complete`, `release`, purge, eviction | several commands or statements per call, expiry in between, lost replies, budgets | behaves as an atomic table; same key with another body is a conflict |
| Rate limit stores (`core/stores.rs`, Redis, `rate_limit.rs`) | a bucket or sorted set per key | `check_and_record` | read-then-write, old clock readings, clock skew, window boundary | at most the limit per window |
| Admission stores (`core/stores.rs`, Redis) | a counter per scope | `try_acquire`, `release` | increments and decrements in different places, counter TTL | counter = slots held |
| Guard chain (`sdkwork-web-chain`) | leases in the context of a run | `before`, `after`, `on_error` | one scope of several rejects or fails; hooks called twice, never, or failing | what was acquired is released once |
| Dynamic policies (`core/policy_cache.rs`, SQLx policy sources, `admin_service.rs`) | policy rows; a TTL cache per process | resolve with fallback, upsert, invalidate | a resolution overtaken by an upsert; upserts in other processes | bounded staleness; invalidation reaches every tier |
| Admin event lists (`sdkwork-routes-web-framework-backend-api`, `...admin-repository-sqlx`) | audit and security tables | keyset paging, emit, purge | rows committed out of id order and purged between pages; three permissions and two tenants decide the scope | tenant isolation; complete listings without repetition |
| Control nodes (same crates) | a row per node | register, heartbeat, delete | statements without a transaction racing with each other | created once; creation time kept; heartbeats fresh |
| Offset lists (same crates) | policy and node rows | COUNT and SELECT per page | rows written between the two and between pages | complete listings |
| Authorization scopes (`core/authz_scope.rs`) | a TTL cache of scopes by subject | materialize, invalidate user or tenant | a record read before an await and cached after an invalidation | a decision rests on the subject's own, recent record |
| Request entry (`core/resolvers.rs`, `parsers.rs`, `jwt*.rs`, `open_api_auth.rs`, `route_manifest.rs`, `security.rs`, `policies.rs`, `path_resource_guard.rs`, `client_context_guard.rs`) | per request: surface, route, credentials, principal, scoped key | twelve deciding stages | several credentials at once, sessions revoked meanwhile, keys scoped before the principal is known, dynamic CORS overlays | who is served was proven, is permitted and stays in its tenant |
| Framework builder (`bootstrap/framework.rs`, `env_config.rs`, `core/production_assembly.rs`) | the builder's fields, the environment | setters, defaults, `build` | setters overwrite each other | production runs with no silent fallback |
| API assembly and OpenAPI (`bootstrap/api_assembly.rs`, `sdkwork-web-contract`) | registered modules, the composed profile and document | register, mount, compose, merge | owners in any order, overlapping templates, hand-written documents | the handler that runs keeps its authentication; documents speak for their owners, and their operations do not depend on the order of the merge |
| Service lifecycle (`bootstrap/serve.rs`, `lifecycle.rs`, `health.rs`) | server phase, hooks, open requests | bind, start, serve, signal, drain, grace period, `/readyz` | requests that never end, hooks beside the drain, dependencies that fail during a probe | shutdown ends and cuts nothing it could wait for; ready answers are true |
| WebSocket sessions (`core/websocket.rs`, `ws_interceptors.rs`, `axum/websocket.rs`) | the call state of a connection | connect, message, close | frames around a window's end, a connection cut at any frame | bounded bursts, no anonymous message |
| Runtime region (`core/runtime_region.rs`) | a `OnceLock` | register | racing registrations | all registrations agree |
| Schema registry (`sdkwork-web-schema-registry`) | registry files, the composed registry | compose, compose frontend | files that come and go | tables stay with their module |
| Problem responses, metrics, locale, admin server wiring, build helpers, PC console | | | | not modelled (section 8) |

A request runs through the pipeline as one asynchronous task.  The idempotency
stage calls `begin`; the concurrency stage calls `try_acquire`; when a later
stage refuses, the middleware undoes both; when the handler returns, the `after`
stages record (`complete`) or drop (`release`) the reservation, and
`finalize_response` gives the slot back.  While the handler runs a drop guard
(`IdempotencyReleaseGuard`) spawns a `release` if the task is dropped.  The
stores are shared by all tasks of a process, and Redis and SQL databases by all
processes.  The pipeline resolves rate limit, CORS and tenant policies through
the cache; the admin API writes their rows and invalidates its own process's
cache.  The guard chain is a library of its own, called by gateways, and shares
only the admission store with the pipeline.  Before any of this runs, modules
contribute routers, manifests and documents to an API profile, and the builder
turns wired parts and the environment into the layer every request passes; a
WebSocket session starts where the pipeline let its upgrade through.

## 2. Modules

| Module | Models | State and actions |
|---|---|---|
| `RequestPipeline` | middleware, chain and both shared stores as the pipeline sees them | `pc` is the await a request stands at; `key`, `fp`, `leaders`, `replay`, `slot` are the fields of `WebCallState`; `entries` and `active` the stores; `drops` the release tasks the guard has spawned.  One action per await: `BeginLeader/Replay/Conflict`, `Admit`, `Deny`, `Dispatch`, `HandlerReturns/Panics`, `Cancel`, `SpawnedRelease`, `UndoAdmission`, `UndoIdempotency`, `After`, `AuditFails`, `GiveBack`, and the expiry of rows and counters |
| `StoreCalls` | the callers of the `IdempotencyStore` trait | `call`: each caller's pending operation and its result |
| `IdempotencyContract` | the trait as an abstract specification | `table`; a call takes effect at one instant, rows may vanish at any time, replies may be lost |
| `MemoryIdempotencyStore` | the memory store | one mutex, so one step per call; TTL purge and eviction by entries and bytes |
| `RedisIdempotencyStore` | the Redis store | one step per Lua script, a second one for the GET of `begin` |
| `SqlxIdempotencyStore` | the SQLx store and its throttled purge | one step per SQL statement and per atomic operation of `maybe_run` |
| `IdempotencyStores` | the store a deployment assembles | `backend` chooses one of the above; the memory, Redis and SQLx modules carry the refinement mapping to the contract |
| `FixedWindowLimiter`, `SlidingWindowLimiter`, `RateLimiters` | the rate limit stores and the choice among them | memory: one step; SQLx: clock, SELECT and upsert with an isolation level; Redis: clock reading and script |
| `GuardChain`, `ChainPolicy` | the guard chain over the admission store; its policy levels and address lists as operators | one step per scope acquired and per key released; the policy of a run is any combination of levels |
| `PolicyCache`, `AuthorizationScope` | the two TTL caches | one step per source read, insertion, write and invalidation |
| `AdminEventList`, `AdminPolicyList`, `ControlNodeRegistry` | the admin API's lists and nodes | one step per SQL statement or page |
| `ControlPlane` | these five | |
| `RouteManifest`, `Credentials`, `OriginPolicy` | matching, surfaces and manifest validation; what tokens and keys resolve to; which origins are accepted | operators only |
| `RequestEntry` | the stages that decide about one request, over the three modules above | `stage` is the next interceptor, `call` is `WebCallState`, `owners` remembers which principal used which scoped key; one action per interceptor, and revocation of sessions at any time |
| `OpenApiMerge`, `OpenApiDocument` | merging of documents; what a route's operation says | operators only |
| `ApiAssembly` | contributions and composition of a profile | `registry`, `profile`; `AddModule`, `AddHost`, `Compose` |
| `FrameworkBuilder` | the builder | `builder` has its fields, `process` is the environment's name; one action per setter, and `Build` |
| `ServiceLifecycle` | the process | `server`, `started`, `cleanup`, `signal`, `open`, `dropped`, `time`; `probe`, `up` for readiness |
| `WebSocketSession`, `RuntimeRegion`, `SchemaRegistry` | one connection; the region's `OnceLock`; composition of registries | one action per callback, atomic operation, composition or edit |
| `Deployment` | these six | |
| `RequestPipeline_proofs`, `IdempotencyStores_proofs`, `RateLimiters_proofs`, `GuardChain_proofs`, `ControlPlane_proofs`, `RequestEntry_proofs`, `Composition_proofs`, `Deployment_proofs` | the theorems | section 6 |
| `MC...` | symmetry sets and structured constants for TLC | |

`IdempotencyStores`, `RateLimiters`, `ControlPlane` and `Deployment` put parts
side by side that share no state.  A behaviour exercises one of them (`backend`,
`part`): interleaving independent parts would multiply states and show nothing
more.

Conventions.  A definition named as a *broken variant* is a plausible mistake in
the definition that follows it; it is used by no specification and is there to
show that a property would notice (PROJECT.json, "mutants").  History variables
are declared apart or marked in a comment; no action's guard reads them.
Failures are constants (`Faults`, `StoreFailures`, `HookFailures`, `Failures`).
Where a call to Redis or a database can fail, it fails in both ways: without
effect, or with effect and a lost reply.

What is abstracted.  Keys, fingerprints and bodies are values compared for
equality (a body is its length in the memory store).  Responses are the classes
the code distinguishes: 2xx, event stream, too large to cache, 4xx, 5xx.  In
`RequestPipeline` the stages that only read the request are a refusal each;
`RequestEntry` has what they decide.  Policies are version numbers where they are
cached and records where they are obeyed.  A token is its claims and the key that
signed it; a path is a sequence of segments; an OpenAPI document is a function
from what the merge tells apart; a table is a function from its YAML keys.  Time
is a bounded counter.

## 3. Runs

| Run | Module | Distinct states | Shows |
|---|---|---|---|
| `pipeline_keys` | MCRequestPipeline | 4.4 M | Three requests, one key, two fingerprints, one tenant with one slot, with audits failing, panics, disconnects and expiry: `ExclusiveExecution`, `ReplayFaithful`, `AnsweredMeansSettled`, `AnsweredHoldsNoSlot` |
| `pipeline_liveness` | MCRequestPipeline | 485 k | Two requests, the memory store's overwriting `complete`, every fault, limits 0 and 1: `SlotAccounting`, `AnsweredMeansSettled`, and under fairness `RequestsEnd`, `HandlersSettleTheirKey` |
| `idempotency_stores` | MCIdempotencyStores | 187 k | `EveryReplayMatches`, in the contract and in each of the stores; each store implements the contract (`MemoryImplementsContract`, `RedisImplementsContract`, `SqlxImplementsContract`); `RetentionKept` |
| `rate_limits` | MCRateLimiters | 204 k | `FixedWindowLimit`, `BurstsAreBounded` |
| `guard_chain` | MCGuardChain | 667 k | `LeaseAccounting`, `InFlightBound`, `EndedHoldsNothing`, `AdmittedClientsArePermitted` |
| `control_plane` | MCControlPlane | 1.7 M | `TenantIsolation`, `CompleteListing`; `OffsetListingComplete`; `CreatedOnce`, `HeartbeatsStayFresh`; `BoundedStaleness`, `InvalidationReachesTenant`; `ScopesAreOwnAndRecent` |
| `request_entry` | MCRequestEntry | 1.6 M | `ServedIdentityIsProven`, `AnonymousOnlyWhereDeclared`, `StaysInTenant`, `CookieWritesFromTrustedSource`, `KeyScopeSeparates` |
| `deployment` | MCDeployment | 245 k | `ProductionRunsNoFallback`; `HandlerKeepsItsAuth`, `DocumentSpeaksForOwners`, `MergeIsOrderFree`; `DrainDropsNothing`, `StopsAfterSignal`; `MessageBurstBounded`; `OwnersKeepTheirTables` |
| `pipeline_double_release` | MCRequestPipeline | | violation of `TenantLimit` |
| `redis_expiry_race` | RedisIdempotencyStore | | violation of `ReplayMatchesFingerprint` |
| `shutdown_grace` | MCDeployment | | violation of `ServesUntilSignal` |
| `production_gate` | MCDeployment | | violation of `NoTestDoubleInProduction` |

### Bounds, and why they are enough

- Pipeline: three requests are one that holds the key or slot, one that competes,
  and one that comes after either; a request is used once, so a retry is another
  request.  Two fingerprints give a matching and a different body.  Keys do not
  relate to each other, nor do scopes.  A limit of 1 makes the three requests
  compete for the slot; 0 admits without counting.  Safety with store failures is
  checked with two requests and proved for any number.
- Idempotency stores: two callers that call again and again, two fingerprints,
  two bodies (one over the byte budget), two keys in the memory store, whose
  eviction relates them, and one (`SharedKey`) in the others.  `MaxEntries` 1 and
  `MaxBytes` 1 make every second insertion evict.  `MemoryMaxClock` and
  `SqlxMaxClock` let a row expire once and a purge be due twice.
- Rate limits: two requests in flight, limits 0 to 2 mixed in one bucket, clocks
  that run over two window boundaries (fixed) and past the window less the skew
  (sliding).
- Guard chain: three runs, the global and one API-key scope, limits 2, 1 and 0,
  requests with and without an API key, lists at two levels and addresses in both
  notations, a disabled stage.
- Control plane: three events and pages of one row, every set of the three
  permissions, two tenants; three requests about one node that is inserted up to
  twice; two resolutions of one key over its four candidate rows, each upserted once;
  an offset list of two nodes in two regions, so that a node registered again can
  move before or behind the other, or of four policies, with pages of one; two
  subjects of one user and two requests over two revisions.
- Request entry: a route of every authentication profile some surface admits, on all five
  surfaces; tokens of two tenants and two users, right or wrong in one way, alone,
  in pairs and beside keys; four origins with and without cookie, referer and
  overlay; bodies around each limit.  Two requests one after the other suffice for
  keys that collide, and a revocation may fall anywhere.
- Deployment: three setters after three presets, which is one that sets, one that
  overwrites and one that restores; three modules out of ten in any order, with five texts of four versions; two
  startup hooks and two connections with a grace period of two; three registrars;
  six frames over three windows; two dependency modules, present or missing.

Symmetry is declared for the sets whose elements are only compared for equality,
and only in runs without liveness properties.

Deadlock.  The pipeline, the limiters, the guard chain and the control plane stop
when every request was used or the clock has reached its bound, so their runs
say `CHECK_DEADLOCK FALSE`; callers of the idempotency stores can always call
again, and there deadlock is checked.

### Fairness

`FairSpec` of `RequestPipeline` assumes weak fairness of: a started request's
next step (`Proceed`), because tokio polls every task that is ready, the store
clients return or fail, and the timeout layer ends a handler that does not
return; and the spawned release of a dropped guard (`SpawnedRelease`), because
tokio runs spawned tasks.  Arrivals, panics, disconnects and the expiry of counters
and rows are not fair.  The expiry of a row (`Expire`) is not, because the memory
and SQLx stores purge only when they are called: no key may be left to it.
`HandlersSettleTheirKey` therefore says what the code does without it, and names
what the code leaves to the TTL: a response too large to cache, a failed audit, a
call to the store that failed (its error is dropped), and a request dropped after
its handler ended, when no guard is armed any more, as the comment in
`middleware.rs` on the drop guard says.

`Spec` of `Deployment` assumes weak fairness of the service's own progress
(startup hooks return, the signal handler is woken, a timer fires, a complete
drain is noticed) and of time.  Requests need not end and no signal need come.

## 4. What the properties say

The properties aim at the hazards listed in PROJECT.json.  The ones that take
most to violate:

- `ExclusiveExecution`: two handlers of one key overlap only if a reservation was
  taken away by expiry, eviction or the release of a request that no longer owned
  it.  The exception is in the property, as a history variable (`bereft`), because
  the code identifies a reservation by key and fingerprint only (section 5).
- `AnsweredMeansSettled`: on every path through refusal, panic, timeout and
  handler answers, an answered leader has recorded or freed its key, except where
  the code leaves it to the TTL: a body too large to cache, a failed audit, and a
  call to the store that failed.  It is checked with store failures, too: one
  request's failure (`failed`) excuses no other.  `HandlersSettleTheirKey`: the
  same for handlers that do not answer, because they panic, time out or are dropped,
  with the release their guard spawns running whenever it runs.
- `SlotAccounting`: the counter equals the slots held, until a slot is released
  twice, released uncounted (limit 0), acquired by a call whose reply is lost, or
  the counter's TTL ends (`skewed`).
- `...ImplementsContract`: refinement of an atomic table although Redis uses two
  commands and SQLx up to five statements per call.  `RetentionKept`: no row is
  replayed past its retention and no purge, whose clock reading is old, takes a
  live one.
- `BurstsAreBounded`: across window boundaries, with skewed clocks and readings
  taken before an await.
- `LeaseAccounting`: exact, with `leaked` and `overdrawn` for the three ways in
  which the code lets a counter drift.
- `CompleteListing`: keyset paging over a table that grows out of order and
  shrinks, every row once.  `OffsetListingComplete`: the same promise for offset
  lists, less the three cases in which the pages disagree (section 5).
- `BoundedStaleness`, `ScopesAreOwnAndRecent`: Ttl plus one resolution, although a
  resolution that read an old row stores it after the invalidation.
- `ServedIdentityIsProven`: a principal may be made from two tokens; each must be
  signed by the tenant's own key, and their users and organizations must agree.
- `KeyScopeSeparates`: the scope of an idempotency key is a hash of the
  credentials, taken before they are resolved; different principals still never
  share a store key.  It needs the bound manifest (section 5).
- `ProductionRunsNoFallback`: for every order of setters and every environment,
  a production build either fails or runs without the framework's own test doubles
  and wildcard origins.
- `HandlerKeepsItsAuth`: the manifest's matcher and axum's router are two
  implementations of one question; they agree on composed profiles whatever the
  order of registration, except for two overlapping parameterised templates.
- `DocumentSpeaksForOwners`: at each route's path and method the composed document
  has exactly one operation, that of the route's own owner, whoever registered
  first and however a parameter is spelled.  It says nothing of the `security` an
  owner wrote by hand (section 5).
- `MergeIsOrderFree`: the merge takes one document after another into a growing
  state; the property hands it the contributions of a composed profile in every
  order.  It is about the merge, after registration has decided which contribution
  of an owner is kept, and about the line and patch of the version: which text of
  equal rank stays is the first ("3.1" or "3.1.0").
- `StopsAfterSignal` with `DrainDropsNothing`: shutdown ends although a request
  never does, and cuts nothing before the grace period is over.

## 5. Where code and documents disagree

Four disagreements have a run and an entry under "findings":

1. `middleware.rs:423` releases the admission slot of a refused request, and
   `finalize_response` (line 384) releases it again; the second release takes the
   slot of another request and the tenant limit of TECH-13 D9 is exceeded
   (`pipeline_double_release`).
2. Redis `begin` compares the fingerprint in its script and reads the response
   with a separate GET; if the key expires and another body completes in between,
   that response is replayed (`redis_expiry_race`), against TECH-13 D6.
3. `serve.rs:38` puts the whole serve future under the grace period's timeout, so
   a server that received no signal stops when the period has passed since its
   start (`shutdown_grace`); TECH-21 section 6 calls it the longest wait for
   connections to drain.
4. `production_assembly.rs:297` (and 236, 243, 329) asks a trait object for its
   `type_id`, which is that of `dyn AuthorizationPolicy` and never that of the
   wired type, so "production assembly must not use AllowAllAuthorizationPolicy"
   is not enforced (`production_gate`).  The comment at line 250 describes the same
   mistake, repaired, for the rate limit store; the memory admission store is
   still looked for behind its `Arc` (line 283).

Others were met while modelling.  The first group is carried by the models, mostly
as exceptions of the properties:

- Only the reservation has a drop guard (`middleware.rs:320`); a request dropped
  while it holds a slot keeps it, while `api_chain.rs:129` says the slot is
  "released after the handler completes".
- `ApiModuleRegistry::try_compose` keeps both contributions of a module that
  exposes one owner twice, and `api_assembly.rs:454` says that such a contribution
  "is always mounted"; `ComposedApiAssembly::try_compose` (line 541), to which it
  hands them, refuses an owner that comes twice, and so does the model
  (`TryCompose`).  The test `web_module_bundles_every_surface_of_one_owner` gives
  each surface an owner of its own.
- `pg_check_and_record` (`rate_limit.rs:145`) reads and writes the count in one
  transaction at read committed without locking the row, so concurrent requests
  exceed the limit; `pool.rs:15` says "multi-replica HA production capable".
  `FixedWindowLimiter` has this isolation level; `FixedWindowLimit` is checked for
  the mutex and for SQLite's snapshot.
- A late `release` or `complete` of a request whose reservation expired acts on
  the reservation of the retry with the same fingerprint (`middleware.rs:298`), so
  a third request may run while the second does.  `stores.rs:252` answers
  "idempotency key is already in progress" in that situation.
- A failing audit (`interceptors.rs:662`) runs before the idempotency stage on the
  way out, ends the chain and answers 5xx; the reservation stays until its TTL,
  while `stores.rs:63` says "Drop an in-progress reservation (5xx / panic) so
  clients may retry with the same key."
- `evict_over_budget` (`stores.rs:182`) removes the oldest rows whether completed
  or not; `stores.rs:291` speaks of "the oldest cached entries".  The contract lets
  any row vanish.
- `authorize` (`policies.rs:51`) compares only the required permission, while
  `sdkwork-web-contract/src/lib.rs:234` says alternates "also authorize the
  operation".
- `register_control_node` (`repository.rs:832`) is an INSERT and an UPDATE without
  a transaction; a deletion in between makes the registration fail, while line 89
  says "Atomically registers or refreshes a control node".
- In the guard chain a scope with limit 0 is admitted uncounted but released
  (`concurrency.rs:113`), which lowers the counter of limited runs (`overdrawn`);
  and `CallChain::after` (`chain.rs:260`) returns at the first hook error, so an
  application stage that fails in `after` keeps the concurrency stage from
  releasing (`hookFailed`), while `concurrency.rs:11` says "the chain never leaks a
  slot".
- Offset lists run COUNT and SELECT separately: an insertion between them can push
  a row off the last page, and a deletion between pages moves one to a page
  already read, while `pagination.rs:3` speaks of an "authoritative total count".
  So does a node that is registered again in a later region or in another
  environment than the one listed: the UPDATE (`repository.rs:832`) changes the
  columns the node list is ordered and filtered by (line 777).
- The authorization scope cache never compares `scope_revision`, and invalidating
  a user reaches the entries of one organization only, so revocation "across
  contexts" waits for the TTL.
- Two overlapping templates with parameters are matched by registration order
  (`route_manifest.rs:66`) and routed by axum's own rule; nothing refuses them,
  while `api_assembly.rs:179` says routes "cannot lose their declared `RouteAuth`".
- The echo loop runs the close interceptors twice when a session ends, the state
  of `run_websocket_session` never sees messages, and the first message of a
  window passes even under a limit of 0.

The second group was seen in the source; it lies beside the properties:

- With `EnforcePrincipalTenantIsolationPolicy` an anonymous visitor of an optional
  route is refused, while `interceptors.rs:850` says "catalog browsing must never
  be gated".
- Ingress and agent tokens: the Access-Token that "still supplies app/tenant scope"
  is resolved and its result discarded.  An Authorization header that is not a
  Bearer counts as no credential on optional routes.  Clock skew tightens the
  expiry of tokens instead of relaxing it.  The rate limit's credential fingerprint
  is which credentials are present, where the comment says per credential.
- Idempotent commands take no reservation on vendor-credential and anonymous
  optional routes; without a bound manifest, keys of different principals can meet.
- Refusals by failed resolution emit no security event; refusals by policy do.
  Whether the event is kept is up to the emitter: `interceptors.rs:1285` says that
  a refusal whose event cannot be emitted fails closed, but the repository's
  `SqlxSecurityEventEmitter` logs a failed write and returns `Ok`
  (`security_events.rs:12`), and the default emitter records nothing
  (`policies.rs:219`).
- Hand-written operations keep the `security` their author gave them
  (`openapi.rs:27`): it may ask clients for credentials the route refuses.
- A composed document's version text depends on the order of the owners when two
  texts have one rank, and of two modules that bring one owner the first counts
  (`api_assembly.rs:467`).
- Address lists: a mapped-IPv6 CIDR entry never matches, and a per-key access
  policy replaces the global denylist.
- Assembly: a merged dependency brings no document, so the contribution fails its own validation; router collisions panic before the
  validation that would return an error; components of the same name are taken
  from the first owner although `openapi_merge.rs:237` accepts duplicates "only
  when structurally identical"; the union of top-level security loosens both.
- OpenAPI: the surface is inferred by text prefix (`/v1beta` is the gateway's) and
  at run time by segments; a list with alternate permissions outside the backend
  declares a `tenant_id` selector and then panics on its own rule; hand-written
  documents are not checked for selectors.
- Schema registry: tables match by key names only; annotated dependency tables
  conflict with the redeclaration that `source_refs` allows; a missing optional
  registry turns its tables into generated ones.

## 6. Proofs

`tlapm` checks every step of the eight proof modules; they hold the properties of
section 4 for instances of any size: any sets of requests, callers, keys,
fingerprints, tenants, policies, routes and credentials, any limits, windows, TTLs
and budgets, any set of faults.  Each module follows one pattern.  The inductive
invariant `IInv` of a component stands at the end of the component's module, as a
conjunction of named parts, and was checked with TLC on the component's run; the
proofs module shows that `Init` establishes it and every action keeps it, one step
per action, and derives the properties from it.

### Assumptions

Constants are what the code makes them: limits and times are naturals, windows,
TTLs and intervals at least 1, the sets whose members are counted (`Request`) are
finite, `Faults` names known faults.  A sentinel (`None`, `Vacant`, `NoWindow`,
`NoRoute`) is none of the values it stands beside (`NoneAssumption`,
`VacantAssumption`, `NothingAssumption`, `RowAssumption`).  Structured constants
have the fields the code's types give them (`PolicyAssumption`, `ClientAssumption`,
`SubjectAssumption`, `TemplateAssumption`, `AssemblyAssumption`,
`SchemaAssumption`): manifests are sequences of routes and templates of segments,
documents have finitely many entries, and a segment's form is told by its spelling,
as the parsers tell it.  `ManifestAssumption` is what the builder has validated
before a pipeline exists (`framework.rs:435`).  All of these are named ASSUMEs which
TLC evaluates in the runs.  Four theorems carry a further hypothesis in their
statement, because the code does not guarantee it:

- `RedisIsAStore` and `EveryReplayIsOwn` assume `~ExpiryDuringGet`, that no key
  expires between the begin script and its GET; the run `redis_expiry_race` is the
  counterexample without it.
- `TenantsStayApart` assumes `ParametersAreUnique`, that no template of the
  manifest names two segments alike.  The path guard collects parameters into a map,
  in which the last one of a name counts (`path_resource_guard.rs`), and no
  validation refuses them.
- `KeysSeparatePrincipals` assumes `RoutesAreAdmitted`, that a template of the
  manifest matches only paths on its own surface and that a compatibility scheme is
  one header.  Manifest validation classifies the template and the pipeline the
  path; a template that starts with a parameter can match a path of another surface.

Both are conditions on the manifest alone, which a reader can check on theirs; what
the matcher does with it is part of the proof.

### Theorems, by module

`RequestPipeline_proofs`.  `ExclusiveExecution` is not inductive: nothing in it
says that a leader still holds its row.  `IInv` adds that a leader knows its key
(`LeadersKnowTheirKey`), that every row was inserted for exactly one request, with
that request's key and fingerprint (`RowsHaveHolders`), that a leader whose row was
not taken away holds it until its handler ends (`LeadersHold`), and that every
record and every replay belongs to a finished request with the same key and
fingerprint that was answered with a 2xx (`RecordsAreGenuine`,
`ReplaysAreGenuine`).  The lemmas treat the steps by what they do to the store:
quiet steps, removals of a row, releases, arrivals.  `TypeCorrect`, `Exclusion` and
`ReplayIsFaithful` follow; `RecordIsKept` is the action property
`FirstResponseKept`.  `AnsweredSettled` adds where each leader stands on its way
out (`LeadersSettle`): one about to record still holds its row, and one whose answer was not a 2xx
reaches the release.  `SlotInvariance` needs that counted requests know their
scope and that no counter exceeds the largest limit; `CountersCountSlots`,
`InFlightIsBounded` and `AnsweredGaveBack` follow.

`IdempotencyStores_proofs`.  First the contract: `ContractInvariance` carries the
types, `RecordsMatchRows` and `ReplayMatchesFingerprint` from step to step, and
`OutcomesAreGood` shows that every outcome of an operation keeps them; `ReplaysMatch`
is the promise of TECH-13 D6.  Then the refinements: `MemoryIsAStore`,
`RedisIsAStore`, `SqlxIsAStore`.  For each store, a lemma says which outcomes the contract allows in
the words of the store (`...Outcomes`), another that a step with such an outcome is
the instant of the call (`...Performs`), and `...Refines` goes through the steps.

- Redis: a begin that waits for its GET relies on a record of its own fingerprint
  (`FetchesItsRecord`).  No script writes over a record, so only the TTL can take
  it away, which is why the hypothesis is needed and suffices.
- SQLx: `Table` forgets the expiry times.  A SELECT that finds a row is the instant
  of its call; one that finds none leaves it to the INSERT, and an UPDATE without
  effect to the SELECT after it.  Loading and swapping `last_purge_secs` are
  stutters, purges are losses of rows.
- Memory: a key has at most one entry (`Unique`), so the table is well defined;
  the purge before a call and the eviction after it are the contract's early and
  late losses, whatever the budgets choose.

`EveryReplayIsOwn` states D6 of the stores themselves, from their own rows and not
through the contract: next to its refinement invariant each store keeps
`RecordsAreOwn`, that a record lies under the fingerprint it answers, because only a
`complete` that compared the fingerprint writes one (`MemoryReplays`, `RedisReplays`,
`SqlxReplays`).  The memory store compares and replays under one lock and the SQLx
store in one SELECT; the Redis store compares in the script and reads in the GET, and
between the two the key keeps its fingerprint for as long as it lives.

`RetentionIsKept` is the pair of action properties `RetentionKept`: the entry that
answers a begin survived the purge of that begin, and a caller about to purge goes
by a clock reading of the past (`PurgesReadTheClock`).

`RateLimiters_proofs`.  `WindowsAreLimited` follows from an exact count: under the
mutex and under SQLite's snapshot the number in a bucket is the number of requests
admitted in its window.  `BurstsAreLimited` needs to know how windows lie to each
other: any two that admitted something are a window's length apart
(`WindowsAreApart`), requests of one window have different ranks below the limit
(`RanksAreUnique`), and the bucket is the last window (`BucketIsLast`), so an
interval of a window's length meets two of them.  For Redis the sorted set still
holds every request admitted within a window less the skew (`RecentIsKept`),
because its key outlives the window and the readings in flight are recent;
`RanksAreFresh` makes the history a count of requests.

`GuardChain_proofs`.  `LeaseAccounting` counts leases by position, because
`with_scopes` accepts the same scope twice.  `InFlightBound` needs `LimitsHaveRoom`:
among any leases of a counter that was never overdrawn, one was admitted under a
limit with room for all of them.  `RunsAreSound` says which leases a run can hold
at each point; `EndedReleased` and `AdmittedArePermitted` follow from it.

`ControlPlane_proofs`.  Five components, five invariants.  Keyset lists
(`TenantsAreIsolated`, `ListingsAreComplete`): rows are written once and never
change (`RowsAreWritten`), and the pages so far hold every row of the session's
scope above the cursor that was there when it began (`PagesSoFar`).  Offset lists
(`OffsetListingsAreComplete`): the same, less the exceptions of the property; a
deletion or a move changes how many rows are ahead of the others by one (`Exchange`,
`MovedAhead`).  Nodes
(`NodesAreCreatedOnce`, `HeartbeatsAreFresh`): clock readings in flight are recent.
Caches (`StalenessIsBounded`, `InvalidationsReachTenants`, `ScopesAreOwn`): a
resolution under way has read what was current when it started (`TaskIsCurrent`,
`EnrichmentIsSound`), and so an entry is at most that much older than its insertion
(`EntryIsCurrent`, `EntryIsSound`).

`RequestEntry_proofs`.  `IInv` is what each stage hands on to the stages after it:
the route and surface are those of the manifest (`ClassifiedByManifest`), a cookie
write passed the origin check (`SourceIsTrusted`), the store key is a function of
credentials and path (`KeyIsScoped`), the principal is the one some resolver
derives from the credentials (`IdentifiedByCredentials`), and what authentication
and tenant isolation admitted (`AuthenticationHeld`, `IsolationHeld`).  A session
may be revoked between any two stages, so these facts speak of what was not revoked
when the resolver looked.  That a matched route is one of the manifest, and one whose
template matches, follows from the matcher's definition (`MatchIsDeclared`).
`IdentityIsProven`, `AnonymousIsDeclared`,
`CookieWritesAreTrusted`, and with the hypotheses above
`TenantsStayApart` and `KeysSeparatePrincipals`.

`Deployment_proofs`.  `ProductionIsWired`: whatever the setters did, a build that
succeeded was validated (`BuiltWasValidated`).  `DrainIsGraceful` is not inductive
because it does not say in which phase of the server anything may be open or
cleaned up; `RunsAsStarted` ties the phases to the hooks, the signal and the clock.
`ReadyAnswersAreTrue` needs that a probe under way has seen every check it passed
(`ChecksSawTheirDependency`).  `RegistrationsAgree`: the lock is written only while
unregistered.  `MessageBurstsAreBounded`: an echo is followed by the limit's next
one a window later (`EchoesAreSpread`), and the window under way holds exactly its
messages (`WindowHasItsMessages`).  `HandlersKeepTheirAuth`, `DocumentsSpeakForOwners`,
`MergesAreOrderFree` and `OwnersKeepTables` rest on the next module.

`Composition_proofs`.  The compositions are loops over modules, documents, routes,
tables and fragments, of any length.  Each loop is a recursive function over the
number of rounds (`LoadedUpTo`, `EffectiveUpTo`, `CompiledUpTo`, `MergedUpTo`,
`KeptUpTo`, `FlattenedUpTo`, `RoutesUpTo`); a lemma `...Unfolds` shows that a
function with its equation exists, and what holds of every round follows by
`CountingUp`, which is the least counterexample of `LeastNat` turned round.  The
invariant says that a profile or registry is what the composition makes of the
state (`ProfileIsComposed`, `ComposedIsCurrent`, `FrontendIsCurrent`).

- `HandlersKeep`: a manifest that was validated has no two routes of one identity
  (`KeysTellRoutesApart`), so at most one literal template matches a path
  (`OneLiteralTemplate`), and where the first difference is, it is the literal
  (`LiteralGoesFirst`); both matchers then choose it (`MatchIsRouted`).
- `DocumentsSpeak`: the inventories of a contribution have one row per route and
  agree, so counting pairs its operations with its routes (`OperationsAreRoutes`);
  an operation being unique, no other document has one at a route's path, and the
  merged one is the owner's.
- `MergesKeep`: a merge without its loop (`MergeStates`): documents merge when they
  fit pairwise (`Agree`), and the merged one has the union of their keys, an entry
  of the first that has it, and the highest patch.  All of this is symmetric in the
  documents, except which of the entries of a shared part and which text of the
  version is kept; operations are not shared (`MergesCommute`).
- `OwnersKeep`: a table that is loaded is never replaced (`AddTablesKeeps`,
  `MergeTableKeeps`), whatever the modules' order; `SortedExists` shows that every
  set of declared orders can be sorted, so every module is visited.  The property
  leaves out the key `imported_from_module`, which the annotation sets.

Arguments over the least or greatest element of a set of numbers go through a lemma
of well-ordering (`LeastNat`), proved in each module that needs it from the
library's theorem that < is well founded on the naturals.

### Only model-checked

- `RequestsEnd`, `HandlersSettleTheirKey`, `StopsAfterSignal`: liveness, which needs
  fairness and ENABLED.

Every other property of the passing runs is stated by a theorem.

## 7. Plan

Done: the inventory; the pipeline with its two stores and the decisions at its
entry; the store contract and its three implementations; the limiters; the guard
chain with its policies; the control plane with both kinds of lists and both
caches; the builder, the assembly with its documents, the lifecycle, the region,
sockets and the schema registry; the theorems of section 6, which state every
safety and action property of the passing runs.

Next: the Redis limiter and the admission counters against an abstract counter, as
the stores were shown against their contract.

## 8. Not modelled

- Cryptography (JWT signatures, hashes): a signature is the equality of a token's
  signer with the key the verifier selects.  Parsing of headers, locales and client
  kinds: pure functions of one request without shared state.
- Formatting of problem responses, metrics, tracing, redaction: no effect on what
  a request does.
- Security events: the pipeline decides only whether a refusal is answered as it is
  or as an unavailable dependency (`EmitSecurityEvent`, both possible); what is
  recorded depends on the emitter, and the repository's own give no guarantee.
- Of documents: descriptions, examples, schema bodies.
  Of the assembly: `ContractFallback`, `into_hosted` and the layering of routers.
- Build helpers, test utilities, the PC console: sequential, generated or user
  interface.
- Start-up wiring of the admin server and database migrations: I/O.
- Within the modelled parts: the SQL dialects beyond isolation and conflict
  clauses, connection pools, and the real values of timeouts and TTLs.
