# A verification project for llmgw

llmgw is a gateway between clients and LLM providers. It routes a request to a
provider, retries and falls back, streams the answer back, and accounts for what
was used against quotas that many requests share. Its hard parts are not in any
one function. They are in goroutines, clocks and stores that interleave around a
single request. This project models those parts in TLA+, checks the models with
TLC and proves the central invariants of four of them with TLAPS.

Source paths below are relative to `src/`.

## The system

| part | code | state | operations |
|---|---|---|---|
| concurrency limiters | `policy/attempt.go` | a map of limiters, each a counter, a last-seen time and a retired flag | acquire, release, prune |
| circuit breaker | `policy/attempt.go`, `store/redis.go` | per route: failures, open until, latest admission, success and failure; in one process or shared | allow, fail, succeed, prune or expire |
| attempt policy | `policy/attempt.go`, `gateway/gateway.go` | per request: the route and try, the slots it holds, the stream and its watcher | dispatch, call, retry, fall back, read, close |
| quota interceptor | `policy/quota.go`, `gateway/usage.go` | per request: reserve, credit, attempts recorded, usage per attempt, a renewal goroutine | admit, top up, reconcile, renew, settle |
| quota stores | `store/store.go`, `store/redis.go` | holds, used amounts, minute counters, reservations or leases, settlement records | Reserve, TopUp, Commit, Refund, expiry |
| limit stores | `store/limits.go` | a snapshot of a table, a refresh loop, an error hook | get, put, refresh, close |
| rates and slots | `store/redis.go`, `store/rlm.go` | token buckets or GCRA times, leased slots | allow batch, acquire, renew, release |
| usage and prices | `gateway/usage.go`, `policy/token.go` | counts that may be missing or malformed | estimate, normalise, reconcile, price, add up |
| provider calls | `proxy/` | the response body, the usage reported so far, the attempt's ledger entry | invoke, prefetch, read, close |
| request pipeline | `gateway/`, `policy/`, `api/server.go` | a snapshot of the configuration | authenticate, filter, resolve, estimate, dispatch |
| process | `app/app.go`, `cmd/llmgw/main.go`, `gateway/config.go` | request tracker, HTTP server, stores, configuration | load, start, serve, reload, shut down |

How they interact: a handler (`api/server.go`) executes a request through the
request policies, of which the quota interceptor is one. The interceptor reserves
in the quota store and calls `Engine.dispatch`, which tries the candidate routes
in turn. Each try passes through `AttemptLimits.WrapAttempt` (breaker, limiters,
rates) to `Engine.invoke`, which calls the provider and completes the attempt in
the usage accumulator. A streamed result leaves all of these frames with its
slots and its breaker outcome still owed. `attemptLifecycleStream` owes them
until the stream ends, is closed, or its context does. When the handler is done
it settles: usage is committed to the store or the hold refunded. Shutdown waits
for handlers before it closes the stores they settle in.

## Modules

| module | models | kind |
|---|---|---|
| `Semaphore` | what a limiter promises: per key, no caller is let in beyond its limit | abstract specification |
| `Limiter` | the map of limiters with lazy creation, pruning and retirement | component |
| `Breaker`, `RedisBreaker` | the circuit breaker of one process, and the one shared through Redis | components |
| `RateStore` | `MemoryRateStore` and the GCRA script, given the same batches | two components, compared |
| `RedisSlots` | slots leased from Redis, their renewal goroutines and a lossy connection | component |
| `Attempt` | dispatch, WrapAttempt and the lifecycle of a streamed call | composition of the request's actors |
| `ProviderCall` | `Provider.Invoke`, from sending the request to its entry in the ledger | component |
| `BridgeStream` | the reader that converts a streamed answer for another API | component |
| `StreamUsage` | the readers that limit a stream and read usage from it | component |
| `QuotaAccount` | the quota interceptor, the usage accumulator and a store that may lose replies | composition |
| `QuotaKeys` | the counters a reservation is charged to | operators |
| `QuotaStore`, `RedisQuota` | the in-memory and the Redis quota store | components |
| `UsageMath` | saturating sums, normalisation, reconciliation and prices | operators |
| `Charge` | what attempts are estimated at and charged | component |
| `LimitSnapshot` | the refreshing limit store, PUT handlers and the error hook | component |
| `Routing` | candidate selection and the preparation of a route | operators |
| `Pipeline` | a request through every interceptor, beside reloads and changed limits | composition |
| `ConfigLoad` | the validation of a configuration file | component |
| `Startup` | `app.New`, `Reload`, `main` and every early return | component |
| `Service` | request tracking and shutdown | component |
| `*Proofs`, `BreakerInvariant` | the theorems about the module of that name | proofs |
| `MC*` | the instances TLC checks | instances |

Definitions keep the names of the Go functions. `PROJECT.json` maps each one to
its lines. Every module holds, before the definition it replaces, the mutants
its properties are tested with: plausible mistakes in the code that the property
must catch.

### Limiter

One action per critical section: a caller enters (and every 256th operation
starts to prune), ranges over the map, retires an idle limiter under its lock,
unlinks it with CompareAndDelete, loads or stores its own key's limiter, and
acquires under the limiter's lock. A retired limiter sends it back to the map.
`pc` is the point a caller has reached between two of these sections. Limiter
objects come from a finite pool and a fresh one is any object nobody refers to.

### Breaker and RedisBreaker

AllowAttempt, FailAttempt and SuccessAttempt are one action each, since each
holds the mutex throughout. Calls report in any order and some never report (the
rate store refuses them, or the client leaves). The clock is bounded, and stands
still while the retention the code relies on (`routeAttemptStateTTL`) would be
exceeded by a call in flight. History variables record which admissions failed
and succeeded. The code does not read them.

`RedisBreaker` has one action per script, on a hash that expires. Its clock
counts microseconds, which is the unit of admission times, and milliseconds,
which is the unit of expiry. A report may be lost, and a client with retries may
execute one twice.

### RateStore

An attempt debits the request and the token bucket of its route in one batch.
Every batch goes to both stores in one step, so that a difference shows at once.
The in-memory buckets are pruned and rolled back as the code does it. The
script's bucket is a theoretical arrival time that expires. `log` records what
was admitted and when, for the definition of a rate over every window. A limit
changed by a reload, which resets a bucket (`limitChanged`), is left out.

### RedisSlots

One action per command sent, executed and answered. A command may be lost before
it is executed, its reply may be lost, the client may give up and leave it on the
wire, and the connection may repeat it. Per slot there is the holder, the renewal
goroutine with its interval of a third of the lease, and the release, which joins
the renewal first. Time is counted in ticks. Leases and the key itself expire.

### Attempt

Actors: the request's goroutine, which dispatches and later reads the stream; the
watcher goroutine; the provider; the client and the deadline. A blocked
Read returns either because the provider answered or because the watcher closed
the body under it, and what the reader then does with the error (`ReadHandle`) is
a step of its own, which the watcher may precede. `taken` and `given` count how
often slots were taken and given back. `reports` collects the outcomes the
breaker is told for each admission.

### ProviderCall

One action per thing that can happen to a call: the context is over before it
starts, the request cannot be built, the provider cannot be reached, refuses,
answers too much, answers badly or well, breaks off during the prefetch, stalls.
`body`, `entry` (the ledger) and `reserve` are what these leave behind. A panic
inside an adapter is not modelled.

### StreamUsage and BridgeStream

`StreamUsage` feeds bytes of four kinds in pieces of any size through the limit
reader and the usage tracker. The reference is defined on the whole byte string:
its lines, and the events of its lines. A line longer than the buffer is dropped
in parts that depend on how reads cut it, so the comparison is for streams whose
lines fit (`ShortLines`). `BridgeStream` reads lines of every kind and delivers
their conversion in reads of any size. The text of a line is abstracted to its
kind and position. Reading stops at the first error.

### QuotaAccount

One request. Every store call may succeed, be refused, or take effect and lose
its reply. Tokens and spend take the same path through the same minima and sums
and are one number. The renewal goroutine's store call is split into its start
and its return, so that settlement can begin in between.

### QuotaKeys, QuotaStore and RedisQuota

`db` is the store's state. In memory: `values` (a bag, as every entry is a sum of
increments), the expiry of the used values, the minute `counters`, the
`reservations`, and the `settlements` in order of settlement. Each operation
starts with the cleanup the code starts with. `Cleaned` takes the order in which
Go's map iteration meets overdue reservations as a parameter, and the action
chooses it. Keys carry scope, kind, dimension, period and bucket. `history` holds
what clients were told, which the properties compare `db` with.

In Redis: counters and hashes with a time to live each, a ticket per reservation
and a lease in every scope it holds. Each script is one action. Reserve reads
Redis' time in a call of its own first, so the script runs with a time that may
be `MaxLag` behind. `Resends` lets the client repeat a top-up.

### UsageMath and Charge

Counts are bounded by a small `MaxInt` at which sums saturate, as the code's do
at the largest int64. A negative count is a malformed one. `Charge` estimates
each attempt, lets the provider report in a body, an error or a stream of
snapshots, completes the attempt in full or in part, and settles the request.
`settledQuotaUsage`, the fallback of a total of zero, is left out: an attempt that
is charged is charged at least its estimate, which is never zero, or what was
reported.

### LimitSnapshot

Actors: PUT handlers, the refresh loop, the notifier goroutine that tells the
error hook, Close, and other instances that write the table. Each waits for
`updateMu` where the code does. A row has the version of its write, so that
"older" and "newer" can be told apart.

### Routing and Pipeline

`Pipeline` takes a request through the interceptors in the order of `app.New`,
one action each, while the file is reloaded and limits are put between any two of
them. `Routing` has the candidates of a request: the routes that serve its model
and operation, natively or over the bridge, sorted by priority and rotated by
weight. What decoders, tokenizers and JWT verification return is an input.
Weights of zero and weights whose sum overflows do not pass validation, so the
instances have none.

### ConfigLoad, Startup and Service

`ConfigLoad` visits the maps of a file in any order and stops at the first error.
The syntax of a single field is a flag. `Startup` has one action per step of New
that can fail, with what it closes on the way out, the reload on SIGHUP and the
exit. The keys Redis is probed with are not modelled. In `Service` a handler
arrives, is accepted or refused by the tracker, settles and is deregistered.
Shutdown is split where the code blocks. `Exit` is the process ending when `run`
returns.

## How components are composed

Components that act on one another are one module: `Attempt`, `QuotaAccount` and
`Pipeline`. Components that replace one another, or whose interface to the rest
is small, are composed by choice in the MC modules. Memory or Redis is chosen when
the process starts (`buildStores`, and `l.State != nil` in `policy/attempt.go`),
never per request. A variable (`part` or `store`) is fixed in the initial state
and says which component moves; the others stay as they began. Such a run
explores the sum of its parts, not their product. The fairness of a part is
guarded by the choice, so that a part that does not move owes nothing.

## What the runs check

| run | shows | bounds | states |
|---|---|---|---|
| `limiter` | holders of a key share the mapped limiter; the whole implements `Semaphore` | 3 callers, 1 key, 4 limiter objects, pruning on every second call, 2 clock ticks | 174,972 |
| `policy` | the newest evidence decides a circuit, in one process and shared; the two rate stores take the same decisions, and no window exceeds its rate | 2 routes, 3 concurrent calls, 4 admissions, threshold 2; one repeated report or none; 2 rate keys, 5 ticks | 1,030,175 |
| `stores` | every hold has an owner; usage is charged once; used plus held stays within limits but for usage beyond its hold; minute counters are exact; no ID is admitted again within the replay window; renewed slots stay within their limit | 2 requests, up to 2 nested scopes, 3 or 4 ticks, periods that end within them; 2 attempts on one slot | 236,211 |
| `quota_account` | the store holds at least the reserve, which is credit plus recorded estimates; running work is covered; what is committed is final, and only unused reservations are refunded; every request settles and every hold ends | 3 attempts, estimates 0..2, reports {0, 1, 3} | 127,244 |
| `process` | stores outlive handlers; a failed start and a stopped service hold nothing; the verdict on a file does not depend on map order; Shutdown ends; limits written elsewhere arrive and Close returns | 3 connections, every choice of stores, files that differ from a good one in a part or a pair, 1 PUT handler | 39,550 |
| `pipeline` | only eligible routes are dispatched, in order, under a reservation that covers them; nothing is charged short; totals cover every attempt; usage does not depend on how reads cut a stream; an acknowledged limit is served | 5 configurations, 6 routes, requests of every kind; 320 reports of one attempt, 4 of two; streams of 8 bytes; 2 PUT handlers | 1,287,573 |
| `attempt` | slots cover the upstream call and are given back once; one outcome per admission; a client that leaves is no failure; a stalled reader loses its slot; leases end; every provider call is accounted for once and its body closed; a bridged stream delivers exactly its conversion | 2 routes, 2 tries; 1 attempt with two leases; streams of 4 lines | 66,488 |

A property of these runs often has several conjuncts, one per aspect of one
promise. `PROJECT.json` lists at least one mutant per property, and further ones
that break other conjuncts of it.

Five runs show where the code and its own words part:

* `breaker_stale_failure`: SuccessAttempt ignores a success older than the latest
  failure and does not record it, so a failure older still counts after it. The
  comment at `policy/attempt.go:664` says such a failure is stale.
* `shutdown_exit`: the command exits when Shutdown returns. Handlers that were
  force-closed may not have settled, although `app/app.go:278` and
  `docs/operations/reliability.mdx:82` say they do.
* `quota_minute`: a top-up is checked against and charged to the minute its
  request was reserved in. `docs/configuration/quotas-and-limits.mdx:43` speaks of
  the current minute.
* `quota_lag`: Reserve reads Redis' time in a call of its own and prunes by it. If
  the script runs after a lease has come due and its counter has expired, a later
  prune takes that lease from what another request holds, and more than the budget
  is admitted (`store/redis.go:1156`,
  `docs/configuration/quotas-and-limits.mdx:45`).
* `quota_resend`: the top-up script adds its delta every time it is executed, so a
  repeated call is held twice. `docs/configuration/storage.mdx:92` calls top-ups
  idempotent.

Three more were met while modelling and have no run of their own. The models
contain the behaviour, and the properties are stated so as to allow it:

* A breaker failure that the client repeats counts twice (`store/redis.go:163`;
  `docs/configuration/routes.mdx:243`). `SharedEvidenceDecides` asks for distinct
  failures only where nothing is repeated.
* A lease set may expire before the counters it explains when requests of one
  scope have very different TTLs (`store/redis.go:513`;
  `docs/configuration/quotas-and-limits.mdx:174`). The instances' TTLs are close.
* A stream that breaks off during the prefetch is reconciled
  (`gateway/gateway.go:715`), while the comment at `gateway/gateway.go:449` says that
  aborted streams keep their reserve. `LedgerIsTrue` ties the reserve to the ledger
  instead.

### Bounds

Bounds are chosen so that each hazard happens within them. Two requests suffice
for holds to compete and a replay to meet a live reservation. The clocks run past
the end of a minute, a day, a reservation and a key. Reports above the estimate
exercise the top-up at settlement. Two routes of two tries have a retry, a
fallback and an exhausted route. Two attempts compete for one slot, with leases
long enough for a renewal to fail and the next to succeed. Two PUT handlers and a
refresh suffice for a load to be overtaken. Stream buffers are smaller than
events, and events than streams, so that every line break can fall on, before and
after the end of a read. The mutants show that the bounds are not too small to see
a mistake.

Deadlock is checked for the limiters, whose operations can always be called. It
is not checked where the modelled thing ends: a request, a process, a stream, or a store whose
bounded clock has run out.

### Fairness

* `Attempt`: the request's goroutine, the watcher and the deadline timer are
  weakly fair. The reader is not: it may wait on its client for ever, which is
  the case the watcher exists for. The provider owes an answer only once the
  call's context has ended, and the client owes nothing.
* `QuotaAccount`: the request's goroutine, its provider calls included (every
  route has a timeout), and the renewal's store call in progress, which has a
  timeout of its own, are weakly fair. So is the renewal's end once it is
  cancelled, since its select loop then has a ready case, and the expiry of a
  reservation that nobody extends.
* `Service`: Shutdown, the deferred cleaner and the exit are weakly fair. Handlers
  are fair only in the library and in `shutdown_exit`.
* `LimitSnapshot`: the steps of the refresh loop, of Close and of the PUT handler
  are weakly fair, as goroutines that run. The two acquisitions of `updateMu` are
  strongly fair, because a Go mutex hands over to a waiter that has waited too
  long. A load that is tried again and again succeeds in the end (strong
  fairness): without it no limit need ever arrive. The error hook is not installed
  in the live instance, since neither Refresh nor Close waits for the notifier; the
  `pipeline` run has it.
* `RedisSlots`: the release, the renewal goroutine, the emptying of the wire and
  time are weakly fair. A command on the wire is executed or lost, as the
  connection decides.
* `ProviderCall`: the deadline and what the call does once its context is over.
  The provider owes nothing.
* `BridgeStream`: the client reads on. Its source ends or fails.

## What is proved

The theorems hold for every set of callers, keys, routes and connections and
every limit, under the named assumptions of the modules (finite sets, positive
bounds).

* **Limiter.** The inductive invariant adds to the two safety properties (a
  limiter's counter is the number of its holders; holders of a key share the
  mapped limiter) that only retired limiters are unlinked, that a limiter a caller
  is about to lock and which is not retired is still the mapped one, and that no
  limiter serves two keys. That is what makes CompareAndDelete safe: an unlinked
  limiter was retired under its lock, and a retired limiter accepts nobody. The
  refinement theorem maps a caller to `Semaphore`'s states and every step to a step
  or a stutter.
* **Breaker** (`BreakerInvariant`, then `BreakerProofs`). The invariant orders
  admission times with admission sequence numbers, relates the recorded times to
  the newest outcomes, and says that pruning drops only state whose calls are all
  over. From it follow the three safety properties, one of them an action property.
* **Service.** The invariant ties the point Shutdown has reached to what has
  happened to the stores, and the tracker to the set of accepted handlers.
* **Attempt.** The invariant has six parts: types; slots owed exactly while a
  call or an uncompleted stream exists; a stream that is open has not been
  completed by anyone; admissions bounded by the tries of the routes so far; no
  outcome yet for the admission at work; and who ended the call first, as its
  context tells it. Each part has a lemma with one step per action. The safety
  properties about slots and outcomes follow.

Type correctness of these four modules, the limiters' count of slots
(`LimiterCountsSlots`) and the tracker's count of handlers
(`ServiceTrackerIsExact`) are proved and not repeated in a run.

Only model-checked: liveness (out of the prover's reach), and the remaining
modules. `QuotaStore`, `RedisQuota`, `RateStore`, `QuotaAccount` and `Charge` rest
on folds and sums over bags, batches and attempts, which need induction over data.
`LimitSnapshot`, `RedisBreaker`, `RedisSlots`, `ProviderCall` and `Startup` have no
such obstacle: proofs of their safety properties are the next step, in that order.

## Not modelled

* The translation of JSON between provider dialects (`proxy/bridge.go`, the
  adapters), token counting, the decoders of requests and the error envelopes of
  `api/`, YAML decoding, SQL, JWT cryptography: functions of their input, whose
  results the models take as inputs.
* The OpenAPI document, metrics and logs: no decision reads them.
* `CachedQuotaLimitStore` and `MemoryCounterStore`: constructed by tests only.
* `MemoryQuotaLimitStore`: one map under one lock.
* A panic inside an adapter, and memory or file descriptors running out.
