------------------------------ MODULE RateStore ------------------------------
(***************************************************************************)
(* Rate limits per route (policy/attempt.go: checkRates; store/rlm.go:     *)
(* MemoryRateStore; store/redis.go: AllowBatch and redisRateBatchScript).  *)
(*                                                                         *)
(* An attempt debits the requests-per-minute and the tokens-per-minute     *)
(* bucket of its route in one batch that must charge both or neither.  The *)
(* process-local store keeps token buckets that refill and forgets idle    *)
(* ones; Redis keeps, per key, the theoretical arrival time of GCRA, under *)
(* a time to live.  The model runs both stores in lockstep on the same     *)
(* batches and the same clock, so that their decisions can be compared.    *)
(*                                                                         *)
(* Amounts are kept in ticks: a debit of n tokens of a bucket that earns a *)
(* token every Interval ticks weighs n * Interval.                         *)
(***************************************************************************)
EXTENDS Integers, Sequences, FiniteSets, FiniteSetsExt, Functions

CONSTANTS
  Key,             \* rate keys
  Interval,        \* by key: ticks to earn a token (period / rate)
  Burst,           \* by key: burstSize
  Asked,           \* what attempts ask for: [route, attempt, request], see CheckRates
  Second,          \* ticks in a second
  RateIdleTTL,     \* memoryRateEntryIdleTTL
  RatePruneEvery,  \* memoryRatePruneEvery
  RatePruneLimit,  \* memoryRatePruneLimit
  RateMaxTime      \* bound on the clock

\* What the constants must satisfy.
RateStoreAssumption ==
  /\ Interval \in [Key -> Nat \ {0}] /\ Burst \in [Key -> Nat \ {0}]
  /\ \A a \in Asked : /\ a.attempt \in Nat /\ a.request \in Nat
                      /\ a.route.rpm \in Seq(Key) /\ a.route.tpm \in Seq(Key)
  /\ Second \in Nat \ {0} /\ RateIdleTTL \in Nat
  /\ RatePruneEvery \in Nat \ {0} /\ RatePruneLimit \in Nat /\ RateMaxTime \in Nat

VARIABLES
  limiters,        \* MemoryRateStore.limiters: level, when it was computed, lastSeen
  rateOperations,  \* MemoryRateStore.operations % RatePruneEvery
  tat,             \* Redis: by key, the theoretical arrival time and the key's expiry
  rateClock,
  log              \* history: by key, the debits admitted by either store

rateVars == <<limiters, rateOperations, tat, rateClock, log>>

Capacity(k) == Burst[k] * Interval[k]
Weight(k, n) == n * Interval[k]

RateInit ==
  /\ limiters = <<>> /\ rateOperations = 0
  /\ tat = <<>>
  /\ rateClock = 0
  /\ log = [k \in Key |-> <<>>]

-----------------------------------------------------------------------------
\* checkRates: one request, and the tokens estimated for the attempt, for the request as a
\* whole when the attempt has no estimate, or one.  A key is absent when its limit is not set.
CheckRates(route, attemptEstimate, requestEstimate) ==
  LET tokens == IF attemptEstimate > 0 THEN attemptEstimate
                ELSE IF requestEstimate > 0 THEN requestEstimate ELSE 1
  IN [i \in DOMAIN route.rpm |-> [key |-> route.rpm[i], n |-> 1]]
       \o [i \in DOMAIN route.tpm |-> [key |-> route.tpm[i], n |-> tokens]]

Batches == {CheckRates(a.route, a.attempt, a.request) : a \in Asked}

\* normalizeRateRequests: debits of nothing are dropped, debits of one key are added up.
Asking(batch, k) == {i \in DOMAIN batch : batch[i].n > 0 /\ batch[i].key = k}
Normalized(batch) ==
  [k \in {k \in Key : Asking(batch, k) # {}} |->
     SumFunctionOnSet([i \in DOMAIN batch |-> batch[i].n], Asking(batch, k))]

\* A key's place in the normalized batch is that of its first debit.
NotAfter(batch, k, other) ==
  \E i \in Asking(batch, k) : \A j \in Asking(batch, other) : i <= j

-----------------------------------------------------------------------------
(* The process-local store.  The token bucket is golang.org/x/time/rate.    *)

\* Mutant: a bucket fills beyond its burst.
LevelUncapped(entry, k) == entry.level + (rateClock - entry.at)

\* Limiter.advance: what is in the bucket now.
Level(entry, k) == Min({Capacity(k), entry.level + (rateClock - entry.at)})

\* Mutant: an idle bucket is forgotten before it is full again.
ForgettableLimiterNotFull(k) == rateClock - limiters[k].seen > RateIdleTTL

ForgettableLimiter(k) ==
  /\ rateClock - limiters[k].seen > RateIdleTTL
  /\ Level(limiters[k], k) >= Capacity(k)

\* pruneLocked: every RatePruneEvery calls, among RatePruneLimit entries in map order.
PrunedLimiters(inspected) ==
  IF (rateOperations + 1) % RatePruneEvery # 0 THEN limiters
  ELSE Restrict(limiters, {k \in DOMAIN limiters : ~(k \in inspected /\ ForgettableLimiter(k))})

\* getLimiterLocked.
Entry(ls, k) == [level |-> IF k \in DOMAIN ls THEN Level(ls[k], k) ELSE Capacity(k),
                 at |-> rateClock, seen |-> rateClock]

\* The keys of a batch whose limiters would refuse it.
Refusing(ls, debit) == {k \in DOMAIN debit : Weight(k, debit[k]) > Entry(ls, k).level}

\* AllowBatch looks up the limiters up to the first that refuses.
LookedUp(ls, batch) ==
  LET debit == Normalized(batch)
  IN {k \in DOMAIN debit : \A other \in Refusing(ls, debit) : NotAfter(batch, k, other)}

\* Mutant: the debits made before the refusal are not given back.
AllowInMemoryKeepsDebits(ls, batch, cancelled) ==
  LET debit == Normalized(batch)
  IN [k \in DOMAIN ls \cup LookedUp(ls, batch) |->
        IF k \notin LookedUp(ls, batch) THEN ls[k]
        ELSE [Entry(ls, k) EXCEPT !.level = IF k \in Refusing(ls, debit) THEN @ ELSE @ - Weight(k, debit[k])]]

\* AllowBatch: the debits stay only if no limiter refused and the caller's context is still
\* alive, and are cancelled otherwise.
AllowInMemory(ls, batch, cancelled) ==
  LET debit == Normalized(batch)
      admitted == Refusing(ls, debit) = {} /\ ~cancelled
  IN [k \in DOMAIN ls \cup LookedUp(ls, batch) |->
        IF k \notin LookedUp(ls, batch) THEN ls[k]
        ELSE [Entry(ls, k) EXCEPT !.level = IF admitted THEN @ - Weight(k, debit[k]) ELSE @]]

-----------------------------------------------------------------------------
(* Redis.                                                                   *)

StoredTat(k) == IF k \in DOMAIN tat /\ rateClock < tat[k].expires THEN Max({tat[k].tat, rateClock}) ELSE rateClock
NewTat(k, n) == StoredTat(k) + Weight(k, n)

\* Mutant: the key is dropped before the bucket is full again.
KeyExpiryFloor(newTat) == rateClock + ((newTat - rateClock) \div Second) * Second

\* EX, in whole seconds, rounded up.
KeyExpiry(newTat) == rateClock + ((newTat - rateClock + Second - 1) \div Second) * Second

GrantedByScript(debit) == \A k \in DOMAIN debit : rateClock >= NewTat(k, debit[k]) - Capacity(k)

\* redisRateBatchScript: nothing is written unless every key has room.
AfterScript(debit) ==
  [k \in DOMAIN tat \cup DOMAIN debit |->
     IF k \notin DOMAIN debit THEN tat[k]
     ELSE [tat |-> NewTat(k, debit[k]), expires |-> KeyExpiry(NewTat(k, debit[k]))]]

-----------------------------------------------------------------------------
Logged(debit) ==
  [k \in Key |-> IF k \notin DOMAIN debit THEN log[k]
                 ELSE Append(log[k], [at |-> rateClock, w |-> Weight(k, debit[k])])]

\* One call of AllowBatch in each store.  cancelled: the caller's context ended while the
\* call ran, before Redis received the script.  (A script executed for a caller that has
\* gone is one more debit.)
AllowBatch(requests, inspected, cancelled) ==
  LET debit == Normalized(requests)
      ls == PrunedLimiters(inspected)
      inMemory == Refusing(ls, debit) = {} /\ ~cancelled
      inRedis == GrantedByScript(debit) /\ ~cancelled
  IN /\ DOMAIN debit # {}
     /\ rateOperations' = (rateOperations + 1) % RatePruneEvery
     /\ limiters' = AllowInMemory(ls, requests, cancelled)
     /\ tat' = IF inRedis THEN AfterScript(debit) ELSE tat
     /\ log' = IF inMemory \/ inRedis THEN Logged(debit) ELSE log
     /\ UNCHANGED rateClock

Elapse ==
  /\ rateClock < RateMaxTime
  /\ rateClock' = rateClock + 1
  /\ UNCHANGED <<limiters, rateOperations, tat, log>>

RateNext ==
  \/ \E b \in Batches, cancelled \in BOOLEAN :
       \E inspected \in kSubset(Min({RatePruneLimit, Cardinality(DOMAIN limiters)}), DOMAIN limiters) :
         AllowBatch(b, inspected, cancelled)
  \/ Elapse

RateSpec == RateInit /\ [][RateNext]_rateVars
-----------------------------------------------------------------------------
MemoryLevel(k) == IF k \in DOMAIN limiters THEN Level(limiters[k], k) ELSE Capacity(k)
RedisLevel(k) == Capacity(k) - (StoredTat(k) - rateClock)

\* Levels and arrival times stay within a bucket's capacity, and a debit is logged only
\* in time order.
RateTypeOK ==
  /\ DOMAIN limiters \subseteq Key /\ DOMAIN tat \subseteq Key
  /\ \A k \in DOMAIN limiters : /\ limiters[k].level \in 0 .. Capacity(k)
                                /\ limiters[k].at <= rateClock /\ limiters[k].seen <= rateClock
  /\ \A k \in Key : StoredTat(k) - rateClock \in 0 .. Capacity(k)

\* Each bucket holds the same amount in both stores, so they answer every batch alike.
LevelsAgree == \A k \in Key : RedisLevel(k) = MemoryLevel(k)

\* What the requests of a batch add up to for a key.
Charged(b, k) ==
  SumFunctionOnSet([i \in DOMAIN b |-> IF b[i].key = k THEN Weight(k, b[i].n) ELSE 0], DOMAIN b)

\* A batch that is refused or cancelled leaves every bucket of the process-local store as
\* it was, and one that is admitted charges every key in full: a TPM refusal never costs a
\* request (BatchRateStore, rlm.go:29-31).
ChargesAllOrNone ==
  rateClock' = rateClock =>
    \/ \A k \in Key : MemoryLevel(k)' = MemoryLevel(k)
    \/ \E b \in Batches :
         /\ log' # log
         /\ \A k \in Key : MemoryLevel(k)' = MemoryLevel(k) - Charged(b, k)

\* The process-local and the Redis rate store are the same limiter: whatever was admitted,
\* refused, rolled back, pruned or expired, each bucket holds the same amount in both, and
\* no more than its capacity; a batch is charged whole or not at all
\* (MemoryRateStore.AllowBatch, redisRateBatchScript).
StoresAgree == [](RateTypeOK /\ LevelsAgree) /\ [][ChargesAllOrNone]_rateVars

\* What a rate limit means: in every window of time the debits admitted for a key are at
\* most its burst plus what the window earned, however the calls fall on the boundaries
\* and whatever was pruned or expired in between.
WithinRate ==
  \A k \in Key : \A i, j \in DOMAIN log[k] : i <= j =>
    SumFunctionOnSet([m \in DOMAIN log[k] |-> log[k][m].w], i .. j)
      <= Capacity(k) + (log[k][j].at - log[k][i].at)
=============================================================================
