---------------------------- MODULE RedisBreaker ----------------------------
(***************************************************************************)
(* The circuit breaker gateway instances share through Redis               *)
(* (store/redis.go: BreakerAllowAttempt, BreakerFailAttempt,               *)
(* BreakerSuccessAttempt and their scripts; policy/attempt.go:             *)
(* breakerAllow, breakerFail, breakerSuccess).                             *)
(*                                                                         *)
(* Unlike the process-local breaker, a route's state is one Redis hash     *)
(* that disappears when its time to live ends; admissions are ordered in   *)
(* microseconds while the circuit opens and the key expires in             *)
(* milliseconds; an outcome may be lost on its way, arrive late, or be     *)
(* executed again because the client retries a command whose reply it did  *)
(* not see.  Routes have keys of their own: the model has one.             *)
(***************************************************************************)
EXTENDS Integers, FiniteSets

CONSTANTS
  RedisCall,        \* identities of calls; one is reused once its call is over
  RedisThreshold,   \* route.Circuit.Failures
  RedisCooldown,    \* route.Circuit.Cooldown, in milliseconds
  RedisStateTTL,    \* breakerStateTTL's lower bound (an hour)
  Retention,        \* routeAttemptStateTTL: no admitted call outlives it
  Milli,            \* microseconds in a millisecond
  RedisTick,        \* how far the clock moves at once, in microseconds
  RedisMaxTime,     \* bound on the clock
  RedisMaxCalls,    \* bound on the number of admissions
  MaxResends        \* bound on how often a client repeats an outcome

\* What the constants must satisfy.
RedisBreakerAssumption ==
  /\ RedisThreshold \in Nat \ {0} /\ RedisCooldown \in Nat \ {0}
  /\ RedisStateTTL \in Nat \ {0} /\ Retention \in Nat \ {0}
  /\ Milli \in Nat \ {0} /\ RedisTick \in Nat \ {0}
  /\ RedisMaxTime \in Nat /\ RedisMaxCalls \in Nat /\ MaxResends \in Nat

VARIABLES
  hash,             \* the fields of the key, as last written
  expires,          \* when Redis drops the key, in milliseconds
  redisClock,       \* Redis TIME, in microseconds
  redisCall,        \* the calls in flight
  resends,          \* how often this client repeats an outcome whose reply is lost
  redisAdmissions,  \* history: number of admissions so far
  redisFailed,      \* history: the admissions that reported a failure
  redisNewestOK,    \* history: the latest admission that reported success
  redisCuredBy      \* history: the latest that did so when no later one had failed

redisHistory == <<redisFailed, redisNewestOK, redisCuredBy>>
redisVars == <<hash, expires, redisClock, redisCall, redisAdmissions, resends, redisHistory>>

Larger(a, b) == IF a > b THEN a ELSE b

\* A missing field reads as 0.
ZeroHash == [failures |-> 0, openUntil |-> 0, lastAdmission |-> 0, lastFailure |-> 0, lastSuccess |-> 0]

NowMs == redisClock \div Milli
Hash == IF NowMs < expires THEN hash ELSE ZeroHash
IsRedisOpen == Hash.openUntil > NowMs
NewestFail == IF redisFailed = {} THEN 0 ELSE CHOOSE n \in redisFailed : \A m \in redisFailed : m <= n

\* breakerStateTTL.
BreakerStateTTL(cooldown) == Larger(3 * cooldown, RedisStateTTL)

\* PEXPIRE unless the key lives longer already.
ExpireNoEarlier(ttl) == Larger(IF NowMs < expires THEN expires ELSE 0, NowMs + ttl)

NoCall == [live |-> FALSE, startedAt |-> 0, at |-> 0, seq |-> 0, resent |-> 0]

RedisInit ==
  /\ hash = ZeroHash /\ expires = 0
  /\ redisClock = RedisTick
  /\ redisCall = [c \in RedisCall |-> NoCall]
  /\ redisAdmissions = 0
  /\ resends \in 0 .. MaxResends
  /\ redisFailed = {} /\ redisNewestOK = 0 /\ redisCuredBy = 0

\* Mutant: two calls admitted in one microsecond have the same time.
AdmissionNow == redisClock

\* Now, or just after the previous admission.
Admission == IF redisClock <= Hash.lastAdmission THEN Hash.lastAdmission + 1 ELSE redisClock

\* redisBreakerAllowScript, admitting.  One that refuses writes nothing.
RedisAllow(c) ==
  /\ ~redisCall[c].live /\ redisAdmissions < RedisMaxCalls
  /\ ~IsRedisOpen
  /\ hash' = [Hash EXCEPT !.lastAdmission = Admission]
  /\ expires' = ExpireNoEarlier(Retention)
  /\ redisAdmissions' = redisAdmissions + 1
  /\ redisCall' = [redisCall EXCEPT ![c] = [live |-> TRUE, startedAt |-> Admission, at |-> NowMs,
                                  seq |-> redisAdmissions + 1, resent |-> 0]]
  /\ UNCHANGED <<redisClock, redisHistory, resends>>

\* The outcome was executed.  Its reply ends the call, or is lost and the client repeats it.
Reported(c) ==
  \/ redisCall' = [redisCall EXCEPT ![c] = NoCall]
  \/ redisCall[c].resent < resends /\ redisCall' = [redisCall EXCEPT ![c].resent = @ + 1]

\* Mutant: a failure older than the last success counts.
StaleFailureNever(startedAt) == FALSE

StaleFailure(startedAt) == Hash.lastSuccess > 0 /\ startedAt <= Hash.lastSuccess

\* redisBreakerFailScript.
RedisFailing(startedAt) ==
  LET h == [Hash EXCEPT !.lastFailure = Larger(@, startedAt)]
      n == Hash.failures + 1
  IN IF IsRedisOpen THEN h
     ELSE IF n >= RedisThreshold THEN [h EXCEPT !.openUntil = NowMs + RedisCooldown, !.failures = 0]
     ELSE [h EXCEPT !.failures = n]

RedisFail(c) ==
  /\ redisCall[c].live
  /\ IF StaleFailure(redisCall[c].startedAt)
     THEN UNCHANGED <<hash, expires>>
     ELSE /\ hash' = RedisFailing(redisCall[c].startedAt)
          /\ expires' = ExpireNoEarlier(BreakerStateTTL(RedisCooldown))
  /\ redisFailed' = redisFailed \cup {redisCall[c].seq}
  /\ Reported(c)
  /\ UNCHANGED <<redisClock, redisAdmissions, redisNewestOK, redisCuredBy, resends>>

\* Mutant: a success counts whatever failed after it was admitted.
StaleSuccessNever(startedAt) == FALSE

StaleSuccess(startedAt) == Hash.lastFailure > 0 /\ startedAt <= Hash.lastFailure

\* redisBreakerSuccessScript.
RedisSuccess(c) ==
  /\ redisCall[c].live
  /\ IF StaleSuccess(redisCall[c].startedAt)
     THEN UNCHANGED <<hash, expires>>
     ELSE /\ hash' = [Hash EXCEPT !.failures = 0, !.openUntil = 0,
                                  !.lastSuccess = Larger(@, redisCall[c].startedAt)]
          /\ expires' = ExpireNoEarlier(BreakerStateTTL(RedisStateTTL \div 60))
  /\ redisNewestOK' = Larger(redisCall[c].seq, redisNewestOK)
  /\ redisCuredBy' = IF redisCall[c].seq > NewestFail THEN Larger(redisCall[c].seq, redisCuredBy) ELSE redisCuredBy
  /\ Reported(c)
  /\ UNCHANGED <<redisClock, redisAdmissions, redisFailed, resends>>

\* Nothing is reported, or Redis cannot be reached and the update is dropped.
RedisAbandon(c) ==
  /\ redisCall[c].live
  /\ redisCall' = [redisCall EXCEPT ![c] = NoCall]
  /\ UNCHANGED <<hash, expires, redisClock, redisAdmissions, redisHistory, resends>>

\* Time passes.  A call's last report is sent before Retention, in whole milliseconds of
\* Redis' clock, ends: the timeout of every try, and a buffer of 30 seconds.
RedisAdvance ==
  /\ redisClock + RedisTick <= RedisMaxTime
  /\ \A c \in RedisCall : redisCall[c].live => (redisClock + RedisTick) \div Milli < redisCall[c].at + Retention
  /\ redisClock' = redisClock + RedisTick
  /\ UNCHANGED <<hash, expires, redisCall, redisAdmissions, redisHistory, resends>>

RedisNext ==
  \/ \E c \in RedisCall : RedisAllow(c) \/ RedisFail(c) \/ RedisSuccess(c) \/ RedisAbandon(c)
  \/ RedisAdvance

RedisSpec == RedisInit /\ [][RedisNext]_redisVars
-----------------------------------------------------------------------------
\* Admission times leave Redis in the order of the admissions and are never equal, even
\* within a microsecond; that includes a key that expired and was written anew while
\* calls were in flight (redisBreakerAllowScript's last_admission_us and its PEXPIRE).
AdmissionsAreOrdered ==
  \A c, d \in RedisCall : redisCall[c].live /\ redisCall[d].live /\ redisCall[c].seq < redisCall[d].seq =>
    redisCall[c].startedAt < redisCall[d].startedAt

\* When the latest admission that reported anything reported success, the circuit is
\* closed and no failure is held against the route, in whatever order the outcomes
\* reached Redis and whatever was repeated.
RedisNewestSuccessCloses ==
  redisNewestOK > NewestFail => Hash.failures = 0 /\ Hash.openUntil = 0

\* An open circuit stays open until its cooldown ends, or a success admitted after every
\* reported failure closes it.
CooldownHolds ==
  IsRedisOpen /\ Hash'.openUntil # Hash.openUntil =>
    \/ NowMs' >= Hash.openUntil
    \/ \E c \in RedisCall : redisCall[c].seq > NewestFail /\ RedisSuccess(c)

\* Failures that no success has cured yet.
RedisUncured == {n \in redisFailed : n > redisCuredBy}

\* The documented meaning of circuit.failures: the circuit opens, and a failure is
\* counted towards opening it, on that many distinct failed calls.
RedisOpensOnEvidence ==
  /\ Hash.failures <= Cardinality(RedisUncured)
  /\ Hash.openUntil # 0 => RedisThreshold <= Cardinality(RedisUncured)

\* What holds in every state.  A failure that is repeated may be counted twice, so the circuit
\* opens on as many distinct failed calls as circuit.failures says when none is.
EvidenceDecides ==
  AdmissionsAreOrdered /\ RedisNewestSuccessCloses /\ (resends = 0 => RedisOpensOnEvidence)

\* The shared breaker goes by the newest evidence, in whatever order outcomes reach Redis
\* and whatever is repeated.  Admission times are in the order of the admissions, even
\* within a microsecond and across the expiry of the key; when the latest admission that
\* reported anything reported success, the circuit is closed with no failure held against
\* the route; when each outcome is executed at most once, the circuit opens only on as
\* many distinct failed calls as circuit.failures says; and only the end of the cooldown,
\* or a success admitted after every reported failure, ends an open circuit
\* (redisBreakerAllowScript, redisBreakerFailScript, redisBreakerSuccessScript).
SharedEvidenceDecides == []EvidenceDecides /\ [][CooldownHolds]_redisVars
=============================================================================
