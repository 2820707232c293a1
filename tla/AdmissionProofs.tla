--------------------------- MODULE AdmissionProofs ---------------------------
(***************************************************************************)
(* What admits an attempt to a route, for every number of callers, keys,   *)
(* objects, limits, calls and resends, every threshold, cooldown, time to  *)
(* live and clock: the breaker that instances share through Redis          *)
(* (RedisBreaker), and the local limiter (Limiter).                        *)
(***************************************************************************)
EXTENDS RedisBreaker, Limiter, FiniteSetTheorems, TLAPS

(***************************************************************************)
(* The breaker shared through Redis orders evidence by admission.          *)
(*                                                                         *)
(* The scripts compare admission times; the properties speak of the order  *)
(* of admissions.  The core of the inductive invariant (LiveRedisCall)     *)
(* says that for a call still in flight the two agree.  It rests on the    *)
(* PEXPIRE of the admission: the hash does not expire under a call in      *)
(* flight.                                                                 *)
(***************************************************************************)
HashState == [failures : Nat, openUntil : Nat, lastAdmission : Nat, lastFailure : Nat, lastSuccess : Nat]
RedisCallState == [live : BOOLEAN, startedAt : Nat, at : Nat, seq : Nat, resent : Nat]

RedisTypes ==
  /\ resends \in Nat
  /\ hash \in HashState /\ expires \in Nat /\ redisClock \in Nat \ {0}
  /\ redisCall \in [RedisCall -> RedisCallState] /\ redisAdmissions \in Nat
  /\ redisFailed \subseteq 1 .. redisAdmissions /\ redisNewestOK \in Nat /\ redisCuredBy \in Nat
  /\ redisFailed # {} => \E n \in redisFailed : \A m \in redisFailed : m <= n

\* What holds of a call in flight.
LiveRedisCall(c) ==
  /\ redisCall[c].seq \in 1 .. redisAdmissions
  /\ 0 < redisCall[c].startedAt /\ redisCall[c].startedAt <= Hash.lastAdmission
  /\ NowMs < redisCall[c].at + Retention /\ redisCall[c].at + Retention <= expires
  /\ redisCall[c].startedAt > Hash.lastSuccess <=> redisCall[c].seq > redisCuredBy
  /\ redisCall[c].seq > NewestFail => redisCall[c].startedAt > Hash.lastFailure
  /\ NewestFail > redisCuredBy /\ redisCall[c].startedAt > Hash.lastFailure => redisCall[c].seq > NewestFail
  /\ resends = 0 => redisCall[c].seq \notin redisFailed

LiveRedisCalls == \A c \in RedisCall : redisCall[c].live => LiveRedisCall(c)

\* Admission times are ordered as the admissions were.
RedisTimesFollowOrder ==
  \A c, d \in RedisCall : redisCall[c].live /\ redisCall[d].live =>
    /\ c # d => redisCall[c].seq # redisCall[d].seq
    /\ redisCall[c].seq < redisCall[d].seq <=> redisCall[c].startedAt < redisCall[d].startedAt

\* What holds of the route's hash, and of the history it stands for.
HashOK ==
  /\ Hash.lastFailure <= Hash.lastAdmission /\ Hash.lastSuccess <= Hash.lastAdmission
  /\ Hash.openUntil <= expires
  /\ redisNewestOK <= redisAdmissions /\ redisCuredBy <= redisAdmissions
  /\ NewestFail <= redisCuredBy => Hash.failures = 0 /\ Hash.openUntil = 0
  /\ redisNewestOK > NewestFail => redisCuredBy >= redisNewestOK

RedisInv == RedisTypes /\ LiveRedisCalls /\ RedisTimesFollowOrder /\ HashOK /\ (resends = 0 => RedisOpensOnEvidence)
-----------------------------------------------------------------------------
\* The millisecond of a later time is not an earlier one.
LEMMA LaterMillisecond ==
  ASSUME NEW m \in Nat \ {0}, NEW t \in Nat, NEW u \in Nat, t <= u
  PROVE  t \div m \in Nat /\ u \div m \in Nat /\ t \div m <= u \div m
<1> DEFINE q == t \div m
           r == u \div m
<1>1. q \in Int /\ r \in Int /\ q >= 0 /\ r >= 0 OBVIOUS
<1>2. m * q <= t /\ t < m * q + m OBVIOUS
<1>3. m * r <= u /\ u < m * r + m OBVIOUS
<1> HIDE DEF q, r
<1>4. ASSUME r < q PROVE FALSE
  <2>1. r + 1 <= q BY <1>1, <1>4
  <2>2. m * (r + 1) <= m * q BY <1>1, <2>1
  <2>3. m * (r + 1) = m * r + m BY <1>1
  <2>4. m * q \in Int /\ m * r \in Int BY <1>1
  <2> QED BY <1>2, <1>3, <2>2, <2>3, <2>4
<1>5. q <= r BY <1>1, <1>4
<1>6. q \in Nat /\ r \in Nat BY <1>1
<1> QED BY <1>5, <1>6 DEF q, r

\* What the hash reads as, and the millisecond it is read in.
LEMMA HashType ==
  ASSUME RedisBreakerAssumption, RedisTypes
  PROVE  Hash \in HashState /\ NowMs \in Nat
<1>1. NowMs \in Nat BY LaterMillisecond DEF RedisBreakerAssumption, RedisTypes, NowMs
<1>2. ZeroHash \in HashState BY DEF ZeroHash, HashState
<1> QED BY <1>1, <1>2 DEF RedisTypes, Hash

\* NewestFail is the latest failure.
LEMMA NewestFailIsLatest ==
  ASSUME RedisTypes
  PROVE  /\ NewestFail \in Nat /\ NewestFail <= redisAdmissions
         /\ \A m \in redisFailed : m <= NewestFail
         /\ redisFailed # {} => NewestFail \in redisFailed
         /\ redisFailed = {} => NewestFail = 0
<1>1. CASE redisFailed = {} BY <1>1 DEF NewestFail, RedisTypes
<1>2. CASE redisFailed # {}
  <2>1. NewestFail \in redisFailed /\ \A m \in redisFailed : m <= NewestFail
    BY <1>2 DEF NewestFail, RedisTypes
  <2> QED BY <1>2, <2>1 DEF RedisTypes
<1> QED BY <1>1, <1>2

\* A further failure is the latest, or leaves the latest as it is.
LEMMA NewestFailMoves ==
  ASSUME RedisTypes, NEW n \in 1 .. redisAdmissions, redisFailed' = redisFailed \cup {n}
  PROVE  /\ NewestFail' = Larger(n, NewestFail)
         /\ \E h \in redisFailed' : \A m \in redisFailed' : m <= h
         /\ redisFailed' \subseteq 1 .. redisAdmissions
<1>1. /\ NewestFail \in Nat /\ \A m \in redisFailed : m \in Nat /\ m <= NewestFail
      /\ redisFailed # {} => NewestFail \in redisFailed
      /\ redisFailed = {} => NewestFail = 0
  BY NewestFailIsLatest DEF RedisTypes
<1>2. n \in Nat /\ n > 0 BY DEF RedisTypes
<1> DEFINE h == Larger(n, NewestFail)
<1>3. h \in redisFailed' /\ h \in Nat /\ \A m \in redisFailed' : m \in Nat /\ m <= h
  BY <1>1, <1>2 DEF Larger
<1>4. NewestFail' = (CHOOSE g \in redisFailed' : \A m \in redisFailed' : m <= g)
  BY <1>3 DEF NewestFail
<1>5. \A g \in redisFailed' : (\A m \in redisFailed' : m <= g) => g = h BY <1>3
<1>6. NewestFail' = h BY <1>3, <1>4, <1>5
<1> QED BY <1>3, <1>6 DEF RedisTypes

\* The failures not cured yet are finitely many, and a new one adds one.
LEMMA CountRedisUncured ==
  ASSUME RedisTypes
  PROVE  /\ IsFiniteSet(RedisUncured) /\ Cardinality(RedisUncured) \in Nat
         /\ \A n : n \notin RedisUncured => Cardinality(RedisUncured \cup {n}) = Cardinality(RedisUncured) + 1
<1>1. IsFiniteSet(1 .. redisAdmissions) BY FS_Interval DEF RedisTypes
<1>2. RedisUncured \subseteq 1 .. redisAdmissions BY DEF RedisTypes, RedisUncured
<1>3. IsFiniteSet(RedisUncured) BY <1>1, <1>2, FS_Subset
<1> QED BY <1>3, FS_CardinalityType, FS_AddElement

\* The expiry never moves back while the key lives, and a key that was written lives.
LEMMA ExpiryMovesOn ==
  ASSUME RedisBreakerAssumption, RedisTypes, NEW ttl \in Nat \ {0}
  PROVE  /\ ExpireNoEarlier(ttl) \in Nat /\ ExpireNoEarlier(ttl) >= NowMs + ttl
         /\ NowMs < ExpireNoEarlier(ttl)
         /\ NowMs < expires => ExpireNoEarlier(ttl) >= expires
BY HashType DEF ExpireNoEarlier, Larger, RedisTypes

\* breakerStateTTL covers the cooldown.
LEMMA StateTTLCovers ==
  ASSUME RedisBreakerAssumption, NEW cooldown \in Nat
  PROVE  BreakerStateTTL(cooldown) \in Nat \ {0} /\ BreakerStateTTL(cooldown) >= cooldown
BY DEF BreakerStateTTL, Larger, RedisBreakerAssumption

\* While a call is in flight the hash has not expired.
LEMMA CallKeepsHash ==
  ASSUME RedisBreakerAssumption, RedisInv, NEW c \in RedisCall, redisCall[c].live
  PROVE  Hash = hash /\ NowMs < expires /\ LiveRedisCall(c) /\ redisCall[c] \in RedisCallState
<1>1. LiveRedisCall(c) /\ redisCall[c] \in RedisCallState BY DEF RedisInv, LiveRedisCalls, RedisTypes
<1>2. NowMs < expires BY <1>1, HashType DEF LiveRedisCall, RedisInv, RedisTypes, RedisCallState, RedisBreakerAssumption
<1> QED BY <1>1, <1>2 DEF Hash

-----------------------------------------------------------------------------
\* A route nobody has called satisfies the invariant.
LEMMA RouteStarts ==
  ASSUME RedisBreakerAssumption, RedisInit
  PROVE  RedisInv
<1> USE RedisBreakerAssumption DEF RedisBreakerAssumption, RedisInit
<1>1. RedisTypes
  <2>1. hash \in HashState BY DEF ZeroHash, HashState
  <2>2. redisCall \in [RedisCall -> RedisCallState] BY DEF NoCall, RedisCallState
  <2> QED BY <2>1, <2>2 DEF RedisTypes
<1>2. LiveRedisCalls /\ RedisTimesFollowOrder BY DEF LiveRedisCalls, RedisTimesFollowOrder, NoCall
<1>3. Hash = ZeroHash /\ NewestFail = 0 BY DEF Hash, NewestFail
<1>4. HashOK BY <1>3 DEF HashOK, ZeroHash
<1>5. RedisOpensOnEvidence
  <2>1. RedisUncured = {} BY DEF RedisUncured
  <2>2. Cardinality(RedisUncured) = 0 BY <2>1, FS_EmptySet
  <2> QED BY <1>3, <2>2 DEF RedisOpensOnEvidence, ZeroHash
<1> QED BY <1>1, <1>2, <1>4, <1>5 DEF RedisInv

\* An admission is later than every one before it (redisBreakerAllowScript).
LEMMA AllowKeeps ==
  ASSUME RedisBreakerAssumption, RedisInv, NEW c \in RedisCall, RedisAllow(c)
  PROVE  RedisInv' /\ CooldownHolds
<1> USE RedisBreakerAssumption DEF RedisBreakerAssumption
<1> DEFINE sa == Admission
           ex == ExpireNoEarlier(Retention)
<1>0. resends' = resends BY DEF RedisAllow
<1> USE <1>0
<1>1. /\ RedisTypes /\ Hash \in HashState /\ NowMs \in Nat /\ redisClock \in Nat /\ redisAdmissions \in Nat
      /\ redisCall \in [RedisCall -> RedisCallState] /\ redisNewestOK \in Nat /\ redisCuredBy \in Nat
  BY HashType DEF RedisInv, RedisTypes
<1>2. sa \in Nat /\ sa > Hash.lastAdmission /\ sa > 0 BY <1>1 DEF Admission, HashState, RedisTypes
<1>3. ex \in Nat /\ ex >= NowMs + Retention /\ NowMs < ex /\ (NowMs < expires => ex >= expires)
  BY <1>1, ExpiryMovesOn
<1> HIDE DEF sa, ex
<1>4. /\ hash' = [Hash EXCEPT !.lastAdmission = sa] /\ expires' = ex
      /\ redisAdmissions' = redisAdmissions + 1
      /\ redisCall' = [redisCall EXCEPT ![c] = [live |-> TRUE, startedAt |-> sa, at |-> NowMs,
                                      seq |-> redisAdmissions + 1, resent |-> 0]]
      /\ UNCHANGED <<redisClock, redisFailed, redisNewestOK, redisCuredBy>>
      /\ ~redisCall[c].live /\ ~IsRedisOpen
  BY DEF RedisAllow, redisHistory, sa, ex
<1>5. NowMs' = NowMs /\ NewestFail' = NewestFail /\ RedisUncured' = RedisUncured
  BY <1>4 DEF NowMs, NewestFail, RedisUncured
<1>6. Hash' = hash' BY <1>3, <1>4, <1>5 DEF Hash
<1>7. /\ Hash'.lastAdmission = sa /\ Hash'.lastFailure = Hash.lastFailure
      /\ Hash'.lastSuccess = Hash.lastSuccess /\ Hash'.failures = Hash.failures
      /\ Hash'.openUntil = Hash.openUntil
  BY <1>1, <1>4, <1>6 DEF HashState
<1>8. /\ redisCall'[c].live /\ redisCall'[c].startedAt = sa /\ redisCall'[c].at = NowMs /\ redisCall'[c].seq = redisAdmissions + 1
      /\ \A d \in RedisCall \ {c} : redisCall'[d] = redisCall[d]
  BY <1>1, <1>4
<1>9. NewestFail \in Nat /\ NewestFail <= redisAdmissions BY <1>1, NewestFailIsLatest
<1>10. RedisTypes'
  <2>1. hash' \in HashState BY <1>1, <1>2, <1>4 DEF HashState
  <2>2. redisCall' \in [RedisCall -> RedisCallState] BY <1>1, <1>2, <1>4 DEF RedisCallState
  <2>3. redisFailed' \subseteq 1 .. redisAdmissions' BY <1>1, <1>4 DEF RedisTypes
  <2> QED BY <1>1, <1>3, <1>4, <2>1, <2>2, <2>3 DEF RedisTypes
<1>11. LiveRedisCalls'
  <2> SUFFICES ASSUME NEW d \in RedisCall, redisCall'[d].live PROVE LiveRedisCall(d)' BY DEF LiveRedisCalls
  <2>1. CASE d = c
    <3>1. redisAdmissions + 1 \notin redisFailed BY <1>1 DEF RedisTypes
    <3>2. HashOK BY DEF RedisInv
    <3> QED BY <1>1, <1>2, <1>3, <1>4, <1>5, <1>7, <1>8, <1>9, <2>1, <3>1, <3>2
            DEF LiveRedisCall, HashOK, HashState
  <2>2. CASE d # c
    <3>1. redisCall'[d] = redisCall[d] /\ LiveRedisCall(d) /\ redisCall[d] \in RedisCallState /\ NowMs < expires
      BY <1>8, <2>2, CallKeepsHash
    <3> QED BY <1>1, <1>2, <1>3, <1>4, <1>5, <1>7, <1>9, <3>1 DEF LiveRedisCall, HashState, RedisCallState, RedisTypes
  <2> QED BY <2>1, <2>2
<1>12. RedisTimesFollowOrder'
  <2>1. \A d \in RedisCall \ {c} : redisCall[d].live =>
          /\ redisCall[d].seq \in 1 .. redisAdmissions /\ redisCall[d].startedAt \in Nat /\ redisCall[d].startedAt < sa
    BY <1>1, <1>2 DEF RedisInv, LiveRedisCalls, LiveRedisCall, RedisCallState, HashState
  <2> SUFFICES ASSUME NEW d \in RedisCall, NEW e \in RedisCall, redisCall'[d].live, redisCall'[e].live
               PROVE  /\ d # e => redisCall'[d].seq # redisCall'[e].seq
                      /\ redisCall'[d].seq < redisCall'[e].seq <=> redisCall'[d].startedAt < redisCall'[e].startedAt
    BY DEF RedisTimesFollowOrder
  <2>2. CASE d = c /\ e = c BY <1>1, <1>2, <1>8, <2>2
  <2>3. CASE d = c /\ e # c BY <1>1, <1>2, <1>8, <2>1, <2>3
  <2>4. CASE d # c /\ e = c BY <1>1, <1>2, <1>8, <2>1, <2>4
  <2>5. CASE d # c /\ e # c BY <1>8, <2>5 DEF RedisInv, RedisTimesFollowOrder
  <2> QED BY <2>2, <2>3, <2>4, <2>5
<1>13. HashOK'
  <2>1. Hash.openUntil <= NowMs BY <1>1, <1>4 DEF IsRedisOpen, HashState
  <2> QED BY <1>1, <1>2, <1>3, <1>4, <1>5, <1>7, <1>9, <2>1 DEF RedisInv, HashOK, HashState
<1>14. (resends = 0 => RedisOpensOnEvidence)' BY <1>5, <1>7 DEF RedisInv, RedisOpensOnEvidence
<1>15. CooldownHolds BY <1>4 DEF CooldownHolds
<1> QED BY <1>10, <1>11, <1>12, <1>13, <1>14, <1>15 DEF RedisInv

\* A report leaves every other call, and what the reporter's call is known by if it goes on.
LEMMA ReportedLeaves ==
  ASSUME RedisBreakerAssumption, RedisTypes, NEW c \in RedisCall, redisCall[c].live, Reported(c)
  PROVE  /\ redisCall' \in [RedisCall -> RedisCallState]
         /\ \A d \in RedisCall : redisCall'[d].live =>
              /\ redisCall[d].live /\ redisCall'[d].startedAt = redisCall[d].startedAt
              /\ redisCall'[d].at = redisCall[d].at /\ redisCall'[d].seq = redisCall[d].seq
              /\ resends = 0 => d # c
<1> USE RedisBreakerAssumption DEF RedisBreakerAssumption, RedisTypes
<1>1. CASE redisCall' = [redisCall EXCEPT ![c] = NoCall] BY <1>1 DEF NoCall, RedisCallState
<1>2. CASE redisCall[c].resent < resends /\ redisCall' = [redisCall EXCEPT ![c].resent = @ + 1]
  BY <1>2 DEF RedisCallState
<1> QED BY <1>1, <1>2 DEF Reported

\* The order of the calls left in flight is the one they had.
LEMMA OrderStays ==
  ASSUME RedisTimesFollowOrder,
         \A d \in RedisCall : redisCall'[d].live =>
           redisCall[d].live /\ redisCall'[d].startedAt = redisCall[d].startedAt /\ redisCall'[d].seq = redisCall[d].seq
  PROVE  RedisTimesFollowOrder'
BY DEF RedisTimesFollowOrder

\* A failure counts if it was admitted after the last success, and never moves the end of a
\* cooldown (redisBreakerFailScript).
LEMMA FailKeeps ==
  ASSUME RedisBreakerAssumption, RedisInv, NEW c \in RedisCall, RedisFail(c)
  PROVE  RedisInv' /\ CooldownHolds
<1> USE RedisBreakerAssumption DEF RedisBreakerAssumption
<1> DEFINE s == redisCall[c].seq
           t == redisCall[c].startedAt
<1>0. resends' = resends BY DEF RedisFail
<1> USE <1>0
<1>1. /\ RedisTypes /\ Hash \in HashState /\ NowMs \in Nat /\ redisAdmissions \in Nat
      /\ redisNewestOK \in Nat /\ redisCuredBy \in Nat /\ expires \in Nat
  BY HashType DEF RedisInv, RedisTypes
<1>2. /\ redisCall[c].live /\ Reported(c) /\ redisFailed' = redisFailed \cup {s}
      /\ UNCHANGED <<redisClock, redisAdmissions, redisNewestOK, redisCuredBy>>
  BY DEF RedisFail
<1>3. Hash = hash /\ NowMs < expires /\ LiveRedisCall(c) /\ redisCall[c] \in RedisCallState BY <1>2, CallKeepsHash
<1>4. s \in 1 .. redisAdmissions /\ s \in Nat /\ t \in Nat BY <1>3 DEF LiveRedisCall, RedisCallState
<1>5. NewestFail \in Nat /\ NewestFail <= redisAdmissions BY <1>1, NewestFailIsLatest
<1>6. /\ NewestFail' = Larger(s, NewestFail) /\ \E h \in redisFailed' : \A m \in redisFailed' : m <= h
      /\ redisFailed' \subseteq 1 .. redisAdmissions'
  BY <1>1, <1>2, <1>4, NewestFailMoves
<1>7. /\ redisCall' \in [RedisCall -> RedisCallState]
      /\ \A d \in RedisCall : redisCall'[d].live =>
           /\ redisCall[d].live /\ redisCall'[d].startedAt = redisCall[d].startedAt
           /\ redisCall'[d].at = redisCall[d].at /\ redisCall'[d].seq = redisCall[d].seq
           /\ resends = 0 => d # c
  BY <1>1, <1>2, ReportedLeaves
<1>8. NowMs' = NowMs BY <1>2 DEF NowMs
<1>9. RedisTimesFollowOrder' BY <1>7, OrderStays DEF RedisInv
<1>10. \A d \in RedisCall : redisCall[d].live => LiveRedisCall(d) /\ redisCall[d] \in RedisCallState
  BY CallKeepsHash
<1>11. \A d \in RedisCall : redisCall[d].live => (s < redisCall[d].seq <=> t < redisCall[d].startedAt)
  BY <1>2 DEF RedisInv, RedisTimesFollowOrder
<1>12. \A d \in RedisCall : redisCall[d].live /\ d # c => redisCall[d].seq # s BY <1>2 DEF RedisInv, RedisTimesFollowOrder
<1>13. CASE StaleFailure(t)
  <2>1. UNCHANGED <<hash, expires>> BY <1>13 DEF RedisFail
  <2>2. Hash' = Hash BY <1>8, <2>1 DEF Hash
  <2>3. s <= redisCuredBy BY <1>1, <1>3, <1>4, <1>13 DEF StaleFailure, LiveRedisCall, HashState
  <2>4. RedisTypes' BY <1>1, <1>2, <1>6, <1>7, <2>1 DEF RedisTypes
  <2>5. LiveRedisCalls'
    <3> SUFFICES ASSUME NEW d \in RedisCall, redisCall'[d].live PROVE LiveRedisCall(d)' BY DEF LiveRedisCalls
    <3>1. LiveRedisCall(d) /\ redisCall[d] \in RedisCallState BY <1>7, <1>10
    <3> QED BY <1>1, <1>2, <1>4, <1>5, <1>6, <1>7, <1>8, <1>12, <2>1, <2>2, <2>3, <3>1
            DEF LiveRedisCall, Larger, HashState, RedisCallState
  <2>6. HashOK' BY <1>1, <1>2, <1>4, <1>5, <1>6, <2>1, <2>2 DEF RedisInv, HashOK, Larger, HashState
  <2>7. RedisOpensOnEvidence => RedisOpensOnEvidence'
    <3>1. RedisUncured' = RedisUncured BY <1>1, <1>2, <1>4, <2>3 DEF RedisUncured
    <3> QED BY <2>2, <3>1 DEF RedisOpensOnEvidence
  <2>8. CooldownHolds BY <2>2 DEF CooldownHolds
  <2> QED BY <1>9, <2>4, <2>5, <2>6, <2>7, <2>8 DEF RedisInv
<1>14. CASE ~StaleFailure(t)
  <2> DEFINE ex == ExpireNoEarlier(BreakerStateTTL(RedisCooldown))
  <2>1. hash' = RedisFailing(t) /\ expires' = ex BY <1>14 DEF RedisFail
  <2>2. /\ ex \in Nat /\ NowMs < ex /\ ex >= expires /\ ex >= NowMs + RedisCooldown
    <3>1. BreakerStateTTL(RedisCooldown) \in Nat \ {0} /\ BreakerStateTTL(RedisCooldown) >= RedisCooldown
      BY StateTTLCovers
    <3> QED BY <1>1, <1>3, <3>1, ExpiryMovesOn
  <2> HIDE DEF ex
  <2>3. Hash' = hash' BY <1>8, <2>1, <2>2 DEF Hash
  <2>4. t > Hash.lastSuccess /\ s > redisCuredBy
    BY <1>1, <1>3, <1>4, <1>14 DEF StaleFailure, LiveRedisCall, HashState
  <2>5. /\ Hash' \in HashState
        /\ Hash'.lastAdmission = Hash.lastAdmission /\ Hash'.lastSuccess = Hash.lastSuccess
        /\ Hash'.lastFailure = Larger(Hash.lastFailure, t)
        /\ IsRedisOpen => Hash'.openUntil = Hash.openUntil /\ Hash'.failures = Hash.failures
        /\ ~IsRedisOpen /\ Hash.failures + 1 >= RedisThreshold =>
             Hash'.openUntil = NowMs + RedisCooldown /\ Hash'.failures = 0
        /\ ~IsRedisOpen /\ ~(Hash.failures + 1 >= RedisThreshold) =>
             Hash'.openUntil = Hash.openUntil /\ Hash'.failures = Hash.failures + 1
    <3> DEFINE g == Larger(Hash.lastFailure, t)
               n == Hash.failures + 1
    <3>1. g \in Nat /\ n \in Nat /\ NowMs + RedisCooldown \in Nat BY <1>1, <1>4 DEF HashState, Larger
    <3>2. CASE IsRedisOpen
      <4>1. Hash' = [Hash EXCEPT !.lastFailure = g] BY <2>1, <2>3, <3>2 DEF RedisFailing
      <4> QED BY <1>1, <3>1, <3>2, <4>1 DEF HashState
    <3>3. CASE ~IsRedisOpen /\ n >= RedisThreshold
      <4>1. Hash' = [[Hash EXCEPT !.lastFailure = g] EXCEPT !.openUntil = NowMs + RedisCooldown, !.failures = 0]
        BY <2>1, <2>3, <3>3 DEF RedisFailing
      <4> QED BY <1>1, <3>1, <3>3, <4>1 DEF HashState
    <3>4. CASE ~IsRedisOpen /\ ~(n >= RedisThreshold)
      <4>1. Hash' = [[Hash EXCEPT !.lastFailure = g] EXCEPT !.failures = n]
        BY <2>1, <2>3, <3>4 DEF RedisFailing
      <4> QED BY <1>1, <3>1, <3>4, <4>1 DEF HashState
    <3> QED BY <3>2, <3>3, <3>4
  <2>6. RedisTypes' BY <1>1, <1>2, <1>6, <1>7, <2>1, <2>2, <2>3, <2>5 DEF RedisTypes
  <2>7. LiveRedisCalls'
    <3> SUFFICES ASSUME NEW d \in RedisCall, redisCall'[d].live PROVE LiveRedisCall(d)' BY DEF LiveRedisCalls
    <3>1. LiveRedisCall(d) /\ redisCall[d] \in RedisCallState /\ (s < redisCall[d].seq <=> t < redisCall[d].startedAt)
      BY <1>7, <1>10, <1>11
    <3> QED BY <1>1, <1>2, <1>4, <1>5, <1>6, <1>7, <1>8, <1>12, <2>1, <2>2, <2>4, <2>5, <3>1
            DEF LiveRedisCall, Larger, HashState, RedisCallState
  <2>8. HashOK'
    BY <1>1, <1>2, <1>3, <1>4, <1>5, <1>6, <2>1, <2>2, <2>4, <2>5
       DEF RedisInv, HashOK, LiveRedisCall, Larger, HashState
  <2>9. ASSUME resends = 0 PROVE RedisOpensOnEvidence'
    <3>1. s \notin RedisUncured BY <1>3, <2>9 DEF LiveRedisCall, RedisUncured
    <3>2. RedisUncured' = RedisUncured \cup {s} BY <1>2, <1>4, <2>4 DEF RedisUncured
    <3>3. Cardinality(RedisUncured') = Cardinality(RedisUncured) + 1 /\ Cardinality(RedisUncured) \in Nat
      BY <1>1, <3>1, <3>2, CountRedisUncured
    <3> QED BY <1>1, <2>5, <2>9, <3>3 DEF RedisInv, RedisOpensOnEvidence, HashState
  <2>10. CooldownHolds BY <2>5 DEF CooldownHolds
  <2> QED BY <1>9, <2>6, <2>7, <2>8, <2>9, <2>10 DEF RedisInv
<1> QED BY <1>13, <1>14

\* A success counts if it was admitted after the last failure that counted
\* (redisBreakerSuccessScript).
LEMMA SuccessKeeps ==
  ASSUME RedisBreakerAssumption, RedisInv, NEW c \in RedisCall, RedisSuccess(c)
  PROVE  RedisInv' /\ CooldownHolds
<1> USE RedisBreakerAssumption DEF RedisBreakerAssumption
<1> DEFINE s == redisCall[c].seq
           t == redisCall[c].startedAt
<1>0. resends' = resends BY DEF RedisSuccess
<1> USE <1>0
<1>1. /\ RedisTypes /\ Hash \in HashState /\ NowMs \in Nat /\ redisAdmissions \in Nat
      /\ redisNewestOK \in Nat /\ redisCuredBy \in Nat /\ expires \in Nat
  BY HashType DEF RedisInv, RedisTypes
<1>2. /\ redisCall[c].live /\ Reported(c) /\ UNCHANGED <<redisClock, redisAdmissions, redisFailed>>
      /\ redisNewestOK' = Larger(s, redisNewestOK)
      /\ redisCuredBy' = IF s > NewestFail THEN Larger(s, redisCuredBy) ELSE redisCuredBy
  BY DEF RedisSuccess
<1>3. Hash = hash /\ NowMs < expires /\ LiveRedisCall(c) /\ redisCall[c] \in RedisCallState BY <1>2, CallKeepsHash
<1>4. s \in 1 .. redisAdmissions /\ s \in Nat /\ t \in Nat /\ t > 0 BY <1>3 DEF LiveRedisCall, RedisCallState
<1>5. NewestFail \in Nat /\ NewestFail <= redisAdmissions BY <1>1, NewestFailIsLatest
<1>6. /\ redisCall' \in [RedisCall -> RedisCallState]
      /\ \A d \in RedisCall : redisCall'[d].live =>
           /\ redisCall[d].live /\ redisCall'[d].startedAt = redisCall[d].startedAt
           /\ redisCall'[d].at = redisCall[d].at /\ redisCall'[d].seq = redisCall[d].seq
           /\ resends = 0 => d # c
  BY <1>1, <1>2, ReportedLeaves
<1>7. NowMs' = NowMs /\ NewestFail' = NewestFail BY <1>2 DEF NowMs, NewestFail
<1>8. redisNewestOK' \in Nat /\ redisCuredBy' \in Nat BY <1>1, <1>2, <1>4 DEF Larger
<1>9. RedisTimesFollowOrder' BY <1>6, OrderStays DEF RedisInv
<1>10. \A d \in RedisCall : redisCall[d].live => LiveRedisCall(d) /\ redisCall[d] \in RedisCallState
  BY CallKeepsHash
<1>11. \A d \in RedisCall : redisCall[d].live => (s < redisCall[d].seq <=> t < redisCall[d].startedAt)
  BY <1>2 DEF RedisInv, RedisTimesFollowOrder
<1>12. CASE StaleSuccess(t)
  <2>1. UNCHANGED <<hash, expires>> BY <1>12 DEF RedisSuccess
  <2>2. Hash' = Hash BY <1>7, <2>1 DEF Hash
  <2>3. s <= NewestFail BY <1>1, <1>3, <1>4, <1>5, <1>12 DEF StaleSuccess, LiveRedisCall, HashState
  <2>4. redisCuredBy' = redisCuredBy BY <1>2, <1>4, <1>5, <2>3
  <2>5. RedisTypes' BY <1>1, <1>2, <1>6, <1>8, <2>1 DEF RedisTypes
  <2>6. LiveRedisCalls'
    <3> SUFFICES ASSUME NEW d \in RedisCall, redisCall'[d].live PROVE LiveRedisCall(d)' BY DEF LiveRedisCalls
    <3>1. LiveRedisCall(d) BY <1>6, <1>10
    <3> QED BY <1>2, <1>6, <1>7, <2>1, <2>2, <2>4, <3>1 DEF LiveRedisCall
  <2>7. HashOK' BY <1>1, <1>2, <1>4, <1>5, <1>7, <2>1, <2>2, <2>3, <2>4 DEF RedisInv, HashOK, Larger, HashState
  <2>8. RedisOpensOnEvidence => RedisOpensOnEvidence'
    <3>1. RedisUncured' = RedisUncured BY <1>2, <2>4 DEF RedisUncured
    <3> QED BY <2>2, <3>1 DEF RedisOpensOnEvidence
  <2>9. CooldownHolds BY <2>2 DEF CooldownHolds
  <2> QED BY <1>9, <2>5, <2>6, <2>7, <2>8, <2>9 DEF RedisInv
<1>13. CASE ~StaleSuccess(t)
  <2> DEFINE ex == ExpireNoEarlier(BreakerStateTTL(RedisStateTTL \div 60))
             ls == Larger(Hash.lastSuccess, t)
  <2>1. hash' = [Hash EXCEPT !.failures = 0, !.openUntil = 0, !.lastSuccess = ls] /\ expires' = ex
    BY <1>13 DEF RedisSuccess
  <2>2. ex \in Nat /\ NowMs < ex /\ ex >= expires
    <3>1. RedisStateTTL \div 60 \in Nat OBVIOUS
    <3>2. BreakerStateTTL(RedisStateTTL \div 60) \in Nat \ {0} BY <3>1, StateTTLCovers
    <3> QED BY <1>1, <1>3, <3>2, ExpiryMovesOn
  <2>3. ls \in Nat /\ ls >= Hash.lastSuccess /\ ls >= t /\ (ls = t \/ ls = Hash.lastSuccess)
    BY <1>1, <1>4 DEF Larger, HashState
  <2> HIDE DEF ex, ls
  <2>4. Hash' = hash' BY <1>7, <2>1, <2>2 DEF Hash
  <2>5. /\ Hash' \in HashState /\ Hash'.lastAdmission = Hash.lastAdmission
        /\ Hash'.lastSuccess = ls /\ Hash'.lastFailure = Hash.lastFailure
        /\ Hash'.openUntil = 0 /\ Hash'.failures = 0
    BY <1>1, <2>1, <2>3, <2>4 DEF HashState
  <2>6. t > Hash.lastFailure BY <1>1, <1>4, <1>13 DEF StaleSuccess, HashState
  <2>7. NewestFail > redisCuredBy => s > NewestFail BY <1>3, <2>6 DEF LiveRedisCall
  <2>8. redisCuredBy' >= s /\ redisCuredBy' >= redisCuredBy /\ (redisCuredBy' = s \/ redisCuredBy' = redisCuredBy)
    BY <1>1, <1>2, <1>4, <1>5, <2>7 DEF Larger
  <2>9. redisCuredBy' >= NewestFail BY <1>1, <1>2, <1>4, <1>5, <2>7 DEF Larger
  <2>10. RedisTypes' BY <1>1, <1>2, <1>6, <1>8, <2>1, <2>2, <2>4, <2>5 DEF RedisTypes
  <2>11. LiveRedisCalls'
    <3> SUFFICES ASSUME NEW d \in RedisCall, redisCall'[d].live PROVE LiveRedisCall(d)' BY DEF LiveRedisCalls
    <3>1. /\ LiveRedisCall(d) /\ redisCall[d] \in RedisCallState /\ (s < redisCall[d].seq <=> t < redisCall[d].startedAt)
          /\ LiveRedisCall(c)
      BY <1>3, <1>6, <1>10, <1>11
    <3>2. redisCall[d].startedAt > ls <=> redisCall[d].seq > redisCuredBy'
      BY <1>1, <1>4, <1>8, <2>3, <2>8, <3>1 DEF LiveRedisCall, HashState, RedisCallState
    <3> QED BY <1>1, <1>2, <1>5, <1>6, <1>7, <1>8, <2>1, <2>2, <2>5, <2>9, <3>1, <3>2
            DEF LiveRedisCall, HashState, RedisCallState
  <2>12. HashOK'
    BY <1>1, <1>2, <1>3, <1>4, <1>5, <1>7, <1>8, <2>1, <2>2, <2>3, <2>5, <2>8
       DEF RedisInv, HashOK, LiveRedisCall, Larger, HashState
  <2>13. RedisOpensOnEvidence'
    <3>1. Cardinality(RedisUncured') \in Nat
      <4>1. RedisUncured' \subseteq 1 .. redisAdmissions BY <1>1, <1>2 DEF RedisUncured, RedisTypes
      <4>2. IsFiniteSet(1 .. redisAdmissions) BY <1>1, FS_Interval
      <4> QED BY <4>1, <4>2, FS_Subset, FS_CardinalityType
    <3> QED BY <2>5, <3>1 DEF RedisOpensOnEvidence
  <2>14. CooldownHolds
    <3> SUFFICES ASSUME IsRedisOpen PROVE s > NewestFail BY DEF CooldownHolds
    <3>1. NewestFail > redisCuredBy BY <1>1, <1>5 DEF RedisInv, HashOK, IsRedisOpen
    <3> QED BY <2>7, <3>1
  <2> QED BY <1>9, <2>10, <2>11, <2>12, <2>13, <2>14 DEF RedisInv
<1> QED BY <1>12, <1>13

\* A call that reports nothing leaves the hash alone.
LEMMA AbandonKeeps ==
  ASSUME RedisBreakerAssumption, RedisInv, NEW c \in RedisCall, RedisAbandon(c)
  PROVE  RedisInv' /\ CooldownHolds
<1>0. resends' = resends BY DEF RedisAbandon
<1> USE <1>0
<1>1. /\ redisCall' = [redisCall EXCEPT ![c] = NoCall] /\ redisCall[c].live
      /\ UNCHANGED <<hash, expires, redisClock, redisAdmissions, redisFailed, redisNewestOK, redisCuredBy>>
  BY DEF RedisAbandon, redisHistory
<1>2. /\ redisCall' \in [RedisCall -> RedisCallState]
      /\ \A d \in RedisCall : redisCall'[d].live => redisCall[d].live /\ redisCall'[d] = redisCall[d]
  BY <1>1 DEF RedisInv, RedisTypes, NoCall, RedisCallState
<1>3. Hash' = Hash /\ NowMs' = NowMs /\ NewestFail' = NewestFail /\ RedisUncured' = RedisUncured
  BY <1>1 DEF Hash, NowMs, NewestFail, RedisUncured
<1>4. RedisTypes' BY <1>1, <1>2 DEF RedisInv, RedisTypes
<1>5. LiveRedisCalls' BY <1>1, <1>2, <1>3 DEF RedisInv, LiveRedisCalls, LiveRedisCall
<1>6. RedisTimesFollowOrder' BY <1>2, OrderStays DEF RedisInv
<1>7. HashOK' /\ (resends = 0 => RedisOpensOnEvidence)' BY <1>1, <1>3 DEF RedisInv, HashOK, RedisOpensOnEvidence
<1>8. CooldownHolds BY <1>3 DEF CooldownHolds
<1> QED BY <1>4, <1>5, <1>6, <1>7, <1>8 DEF RedisInv

\* Time drops the hash only when no call is in flight and no cooldown runs.
LEMMA AdvanceKeeps ==
  ASSUME RedisBreakerAssumption, RedisInv, RedisAdvance
  PROVE  RedisInv' /\ CooldownHolds
<1> USE RedisBreakerAssumption DEF RedisBreakerAssumption
<1>0. resends' = resends BY DEF RedisAdvance
<1> USE <1>0
<1>1. /\ redisClock' = redisClock + RedisTick /\ redisClock \in Nat \ {0}
      /\ UNCHANGED <<hash, expires, redisCall, redisAdmissions, redisFailed, redisNewestOK, redisCuredBy>>
  BY DEF RedisAdvance, redisHistory, RedisInv, RedisTypes
<1>2. NowMs \in Nat /\ NowMs' \in Nat /\ NowMs <= NowMs'
  BY <1>1, LaterMillisecond DEF NowMs
<1>3. NewestFail' = NewestFail /\ RedisUncured' = RedisUncured BY <1>1 DEF NewestFail, RedisUncured
<1>4. RedisTypes /\ RedisTypes' /\ Hash \in HashState BY <1>1, HashType DEF RedisInv, RedisTypes
<1>5. Hash' = Hash \/ (Hash' = ZeroHash /\ expires <= NowMs') BY <1>1, <1>2, <1>4 DEF Hash, RedisTypes
<1>6. \A d \in RedisCall : redisCall[d].live => NowMs' < redisCall[d].at + Retention
  BY <1>1 DEF RedisAdvance, NowMs
<1>7. ASSUME NEW d \in RedisCall, redisCall'[d].live PROVE LiveRedisCall(d)'
  <2>1. LiveRedisCall(d) /\ redisCall[d] \in RedisCallState BY <1>1, <1>7, CallKeepsHash
  <2>2. NowMs' < expires BY <1>1, <1>2, <1>4, <1>6, <1>7, <2>1 DEF LiveRedisCall, RedisCallState, RedisTypes
  <2>3. Hash' = Hash BY <1>2, <1>4, <1>5, <2>2 DEF RedisTypes
  <2> QED BY <1>1, <1>3, <1>6, <1>7, <2>1, <2>3 DEF LiveRedisCall
<1>8. LiveRedisCalls' BY <1>7 DEF LiveRedisCalls
<1>9. RedisTimesFollowOrder' BY <1>1 DEF RedisInv, RedisTimesFollowOrder
<1>10. HashOK'
  <2>1. CASE Hash' = Hash BY <1>1, <1>3, <2>1 DEF RedisInv, HashOK
  <2>2. CASE Hash' = ZeroHash BY <1>1, <1>3, <1>4, <2>2 DEF RedisInv, HashOK, ZeroHash, RedisTypes
  <2> QED BY <1>5, <2>1, <2>2
<1>11. (resends = 0 => RedisOpensOnEvidence)'
  <2>1. CASE Hash' = Hash BY <1>3, <2>1 DEF RedisInv, RedisOpensOnEvidence
  <2>2. CASE Hash' = ZeroHash
    <3>1. Cardinality(RedisUncured) \in Nat BY <1>4, CountRedisUncured
    <3> QED BY <1>3, <2>2, <3>1 DEF RedisOpensOnEvidence, ZeroHash
  <2> QED BY <1>5, <2>1, <2>2
<1>12. CooldownHolds
  <2>1. CASE Hash' = Hash BY <2>1 DEF CooldownHolds
  <2>2. CASE expires <= NowMs'
    <3>1. Hash.openUntil <= expires BY DEF RedisInv, HashOK
    <3>2. NowMs' >= Hash.openUntil BY <1>2, <1>4, <2>2, <3>1 DEF RedisTypes, HashState
    <3> QED BY <3>2 DEF CooldownHolds
  <2> QED BY <1>5, <2>1, <2>2
<1> QED BY <1>4, <1>8, <1>9, <1>10, <1>11, <1>12 DEF RedisInv

\* Every step keeps the invariant, and the cooldown.
LEMMA StepKeeps ==
  ASSUME RedisBreakerAssumption, RedisInv, [RedisNext]_redisVars
  PROVE  RedisInv' /\ [CooldownHolds]_redisVars
<1>1. CASE RedisNext BY <1>1, AllowKeeps, FailKeeps, SuccessKeeps, AbandonKeeps, AdvanceKeeps DEF RedisNext
<1>2. CASE UNCHANGED redisVars
  <2>1. Hash' = Hash /\ NowMs' = NowMs /\ NewestFail' = NewestFail /\ RedisUncured' = RedisUncured
    BY <1>2 DEF redisVars, redisHistory, Hash, NowMs, NewestFail, RedisUncured
  <2> QED BY <1>2, <2>1 DEF redisVars, redisHistory, RedisInv, RedisTypes, LiveRedisCalls, LiveRedisCall, RedisTimesFollowOrder, HashOK,
                            RedisOpensOnEvidence
<1> QED BY <1>1, <1>2

\* In whatever order the outcomes of concurrent calls reach Redis, late, repeated, lost, and
\* around the expiry of the key: admission times follow the admissions, the newest success
\* closes the circuit, nothing else ends a cooldown early, and without resends the circuit
\* opens only on the threshold's number of distinct uncured failures (the allow, fail and
\* success scripts of store/redis.go).
THEOREM RedisBreakerSharedEvidenceDecides ==
  ASSUME RedisBreakerAssumption
  PROVE  RedisSpec => SharedEvidenceDecides
<1>1. RedisInit => RedisInv BY RouteStarts
<1>2. RedisInv /\ [RedisNext]_redisVars => RedisInv' /\ [CooldownHolds]_redisVars BY StepKeeps
<1>3. RedisInv => EvidenceDecides
  <2> SUFFICES ASSUME RedisInv PROVE EvidenceDecides OBVIOUS
  <2>1. AdmissionsAreOrdered BY DEF RedisInv, RedisTimesFollowOrder, AdmissionsAreOrdered
  <2>2. RedisNewestSuccessCloses
    <3>1. NewestFail \in Nat BY NewestFailIsLatest DEF RedisInv
    <3> QED BY <3>1 DEF RedisInv, RedisTypes, HashOK, RedisNewestSuccessCloses
  <2> QED BY <2>1, <2>2 DEF RedisInv, EvidenceDecides
<1> QED BY <1>1, <1>2, <1>3, PTL DEF RedisSpec, SharedEvidenceDecides
-----------------------------------------------------------------------------
(***************************************************************************)
(* The local limiter counts each slot once, keeps all owners of a key on   *)
(* one object, and implements a counting semaphore per key.                *)
(***************************************************************************)
\* Whoever is past a look-up has an object.
EntryKnown ==
  \A c \in Caller :
    pc[c] \in {"retire", "unlink", "lock", "drop", "held"} => entry[c] \in Entry

\* Only retired objects are unmapped.
UnmapsRetired ==
  \A c \in Caller : pc[c] \in {"unlink", "drop"} => retired[entry[c]]

\* An object looked up for a key and not retired since is still mapped.
LiveIsMapped ==
  \A c \in Caller :
    pc[c] = "lock" /\ ~retired[entry[c]] => limiters[key[c]] = entry[c]

\* No object serves two keys.
OneKeyPerEntry ==
  \A j, k \in Key : limiters[j] = limiters[k] /\ limiters[j] # NoEntry => j = k

LimiterInv ==
  /\ LimiterTypeOK
  /\ EntryKnown
  /\ UnmapsRetired
  /\ LiveIsMapped
  /\ OneKeyPerEntry
  /\ HoldersShareTheMappedLimiter
  /\ SlotsAreCounted

\* Counting: adding or removing one caller changes the count by one.
LEMMA CountPlus ==
  ASSUME NEW S \in SUBSET Caller, NEW c \in Caller, c \notin S
  PROVE  /\ Cardinality(S) \in Nat
         /\ Cardinality(S \cup {c}) = Cardinality(S) + 1
BY LimiterAssumption, FS_Subset, FS_AddElement, FS_CardinalityType

\* One holder less is one slot less.
LEMMA CountMinus ==
  ASSUME NEW S \in SUBSET Caller, NEW c \in S
  PROVE  /\ Cardinality(S) \in Nat
         /\ Cardinality(S) > 0
         /\ Cardinality(S \ {c}) = Cardinality(S) - 1
<1>1. IsFiniteSet(S) BY LimiterAssumption, FS_Subset
<1>2. Cardinality(S) \in Nat BY <1>1, FS_CardinalityType
<1>3. Cardinality(S \ {c}) = Cardinality(S) - 1 BY <1>1, FS_RemoveElement
<1>4. Cardinality(S \ {c}) \in Nat BY <1>1, FS_Subset, FS_CardinalityType
<1> QED BY <1>2, <1>3, <1>4

\* The invariant holds with no limiter made yet.
LEMMA LimiterInitInv == LimiterInit => LimiterInv
<1> SUFFICES ASSUME LimiterInit PROVE LimiterInv OBVIOUS
<1>1. LimiterTypeOK BY LimiterAssumption DEF LimiterInit, LimiterTypeOK, PC, ZeroTime
<1>2. SlotsAreCounted
  <2>1. \A e \in Entry : HoldersOf(e) = {} BY DEF LimiterInit, HoldersOf
  <2> QED BY <2>1, FS_EmptySet DEF LimiterInit, SlotsAreCounted
<1> QED BY <1>1, <1>2 DEF LimiterInit, LimiterInv, EntryKnown, UnmapsRetired, LiveIsMapped,
        OneKeyPerEntry, HoldersShareTheMappedLimiter

\* Steps that leave the owners and the counters alone keep the count.
LEMMA SameOwners ==
  ASSUME LimiterInv, UNCHANGED current,
         \A e \in Entry : HoldersOf(e)' = HoldersOf(e)
  PROVE  SlotsAreCounted'
BY DEF LimiterInv, SlotsAreCounted

\* Every step preserves the inductive invariant: one case per action.
LEMMA LimiterNextInv == LimiterInv /\ [LimiterNext]_limiterVars => LimiterInv'
<1> SUFFICES ASSUME LimiterInv, [LimiterNext]_limiterVars PROVE LimiterInv' OBVIOUS
<1> USE LimiterAssumption
<1>1. ASSUME NEW c \in Caller, NEW k \in Key, NEW n \in Limits, Enter(c, k, n)
      PROVE  LimiterInv'
  <2>1. LimiterTypeOK' BY <1>1 DEF LimiterInv, LimiterTypeOK, Enter, PC
  <2>2. \A e \in Entry : HoldersOf(e)' = HoldersOf(e)
    BY <1>1 DEF LimiterInv, LimiterTypeOK, Enter, HoldersOf
  <2>3. SlotsAreCounted' BY <1>1, <2>2, SameOwners DEF Enter
  <2> QED BY <1>1, <2>1, <2>3 DEF LimiterInv, LimiterTypeOK, Enter, EntryKnown, UnmapsRetired,
             LiveIsMapped, OneKeyPerEntry, HoldersShareTheMappedLimiter
<1>2. ASSUME NEW c \in Caller, NEW k \in Key, RangeNext(c, k)
      PROVE  LimiterInv'
  <2>1. LimiterTypeOK' BY <1>2 DEF LimiterInv, LimiterTypeOK, RangeNext, PC
  <2>2. \A e \in Entry : HoldersOf(e)' = HoldersOf(e)
    BY <1>2 DEF LimiterInv, LimiterTypeOK, RangeNext, HoldersOf
  <2>3. SlotsAreCounted' BY <1>2, <2>2, SameOwners DEF RangeNext
  <2> QED BY <1>2, <2>1, <2>3 DEF LimiterInv, LimiterTypeOK, RangeNext, EntryKnown, UnmapsRetired,
             LiveIsMapped, OneKeyPerEntry, HoldersShareTheMappedLimiter
<1>3. ASSUME NEW c \in Caller, RetireIfIdle(c)
      PROVE  LimiterInv'
  <2>1. LimiterTypeOK' BY <1>3 DEF LimiterInv, LimiterTypeOK, RetireIfIdle, PC
  <2>2. \A e \in Entry : HoldersOf(e)' = HoldersOf(e)
    BY <1>3 DEF LimiterInv, LimiterTypeOK, RetireIfIdle, HoldersOf
  <2>3. SlotsAreCounted' BY <1>3, <2>2, SameOwners DEF RetireIfIdle
  <2>4. HoldersShareTheMappedLimiter'
    \* An object with an owner has a positive count, so it is not idle.
    <3>1. \A d \in Caller : pc[d] = "held" => current[entry[d]] # 0
      <4> SUFFICES ASSUME NEW d \in Caller, pc[d] = "held" PROVE current[entry[d]] # 0
        OBVIOUS
      <4>1. d \in HoldersOf(entry[d]) /\ HoldersOf(entry[d]) \in SUBSET Caller
        BY DEF HoldersOf
      <4>2. Cardinality(HoldersOf(entry[d])) > 0 BY <4>1, CountMinus
      <4>3. entry[d] \in Entry BY DEF LimiterInv, EntryKnown
      <4> QED BY <4>2, <4>3 DEF LimiterInv, SlotsAreCounted
    <3>2. entry[c] \in Entry BY <1>3 DEF LimiterInv, EntryKnown, RetireIfIdle
    <3>3. CASE IsIdle(entry[c], now[c] - IdleTTL)
      <4>1. /\ retired' = [retired EXCEPT ![entry[c]] = TRUE]
            /\ \A d \in Caller : pc'[d] = "held" => pc[d] = "held"
            /\ UNCHANGED <<entry, key, limiters>>
            /\ current[entry[c]] = 0
        BY <1>3, <3>3 DEF RetireIfIdle, IsIdle, LimiterInv, LimiterTypeOK
      <4> QED BY <3>1, <3>2, <4>1 DEF LimiterInv, LimiterTypeOK, EntryKnown, HoldersShareTheMappedLimiter
    <3>4. CASE ~IsIdle(entry[c], now[c] - IdleTTL)
      BY <1>3, <3>4 DEF LimiterInv, LimiterTypeOK, RetireIfIdle, HoldersShareTheMappedLimiter
    <3> QED BY <3>3, <3>4
  <2>5. EntryKnown' /\ OneKeyPerEntry' BY <1>3 DEF LimiterInv, LimiterTypeOK, RetireIfIdle, EntryKnown, OneKeyPerEntry
  <2>6. UnmapsRetired' BY <1>3 DEF LimiterInv, LimiterTypeOK, RetireIfIdle, EntryKnown, UnmapsRetired
  <2>7. LiveIsMapped' BY <1>3 DEF LimiterInv, LimiterTypeOK, RetireIfIdle, EntryKnown, LiveIsMapped
  <2> QED BY <2>1, <2>3, <2>4, <2>5, <2>6, <2>7 DEF LimiterInv
<1>4. ASSUME NEW c \in Caller, Unlink(c)
      PROVE  LimiterInv'
  <2>1. LimiterTypeOK' BY <1>4 DEF LimiterInv, LimiterTypeOK, Unlink, CompareAndDelete, PC
  <2>2. \A e \in Entry : HoldersOf(e)' = HoldersOf(e)
    BY <1>4 DEF LimiterInv, LimiterTypeOK, Unlink, HoldersOf
  <2>3. SlotsAreCounted' BY <1>4, <2>2, SameOwners DEF Unlink
  <2>4. EntryKnown' /\ UnmapsRetired' BY <1>4 DEF LimiterInv, LimiterTypeOK, Unlink, EntryKnown, UnmapsRetired
  <2>5. LiveIsMapped' /\ HoldersShareTheMappedLimiter'
    BY <1>4 DEF LimiterInv, LimiterTypeOK, Unlink, CompareAndDelete, UnmapsRetired, LiveIsMapped,
                HoldersShareTheMappedLimiter
  <2>6. OneKeyPerEntry' BY <1>4 DEF LimiterInv, LimiterTypeOK, Unlink, CompareAndDelete, OneKeyPerEntry
  <2> QED BY <2>1, <2>3, <2>4, <2>5, <2>6 DEF LimiterInv
<1>5. ASSUME NEW c \in Caller, PruneDone(c)
      PROVE  LimiterInv'
  <2>1. LimiterTypeOK' BY <1>5 DEF LimiterInv, LimiterTypeOK, PruneDone, PC
  <2>2. \A e \in Entry : HoldersOf(e)' = HoldersOf(e)
    BY <1>5 DEF LimiterInv, LimiterTypeOK, PruneDone, HoldersOf
  <2>3. SlotsAreCounted' BY <1>5, <2>2, SameOwners DEF PruneDone
  <2>4. EntryKnown' /\ UnmapsRetired' BY <1>5 DEF LimiterInv, LimiterTypeOK, PruneDone, EntryKnown, UnmapsRetired
  <2>5. LiveIsMapped' /\ OneKeyPerEntry' BY <1>5 DEF LimiterInv, LimiterTypeOK, PruneDone, LiveIsMapped, OneKeyPerEntry
  <2>6. HoldersShareTheMappedLimiter' BY <1>5 DEF LimiterInv, LimiterTypeOK, PruneDone, HoldersShareTheMappedLimiter
  <2> QED BY <2>1, <2>3, <2>4, <2>5, <2>6 DEF LimiterInv
<1>6. ASSUME NEW c \in Caller, LoadOrStore(c)
      PROVE  LimiterInv'
  <2>1. CASE limiters[key[c]] # NoEntry
    <3>1. LimiterTypeOK' BY <1>6, <2>1 DEF LimiterInv, LimiterTypeOK, LoadOrStore, PC
    <3>2. \A e \in Entry : HoldersOf(e)' = HoldersOf(e)
      BY <1>6, <2>1 DEF LimiterInv, LimiterTypeOK, LoadOrStore, HoldersOf
    <3>3. SlotsAreCounted' BY <1>6, <2>1, <3>2, SameOwners DEF LoadOrStore
    <3>4. /\ pc' = [pc EXCEPT ![c] = "lock"] /\ entry' = [entry EXCEPT ![c] = limiters[key[c]]]
          /\ pc[c] = "load" /\ UNCHANGED <<key, limiters, retired>>
      BY <1>6, <2>1 DEF LoadOrStore
    <3>5. EntryKnown' /\ UnmapsRetired'
      BY <2>1, <3>4 DEF LimiterInv, LimiterTypeOK, EntryKnown, UnmapsRetired
    <3>6. LiveIsMapped' BY <3>4 DEF LimiterInv, LimiterTypeOK, LiveIsMapped
    <3>7. OneKeyPerEntry' BY <3>4 DEF LimiterInv, OneKeyPerEntry
    <3>8. HoldersShareTheMappedLimiter' BY <3>4 DEF LimiterInv, LimiterTypeOK, HoldersShareTheMappedLimiter
    <3> QED BY <3>1, <3>3, <3>5, <3>6, <3>7, <3>8 DEF LimiterInv
  <2>2. CASE limiters[key[c]] = NoEntry
    <3>1. PICK e \in Entry :
             /\ Unreferenced(e)
             /\ entry' = [entry EXCEPT ![c] = e]
             /\ limiters' = [limiters EXCEPT ![key[c]] = e]
             /\ current' = [current EXCEPT ![e] = 0]
             /\ lastSeen' = [lastSeen EXCEPT ![e] = ZeroTime]
             /\ retired' = [retired EXCEPT ![e] = FALSE]
      BY <1>6, <2>2 DEF LoadOrStore
    <3>2. LimiterTypeOK' BY <1>6, <3>1 DEF LimiterInv, LimiterTypeOK, LoadOrStore, PC, ZeroTime
    <3>3. SlotsAreCounted'
      <4>1. HoldersOf(e) = {} BY <3>1 DEF HoldersOf, Unreferenced
      <4>2. \A d \in Entry : HoldersOf(d)' = HoldersOf(d)
        BY <1>6, <3>1 DEF LimiterInv, LimiterTypeOK, LoadOrStore, HoldersOf
      <4>3. current' = current
        BY <3>1, <4>1, FS_EmptySet DEF LimiterInv, LimiterTypeOK, SlotsAreCounted
      <4> QED BY <4>2, <4>3, SameOwners
    <3>4. pc' = [pc EXCEPT ![c] = "lock"] /\ pc[c] = "load" /\ UNCHANGED key
      BY <1>6 DEF LoadOrStore
    <3>5. EntryKnown' BY <3>1, <3>4 DEF LimiterInv, LimiterTypeOK, EntryKnown
    <3>6. UnmapsRetired'
      BY <3>1, <3>4 DEF LimiterInv, LimiterTypeOK, EntryKnown, UnmapsRetired, Unreferenced
    <3>7. LiveIsMapped'
      BY <2>2, <3>1, <3>4 DEF LimiterInv, LimiterTypeOK, EntryKnown, LiveIsMapped, Unreferenced
    <3>8. OneKeyPerEntry' BY <3>1 DEF LimiterInv, LimiterTypeOK, OneKeyPerEntry, Unreferenced
    <3>9. HoldersShareTheMappedLimiter'
      BY <2>2, <3>1, <3>4
         DEF LimiterInv, LimiterTypeOK, EntryKnown, HoldersShareTheMappedLimiter, Unreferenced
    <3> QED BY <3>2, <3>3, <3>5, <3>6, <3>7, <3>8, <3>9 DEF LimiterInv
  <2> QED BY <2>1, <2>2
<1>7. ASSUME NEW c \in Caller, Acquire(c)
      PROVE  LimiterInv'
  <2>0. entry[c] \in Entry BY <1>7 DEF LimiterInv, EntryKnown, Acquire
  <2>1. LimiterTypeOK' BY <1>7, <2>0 DEF LimiterInv, LimiterTypeOK, Acquire, PC
  <2>2. CASE retired[entry[c]] \/ current[entry[c]] >= limit[c]
    <3>1. \A e \in Entry : HoldersOf(e)' = HoldersOf(e)
      BY <1>7, <2>2 DEF LimiterInv, LimiterTypeOK, Acquire, HoldersOf
    <3>2. SlotsAreCounted' BY <1>7, <2>2, <3>1, SameOwners DEF Acquire
    <3>3. /\ \/ pc' = [pc EXCEPT ![c] = "drop"] /\ entry' = entry /\ retired[entry[c]]
             \/ pc' = [pc EXCEPT ![c] = "idle"] /\ entry' = [entry EXCEPT ![c] = NoEntry]
          /\ UNCHANGED <<key, limiters, retired>>
      BY <1>7, <2>2 DEF Acquire
    <3>4. EntryKnown' BY <2>0, <3>3 DEF LimiterInv, LimiterTypeOK, EntryKnown
    <3>5. UnmapsRetired' BY <3>3 DEF LimiterInv, LimiterTypeOK, UnmapsRetired
    <3>6. LiveIsMapped' /\ OneKeyPerEntry' BY <3>3 DEF LimiterInv, LimiterTypeOK, LiveIsMapped, OneKeyPerEntry
    <3>7. HoldersShareTheMappedLimiter' BY <3>3 DEF LimiterInv, LimiterTypeOK, HoldersShareTheMappedLimiter
    <3> QED BY <2>1, <3>2, <3>4, <3>5, <3>6, <3>7 DEF LimiterInv
  <2>3. CASE ~retired[entry[c]] /\ ~(current[entry[c]] >= limit[c])
    <3>1. /\ pc' = [pc EXCEPT ![c] = "held"]
          /\ current' = [current EXCEPT ![entry[c]] = @ + 1]
          /\ UNCHANGED <<entry, key, limiters, retired>>
          /\ pc[c] = "lock"
      BY <1>7, <2>3 DEF Acquire
    <3>2. SlotsAreCounted'
      <4>1. HoldersOf(entry[c])' = HoldersOf(entry[c]) \cup {c}
        BY <3>1 DEF LimiterInv, LimiterTypeOK, HoldersOf
      <4>2. \A e \in Entry \ {entry[c]} : HoldersOf(e)' = HoldersOf(e)
        BY <3>1 DEF LimiterInv, LimiterTypeOK, HoldersOf
      <4>3. c \notin HoldersOf(entry[c]) /\ HoldersOf(entry[c]) \in SUBSET Caller
        BY <3>1 DEF HoldersOf
      <4>4. Cardinality(HoldersOf(entry[c])') = current[entry[c]] + 1
        BY <2>0, <4>1, <4>3, CountPlus DEF LimiterInv, SlotsAreCounted
      <4> QED BY <2>0, <3>1, <4>2, <4>4 DEF LimiterInv, LimiterTypeOK, SlotsAreCounted
    <3>3. EntryKnown' /\ UnmapsRetired' BY <2>0, <3>1 DEF LimiterInv, LimiterTypeOK, EntryKnown, UnmapsRetired
    <3>4. LiveIsMapped' /\ OneKeyPerEntry' BY <3>1 DEF LimiterInv, LimiterTypeOK, LiveIsMapped, OneKeyPerEntry
    <3>5. HoldersShareTheMappedLimiter'
      BY <2>3, <3>1 DEF LimiterInv, LimiterTypeOK, LiveIsMapped, HoldersShareTheMappedLimiter
    <3> QED BY <2>1, <3>2, <3>3, <3>4, <3>5 DEF LimiterInv
  <2> QED BY <2>2, <2>3
<1>8. ASSUME NEW c \in Caller, Drop(c)
      PROVE  LimiterInv'
  <2>1. LimiterTypeOK' BY <1>8 DEF LimiterInv, LimiterTypeOK, Drop, CompareAndDelete, PC
  <2>2. \A e \in Entry : HoldersOf(e)' = HoldersOf(e)
    BY <1>8 DEF LimiterInv, LimiterTypeOK, Drop, HoldersOf
  <2>3. SlotsAreCounted' BY <1>8, <2>2, SameOwners DEF Drop
  <2>4. EntryKnown' /\ UnmapsRetired' BY <1>8 DEF LimiterInv, LimiterTypeOK, Drop, EntryKnown, UnmapsRetired
  <2>5. LiveIsMapped' /\ HoldersShareTheMappedLimiter'
    BY <1>8 DEF LimiterInv, LimiterTypeOK, Drop, CompareAndDelete, UnmapsRetired, LiveIsMapped,
                HoldersShareTheMappedLimiter
  <2>6. OneKeyPerEntry' BY <1>8 DEF LimiterInv, LimiterTypeOK, Drop, CompareAndDelete, OneKeyPerEntry
  <2> QED BY <2>1, <2>3, <2>4, <2>5, <2>6 DEF LimiterInv
<1>9. ASSUME NEW c \in Caller, Release(c)
      PROVE  LimiterInv'
  <2>0. PICK e \in Entry : e = entry[c] BY <1>9 DEF LimiterInv, EntryKnown, Release
  <2>1. LimiterTypeOK' BY <1>9, <2>0 DEF LimiterInv, LimiterTypeOK, Release, PC
  <2>2. SlotsAreCounted'
    <3>1. HoldersOf(e)' = HoldersOf(e) \ {c}
      BY <1>9, <2>0 DEF LimiterInv, LimiterTypeOK, Release, HoldersOf
    <3>2. \A d \in Entry \ {e} : HoldersOf(d)' = HoldersOf(d)
      BY <1>9, <2>0 DEF LimiterInv, LimiterTypeOK, Release, HoldersOf
    <3>3. c \in HoldersOf(e) /\ HoldersOf(e) \in SUBSET Caller
      BY <1>9, <2>0 DEF HoldersOf, Release
    <3>4. /\ current[e] > 0
          /\ Cardinality(HoldersOf(e)') = current[e] - 1
      BY <3>1, <3>3, CountMinus DEF LimiterInv, SlotsAreCounted
    <3>5. current' = [current EXCEPT ![e] = current[e] - 1]
      BY <1>9, <2>0, <3>4 DEF Release
    <3> QED BY <3>2, <3>4, <3>5 DEF LimiterInv, LimiterTypeOK, SlotsAreCounted
  <2>3. EntryKnown' /\ UnmapsRetired' BY <1>9 DEF LimiterInv, LimiterTypeOK, Release, EntryKnown, UnmapsRetired
  <2>4. LiveIsMapped' /\ OneKeyPerEntry' BY <1>9 DEF LimiterInv, LimiterTypeOK, Release, LiveIsMapped, OneKeyPerEntry
  <2>5. HoldersShareTheMappedLimiter' BY <1>9 DEF LimiterInv, LimiterTypeOK, Release, HoldersShareTheMappedLimiter
  <2> QED BY <2>1, <2>2, <2>3, <2>4, <2>5 DEF LimiterInv
<1>10. CASE Tick
  <2>1. LimiterTypeOK' BY <1>10 DEF LimiterInv, LimiterTypeOK, Tick
  <2>2. \A e \in Entry : HoldersOf(e)' = HoldersOf(e) BY <1>10 DEF Tick, HoldersOf
  <2>3. SlotsAreCounted' BY <1>10, <2>2, SameOwners DEF Tick
  <2> QED BY <1>10, <2>1, <2>3 DEF LimiterInv, Tick, EntryKnown, UnmapsRetired, LiveIsMapped,
             OneKeyPerEntry, HoldersShareTheMappedLimiter
<1>11. CASE UNCHANGED limiterVars
  BY <1>11 DEF limiterVars, LimiterInv, LimiterTypeOK, EntryKnown, UnmapsRetired, LiveIsMapped, OneKeyPerEntry,
     HoldersShareTheMappedLimiter, SlotsAreCounted, HoldersOf
<1> QED BY <1>1, <1>2, <1>3, <1>4, <1>5, <1>6, <1>7, <1>8, <1>9, <1>10, <1>11 DEF LimiterNext

\* The inductive invariant holds in every reachable state.
LEMMA AlwaysLimiterInv == LimiterSpec => []LimiterInv
BY LimiterInitInv, LimiterNextInv, PTL DEF LimiterSpec

\* LimiterTypeOK for every instance: the variables of the local limiter keep their
\* types (attempt.go:334-373, 753-797).
THEOREM LimiterTypeCorrect == LimiterSpec => []LimiterTypeOK
BY AlwaysLimiterInv, PTL DEF LimiterInv

\* Slots are counted exactly, whatever the interleaving of look-ups, prunes,
\* acquisitions and releases (attempt.go:334-373, 761-797).
THEOREM LimiterCountsSlots == LimiterSpec => []SlotsAreCounted
BY AlwaysLimiterInv, PTL DEF LimiterInv

\* All owners of a key are on the one mapped, unretired object
\* (attempt.go:343-349, 364-372, 789-797).
THEOREM LimiterSharesOneObject == LimiterSpec => []HoldersShareTheMappedLimiter
BY AlwaysLimiterInv, PTL DEF LimiterInv

\* On an object that is not retired, the owners of its key and the owners
\* counted on it are the same callers.
LEMMA OwnersAreHolders ==
  ASSUME LimiterInv, NEW c \in Caller, pc[c] = "lock", ~retired[entry[c]]
  PROVE  Cardinality(Sem!Owners(key[c])) = current[entry[c]]
<1>1. entry[c] \in Entry /\ limiters[key[c]] = entry[c] /\ key[c] \in Key
  BY DEF LimiterInv, LimiterTypeOK, EntryKnown, LiveIsMapped
<1>2. Sem!Owners(key[c]) = {d \in Caller : pc[d] = "held" /\ key[d] = key[c]}
  BY DEF Sem!Owners
<1>3. \A d \in Caller : pc[d] = "held" => (key[d] = key[c] <=> entry[d] = entry[c])
  BY <1>1, LimiterAssumption
     DEF LimiterInv, LimiterTypeOK, OneKeyPerEntry, HoldersShareTheMappedLimiter
<1>4. Sem!Owners(key[c]) = HoldersOf(entry[c]) BY <1>2, <1>3 DEF HoldersOf
<1> QED BY <1>1, <1>4 DEF LimiterInv, SlotsAreCounted

\* What the slot arithmetic is about.
LEMMA CountersAreInts ==
  ASSUME LimiterTypeOK, NEW c \in Caller, NEW e \in Entry
  PROVE  current[e] \in Int /\ limit[c] \in Int
<1>1. current[e] \in Nat BY DEF LimiterTypeOK
<1>2. limit[c] \in Limits BY DEF LimiterTypeOK
<1>3. limit[c] \in Nat BY <1>2, LimiterAssumption
<1> QED BY <1>1, <1>3

\* Semaphore counts its owners as this module does.
LEMMA SameCardinality == \A S : Sem!Cardinality(S) = Cardinality(S)
BY DEF Sem!Cardinality, Cardinality

\* Every step of the limiters is a step of the semaphores, or none.
LEMMA StepIsSemaphoreStep == LimiterInv /\ [LimiterNext]_limiterVars => [Sem!Next]_Sem!vars
<1> SUFFICES ASSUME LimiterInv, [LimiterNext]_limiterVars PROVE [Sem!Next]_Sem!vars OBVIOUS
<1> USE DEF Sem!vars
<1>1. ASSUME NEW c \in Caller, NEW k \in Key, NEW n \in Limits, Enter(c, k, n)
      PROVE  Sem!Ask(c, k, n)
  BY <1>1 DEF Enter, Sem!Ask, LimiterInv, LimiterTypeOK
<1>2. ASSUME NEW c \in Caller, NEW k \in Key, RangeNext(c, k)
      PROVE  UNCHANGED Sem!vars
  BY <1>2 DEF RangeNext, LimiterInv, LimiterTypeOK
<1>3. ASSUME NEW c \in Caller, RetireIfIdle(c) \/ Unlink(c) \/ PruneDone(c)
      PROVE  UNCHANGED Sem!vars
  BY <1>3 DEF RetireIfIdle, Unlink, PruneDone, LimiterInv, LimiterTypeOK
<1>4. ASSUME NEW c \in Caller, LoadOrStore(c) \/ Drop(c)
      PROVE  UNCHANGED Sem!vars
  BY <1>4 DEF LoadOrStore, Drop, LimiterInv, LimiterTypeOK
<1>5. ASSUME NEW c \in Caller, Acquire(c)
      PROVE  \/ UNCHANGED Sem!vars
             \/ Sem!Grant(c)
             \/ Sem!Refuse(c)
  <2>0. pc[c] = "lock" BY <1>5 DEF Acquire
  <2>1. CASE retired[entry[c]]
    BY <1>5, <2>1 DEF Acquire, LimiterInv, LimiterTypeOK
  <2>2. CASE ~retired[entry[c]] /\ current[entry[c]] >= limit[c]
    <3>1. Cardinality(Sem!Owners(key[c])) >= limit[c] BY <2>0, <2>2, OwnersAreHolders
    <3> QED BY <1>5, <2>2, <3>1, SameCardinality DEF Acquire, Sem!Refuse, LimiterInv, LimiterTypeOK
  <2>3. CASE ~retired[entry[c]] /\ ~(current[entry[c]] >= limit[c])
    <3>1. entry[c] \in Entry BY <2>0 DEF LimiterInv, EntryKnown
    <3>2. current[entry[c]] \in Int /\ limit[c] \in Int BY <3>1, CountersAreInts DEF LimiterInv
    <3>3. Cardinality(Sem!Owners(key[c])) < limit[c] BY <2>0, <2>3, <3>2, OwnersAreHolders
    <3> QED BY <1>5, <2>3, <3>3, SameCardinality DEF Acquire, Sem!Grant, LimiterInv, LimiterTypeOK
  <2> QED BY <2>1, <2>2, <2>3
<1>6. ASSUME NEW c \in Caller, Release(c)
      PROVE  Sem!GiveBack(c)
  BY <1>6 DEF Release, Sem!GiveBack, LimiterInv, LimiterTypeOK
<1>7. CASE Tick BY <1>7 DEF Tick
<1>8. CASE UNCHANGED limiterVars BY <1>8 DEF limiterVars
<1> QED BY <1>1, <1>2, <1>3, <1>4, <1>5, <1>6, <1>7, <1>8 DEF LimiterNext, Sem!Next

\* The local limiter implements one counting semaphore per key: a slot is
\* granted exactly below the limit of the asking snapshot and refused exactly
\* at or above it (attempt.go:334-355, 761-787).
THEOREM LimiterImplementsSemaphore == LimiterSpec => ImplementsSemaphore
<1>1. LimiterInit => Sem!Init BY DEF LimiterInit, Sem!Init
<1> QED BY <1>1, AlwaysLimiterInv, StepIsSemaphoreStep, PTL DEF LimiterSpec, Sem!Spec, ImplementsSemaphore
==============================================================================
