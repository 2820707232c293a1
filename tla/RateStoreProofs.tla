--------------------------- MODULE RateStoreProofs ---------------------------
(***************************************************************************)
(* For every set of keys, every rate and burst, every batch an attempt may *)
(* ask for, every idle period and pruning pattern: the process-local and   *)
(* the Redis rate store are one limiter, and it keeps to the rate.         *)
(*                                                                         *)
(* The stores agree because the one number each keeps per key determines   *)
(* the other's: what a bucket misses is what the arrival time is ahead of  *)
(* the clock.  Forgetting preserves that only because each store forgets a *)
(* full bucket: pruneLocked by its guard, Redis because a key expires no   *)
(* earlier than its arrival time (ArrivesFirst).  The rate is kept because *)
(* no debit of the log was ever forgotten before its arrival time          *)
(* (Accounted), and the latest arrival time is within the burst.           *)
(***************************************************************************)
EXTENDS RateStore, SumTheorems, TLAPS

-----------------------------------------------------------------------------
(* Arithmetic.                                                              *)

LEMMA MinOfTwo ==
  ASSUME NEW a \in Int, NEW b \in Int
  PROVE  Min({a, b}) = IF a <= b THEN a ELSE b
<1> DEFINE m == IF a <= b THEN a ELSE b
<1>1. m \in {a, b} /\ \A y \in {a, b} : m <= y OBVIOUS
<1>2. \A x \in {a, b} : (\A y \in {a, b} : x <= y) => x = m OBVIOUS
<1> QED BY <1>1, <1>2 DEF Min

LEMMA MaxOfTwo ==
  ASSUME NEW a \in Int, NEW b \in Int
  PROVE  Max({a, b}) = IF a >= b THEN a ELSE b
<1> DEFINE m == IF a >= b THEN a ELSE b
<1>1. m \in {a, b} /\ \A y \in {a, b} : m >= y OBVIOUS
<1>2. \A x \in {a, b} : (\A y \in {a, b} : x >= y) => x = m OBVIOUS
<1> QED BY <1>1, <1>2 DEF Max

LEMMA ProductType == ASSUME NEW a \in Nat, NEW b \in Nat PROVE a * b \in Nat
OBVIOUS

\* A time to live in whole seconds, rounded up, covers what it was computed from.
LEMMA RoundedUp ==
  ASSUME NEW d \in Nat, NEW s \in Nat \ {0}
  PROVE  ((d + s - 1) \div s) * s \in Nat /\ ((d + s - 1) \div s) * s >= d
<1> DEFINE q == (d + s - 1) \div s
           r == (d + s - 1) % s
<1>1. d + s - 1 \in Nat OBVIOUS
<1>2. q \in Int /\ r \in 0 .. s - 1 /\ d + s - 1 = s * q + r BY <1>1
<1>3. q >= 0
  <2> SUFFICES ASSUME q <= -1 PROVE FALSE BY <1>2
  <2>1. s * q <= -s BY <1>2
  <2> QED BY <1>2, <2>1
<1> HIDE DEF q, r
<1>4. s * q = q * s BY <1>2
<1>5. q * s >= d BY <1>2, <1>4
<1>6. q * s \in Nat BY <1>2, <1>3
<1>7. q * s \in Nat /\ q * s >= d BY <1>5, <1>6
<1> QED BY <1>7 DEF q
-----------------------------------------------------------------------------
(* Batches.                                                                 *)

Request == [key : Key, n : Nat]

\* checkRates asks for known keys only.
LEMMA BatchType ==
  ASSUME RateStoreAssumption, NEW b \in Batches
  PROVE  b \in Seq(Request) /\ IsFiniteSet(DOMAIN b)
<1>1. PICK a \in Asked : b = CheckRates(a.route, a.attempt, a.request) BY DEF Batches
<1>2. /\ a.attempt \in Nat /\ a.request \in Nat
      /\ a.route.rpm \in Seq(Key) /\ a.route.tpm \in Seq(Key)
  BY DEF RateStoreAssumption
<1> DEFINE tokens == IF a.attempt > 0 THEN a.attempt ELSE IF a.request > 0 THEN a.request ELSE 1
           requests == [i \in DOMAIN a.route.rpm |-> [key |-> a.route.rpm[i], n |-> 1]]
           estimates == [i \in DOMAIN a.route.tpm |-> [key |-> a.route.tpm[i], n |-> tokens]]
<1>3. tokens \in Nat BY <1>2
<1> HIDE DEF tokens
<1>4. requests \in Seq(Request) /\ estimates \in Seq(Request)
  <2>1. \A s \in Seq(Key), m \in Nat : [i \in DOMAIN s |-> [key |-> s[i], n |-> m]] \in Seq(Request)
    <3> SUFFICES ASSUME NEW s \in Seq(Key), NEW m \in Nat
                 PROVE  [i \in DOMAIN s |-> [key |-> s[i], n |-> m]] \in Seq(Request)
      OBVIOUS
    <3>1. Len(s) \in Nat /\ DOMAIN s = 1 .. Len(s) /\ \A i \in 1 .. Len(s) : s[i] \in Key OBVIOUS
    <3>2. [i \in 1 .. Len(s) |-> [key |-> s[i], n |-> m]] \in [1 .. Len(s) -> Request] BY <3>1 DEF Request
    <3>3. \A n \in Nat : \A f \in [1 .. n -> Request] : f \in Seq(Request) OBVIOUS
    <3> QED BY <3>1, <3>2, <3>3
  <2>2. 1 \in Nat OBVIOUS
  <2> QED BY <1>2, <1>3, <2>1, <2>2
<1>5. b = requests \o estimates BY <1>1 DEF CheckRates, tokens
<1> HIDE DEF requests, estimates
<1>6. b \in Seq(Request) BY <1>4, <1>5
<1>7. DOMAIN b = 1 .. Len(b) /\ Len(b) \in Nat BY <1>6
<1>8. IsFiniteSet(1 .. Len(b)) BY <1>7, FS_Interval
<1> QED BY <1>6, <1>7, <1>8

\* What a batch debits a key, in ticks.
Debited(b, k) == IF k \in DOMAIN Normalized(b) THEN Weight(k, Normalized(b)[k]) ELSE 0

\* Requests of one key are added up, and requests of nothing change nothing.
LEMMA DebitsOfBatch ==
  ASSUME RateStoreAssumption, NEW b \in Batches
  PROVE  /\ DOMAIN Normalized(b) \subseteq Key
         /\ \A k \in Key : Debited(b, k) \in Nat /\ Charged(b, k) = Debited(b, k)
<1> SUFFICES ASSUME NEW k \in Key
             PROVE  Debited(b, k) \in Nat /\ Charged(b, k) = Debited(b, k)
  BY DEF Normalized
<1> DEFINE S == DOMAIN b
           A == Asking(b, k)
           f == [i \in DOMAIN b |-> b[i].n]
           g == [i \in DOMAIN b |-> IF b[i].key = k THEN Weight(k, b[i].n) ELSE 0]
           c == Interval[k]
<1>0. b \in Seq(Request) /\ IsFiniteSet(S) BY BatchType
<1>1. \A i \in S : b[i].n \in Nat /\ b[i].key \in Key
  <2>1. \A i \in S : b[i] \in Request BY <1>0
  <2> QED BY <2>1 DEF Request
<1>2. c \in Nat BY DEF RateStoreAssumption
<1>3. A \in SUBSET S BY DEF Asking
<1>4. \A i \in A : f[i] \in Nat /\ g[i] = f[i] * c BY <1>1 DEF Asking, Weight
<1>5. \A i \in S \ A : g[i] = 0
  <2> SUFFICES ASSUME NEW i \in S \ A PROVE g[i] = 0 OBVIOUS
  <2>1. b[i].key = k => b[i].n = 0 BY <1>1 DEF Asking
  <2>2. 0 * c = 0 BY <1>2
  <2> QED BY <2>1, <2>2 DEF Weight
<1>6. SumFunctionOnSet(g, S) = SumFunctionOnSet(f, A) * c /\ SumFunctionOnSet(f, A) \in Nat
  <2>1. IsFiniteSet(S) BY <1>0
  <2> HIDE DEF S, A, f, g, c
  <2>2. Scales(S, A, f, g, c) BY <1>4, <1>5 DEF Scales
  <2> QED BY <1>2, <1>3, <2>1, <2>2, SumScales
<1>7. Charged(b, k) = SumFunctionOnSet(g, S) BY DEF Charged
<1>8. CASE A = {}
  <2>1. k \notin DOMAIN Normalized(b) BY <1>8 DEF Normalized
  <2>2. SumFunctionOnSet(f, A) = 0 BY <1>8, SumEmpty
  <2>3. 0 * c = 0 BY <1>2
  <2> QED BY <1>6, <1>7, <2>1, <2>2, <2>3 DEF Debited
<1>9. CASE A # {}
  <2>1. k \in DOMAIN Normalized(b) /\ Normalized(b)[k] = SumFunctionOnSet(f, A)
    BY <1>9 DEF Normalized
  <2>2. Debited(b, k) = SumFunctionOnSet(f, A) * c BY <2>1 DEF Debited, Weight
  <2>3. SumFunctionOnSet(f, A) * c \in Nat BY <1>2, <1>6, ProductType
  <2> QED BY <1>6, <1>7, <2>2, <2>3
<1> QED BY <1>8, <1>9
-----------------------------------------------------------------------------
(* The invariant.                                                           *)

\* An entry of the log.
Debit == [at : Nat, w : Nat]

Types ==
  /\ rateClock \in Nat
  /\ limiters \in [DOMAIN limiters -> [level : Nat, at : Nat, seen : Nat]]
  /\ tat \in [DOMAIN tat -> [tat : Nat, expires : Nat]]
  /\ log \in [Key -> Seq(Debit)]
  /\ RateTypeOK

\* A key of Redis is kept until its arrival time.
ArrivesFirst == \A k \in DOMAIN tat : tat[k].tat <= tat[k].expires

\* The debits of a log from one entry to another.
Window(s, i, j) == SumFunctionOnSet([m \in DOMAIN s |-> s[m].w], i .. j)

\* The arrival time accounts for every debit since any entry.
Accounted ==
  \A k \in Key : \A i \in DOMAIN log[k] :
    /\ log[k][i].at <= rateClock
    /\ k \in DOMAIN tat
    /\ log[k][i].at + Window(log[k], i, Len(log[k])) <= tat[k].tat

IInv == Types /\ LevelsAgree /\ ArrivesFirst /\ Accounted /\ WithinRate

LEMMA CapacityType == ASSUME RateStoreAssumption, NEW k \in Key PROVE Capacity(k) \in Nat
BY ProductType DEF RateStoreAssumption, Capacity

\* What is stored for a key that is kept.
LEMMA Arrival ==
  ASSUME Types, ArrivesFirst, NEW k \in Key
  PROVE  /\ StoredTat(k) \in Nat /\ StoredTat(k) >= rateClock
         /\ StoredTat(k) = IF k \in DOMAIN tat /\ tat[k].tat >= rateClock THEN tat[k].tat ELSE rateClock
<1>1. rateClock \in Int BY DEF Types
<1>2. CASE k \in DOMAIN tat
  <2>1. tat[k].tat \in Nat /\ tat[k].expires \in Nat /\ tat[k].tat <= tat[k].expires
    BY <1>2 DEF Types, ArrivesFirst
  <2>2. Max({tat[k].tat, rateClock}) = IF tat[k].tat >= rateClock THEN tat[k].tat ELSE rateClock
    BY <1>1, <2>1, MaxOfTwo
  <2> QED BY <1>1, <1>2, <2>1, <2>2 DEF StoredTat, Types
<1>3. CASE k \notin DOMAIN tat BY <1>3 DEF StoredTat, Types
<1> QED BY <1>2, <1>3

LEMMA LevelOfEntry ==
  ASSUME RateStoreAssumption, Types, NEW k \in DOMAIN limiters
  PROVE  /\ k \in Key
         /\ Level(limiters[k], k) \in 0 .. Capacity(k)
         /\ Level(limiters[k], k) = LET l == limiters[k].level + (rateClock - limiters[k].at)
                                    IN IF Capacity(k) <= l THEN Capacity(k) ELSE l
<1>1. k \in Key /\ Capacity(k) \in Nat BY CapacityType DEF Types, RateTypeOK
<1>2. /\ limiters[k].level \in Nat /\ limiters[k].at \in Nat /\ limiters[k].at <= rateClock
      /\ rateClock \in Nat
  BY DEF Types, RateTypeOK
<1> DEFINE l == limiters[k].level + (rateClock - limiters[k].at)
<1>3. l \in Nat BY <1>2
<1>4. Level(limiters[k], k) = IF Capacity(k) <= l THEN Capacity(k) ELSE l
  BY <1>1, <1>3, MinOfTwo DEF Level
<1> QED BY <1>1, <1>3, <1>4

LEMMA MemoryLevelType ==
  ASSUME RateStoreAssumption, Types, NEW k \in Key
  PROVE  MemoryLevel(k) \in 0 .. Capacity(k)
BY CapacityType, LevelOfEntry DEF MemoryLevel

LEMMA RatesStart == ASSUME RateStoreAssumption, RateInit PROVE IInv
<1>1. DOMAIN limiters = {} /\ DOMAIN tat = {} BY DEF RateInit
<1>2. \A k \in Key : log[k] = <<>> /\ DOMAIN log[k] = {} BY DEF RateInit
<1>3. \A k \in Key : StoredTat(k) = rateClock /\ Capacity(k) \in Nat
  BY <1>1, CapacityType DEF StoredTat
<1>4. rateClock = 0 BY DEF RateInit
<1>5. RateTypeOK BY <1>1, <1>3, <1>4 DEF RateTypeOK
<1>6. /\ limiters \in [DOMAIN limiters -> [level : Nat, at : Nat, seen : Nat]]
      /\ tat \in [DOMAIN tat -> [tat : Nat, expires : Nat]]
  BY <1>1 DEF RateInit
<1>7. log \in [Key -> Seq(Debit)] BY DEF RateInit
<1>8. Types BY <1>4, <1>5, <1>6, <1>7 DEF Types
<1>9. LevelsAgree BY <1>1, <1>3, <1>4 DEF LevelsAgree, MemoryLevel, RedisLevel
<1> QED BY <1>1, <1>2, <1>8, <1>9 DEF IInv, ArrivesFirst, Accounted, WithinRate
-----------------------------------------------------------------------------
(* A batch.                                                                 *)

\* Pruning changes no level: getLimiterLocked makes up the bucket that was forgotten.
LEMMA PruningIsInvisible ==
  ASSUME RateStoreAssumption, Types, NEW inspected
  PROVE  LET ls == PrunedLimiters(inspected)
         IN /\ DOMAIN ls \subseteq DOMAIN limiters
            /\ \A k \in DOMAIN ls : ls[k] = limiters[k]
            /\ \A k \in Key : Entry(ls, k) = [level |-> MemoryLevel(k), at |-> rateClock, seen |-> rateClock]
            /\ \A k \in Key \ DOMAIN ls : MemoryLevel(k) = Capacity(k)
<1> DEFINE ls == PrunedLimiters(inspected)
           kept == {k \in DOMAIN limiters : ~(k \in inspected /\ ForgettableLimiter(k))}
<1>1. /\ DOMAIN ls \subseteq DOMAIN limiters
      /\ \A k \in DOMAIN ls : ls[k] = limiters[k]
      /\ \A k \in DOMAIN limiters \ DOMAIN ls : ForgettableLimiter(k)
  BY DEF PrunedLimiters, Restrict
<1> HIDE DEF ls
<1>2. \A k \in Key \ DOMAIN ls : MemoryLevel(k) = Capacity(k)
  <2> SUFFICES ASSUME NEW k \in Key \ DOMAIN ls PROVE MemoryLevel(k) = Capacity(k) OBVIOUS
  <2>1. CASE k \notin DOMAIN limiters BY <2>1 DEF MemoryLevel
  <2>2. CASE k \in DOMAIN limiters
    <3>1. Level(limiters[k], k) >= Capacity(k) BY <1>1, <2>2 DEF ForgettableLimiter
    <3>2. Level(limiters[k], k) \in 0 .. Capacity(k) /\ Capacity(k) \in Nat
      BY <2>2, LevelOfEntry, CapacityType
    <3> QED BY <2>2, <3>1, <3>2 DEF MemoryLevel
  <2> QED BY <2>1, <2>2
<1>3. \A k \in Key : Entry(ls, k) = [level |-> MemoryLevel(k), at |-> rateClock, seen |-> rateClock]
  <2> SUFFICES ASSUME NEW k \in Key
               PROVE  Entry(ls, k) = [level |-> MemoryLevel(k), at |-> rateClock, seen |-> rateClock]
    OBVIOUS
  <2>1. (IF k \in DOMAIN ls THEN Level(ls[k], k) ELSE Capacity(k)) = MemoryLevel(k)
    BY <1>1, <1>2 DEF MemoryLevel
  <2> QED BY <2>1 DEF Entry
<1> QED BY <1>1, <1>2, <1>3 DEF ls

\* Both stores have room for the same batches.
LEMMA SameAnswer ==
  ASSUME RateStoreAssumption, Types, LevelsAgree, ArrivesFirst, NEW b \in Batches, NEW inspected
  PROVE  LET debit == Normalized(b)
             room == \A k \in DOMAIN debit : Debited(b, k) <= MemoryLevel(k)
         IN /\ Refusing(PrunedLimiters(inspected), debit) = {} <=> room
            /\ GrantedByScript(debit) <=> room
<1> DEFINE debit == Normalized(b)
           ls == PrunedLimiters(inspected)
<1>1. \A k \in DOMAIN debit :
        /\ k \in Key /\ Debited(b, k) \in Nat /\ Debited(b, k) = Weight(k, debit[k])
        /\ Entry(ls, k).level = MemoryLevel(k)
        /\ MemoryLevel(k) = Capacity(k) - (StoredTat(k) - rateClock)
  BY DebitsOfBatch, PruningIsInvisible DEF Debited, LevelsAgree, RedisLevel
<1>2. \A k \in DOMAIN debit : MemoryLevel(k) \in Int /\ Capacity(k) \in Int
  BY <1>1, MemoryLevelType, CapacityType
<1>3. \A k \in DOMAIN debit : StoredTat(k) - rateClock \in Int BY <1>1 DEF Types, RateTypeOK
<1>4. rateClock \in Int BY DEF Types
<1> HIDE DEF debit, ls
<1>5. Refusing(ls, debit) = {} <=> \A k \in DOMAIN debit : Debited(b, k) <= MemoryLevel(k)
  BY <1>1, <1>2 DEF Refusing
<1>6. \A k \in DOMAIN debit :
        rateClock >= NewTat(k, debit[k]) - Capacity(k) <=> Debited(b, k) <= MemoryLevel(k)
  <2> SUFFICES ASSUME NEW k \in DOMAIN debit
               PROVE  rateClock >= NewTat(k, debit[k]) - Capacity(k) <=> Debited(b, k) <= MemoryLevel(k)
    OBVIOUS
  <2> DEFINE ahead == StoredTat(k) - rateClock
             w == Debited(b, k)
  <2>1. StoredTat(k) \in Int BY <1>1, Arrival
  <2>2. NewTat(k, debit[k]) = StoredTat(k) + w BY <1>1 DEF NewTat
  <2> QED BY <1>1, <1>2, <1>3, <1>4, <2>1, <2>2
<1> QED BY <1>5, <1>6 DEF GrantedByScript, debit, ls

\* Whether both stores admit a batch.
Admits(b, inspected, cancelled) == Refusing(PrunedLimiters(inspected), Normalized(b)) = {} /\ ~cancelled

\* The process-local store charges an admitted batch and no other.
LEMMA MemoryCharges ==
  ASSUME RateStoreAssumption, Types, LevelsAgree, ArrivesFirst,
         NEW b \in Batches, NEW inspected, NEW cancelled, AllowBatch(b, inspected, cancelled)
  PROVE  /\ DOMAIN limiters' \subseteq Key
         /\ limiters' \in [DOMAIN limiters' -> [level : Nat, at : Nat, seen : Nat]]
         /\ \A k \in DOMAIN limiters' : /\ limiters'[k].level \in 0 .. Capacity(k)
                                        /\ limiters'[k].at <= rateClock /\ limiters'[k].seen <= rateClock
         /\ \A k \in Key :
              MemoryLevel(k)' = IF Admits(b, inspected, cancelled)
                                THEN MemoryLevel(k) - Debited(b, k) ELSE MemoryLevel(k)
<1> DEFINE debit == Normalized(b)
           ls == PrunedLimiters(inspected)
           L == LookedUp(ls, b)
           ok == Admits(b, inspected, cancelled)
           after(k) == IF ok THEN MemoryLevel(k) - Debited(b, k) ELSE MemoryLevel(k)
<1>0. rateClock' = rateClock /\ rateClock \in Nat BY DEF AllowBatch, Types
<1>1. limiters' = AllowInMemory(ls, b, cancelled) BY DEF AllowBatch
<1>2. /\ DOMAIN ls \subseteq DOMAIN limiters
      /\ \A k \in DOMAIN ls : ls[k] = limiters[k]
      /\ \A k \in Key : Entry(ls, k) = [level |-> MemoryLevel(k), at |-> rateClock, seen |-> rateClock]
      /\ \A k \in Key \ DOMAIN ls : MemoryLevel(k) = Capacity(k)
  BY PruningIsInvisible
<1>3. /\ DOMAIN debit \subseteq Key
      /\ \A k \in Key : Debited(b, k) \in Nat
      /\ \A k \in DOMAIN debit : Debited(b, k) = Weight(k, debit[k])
      /\ \A k \in Key \ DOMAIN debit : Debited(b, k) = 0
  BY DebitsOfBatch DEF Debited
<1>4. L \subseteq DOMAIN debit /\ (ok => L = DOMAIN debit) BY DEF LookedUp, Admits
<1>5. ok => \A k \in DOMAIN debit : Debited(b, k) <= MemoryLevel(k) BY SameAnswer DEF Admits
<1>6. \A k \in Key : MemoryLevel(k) \in 0 .. Capacity(k) /\ Capacity(k) \in Nat
  BY MemoryLevelType, CapacityType
<1>7. \A k \in Key : after(k) \in 0 .. Capacity(k)
  <2> HIDE DEF ok, debit
  <2> QED BY <1>3, <1>5, <1>6
<1>8. /\ DOMAIN limiters' = DOMAIN ls \cup L
      /\ \A k \in DOMAIN ls \ L : limiters'[k] = limiters[k]
      /\ \A k \in L : limiters'[k] = [level |-> after(k), at |-> rateClock, seen |-> rateClock]
  <2>1. limiters' = [k \in DOMAIN ls \cup L |->
                       IF k \notin L THEN ls[k]
                       ELSE [Entry(ls, k) EXCEPT !.level = IF ok THEN @ - Weight(k, debit[k]) ELSE @]]
    BY <1>1 DEF AllowInMemory, Admits
  <2>2. \A k \in L : k \in Key /\ k \in DOMAIN debit BY <1>3, <1>4
  <2> HIDE DEF ok, debit, L, ls
  <2>3. ASSUME NEW k \in L
        PROVE  [Entry(ls, k) EXCEPT !.level = IF ok THEN @ - Weight(k, debit[k]) ELSE @]
                 = [level |-> after(k), at |-> rateClock, seen |-> rateClock]
    BY <1>2, <1>3, <2>2
  <2> HIDE DEF after
  <2> QED BY <1>2, <2>1, <2>3
<1> HIDE DEF ok, debit, L, ls
<1>9. L \subseteq Key /\ DOMAIN ls \subseteq Key BY <1>2, <1>3, <1>4 DEF Types, RateTypeOK
<1>10. \A k \in DOMAIN limiters' :
         /\ limiters'[k] \in [level : Nat, at : Nat, seen : Nat]
         /\ limiters'[k].level \in 0 .. Capacity(k)
         /\ limiters'[k].at <= rateClock /\ limiters'[k].seen <= rateClock
  <2> SUFFICES ASSUME NEW k \in DOMAIN limiters'
               PROVE  /\ limiters'[k] \in [level : Nat, at : Nat, seen : Nat]
                      /\ limiters'[k].level \in 0 .. Capacity(k)
                      /\ limiters'[k].at <= rateClock /\ limiters'[k].seen <= rateClock
    OBVIOUS
  <2>1. CASE k \in L
    <3>1. limiters'[k] = [level |-> after(k), at |-> rateClock, seen |-> rateClock] BY <1>8, <2>1
    <3>2. after(k) \in 0 .. Capacity(k) /\ Capacity(k) \in Nat BY <1>6, <1>7, <1>9, <2>1
    <3> HIDE DEF after
    <3> QED BY <1>0, <3>1, <3>2
  <2>2. CASE k \notin L BY <1>2, <1>8, <2>2 DEF Types, RateTypeOK
  <2> QED BY <2>1, <2>2
<1>11. limiters' \in [DOMAIN limiters' -> [level : Nat, at : Nat, seen : Nat]]
  <2>1. limiters' = [k \in DOMAIN limiters' |-> limiters'[k]] BY <1>1 DEF AllowInMemory
  <2> QED BY <1>10, <2>1
<1>12. ASSUME NEW k \in Key PROVE MemoryLevel(k)' = after(k)
  <2>1. CASE k \in L
    <3>1. limiters'[k].level = after(k) /\ limiters'[k].at = rateClock BY <1>8, <2>1
    <3>2. after(k) \in 0 .. Capacity(k) /\ Capacity(k) \in Nat BY <1>6, <1>7
    <3>3. Level(limiters[k], k)' = Min({Capacity(k), limiters'[k].level + (rateClock' - limiters'[k].at)})
      BY DEF Level
    <3> HIDE DEF after
    <3>4. limiters'[k].level + (rateClock' - limiters'[k].at) = after(k) BY <1>0, <3>1, <3>2
    <3>5. Min({Capacity(k), after(k)}) = after(k) BY <3>2, MinOfTwo
    <3>6. k \in DOMAIN limiters' BY <1>8, <2>1
    <3> QED BY <3>3, <3>4, <3>5, <3>6 DEF MemoryLevel
  <2>2. CASE k \notin L
    <3>1. MemoryLevel(k) = after(k)
      <4>1. ok => Debited(b, k) = 0 BY <1>3, <1>4, <2>2
      <4> QED BY <1>6, <4>1
    <3>2. CASE k \in DOMAIN ls
      <4>1. k \in DOMAIN limiters' /\ limiters'[k] = limiters[k] /\ k \in DOMAIN limiters
        BY <1>2, <1>8, <2>2, <3>2
      <4> QED BY <1>0, <3>1, <4>1 DEF MemoryLevel, Level
    <3>3. CASE k \notin DOMAIN ls
      <4>1. k \notin DOMAIN limiters' BY <1>8, <2>2, <3>3
      <4> QED BY <1>2, <3>1, <3>3, <4>1 DEF MemoryLevel
    <3> QED BY <3>2, <3>3
  <2> QED BY <2>1, <2>2
<1> QED BY <1>8, <1>9, <1>10, <1>11, <1>12 DEF ok

\* Redis charges an admitted batch and no other.
LEMMA RedisCharges ==
  ASSUME RateStoreAssumption, Types, LevelsAgree, ArrivesFirst,
         NEW b \in Batches, NEW inspected, NEW cancelled, AllowBatch(b, inspected, cancelled)
  PROVE  /\ DOMAIN tat \subseteq DOMAIN tat' /\ DOMAIN tat' \subseteq Key
         /\ tat' \in [DOMAIN tat' -> [tat : Nat, expires : Nat]]
         /\ ArrivesFirst'
         /\ \A k \in Key : StoredTat(k)' = IF Admits(b, inspected, cancelled)
                                           THEN StoredTat(k) + Debited(b, k) ELSE StoredTat(k)
         /\ \A k \in DOMAIN Normalized(b) : Admits(b, inspected, cancelled) =>
              k \in DOMAIN tat' /\ tat'[k].tat = StoredTat(k) + Debited(b, k)
         /\ \A k \in DOMAIN tat : k \notin DOMAIN Normalized(b) \/ ~Admits(b, inspected, cancelled) =>
              tat'[k] = tat[k]
<1> DEFINE debit == Normalized(b)
           ok == Admits(b, inspected, cancelled)
<1>0. rateClock' = rateClock /\ rateClock \in Nat BY DEF AllowBatch, Types
<1>1. tat' = IF ok THEN AfterScript(debit) ELSE tat BY SameAnswer DEF AllowBatch, Admits
<1>2. /\ DOMAIN debit \subseteq Key
      /\ \A k \in Key : Debited(b, k) \in Nat
      /\ \A k \in DOMAIN debit : Debited(b, k) = Weight(k, debit[k])
      /\ \A k \in Key \ DOMAIN debit : Debited(b, k) = 0
  BY DebitsOfBatch DEF Debited
<1>3. CASE ~ok
  <2>1. tat' = tat BY <1>1, <1>3
  <2>2. \A k \in Key : StoredTat(k)' = StoredTat(k) BY <1>0, <2>1 DEF StoredTat
  <2> QED BY <1>3, <2>1, <2>2 DEF ArrivesFirst, Types, RateTypeOK
<1>4. CASE ok
  <2> DEFINE new(k) == StoredTat(k) + Debited(b, k)
             D == DOMAIN tat \cup DOMAIN debit
  <2>1. tat' = [k \in D |-> IF k \notin DOMAIN debit THEN tat[k]
                            ELSE [tat |-> NewTat(k, debit[k]), expires |-> KeyExpiry(NewTat(k, debit[k]))]]
    BY <1>1, <1>4 DEF AfterScript
  <2>2. \A k \in DOMAIN debit : NewTat(k, debit[k]) = new(k) BY <1>2 DEF NewTat
  <2>3. ASSUME NEW k \in Key
        PROVE  /\ new(k) \in Nat /\ new(k) >= StoredTat(k) /\ new(k) >= rateClock
               /\ KeyExpiry(new(k)) \in Nat /\ KeyExpiry(new(k)) >= new(k)
    <3>1. StoredTat(k) \in Nat /\ StoredTat(k) >= rateClock BY Arrival
    <3>2. new(k) \in Nat /\ new(k) >= StoredTat(k) /\ new(k) >= rateClock BY <1>0, <1>2, <3>1
    <3> DEFINE d == new(k) - rateClock
    <3>3. d \in Nat /\ new(k) = rateClock + d BY <1>0, <3>2
    <3>4. Second \in Nat \ {0} BY DEF RateStoreAssumption
    <3> HIDE DEF d
    <3>5. ((d + Second - 1) \div Second) * Second \in Nat /\ ((d + Second - 1) \div Second) * Second >= d
      BY <3>3, <3>4, RoundedUp
    <3>6. KeyExpiry(new(k)) = rateClock + ((d + Second - 1) \div Second) * Second BY DEF KeyExpiry, d
    <3> DEFINE e == ((d + Second - 1) \div Second) * Second
    <3> HIDE DEF e, new
    <3>7. KeyExpiry(new(k)) = rateClock + e /\ e \in Nat /\ e >= d BY <3>5, <3>6 DEF e
    <3> QED BY <1>0, <3>2, <3>3, <3>7
  <2> HIDE DEF new, ok, debit
  <2>4. /\ DOMAIN tat' = D
        /\ \A k \in D \ DOMAIN debit : tat'[k] = tat[k]
        /\ \A k \in DOMAIN debit : tat'[k] = [tat |-> new(k), expires |-> KeyExpiry(new(k))]
    BY <2>1, <2>2
  <2>5. DOMAIN tat \subseteq Key BY DEF Types, RateTypeOK
  <2>6. D \subseteq Key BY <1>2, <2>5
  <2>7. \A k \in D : /\ tat'[k] \in [tat : Nat, expires : Nat]
                     /\ tat'[k].tat <= tat'[k].expires
    <3> SUFFICES ASSUME NEW k \in D
                 PROVE  tat'[k] \in [tat : Nat, expires : Nat] /\ tat'[k].tat <= tat'[k].expires
      OBVIOUS
    <3>1. CASE k \in DOMAIN debit
      <4>1. k \in Key BY <2>6
      <4>2. tat'[k] = [tat |-> new(k), expires |-> KeyExpiry(new(k))] BY <2>4, <3>1
      <4> QED BY <2>3, <4>1, <4>2
    <3>2. CASE k \notin DOMAIN debit
      <4>1. tat'[k] = tat[k] /\ k \in DOMAIN tat BY <2>4, <3>2
      <4> QED BY <4>1 DEF Types, ArrivesFirst
    <3> QED BY <3>1, <3>2
  <2>8. tat' \in [DOMAIN tat' -> [tat : Nat, expires : Nat]] BY <2>1, <2>4, <2>7
  <2>9. ASSUME NEW k \in Key PROVE StoredTat(k)' = new(k)
    <3>1. StoredTat(k)' = IF k \in DOMAIN tat' /\ rateClock < tat'[k].expires
                          THEN Max({tat'[k].tat, rateClock}) ELSE rateClock
      BY <1>0 DEF StoredTat
    <3>2. CASE k \in DOMAIN debit
      <4>1. k \in DOMAIN tat' /\ tat'[k].tat = new(k) /\ tat'[k].expires = KeyExpiry(new(k))
        BY <2>4, <3>2
      <4>2. Max({new(k), rateClock}) = new(k) BY <1>0, <2>3, MaxOfTwo
      <4>3. rateClock >= KeyExpiry(new(k)) => new(k) = rateClock BY <1>0, <2>3
      <4> QED BY <1>0, <2>3, <3>1, <4>1, <4>2, <4>3
    <3>3. CASE k \notin DOMAIN debit
      <4>1. k \in DOMAIN tat' <=> k \in DOMAIN tat BY <2>4, <3>3
      <4>2. k \in DOMAIN tat => tat'[k] = tat[k] BY <2>4, <3>3
      <4>3. StoredTat(k)' = StoredTat(k) BY <3>1, <4>1, <4>2 DEF StoredTat
      <4>4. Debited(b, k) = 0 /\ StoredTat(k) \in Nat BY <1>2, <3>3, Arrival
      <4> QED BY <4>3, <4>4 DEF new
    <3> QED BY <3>2, <3>3
  <2>10. ArrivesFirst' BY <2>4, <2>7 DEF ArrivesFirst
  <2>11. \A k \in DOMAIN debit : k \in DOMAIN tat' /\ tat'[k].tat = new(k) BY <2>4
  <2>12. \A k \in DOMAIN tat : k \notin DOMAIN debit => tat'[k] = tat[k] BY <2>4
  <2> QED BY <1>4, <2>4, <2>6, <2>8, <2>9, <2>10, <2>11, <2>12 DEF new, debit, ok
<1> QED BY <1>3, <1>4

\* One more debit is in the windows that end with it, and in no other.
LEMMA WindowGrows ==
  ASSUME NEW s \in Seq(Debit), NEW e \in Debit
  PROVE  LET n == Len(s)
             t == Append(s, e)
         IN /\ \A i \in 1 .. n : \A j \in i .. n :
                 Window(t, i, j) = Window(s, i, j) /\ Window(s, i, j) \in Nat
            /\ \A i \in 1 .. n : Window(t, i, n + 1) = Window(s, i, n) + e.w
            /\ Window(t, n + 1, n + 1) = e.w
<1> DEFINE n == Len(s)
           t == Append(s, e)
           f == [m \in DOMAIN s |-> s[m].w]
           g == [m \in DOMAIN t |-> t[m].w]
<1>1. n \in Nat /\ DOMAIN s = 1 .. n /\ DOMAIN t = 1 .. n + 1 OBVIOUS
<1>2. \A m \in 1 .. n : s[m] \in Debit /\ t[m] = s[m] OBVIOUS
<1>3. t[n + 1] = e OBVIOUS
<1>4. \A m \in 1 .. n : g[m] = f[m] /\ f[m] \in Nat BY <1>1, <1>2 DEF Debit
<1>5. g[n + 1] = e.w /\ e.w \in Nat BY <1>1, <1>3 DEF Debit
<1>6. \A i, j : Window(s, i, j) = SumFunctionOnSet(f, i .. j) /\ Window(t, i, j) = SumFunctionOnSet(g, i .. j)
  BY DEF Window
<1> HIDE DEF n, t, f, g
<1>7. ASSUME NEW i \in 1 .. n, NEW j \in i .. n
      PROVE  Window(t, i, j) = Window(s, i, j) /\ Window(s, i, j) \in Nat
  <2>1. IsFiniteSet(i .. j) BY <1>1, FS_Interval
  <2>2. \A m \in i .. j : f[m] \in Nat /\ f[m] = g[m] BY <1>1, <1>4
  <2>3. SumFunctionOnSet(f, i .. j) = SumFunctionOnSet(g, i .. j) /\ SumFunctionOnSet(f, i .. j) \in Nat
    BY <2>1, <2>2, SumSame
  <2> QED BY <1>6, <2>3
<1>8. ASSUME NEW i \in 1 .. n + 1
      PROVE  SumFunctionOnSet(g, i .. n + 1) = e.w + SumFunctionOnSet(g, i .. n)
  <2>1. IsFiniteSet(i .. n + 1) /\ n + 1 \in i .. n + 1 BY <1>1, FS_Interval
  <2>2. \A m \in i .. n + 1 : g[m] \in Int
    <3> SUFFICES ASSUME NEW m \in i .. n + 1 PROVE g[m] \in Int OBVIOUS
    <3>1. m \in 1 .. n \/ m = n + 1 BY <1>1
    <3> QED BY <1>4, <1>5, <3>1
  <2>3. (i .. n + 1) \ {n + 1} = i .. n BY <1>1
  <2>4. SumFunctionOnSet(g, i .. n + 1) = g[n + 1] + SumFunctionOnSet(g, (i .. n + 1) \ {n + 1})
    BY <2>1, <2>2, SumAdds
  <2> QED BY <1>5, <2>3, <2>4
<1>9. ASSUME NEW i \in 1 .. n PROVE Window(t, i, n + 1) = Window(s, i, n) + e.w
  <2>1. i \in 1 .. n + 1 /\ n \in i .. n BY <1>1
  <2>2. Window(t, i, n + 1) = e.w + Window(t, i, n) BY <1>6, <1>8, <2>1
  <2>3. Window(t, i, n) = Window(s, i, n) /\ Window(s, i, n) \in Nat BY <1>7, <2>1
  <2> QED BY <1>5, <2>2, <2>3
<1>10. Window(t, n + 1, n + 1) = e.w
  <2>1. n + 1 \in 1 .. n + 1 /\ n + 1 .. n = {} BY <1>1
  <2>2. SumFunctionOnSet(g, n + 1 .. n) = 0 BY <2>1, SumEmpty
  <2>3. Window(t, n + 1, n + 1) = e.w + 0 BY <1>6, <1>8, <2>1, <2>2
  <2> QED BY <1>5, <2>3
<1> QED BY <1>7, <1>9, <1>10 DEF n, t

\* An admitted batch is accounted for, and within the rate because its arrival times are.
LEMMA LogKeeps ==
  ASSUME RateStoreAssumption, IInv,
         NEW b \in Batches, NEW inspected, NEW cancelled, AllowBatch(b, inspected, cancelled)
  PROVE  log' \in [Key -> Seq(Debit)] /\ Accounted' /\ WithinRate'
<1> DEFINE debit == Normalized(b)
           ok == Admits(b, inspected, cancelled)
           entry(k) == [at |-> rateClock, w |-> Debited(b, k)]
<1>0. /\ rateClock' = rateClock /\ rateClock \in Nat /\ Types /\ LevelsAgree /\ ArrivesFirst /\ Accounted /\ WithinRate
      /\ log \in [Key -> Seq(Debit)]
  BY DEF AllowBatch, Types, IInv
<1>1. log' = IF ok THEN Logged(debit) ELSE log BY <1>0, SameAnswer DEF AllowBatch, Admits
<1>2. /\ DOMAIN debit \subseteq Key
      /\ \A k \in Key : Debited(b, k) \in Nat
      /\ \A k \in DOMAIN debit : Debited(b, k) = Weight(k, debit[k])
  BY DebitsOfBatch DEF Debited
<1>3. /\ DOMAIN tat \subseteq DOMAIN tat'
      /\ \A k \in DOMAIN debit : ok => k \in DOMAIN tat' /\ tat'[k].tat = StoredTat(k) + Debited(b, k)
      /\ \A k \in DOMAIN tat : k \notin DOMAIN debit \/ ~ok => tat'[k] = tat[k]
  BY <1>0, RedisCharges
<1>4. ok => \A k \in DOMAIN debit : Debited(b, k) <= MemoryLevel(k) BY <1>0, SameAnswer DEF Admits
<1> HIDE DEF ok, debit, entry
<1>5. /\ log' = [k \in Key |-> IF ok /\ k \in DOMAIN debit THEN Append(log[k], entry(k)) ELSE log[k]]
      /\ \A k \in Key : entry(k) \in Debit /\ entry(k).at = rateClock /\ entry(k).w = Debited(b, k)
  <2>1. \A k \in Key : entry(k) \in Debit /\ entry(k).at = rateClock /\ entry(k).w = Debited(b, k)
    BY <1>0, <1>2 DEF entry, Debit
  <2>2. CASE ok
    <3>1. log' = Logged(debit) BY <1>1, <2>2
    <3>2. \A k \in DOMAIN debit : [at |-> rateClock, w |-> Weight(k, debit[k])] = entry(k) BY <1>2 DEF entry
    <3> QED BY <2>1, <2>2, <3>1, <3>2 DEF Logged
  <2>3. CASE ~ok
    <3>1. log' = log BY <1>1, <2>3
    <3> QED BY <1>0, <2>1, <2>3, <3>1
  <2> QED BY <2>2, <2>3
<1>6. log' \in [Key -> Seq(Debit)]
  <2>1. \A k \in Key : log[k] \in Seq(Debit) /\ Append(log[k], entry(k)) \in Seq(Debit) BY <1>0, <1>5
  <2> QED BY <1>5, <2>1
<1>7. ASSUME NEW k \in Key, ~(ok /\ k \in DOMAIN debit)
      PROVE  /\ log'[k] = log[k]
             /\ \A i \in DOMAIN log[k] : k \in DOMAIN tat' /\ tat'[k].tat = tat[k].tat
  <2>1. log'[k] = log[k] BY <1>5, <1>7
  <2>2. \A i \in DOMAIN log[k] : k \in DOMAIN tat BY <1>0 DEF Accounted
  <2> QED BY <1>3, <1>7, <2>1, <2>2
<1>8. ASSUME NEW k \in Key, ok, k \in DOMAIN debit
      PROVE  LET t == log'[k]
                 n == Len(log[k])
             IN /\ n \in Nat /\ DOMAIN t = 1 .. n + 1 /\ DOMAIN log[k] = 1 .. n /\ Len(t) = n + 1
                /\ t[n + 1] = entry(k) /\ \A i \in 1 .. n : t[i] = log[k][i]
                /\ \A i \in 1 .. n : \A j \in i .. n :
                     Window(t, i, j) = Window(log[k], i, j) /\ Window(log[k], i, j) \in Nat
                /\ \A i \in 1 .. n : Window(t, i, n + 1) = Window(log[k], i, n) + Debited(b, k)
                /\ Window(t, n + 1, n + 1) = Debited(b, k)
  <2>1. log'[k] = Append(log[k], entry(k)) /\ log[k] \in Seq(Debit) /\ entry(k) \in Debit
    BY <1>0, <1>5, <1>8
  <2>2. entry(k).w = Debited(b, k) BY <1>5
  <2>3. LET n == Len(log[k])
            t == Append(log[k], entry(k))
        IN /\ \A i \in 1 .. n : \A j \in i .. n :
                Window(t, i, j) = Window(log[k], i, j) /\ Window(log[k], i, j) \in Nat
           /\ \A i \in 1 .. n : Window(t, i, n + 1) = Window(log[k], i, n) + entry(k).w
           /\ Window(t, n + 1, n + 1) = entry(k).w
    BY <2>1, WindowGrows
  <2>4. LET n == Len(log[k])
            t == Append(log[k], entry(k))
        IN /\ n \in Nat /\ DOMAIN t = 1 .. n + 1 /\ DOMAIN log[k] = 1 .. n /\ Len(t) = n + 1
           /\ t[n + 1] = entry(k) /\ \A i \in 1 .. n : t[i] = log[k][i]
    BY <2>1
  <2> QED BY <2>1, <2>2, <2>3, <2>4
<1>9. ASSUME NEW k \in Key, ok, k \in DOMAIN debit
      PROVE  /\ k \in DOMAIN tat' /\ tat'[k].tat = StoredTat(k) + Debited(b, k)
             /\ StoredTat(k) \in Nat /\ StoredTat(k) >= rateClock
             /\ k \in DOMAIN tat => StoredTat(k) >= tat[k].tat /\ tat[k].tat \in Nat
             /\ StoredTat(k) + Debited(b, k) <= rateClock + Capacity(k) /\ Capacity(k) \in Nat
  <2>1. /\ StoredTat(k) \in Nat /\ StoredTat(k) >= rateClock
        /\ StoredTat(k) = IF k \in DOMAIN tat /\ tat[k].tat >= rateClock THEN tat[k].tat ELSE rateClock
    BY <1>0, Arrival
  <2>2. k \in DOMAIN tat => tat[k].tat \in Nat BY <1>0 DEF Types
  <2>3. Debited(b, k) <= Capacity(k) - (StoredTat(k) - rateClock)
    BY <1>0, <1>4, <1>9 DEF LevelsAgree, RedisLevel
  <2>4. Capacity(k) \in Nat /\ Debited(b, k) \in Nat BY <1>2, CapacityType
  <2> QED BY <1>0, <1>3, <1>9, <2>1, <2>2, <2>3, <2>4
<1>10. ASSUME NEW k \in Key, NEW i \in DOMAIN log'[k]
       PROVE  /\ log'[k][i].at <= rateClock' /\ k \in DOMAIN tat'
              /\ log'[k][i].at + Window(log'[k], i, Len(log'[k])) <= tat'[k].tat
  <2>1. CASE ~(ok /\ k \in DOMAIN debit)
    <3>1. log'[k] = log[k] /\ i \in DOMAIN log[k] BY <1>7, <1>10, <2>1
    <3> QED BY <1>0, <1>7, <2>1, <3>1 DEF Accounted
  <2>2. CASE ok /\ k \in DOMAIN debit
    <3> DEFINE n == Len(log[k])
    <3>1. /\ n \in Nat /\ i \in 1 .. n + 1 /\ Len(log'[k]) = n + 1 /\ DOMAIN log[k] = 1 .. n
          /\ Debited(b, k) \in Nat
      BY <1>2, <1>8, <1>10, <2>2
    <3>2. CASE i = n + 1
      <4>1. log'[k][i].at = rateClock /\ Window(log'[k], i, n + 1) = Debited(b, k)
        BY <1>5, <1>8, <2>2, <3>2
      <4> HIDE DEF n
      <4> QED BY <1>0, <1>9, <2>2, <3>1, <4>1
    <3>3. CASE i # n + 1
      <4>1. i \in 1 .. n /\ n \in i .. n BY <3>1, <3>3
      <4>2. /\ log'[k][i] = log[k][i] /\ Window(log'[k], i, n + 1) = Window(log[k], i, n) + Debited(b, k)
            /\ Window(log[k], i, n) \in Nat
        BY <1>8, <2>2, <4>1
      <4>3. log[k][i].at <= rateClock /\ k \in DOMAIN tat /\ log[k][i].at + Window(log[k], i, n) <= tat[k].tat
        BY <1>0, <3>1, <4>1 DEF Accounted
      <4>4. log[k] \in Seq(Debit) BY <1>0
      <4>5. log[k][i] \in Debit BY <4>1, <4>4
      <4>6. log[k][i].at \in Nat BY <4>5 DEF Debit
      <4> DEFINE u == log[k][i].at
                 v == Window(log[k], i, n)
      <4>7. u \in Nat /\ v \in Nat /\ u + v <= tat[k].tat BY <4>2, <4>3, <4>6
      <4> HIDE DEF n, u, v
      <4>8. u + (v + Debited(b, k)) <= StoredTat(k) + Debited(b, k) BY <1>9, <2>2, <3>1, <4>3, <4>7
      <4>9. log'[k][i].at + Window(log'[k], i, n + 1) <= tat'[k].tat
        BY <1>9, <2>2, <4>2, <4>8 DEF u, v
      <4> QED BY <1>0, <1>9, <2>2, <3>1, <4>2, <4>3, <4>9
    <3> QED BY <3>2, <3>3
  <2> QED BY <2>1, <2>2
<1>11. ASSUME NEW k \in Key, NEW i \in DOMAIN log'[k], NEW j \in DOMAIN log'[k], i <= j
       PROVE  Window(log'[k], i, j) <= Capacity(k) + (log'[k][j].at - log'[k][i].at)
  <2>0. \A p, q \in DOMAIN log[k] : p <= q =>
          Window(log[k], p, q) <= Capacity(k) + (log[k][q].at - log[k][p].at)
    BY <1>0 DEF WithinRate, Window
  <2>1. CASE ~(ok /\ k \in DOMAIN debit)
    <3>1. log'[k] = log[k] BY <1>7, <2>1
    <3> QED BY <1>11, <2>0, <3>1
  <2>2. CASE ok /\ k \in DOMAIN debit
    <3> DEFINE n == Len(log[k])
    <3>1. /\ n \in Nat /\ i \in 1 .. n + 1 /\ j \in 1 .. n + 1 /\ Len(log'[k]) = n + 1 /\ DOMAIN log[k] = 1 .. n
          /\ Debited(b, k) \in Nat
      BY <1>2, <1>8, <1>11, <2>2
    <3>2. CASE j = n + 1
      <4>1. log'[k][j].at = rateClock BY <1>5, <1>8, <2>2, <3>2
      <4>2. log'[k][i].at + Window(log'[k], i, n + 1) <= StoredTat(k) + Debited(b, k)
        BY <1>9, <1>10, <2>2, <3>1
      <4>3. log'[k][i].at \in Nat /\ Window(log'[k], i, n + 1) \in Nat
        <5>1. CASE i = n + 1
          <6>1. log'[k][i].at = rateClock /\ Window(log'[k], i, n + 1) = Debited(b, k)
            BY <1>5, <1>8, <2>2, <5>1
          <6> QED BY <1>0, <3>1, <6>1
        <5>2. CASE i # n + 1
          <6>1. i \in 1 .. n /\ n \in i .. n BY <3>1, <5>2
          <6>2. /\ log'[k][i] = log[k][i] /\ Window(log'[k], i, n + 1) = Window(log[k], i, n) + Debited(b, k)
                /\ Window(log[k], i, n) \in Nat
            BY <1>8, <2>2, <6>1
          <6>3. log[k] \in Seq(Debit) BY <1>0
          <6>4. log[k][i] \in Debit BY <6>1, <6>3
          <6>5. log[k][i].at \in Nat BY <6>4 DEF Debit
          <6> QED BY <3>1, <6>2, <6>5
        <5> QED BY <5>1, <5>2
      <4> DEFINE u == log'[k][i].at
                 v == Window(log'[k], i, n + 1)
      <4> HIDE DEF u, v
      <4>4. u \in Nat /\ v \in Nat /\ u + v <= StoredTat(k) + Debited(b, k) BY <4>2, <4>3 DEF u, v
      <4>5. v <= Capacity(k) + (rateClock - u) BY <1>0, <1>9, <2>2, <3>1, <4>4
      <4> QED BY <3>2, <4>1, <4>5 DEF u, v
    <3>3. CASE j # n + 1
      <4>1. i \in 1 .. n /\ j \in i .. n /\ j \in 1 .. n BY <1>11, <3>1, <3>3
      <4>2. log'[k][i] = log[k][i] /\ log'[k][j] = log[k][j] /\ Window(log'[k], i, j) = Window(log[k], i, j)
        BY <1>8, <2>2, <4>1
      <4> QED BY <1>11, <2>0, <3>1, <4>1, <4>2
    <3> QED BY <3>2, <3>3
  <2> QED BY <2>1, <2>2
<1>12. Accounted' BY <1>10 DEF Accounted, Window
<1>13. WithinRate' BY <1>11 DEF WithinRate, Window
<1> QED BY <1>6, <1>12, <1>13

LEMMA AllowKeeps ==
  ASSUME RateStoreAssumption, IInv,
         NEW b \in Batches, NEW inspected, NEW cancelled, AllowBatch(b, inspected, cancelled)
  PROVE  IInv' /\ ChargesAllOrNone
<1> DEFINE ok == Admits(b, inspected, cancelled)
<1>0. /\ rateClock' = rateClock /\ rateClock \in Nat /\ Types /\ LevelsAgree /\ ArrivesFirst
  BY DEF AllowBatch, Types, IInv
<1>1. /\ DOMAIN limiters' \subseteq Key
      /\ limiters' \in [DOMAIN limiters' -> [level : Nat, at : Nat, seen : Nat]]
      /\ \A k \in DOMAIN limiters' : /\ limiters'[k].level \in 0 .. Capacity(k)
                                     /\ limiters'[k].at <= rateClock /\ limiters'[k].seen <= rateClock
      /\ \A k \in Key : MemoryLevel(k)' = IF ok THEN MemoryLevel(k) - Debited(b, k) ELSE MemoryLevel(k)
  BY <1>0, MemoryCharges
<1>2. /\ DOMAIN tat' \subseteq Key
      /\ tat' \in [DOMAIN tat' -> [tat : Nat, expires : Nat]]
      /\ ArrivesFirst'
      /\ \A k \in Key : StoredTat(k)' = IF ok THEN StoredTat(k) + Debited(b, k) ELSE StoredTat(k)
  BY <1>0, RedisCharges
<1>3. log' \in [Key -> Seq(Debit)] /\ Accounted' /\ WithinRate' BY LogKeeps
<1>4. /\ DOMAIN Normalized(b) \subseteq Key /\ DOMAIN Normalized(b) # {}
      /\ \A k \in Key : Debited(b, k) \in Nat /\ Charged(b, k) = Debited(b, k)
      /\ \A k \in Key \ DOMAIN Normalized(b) : Debited(b, k) = 0
  BY DebitsOfBatch DEF AllowBatch, Debited
<1>5. ok => \A k \in DOMAIN Normalized(b) : Debited(b, k) <= MemoryLevel(k)
  BY <1>0, SameAnswer DEF Admits
<1>6. log' = IF ok THEN Logged(Normalized(b)) ELSE log BY <1>0, SameAnswer DEF AllowBatch, Admits
<1> HIDE DEF ok
<1>7. \A k \in Key :
        /\ MemoryLevel(k) = Capacity(k) - (StoredTat(k) - rateClock)
        /\ MemoryLevel(k) \in 0 .. Capacity(k) /\ StoredTat(k) \in Nat /\ Capacity(k) \in Nat
  BY <1>0, MemoryLevelType, Arrival, CapacityType DEF LevelsAgree, RedisLevel
<1>8. \A k \in Key : /\ MemoryLevel(k)' = Capacity(k) - (StoredTat(k)' - rateClock)
                     /\ StoredTat(k)' - rateClock \in 0 .. Capacity(k)
  <2> SUFFICES ASSUME NEW k \in Key
               PROVE  /\ MemoryLevel(k)' = Capacity(k) - (StoredTat(k)' - rateClock)
                      /\ StoredTat(k)' - rateClock \in 0 .. Capacity(k)
    OBVIOUS
  <2>1. CASE ~ok BY <1>0, <1>1, <1>2, <1>7, <2>1
  <2>2. CASE ok
    <3>1. Debited(b, k) \in Nat /\ Debited(b, k) <= MemoryLevel(k) BY <1>4, <1>5, <1>7, <2>2
    <3>2. MemoryLevel(k)' = MemoryLevel(k) - Debited(b, k) /\ StoredTat(k)' = StoredTat(k) + Debited(b, k)
      BY <1>1, <1>2, <2>2
    <3> QED BY <1>0, <1>7, <3>1, <3>2
  <2> QED BY <2>1, <2>2
<1>9. RateTypeOK' BY <1>0, <1>1, <1>2, <1>8 DEF RateTypeOK, Capacity
<1>10. Types' BY <1>0, <1>1, <1>2, <1>3, <1>9 DEF Types
<1>11. LevelsAgree' BY <1>0, <1>8 DEF LevelsAgree, RedisLevel, Capacity
<1>12. ChargesAllOrNone
  <2>1. CASE ~ok BY <1>1, <2>1 DEF ChargesAllOrNone
  <2>2. CASE ok
    <3>1. log' # log
      <4>1. PICK k \in DOMAIN Normalized(b) : TRUE BY <1>4
      <4>2. k \in Key /\ log[k] \in Seq(Debit) BY <1>0, <1>4 DEF Types
      <4>3. log'[k] = Append(log[k], [at |-> rateClock, w |-> Weight(k, Normalized(b)[k])])
        BY <1>6, <2>2, <4>1, <4>2 DEF Logged
      <4> DEFINE e == [at |-> rateClock, w |-> Weight(k, Normalized(b)[k])]
      <4> HIDE DEF e
      <4>4. Len(Append(log[k], e)) = Len(log[k]) + 1 /\ Len(log[k]) \in Nat BY <4>2
      <4> QED BY <4>3, <4>4 DEF e
    <3>2. \A k \in Key : MemoryLevel(k)' = MemoryLevel(k) - Charged(b, k) BY <1>1, <1>4, <2>2
    <3> QED BY <3>1, <3>2 DEF ChargesAllOrNone
  <2> QED BY <2>1, <2>2
<1> QED BY <1>2, <1>3, <1>10, <1>11, <1>12 DEF IInv

-----------------------------------------------------------------------------
\* A tick earns the same in both stores.
LEMMA ElapseKeeps == ASSUME RateStoreAssumption, IInv, Elapse PROVE IInv'
<1>0. /\ rateClock' = rateClock + 1 /\ rateClock \in Nat /\ UNCHANGED <<limiters, tat, log>>
      /\ Types /\ LevelsAgree /\ ArrivesFirst /\ Accounted /\ WithinRate
  BY DEF Elapse, IInv, Types
<1>1. \A k \in DOMAIN limiters : /\ limiters[k].level \in 0 .. Capacity(k)
                                 /\ limiters[k].at \in Nat /\ limiters[k].seen \in Nat
                                 /\ limiters[k].at <= rateClock /\ limiters[k].seen <= rateClock
  BY <1>0 DEF Types, RateTypeOK
<1>2. ArrivesFirst' BY <1>0 DEF ArrivesFirst
<1>3. ASSUME NEW k \in Key
      PROVE  /\ StoredTat(k) \in Nat /\ StoredTat(k) >= rateClock
             /\ StoredTat(k)' = IF StoredTat(k) >= rateClock + 1 THEN StoredTat(k) ELSE rateClock + 1
  <2>1. /\ StoredTat(k) \in Nat /\ StoredTat(k) >= rateClock
        /\ StoredTat(k) = IF k \in DOMAIN tat /\ tat[k].tat >= rateClock THEN tat[k].tat ELSE rateClock
    BY <1>0, Arrival
  <2>2. CASE k \in DOMAIN tat
    <3>1. tat[k].tat \in Nat /\ tat[k].expires \in Nat /\ tat[k].tat <= tat[k].expires
      BY <1>0, <2>2 DEF Types, ArrivesFirst
    <3>2. Max({tat[k].tat, rateClock + 1}) = IF tat[k].tat >= rateClock + 1 THEN tat[k].tat ELSE rateClock + 1
      BY <1>0, <3>1, MaxOfTwo
    <3>3. StoredTat(k)' = IF rateClock + 1 < tat[k].expires THEN Max({tat[k].tat, rateClock + 1}) ELSE rateClock + 1
      BY <1>0, <2>2 DEF StoredTat
    <3> QED BY <1>0, <2>1, <2>2, <3>1, <3>2, <3>3
  <2>3. CASE k \notin DOMAIN tat
    <3>1. StoredTat(k)' = rateClock + 1 BY <1>0, <2>3 DEF StoredTat
    <3> QED BY <1>0, <2>1, <2>3, <3>1
  <2> QED BY <2>2, <2>3
<1>4. ASSUME NEW k \in Key
      PROVE  MemoryLevel(k)' = IF Capacity(k) <= MemoryLevel(k) + 1 THEN Capacity(k) ELSE MemoryLevel(k) + 1
  <2>1. Capacity(k) \in Nat BY CapacityType
  <2>2. CASE k \in DOMAIN limiters
    <3> DEFINE l == limiters[k].level + (rateClock - limiters[k].at)
    <3>1. l \in Nat /\ limiters[k].level + ((rateClock + 1) - limiters[k].at) = l + 1 BY <1>0, <1>1, <2>1, <2>2
    <3>2. MemoryLevel(k) = IF Capacity(k) <= l THEN Capacity(k) ELSE l
      BY <1>0, <2>2, LevelOfEntry DEF MemoryLevel
    <3>3. MemoryLevel(k)' = Min({Capacity(k), limiters[k].level + ((rateClock + 1) - limiters[k].at)})
      BY <1>0, <2>2 DEF MemoryLevel, Level, Capacity
    <3> HIDE DEF l
    <3>4. Min({Capacity(k), l + 1}) = IF Capacity(k) <= l + 1 THEN Capacity(k) ELSE l + 1
      BY <2>1, <3>1, MinOfTwo
    <3> QED BY <2>1, <3>1, <3>2, <3>3, <3>4
  <2>3. CASE k \notin DOMAIN limiters BY <1>0, <2>1, <2>3 DEF MemoryLevel, Capacity
  <2> QED BY <2>2, <2>3
<1>5. \A k \in Key : MemoryLevel(k) = Capacity(k) - (StoredTat(k) - rateClock) /\ Capacity(k) \in Nat
  BY <1>0, CapacityType DEF LevelsAgree, RedisLevel
<1>6. \A k \in Key : StoredTat(k) - rateClock \in 0 .. Capacity(k) BY <1>0 DEF Types, RateTypeOK
<1>7. \A k \in Key : /\ MemoryLevel(k)' = Capacity(k) - (StoredTat(k)' - rateClock')
                     /\ StoredTat(k)' - rateClock' \in 0 .. Capacity(k)
  <2> SUFFICES ASSUME NEW k \in Key
               PROVE  /\ MemoryLevel(k)' = Capacity(k) - (StoredTat(k)' - rateClock')
                      /\ StoredTat(k)' - rateClock' \in 0 .. Capacity(k)
    OBVIOUS
  <2>1. CASE StoredTat(k) >= rateClock + 1 BY <1>0, <1>3, <1>4, <1>5, <1>6, <2>1
  <2>2. CASE StoredTat(k) = rateClock
    <3>1. StoredTat(k)' = rateClock + 1 BY <1>0, <1>3, <2>2
    <3>2. MemoryLevel(k) = Capacity(k) /\ Capacity(k) \in Nat BY <1>0, <1>5, <2>2
    <3>3. MemoryLevel(k)' = Capacity(k) BY <1>4, <3>2
    <3> QED BY <1>0, <3>1, <3>2, <3>3
  <2> QED BY <1>0, <1>3, <2>1, <2>2
<1>8. RateTypeOK' BY <1>0, <1>1, <1>7 DEF RateTypeOK, Types, Capacity
<1>9. Types' BY <1>0, <1>8 DEF Types
<1>10. LevelsAgree' BY <1>7 DEF LevelsAgree, RedisLevel, Capacity
<1>11. WithinRate' BY <1>0 DEF WithinRate, Capacity
<1>12. Accounted'
  <2>1. ASSUME NEW k \in Key, NEW i \in DOMAIN log[k] PROVE log[k][i].at <= rateClock + 1
    <3>1. log[k] \in Seq(Debit) BY <1>0 DEF Types
    <3>2. log[k][i] \in Debit BY <2>1, <3>1
    <3>3. log[k][i].at \in Nat /\ log[k][i].at <= rateClock BY <1>0, <2>1, <3>2 DEF Accounted, Debit
    <3> QED BY <1>0, <3>3
  <2> QED BY <1>0, <2>1 DEF Accounted, Window
<1> QED BY <1>2, <1>9, <1>10, <1>11, <1>12 DEF IInv

LEMMA StepKeeps == ASSUME RateStoreAssumption, IInv, [RateNext]_rateVars PROVE IInv' /\ [ChargesAllOrNone]_rateVars
<1>1. ASSUME NEW b \in Batches, NEW cancelled \in BOOLEAN, NEW inspected, AllowBatch(b, inspected, cancelled)
      PROVE  IInv' /\ ChargesAllOrNone
  BY <1>1, AllowKeeps
<1>2. CASE Elapse
  <2>1. rateClock' # rateClock BY <1>2 DEF Elapse, IInv, Types
  <2> QED BY <1>2, <2>1, ElapseKeeps DEF ChargesAllOrNone
<1>3. CASE UNCHANGED rateVars
  BY <1>3 DEF rateVars, IInv, Types, RateTypeOK, LevelsAgree, ArrivesFirst, Accounted, WithinRate, RedisLevel,
              MemoryLevel, StoredTat, Level, Capacity, Window
<1> QED BY <1>1, <1>2, <1>3 DEF RateNext

LEMMA RatesInvariant ==
  ASSUME RateStoreAssumption
  PROVE  RateSpec => []IInv
<1>1. RateInit => IInv BY RatesStart
<1>2. IInv /\ [RateNext]_rateVars => IInv' BY StepKeeps
<1> QED BY <1>1, <1>2, PTL DEF RateSpec
-----------------------------------------------------------------------------
\* The process-local and the Redis rate store are the same limiter for every configuration
\* of rates, every batch, pruning and expiry: each bucket holds the same amount in both,
\* within its capacity, and a batch is charged whole or not at all: a TPM refusal never
\* costs a request, and nor does a caller that goes away (MemoryRateStore.AllowBatch with
\* the reservations it cancels, redisRateBatchScript).
THEOREM RateStoresAgree ==
  ASSUME RateStoreAssumption
  PROVE  RateSpec => StoresAgree
<1>1. IInv => RateTypeOK /\ LevelsAgree BY DEF IInv, Types
<1>2. IInv /\ [RateNext]_rateVars => [ChargesAllOrNone]_rateVars BY StepKeeps
<1> QED BY <1>1, <1>2, RatesInvariant, PTL DEF RateSpec, StoresAgree

\* In every window of time the debits admitted for a key are at most its burst plus what the
\* window earned, for every rate, burst and sequence of batches (checkRates and both stores).
THEOREM RateLimitHolds ==
  ASSUME RateStoreAssumption
  PROVE  RateSpec => []WithinRate
<1>1. IInv => WithinRate BY DEF IInv
<1> QED BY <1>1, RatesInvariant, PTL
=============================================================================
