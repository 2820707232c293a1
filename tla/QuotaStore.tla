----------------------------- MODULE QuotaStore -----------------------------
(***************************************************************************)
(* The in-memory quota store (store/store.go: MemoryQuotaStore).           *)
(*                                                                         *)
(* A request reserves an estimate in every scope it belongs to (tenant,    *)
(* user, ...), may top the reservation up, and settles it: Commit replaces *)
(* the hold by the actual usage, Refund drops it, and a reservation nobody *)
(* renews expires.  Limits bound used plus held amounts per budget, day    *)
(* and month, the requests and tokens per minute, and the reservations     *)
(* open at once.  Every operation runs under one mutex and starts by       *)
(* cleaning up what has expired.                                           *)
(*                                                                         *)
(* values is a bag of key copies: adding n to a key adds n copies, and the *)
(* store's "subtract, and delete at zero or below" is bag difference.      *)
(***************************************************************************)
EXTENDS QuotaKeys, Sequences, FiniteSets, Bags, SequencesExt, FiniteSetsExt

CONSTANTS
  Request,        \* request IDs
  ScopedLimits,   \* what a request may carry: functions from scopes to LimitSpecs
  Estimates,      \* token and spend amounts a caller may reserve or add
  Actuals,        \* amounts a caller may commit
  TTL,            \* reservation time to live
  ReplayWindow,   \* quotaSettlementReplayWindow
  MaxSettlements, \* maxMemorySettlements
  MaxTime         \* bound on the clock

\* What the constants must satisfy.
QuotaStoreAssumption ==
  /\ QuotaKeysAssumption
  /\ TTL \in Nat \ {0} /\ MaxSettlements \in Nat \ {0}
  /\ ReplayWindow \in Nat \ {0} /\ MaxTime \in Nat

VARIABLES
  db,       \* the store: values, expires, counters, reservations, settlements
  clock,
  history   \* what really happened: see NoHistory

vars == <<db, clock, history>>

-----------------------------------------------------------------------------
(* Rate counters: a partial function from keys to a value and its expiry.   *)

\* counterValue.
CounterValue(counters, key, now) ==
  IF key \in DOMAIN counters /\ ~(counters[key].expires < now) THEN counters[key].n ELSE 0

\* addCounter.
AddCounter(counters, key, n, now) ==
  IF n = 0 THEN counters
  ELSE With(counters, key, [n |-> CounterValue(counters, key, now) + n, expires |-> EndOfMinute(now)])

\* Mutant of ReconcileCounter: the hold is given back and the usage is not counted.
ReconcileCounterDropsUsage(counters, key, held, actual, now) ==
  LET n == counters[key].n - held IN
  IF key \notin DOMAIN counters THEN counters
  ELSE IF now >= counters[key].expires \/ n <= 0 THEN Without(counters, {key})
  ELSE With(counters, key, [counters[key] EXCEPT !.n = n])

\* reconcileCounter.
ReconcileCounter(counters, key, held, actual, now) ==
  LET n == counters[key].n + actual - held IN
  IF key \notin DOMAIN counters THEN counters
  ELSE IF now >= counters[key].expires \/ n <= 0 THEN Without(counters, {key})
  ELSE With(counters, key, [counters[key] EXCEPT !.n = n])

\* Apply one of them to a key of every scope that has a limit of that kind.
OverScopes(limits, kind, counters, op(_, _)) ==
  FoldLeft(LAMBDA cs, s : op(cs, s), counters,
           SetToSeq({s \in DOMAIN limits : limits[s][kind] > 0}))

-----------------------------------------------------------------------------
(* Settlements: the remembered outcomes, oldest first (the settlements map  *)
(* and the settledOrder list).                                              *)

\* cleanupSettlements: drop from the front what has left the replay window.
DropOld(seq, now) ==
  LET kept == {i \in 1 .. Len(seq) : now < seq[i].expires}
      first == CHOOSE i \in kept : \A j \in kept : i <= j
  IN IF kept = {} THEN <<>> ELSE SubSeq(seq, first, Len(seq))

\* recordSettlement.
Record(seq, id, expired, now) ==
  LET others == SelectSeq(seq, LAMBDA x : x.id # id)
      all == DropOld(Append(others, [id |-> id, expires |-> now + ReplayWindow,
                                     expired |-> expired]), now)
      extra == Len(all) - MaxSettlements
  IN IF extra > 0 THEN SubSeq(all, extra + 1, Len(all)) ELSE all

\* Mutant of Remembered: an expired reservation's ID may be used again at once.
RememberedUnlessExpired(d, id) ==
  \E i \in 1 .. Len(d.settlements) : d.settlements[i].id = id /\ ~d.settlements[i].expired

Remembered(d, id) == \E i \in 1 .. Len(d.settlements) : d.settlements[i].id = id

-----------------------------------------------------------------------------
\* Mutant of Settled: the hold is released under the keys of now instead of those
\* resolved when the reservation was made.
SettledUnderNewKeys(d, id, actualTokens, expired, now) ==
  LET res == d.reservations[id] IN
  [d EXCEPT
     !.values = (@ (-) ActiveBag(res.limits)) (-) HoldBag(res.limits, now, res.held),
     !.counters = OverScopes(res.limits, "tpm", @, LAMBDA cs, s :
        ReconcileCounter(cs, RateKey(s, "tpm", res.at), res.held.tokens, actualTokens, now)),
     !.reservations = Without(@, {id}),
     !.settlements = Record(@, id, expired, now)]

\* releaseHold, delete the reservation, and recordSettlement.
Settled(d, id, actualTokens, expired, now) ==
  LET res == d.reservations[id] IN
  [d EXCEPT
     !.values = (@ (-) ActiveBag(res.limits)) (-) HoldBag(res.limits, res.at, res.held),
     !.counters = OverScopes(res.limits, "tpm", @, LAMBDA cs, s :
        ReconcileCounter(cs, RateKey(s, "tpm", res.at), res.held.tokens, actualTokens, now)),
     !.reservations = Without(@, {id}),
     !.settlements = Record(@, id, expired, now)]

Overdue(d, now) == {id \in DOMAIN d.reservations : now >= d.reservations[id].expires}

\* Mutant of Cleaned: an expired used amount goes and its expiry stays.
CleanedValuesOnly(order) ==
  LET swept == FoldLeft(LAMBDA d, id : Settled(d, id, 0, TRUE, clock), db, order)
      dead == {k \in DOMAIN swept.expires : clock >= swept.expires[k]}
  IN [swept EXCEPT
        !.settlements = DropOld(@, clock),
        !.counters = Without(@, {k \in DOMAIN @ : clock >= @[k].expires}),
        !.values = Without(@, dead)]

\* cleanupExpired: expired reservations are settled in map iteration order.
Cleaned(order) ==
  LET swept == FoldLeft(LAMBDA d, id : Settled(d, id, 0, TRUE, clock), db, order)
      dead == {k \in DOMAIN swept.expires : clock >= swept.expires[k]}
  IN [swept EXCEPT
        !.settlements = DropOld(@, clock),
        !.counters = Without(@, {k \in DOMAIN @ : clock >= @[k].expires}),
        !.values = Without(@, dead),
        !.expires = Without(@, dead)]

-----------------------------------------------------------------------------
\* Mutant of Admits: what is held is not counted against the limit.
AdmitsUsedOnly(d, limits, t, usage, topUp) ==
  \A s \in DOMAIN limits :
    LET l == limits[s] IN
    /\ topUp \/ ~Exceeds(l.parallel, CopiesIn(ActiveKey(s), d.values) + 1)
    /\ topUp \/ ~Exceeds(l.rpm, CounterValue(d.counters, RateKey(s, "rpm", t), clock) + 1)
    /\ ~Exceeds(l.tpm, CounterValue(d.counters, RateKey(s, "tpm", t), clock) + usage.tokens)
    /\ \A dim \in Dim :
         LET p == Period(l, dim) IN
         ~Exceeds(l[dim], CopiesIn(UsedKey(s, dim, p, t), d.values) + Amount(dim, usage))

\* Mutant of Admits: off by one, the request itself is not counted.
AdmitsOneMore(d, limits, t, usage, topUp) ==
  \A s \in DOMAIN limits :
    LET l == limits[s] IN
    /\ topUp \/ ~Exceeds(l.parallel, CopiesIn(ActiveKey(s), d.values) + 1)
    /\ topUp \/ ~Exceeds(l.rpm, CounterValue(d.counters, RateKey(s, "rpm", t), clock))
    /\ ~Exceeds(l.tpm, CounterValue(d.counters, RateKey(s, "tpm", t), clock) + usage.tokens)
    /\ \A dim \in Dim :
         LET p == Period(l, dim) IN
         ~Exceeds(l[dim], CopiesIn(UsedKey(s, dim, p, t), d.values)
                          + CopiesIn(HeldKey(s, dim, p, t), d.values) + Amount(dim, usage))

\* checkScope for every scope, of a reservation made at time t.
Admits(d, limits, t, usage, topUp) ==
  \A s \in DOMAIN limits :
    LET l == limits[s] IN
    /\ topUp \/ ~Exceeds(l.parallel, CopiesIn(ActiveKey(s), d.values) + 1)
    /\ topUp \/ ~Exceeds(l.rpm, CounterValue(d.counters, RateKey(s, "rpm", t), clock) + 1)
    /\ ~Exceeds(l.tpm, CounterValue(d.counters, RateKey(s, "tpm", t), clock) + usage.tokens)
    /\ \A dim \in Dim :
         LET p == Period(l, dim) IN
         ~Exceeds(l[dim], CopiesIn(UsedKey(s, dim, p, t), d.values)
                          + CopiesIn(HeldKey(s, dim, p, t), d.values) + Amount(dim, usage))

\* applyScopeHold for every scope.
Held(d, limits, t, usage, topUp) ==
  LET rpm == IF topUp THEN d.counters
             ELSE OverScopes(limits, "rpm", d.counters, LAMBDA cs, s :
                    AddCounter(cs, RateKey(s, "rpm", t), 1, clock))
  IN [d EXCEPT
        !.values = @ (+) HoldBag(limits, t, usage)
                     (+) (IF topUp THEN EmptyBag ELSE ActiveBag(limits)),
        !.counters = OverScopes(limits, "tpm", rpm, LAMBDA cs, s :
                       AddCounter(cs, RateKey(s, "tpm", t), usage.tokens, clock))]

\* addValue on every used key: a bucket already over lives for the grace period.
Charged(d, limits, t, usage) ==
  LET added == UseBag(limits, t, usage)
      timed == {k \in DOMAIN added : Expires(k)}
      Expiry(k) == IF UsedExpiry(k) > clock THEN UsedExpiry(k) ELSE clock + Grace
  IN [d EXCEPT
        !.values = @ (+) added,
        !.expires = [k \in DOMAIN @ \cup timed |-> IF k \in timed THEN Expiry(k) ELSE @[k]]]

-----------------------------------------------------------------------------
(***************************************************************************)
(* History, for the properties only.                                       *)
(*   billed   by used key, the usage of each reservation's first Commit    *)
(*   receipt  per request, when its last billed reservation was made       *)
(*   overrun  by used key, how much more than its hold was committed       *)
(*   admitted by rpm key, the reservations made                            *)
(*   spent    by tpm key, the tokens committed by reservations that held   *)
(*            tokens, and loose by those that held none                    *)
(*   settled  the requests settled within the replay window, latest last   *)
(*   tokens   per request with a tpm limit, the tokens admitted in the     *)
(*            current minute                                               *)
(***************************************************************************)
NoHistory == [billed |-> EmptyBag, receipt |-> [id \in Request |-> -1],
              overrun |-> EmptyBag, admitted |-> EmptyBag, spent |-> EmptyBag, loose |-> EmptyBag,
              settled |-> <<>>, tokens |-> [id \in Request |-> 0]]

Metered(limits, usage) == IF \E s \in DOMAIN limits : limits[s].tpm > 0 THEN usage.tokens ELSE 0

\* The requests in order, settled now.
Settling(h, order) ==
  [h EXCEPT
     !.settled = SelectSeq(@, LAMBDA x : x.id \notin Range(order) /\ clock < x.at + ReplayWindow)
                   \o [i \in 1 .. Len(order) |-> [id |-> order[i], at |-> clock]],
     !.tokens = [id \in Request |-> IF id \in Range(order) THEN 0 ELSE @[id]]]

Init ==
  /\ db = [values |-> EmptyBag, expires |-> <<>>, counters |-> <<>>,
           reservations |-> <<>>, settlements |-> <<>>]
  /\ clock = 0
  /\ history = NoHistory

\* Reserve: conflict, replay and refusal all leave the cleaned-up store.
Reserve(id, limits, estimate) ==
  \E order \in SetToSeqs(Overdue(db, clock)) : \E d \in {Cleaned(order)} :
    LET h == Settling(history, order)
        refused == \/ Remembered(d, id)
                   \/ id \in DOMAIN d.reservations
                   \/ ~Admits(d, limits, clock, estimate, FALSE)
        res == [limits |-> limits, held |-> estimate, at |-> clock, expires |-> clock + TTL]
        rpm == {s \in DOMAIN limits : limits[s].rpm > 0}
    IN /\ db' = IF refused THEN d
                ELSE [Held(d, limits, clock, estimate, FALSE) EXCEPT
                        !.reservations = With(@, id, res)]
       /\ history' = IF refused THEN h
                     ELSE [h EXCEPT
                       !.admitted = @ (+) SetToBag({RateKey(s, "rpm", clock) : s \in rpm}),
                       !.tokens[id] = @ + Metered(limits, estimate)]
       /\ UNCHANGED clock

\* TopUp: a zero delta only renews the reservation.
TopUp(id, delta) ==
  \E order \in SetToSeqs(Overdue(db, clock)) : \E d \in {Cleaned(order)} :
    LET h == Settling(history, order)
        res == d.reservations[id]
        refused == \/ id \notin DOMAIN d.reservations
                   \/ delta # NoUsage /\ ~Admits(d, res.limits, res.at, delta, TRUE)
        more == [res EXCEPT !.held = Plus(@, delta), !.expires = clock + TTL]
    IN /\ db' = IF refused THEN d
                ELSE [Held(d, res.limits, res.at, delta, TRUE) EXCEPT
                        !.reservations = With(@, id, more)]
       /\ history' = IF refused THEN h ELSE [h EXCEPT !.tokens[id] = @ + Metered(res.limits, delta)]
       /\ UNCHANGED clock

\* Commit: a settlement still remembered makes a replay a no-op.
Commit(id, actual) ==
  \E order \in SetToSeqs(Overdue(db, clock)) : \E d \in {Cleaned(order)} :
    LET h == Settling(history, order)
        res == d.reservations[id]
        bill == UseBag(res.limits, res.at, actual)
        tokens == TokenBag(res.limits, res.at, actual)
        found == id \in DOMAIN d.reservations
    IN /\ db' = IF found
                THEN Charged(Settled(d, id, actual.tokens, FALSE, clock), res.limits, res.at, actual)
                ELSE d
       /\ history' = IF found
                     THEN [Settling(h, <<id>>) EXCEPT
                             !.billed = IF h.receipt[id] = res.at THEN @ ELSE @ (+) bill,
                             !.receipt[id] = res.at,
                             !.overrun = @ (+) (bill (-) UseBag(res.limits, res.at, res.held)),
                             !.spent = IF res.held.tokens > 0 THEN @ (+) tokens ELSE @,
                             !.loose = IF res.held.tokens > 0 THEN @ ELSE @ (+) tokens]
                     ELSE h
       /\ UNCHANGED clock

Refund(id) ==
  \E order \in SetToSeqs(Overdue(db, clock)) : \E d \in {Cleaned(order)} :
    LET h == Settling(history, order)
        found == id \in DOMAIN d.reservations
    IN /\ db' = IF found THEN Settled(d, id, 0, FALSE, clock) ELSE d
       /\ history' = IF found THEN Settling(h, <<id>>) ELSE h
       /\ UNCHANGED clock

\* GetUsage, for GET /v1/limits and for soft limits: the counters are read after a cleanup.
GetUsage ==
  \E order \in SetToSeqs(Overdue(db, clock)) :
    /\ db' = Cleaned(order)
    /\ history' = Settling(history, order)
    /\ UNCHANGED clock

Tick ==
  /\ clock < MaxTime
  /\ clock' = clock + 1
  /\ history' = IF MinuteAt(clock + 1) = MinuteAt(clock) THEN history
                ELSE [history EXCEPT !.tokens = [id \in Request |-> 0]]
  /\ UNCHANGED db

Next ==
  \/ \E id \in Request, limits \in ScopedLimits, e \in Estimates : Reserve(id, limits, e)
  \/ \E id \in Request, e \in Estimates : TopUp(id, e)
  \/ \E id \in Request, a \in Actuals : Commit(id, a)
  \/ \E id \in Request : Refund(id)
  \/ GetUsage
  \/ Tick

Spec == Init /\ [][Next]_vars
-----------------------------------------------------------------------------
SumOver(S, f(_)) == FoldSet(LAMBDA x, b : f(x) (+) b, EmptyBag, S)
Maximum(S) == CHOOSE n \in S : \A m \in S : m <= n
Scopes == UNION {DOMAIN l : l \in ScopedLimits}

\* The largest limit of a kind a request may carry for a scope.
Largest(s, kind) == Maximum({0} \cup {l[s][kind] : l \in {m \in ScopedLimits : s \in DOMAIN m}})

\* The budgets in play: scope, dimension and bucket, as the tail of a key.
HeldOf(usedKey) == [usedKey EXCEPT ![2] = "held"]
UsedOf(heldKey) == [heldKey EXCEPT ![2] = "used"]
IsHeld(key) == key[2] = "held"
IsUsed(key) == key[2] = "used"

\* The store's maps hold what their types say, and the settlement list keeps
\* within its cap with one entry per request (recordSettlement).
TypeOK ==
  /\ IsABag(db.values)
  /\ \A k \in DOMAIN db.expires : k \in DOMAIN db.values /\ IsUsed(k)
  /\ \A k \in DOMAIN db.counters : db.counters[k].n > 0 /\ db.counters[k].expires \in Nat
  /\ DOMAIN db.reservations \subseteq Request
  /\ \A id \in DOMAIN db.reservations : db.reservations[id].limits \in ScopedLimits
  /\ Len(db.settlements) <= MaxSettlements
  /\ \A i, j \in 1 .. Len(db.settlements) :
       i < j => /\ db.settlements[i].id # db.settlements[j].id
                /\ db.settlements[i].expires <= db.settlements[j].expires
  /\ clock \in 0 .. MaxTime

\* The held amounts and the parallel counts are, key by key, exactly what the open
\* reservations hold: through top-ups, settlements and expiries, across bucket
\* boundaries and changed limits, applyScopeHold and releaseHold never leak a hold
\* and never take away another request's.
HoldsMatchReservations ==
  LET held == SumOver(DOMAIN db.reservations, LAMBDA id :
                LET r == db.reservations[id]
                IN HoldBag(r.limits, r.at, r.held) (+) ActiveBag(r.limits))
      kept == {k \in DOMAIN db.values : ~IsUsed(k)}
  IN held = [k \in kept |-> db.values[k]]

\* Usage is charged exactly once: however often Commit and Refund are repeated, a
\* used amount never exceeds what the first Commit of each reservation reported, and
\* it equals that for as long as its bucket is current (addValue, cleanupExpired).
ChargedOnce ==
  LET Current(k) == ~Expires(k) \/ k[5] = BucketAt(k[4], clock)
      billed == history.billed
  IN /\ \A k \in {x \in DOMAIN db.values : IsUsed(x)} : db.values[k] <= CopiesIn(k, billed)
     /\ \A k \in DOMAIN billed : Current(k) => CopiesIn(k, db.values) = billed[k]

\* What checkScope promises: used plus held stays within the limit of its budget,
\* except for what was committed beyond a reservation's own hold; and no more
\* reservations are open in a scope than its parallel limit.
WithinLimits ==
  /\ \A k \in {x \in DOMAIN db.values : IsHeld(x)} \cup {HeldOf(x) : x \in {y \in DOMAIN db.values : IsUsed(y)}} :
       Largest(k[1], k[3]) > 0 =>
         CopiesIn(k, db.values) + CopiesIn(UsedOf(k), db.values)
           <= Largest(k[1], k[3]) + CopiesIn(UsedOf(k), history.overrun)
  /\ \A s \in Scopes : CopiesIn(ActiveKey(s), db.values) <= Largest(s, "parallel")

\* At most rpm requests are admitted in a scope in any minute: settlements, expiries
\* and the cleanup of counters never give a request of the minute back.
RequestsPerMinute ==
  \A k \in DOMAIN history.admitted : history.admitted[k] <= Largest(k[1], "rpm")

\* The current minute's token counter is exactly the tokens its open reservations
\* hold plus the tokens its settled ones used: addCounter and reconcileCounter lose
\* nothing to each other or to the cleanup.  Only tokens committed by a reservation
\* that held none may be missing, since reconcileCounter adds to an existing counter.
TokenCounterIsExact ==
  \A s \in Scopes :
    LET k == RateKey(s, "tpm", clock)
        held == SumOver(DOMAIN db.reservations, LAMBDA id :
                  LET r == db.reservations[id] IN TokenBag(r.limits, r.at, r.held))
        counted == CounterValue(db.counters, k, clock) - CopiesIn(k, held) - CopiesIn(k, history.spent)
    IN 0 <= counted /\ counted <= CopiesIn(k, history.loose)

\* A settled or expired request ID is not admitted again within the replay window,
\* unless maxMemorySettlements other requests were settled after it.
AdmitsNoReplay ==
  \A id \in DOMAIN db'.reservations \ DOMAIN db.reservations :
    \A i \in 1 .. Len(history'.settled) :
      history'.settled[i].id = id =>
        \/ clock >= history'.settled[i].at + ReplayWindow
        \/ Len(history'.settled) - i >= MaxSettlements
NoReplayInWindow == [][AdmitsNoReplay]_vars

\* The tokens open requests were granted during the current minute stay within tpm
\* (the documented meaning of the limit).  TopUp checks the minute of the reservation
\* instead, so a request carried over a minute boundary is granted tokens the new
\* minute's counter never sees.
TokensPerMinute ==
  \A s \in Scopes :
    LET open == {id \in DOMAIN db.reservations :
                   s \in DOMAIN db.reservations[id].limits /\ db.reservations[id].limits[s].tpm > 0}
    IN SumFunctionOnSet(history.tokens, open) <= Largest(s, "tpm")
=============================================================================
