----------------------------- MODULE RedisQuota -----------------------------
(***************************************************************************)
(* The quota store gateway instances share through Redis (store/redis.go:  *)
(* Reserve, TopUp, Commit, Refund and their scripts).                      *)
(*                                                                         *)
(* It accounts under the keys of the in-memory store, but nothing sweeps   *)
(* it: counters, tickets and lease sets are Redis keys that expire on      *)
(* their own, and a script only releases the overdue leases of the scopes  *)
(* it works on.  Reserve takes the time from a call of its own, before the *)
(* script runs; the other scripts read the clock themselves.  A script is  *)
(* atomic, and one whose reply is lost may be executed again.              *)
(***************************************************************************)
EXTENDS QuotaKeys, FiniteSets, Bags, FiniteSetsExt

CONSTANTS
  Request,        \* request IDs
  ScopedLimits,   \* what a request may carry: functions from scopes to LimitSpecs
  Estimates,      \* token and spend amounts a caller may reserve or add
  Actuals,        \* amounts a caller may commit
  TTLs,           \* reservation times to live
  ReplayWindow,   \* quotaSettlementReplayWindow
  MaxAccounting,  \* gateway.MaximumQuotaValue
  MaxLag,         \* how long a Reserve may be under way after it has read the time
  Resends,        \* whether the client repeats a TopUp whose reply it did not see
  MaxTime         \* bound on the clock

\* What the constants must satisfy.
RedisQuotaAssumption ==
  /\ QuotaKeysAssumption
  /\ TTLs \subseteq Nat \ {0} /\ ReplayWindow \in Nat \ {0}
  /\ MaxAccounting \in Nat \ {0} /\ MaxLag \in Nat /\ MaxTime \in Nat /\ Resends \in BOOLEAN

VARIABLES
  db,       \* counters, leases and leaseKeys by scope, tickets, settled
  clock,    \* Redis TIME
  history   \* what really happened: see NoHistory

vars == <<db, clock, history>>

Scopes == UNION {DOMAIN l : l \in ScopedLimits}

-----------------------------------------------------------------------------
(* Counters: a partial function from keys to a value and the time the key   *)
(* expires, 0 for never.                                                    *)

At(k, amounts) == IF k \in DOMAIN amounts THEN amounts[k] ELSE 0
Joined(a, b) == [k \in DOMAIN a \cup DOMAIN b |-> At(k, a) + At(k, b)]
Value(cs, k) == IF k \in DOMAIN cs THEN cs[k].n ELSE 0

\* INCRBY, which creates a key even for 0 and keeps the expiry of an old one.
IncrBy(cs, bag) ==
  [k \in DOMAIN cs \cup DOMAIN bag |->
     IF k \in DOMAIN cs THEN [cs[k] EXCEPT !.n = @ + At(k, bag)] ELSE [n |-> bag[k], expires |-> 0]]

\* decrementNonnegative: a key that reaches zero is deleted.
Decrement(cs, bag) ==
  Without([k \in DOMAIN cs |-> [cs[k] EXCEPT !.n = @ - At(k, bag)]],
          {k \in DOMAIN cs : At(k, bag) > 0 /\ cs[k].n <= bag[k]})

ExpireAt(cs, keys, t) == [k \in DOMAIN cs |-> IF k \in keys THEN [cs[k] EXCEPT !.expires = t] ELSE cs[k]]

\* Mutant: the last reservation alone decides how long a counter lives.
ExpireNoEarlierResets(cs, keys, t) == ExpireAt(cs, keys, t)

\* expireNoEarlier.
ExpireNoEarlier(cs, keys, t) ==
  [k \in DOMAIN cs |-> IF k \in keys /\ cs[k].expires < t THEN [cs[k] EXCEPT !.expires = t] ELSE cs[k]]

\* The hold keys of a reservation made at time t, and what a usage adds to them.
HeldKeys(limits, t) ==
  {HeldKey(x[1], x[2], Period(limits[x[1]], x[2]), t) :
     x \in {y \in (DOMAIN limits) \X Dim : Limited(limits[y[1]], y[2])}}
Holds(limits, t, usage) == [k \in HeldKeys(limits, t) |-> Amount(k[3], usage)]
LeasedKeys(limits, t) == HeldKeys(limits, t) \cup DOMAIN ActiveBag(limits)

RateKeys(limits, kind, t) == {RateKey(s, kind, t) : s \in {x \in DOMAIN limits : limits[x][kind] > 0}}
Tokens(limits, t, usage) == [k \in RateKeys(limits, "tpm", t) |-> usage.tokens]

-----------------------------------------------------------------------------
(* Leases: by scope, a function from request IDs to the limit, time and     *)
(* hold they were made with and the score they expire at.  leaseKeys says   *)
(* when Redis drops the set of a scope as a whole.                          *)

Only(s, limit) == [x \in {s} |-> limit]
LeaseBag(s, l) ==
  LET one == Only(s, l.limit)
  IN Joined(Holds(one, l.at, l.held), Joined(ActiveBag(one), Tokens(one, l.at, l.held)))
Latest(set) == Max({set[id].score : id \in DOMAIN set})
Overdue(d, s, spared, now) == {id \in DOMAIN d.leases[s] \ spared : d.leases[s][id].score <= now}

\* prune: the overdue leases of the scopes, except the caller's own.
Prune(d, scopes, spared, now) ==
  LET Freed(s) == FoldSet(LAMBDA id, b : Joined(LeaseBag(s, d.leases[s][id]), b), EmptyBag,
                          Overdue(d, s, spared, now))
  IN [d EXCEPT
        !.counters = Decrement(@, FoldSet(LAMBDA s, b : Joined(Freed(s), b), EmptyBag, scopes)),
        !.leases = [s \in Scopes |-> IF s \in scopes THEN Without(@[s], Overdue(d, s, spared, now)) ELSE @[s]]]

\* A lease of the given limits in every scope, kept until the latest one and margin.
Leased(d, id, limits, at, held, score, margin) ==
  LET set == [s \in Scopes |->
                IF s \in DOMAIN limits
                THEN With(d.leases[s], id, [limit |-> limits[s], at |-> at, held |-> held, score |-> score])
                ELSE d.leases[s]]
  IN [d EXCEPT !.leases = set,
               !.leaseKeys = [s \in Scopes |-> IF s \in DOMAIN limits THEN Latest(set[s]) + margin ELSE @[s]]]

-----------------------------------------------------------------------------
\* Mutant: what is held is not counted against the limit.
AdmitsUsedOnly(d, limits, t, usage, topUp) ==
  \A s \in DOMAIN limits :
    LET l == limits[s] IN
    /\ topUp \/ ~Exceeds(l.parallel, Value(d.counters, ActiveKey(s)) + 1)
    /\ \A dim \in Dim :
         ~Exceeds(l[dim], Value(d.counters, UsedKey(s, dim, Period(l, dim), t)) + Amount(dim, usage))

\* The limits of every scope, for a reservation made at time t.
Admits(d, limits, t, usage, topUp) ==
  \A s \in DOMAIN limits :
    LET l == limits[s] IN
    /\ topUp \/ ~Exceeds(l.parallel, Value(d.counters, ActiveKey(s)) + 1)
    /\ topUp \/ ~Exceeds(l.rpm, Value(d.counters, RateKey(s, "rpm", t)) + 1)
    /\ ~Exceeds(l.tpm, Value(d.counters, RateKey(s, "tpm", t)) + usage.tokens)
    /\ \A dim \in Dim :
         LET p == Period(l, dim) IN
         ~Exceeds(l[dim], Value(d.counters, UsedKey(s, dim, p, t))
                          + Value(d.counters, HeldKey(s, dim, p, t)) + Amount(dim, usage))

\* No counter may leave the integers a Lua number represents exactly.
Fits(cs, bag) == \A k \in DOMAIN bag : Value(cs, k) + bag[k] <= MaxAccounting

-----------------------------------------------------------------------------
(***************************************************************************)
(* History, for the properties only.                                       *)
(*   billed   by used key, the usage of each reservation's first Commit    *)
(*   receipt  per request, when its last billed reservation was made       *)
(*   overrun  by used key, how much more than its hold was committed       *)
(*   asked    per request, what the calls for its reservation added up to  *)
(*   last     per request, the last TopUp executed, when it may be resent  *)
(***************************************************************************)
NoHistory == [billed |-> EmptyBag, receipt |-> [id \in Request |-> -1], overrun |-> EmptyBag,
              asked |-> [id \in Request |-> NoUsage], last |-> [id \in Request |-> <<>>]]

Init ==
  /\ db = [counters |-> <<>>, leases |-> [s \in Scopes |-> <<>>], leaseKeys |-> [s \in Scopes |-> 0],
           tickets |-> <<>>, settled |-> <<>>]
  /\ clock = 0
  /\ history = NoHistory

\* ZREMRANGEBYSCORE on the set of settled requests.
Forget(d, now) == [d EXCEPT !.settled = Without(@, {id \in DOMAIN @ : @[id] <= now})]

\* redisQuotaReserveScript, with the time the caller read before.  A request that is
\* settled, or has a ticket, or does not fit, leaves the pruned store.
ReserveScript(id, limits, estimate, ttl, now) ==
  LET d == Forget(Prune(db, DOMAIN limits, {}, now), now)
      added == Joined(Joined(Holds(limits, now, estimate), ActiveBag(limits)),
                      Joined(Tokens(limits, now, estimate), SetToBag(RateKeys(limits, "rpm", now))))
      margin == EndOfMinute(now) - now
      rates == RateKeys(limits, "rpm", now) \cup RateKeys(limits, "tpm", now)
      counters == ExpireNoEarlier(ExpireAt(IncrBy(d.counters, added), rates, clock + margin),
                                  LeasedKeys(limits, now), clock + ttl)
      granted == /\ id \notin DOMAIN d.settled \cup DOMAIN d.tickets
                 /\ Fits(d.counters, added)
                 /\ Admits(d, limits, now, estimate, FALSE)
      ticket == [limits |-> limits, at |-> now, held |-> estimate, ttl |-> ttl, score |-> now + ttl,
                 expires |-> clock + ttl]
  IN [ok |-> granted,
      db |-> IF ~granted THEN d
             ELSE [Leased(d, id, limits, now, estimate, now + ttl, margin) EXCEPT
                     !.counters = counters, !.tickets = With(@, id, ticket)]]

Reserve(id, limits, estimate, ttl, now) ==
  LET reply == ReserveScript(id, limits, estimate, ttl, now)
  IN /\ db' = reply.db
     /\ history' = IF reply.ok THEN [history EXCEPT !.asked[id] = estimate, !.last[id] = <<>>] ELSE history
     /\ UNCHANGED clock

\* redisQuotaTopUpScript, with the time to live of the request.
TopUpScript(id, delta) ==
  LET t == db.tickets[id]
      d == Prune(db, DOMAIN t.limits, {id}, clock)
      added == Joined(Holds(t.limits, t.at, delta), Tokens(t.limits, t.at, delta))
      positive == [k \in {x \in DOMAIN added : added[x] > 0} |-> added[k]]
      margin == EndOfMinute(clock) - clock
      tpm == DOMAIN positive \cap RateKeys(t.limits, "tpm", t.at)
      until == clock + t.ttl
      counters == ExpireNoEarlier(ExpireAt(IncrBy(d.counters, positive), tpm, clock + margin),
                                  LeasedKeys(t.limits, t.at), until)
      held == Plus(t.held, delta)
      granted == /\ \A s \in DOMAIN t.limits : id \in DOMAIN d.leases[s]
                 /\ Fits(d.counters, added)
                 /\ Admits(d, t.limits, t.at, delta, TRUE)
      ticket == [t EXCEPT !.held = held, !.score = until, !.expires = until]
  IN IF held.tokens > MaxAccounting \/ held.spend > MaxAccounting THEN [ok |-> FALSE, db |-> db]
     ELSE [ok |-> granted,
           db |-> IF ~granted THEN d
                  ELSE [Leased(d, id, t.limits, t.at, held, until, margin) EXCEPT
                          !.counters = counters, !.tickets[id] = ticket]]

\* A repeated call finds the effect of the first.
TopUp(id, delta, again) ==
  LET reply == TopUpScript(id, delta)
  IN /\ id \in DOMAIN db.tickets
     /\ again => Resends /\ history.last[id] = <<delta>>
     /\ db' = reply.db
     /\ history' = IF ~reply.ok THEN history
                   ELSE [history EXCEPT !.asked[id] = IF again THEN @ ELSE Plus(@, delta),
                                        !.last[id] = IF Resends THEN <<delta>> ELSE <<>>]
     /\ UNCHANGED clock

\* The minute's tokens become those used; a counter that is gone stays gone.
Reconcile(cs, keys, held, used) ==
  IF held > used THEN Decrement(cs, [k \in keys |-> held - used])
  ELSE IncrBy(cs, [k \in keys \cap DOMAIN cs |-> used - held])

\* Mutant: a charge makes a bucket that is over live for ever.
ChargedForEver(cs, bag) == IncrBy(cs, bag)

\* The used keys, and how long they live from now.
Charged(cs, bag) ==
  LET Expiry(k) == IF ~Expires(k) THEN 0 ELSE IF UsedExpiry(k) > clock THEN UsedExpiry(k) ELSE clock + Grace
      more == IncrBy(cs, bag)
  IN [k \in DOMAIN more |-> IF k \in DOMAIN bag THEN [more[k] EXCEPT !.expires = Expiry(k)] ELSE more[k]]

\* Mutant: a settled request is not remembered, and its ticket stays.
UnleasedOnly(d, id, limits) ==
  [d EXCEPT !.leases = [s \in Scopes |-> IF s \in DOMAIN limits THEN Without(@[s], {id}) ELSE @[s]]]

\* The lease, the ticket and the settled set; refreshLeaseExpiry.
Unleased(d, id, limits) ==
  LET set == [s \in Scopes |-> IF s \in DOMAIN limits THEN Without(d.leases[s], {id}) ELSE d.leases[s]]
  IN [d EXCEPT !.leases = set,
               !.leaseKeys = [s \in Scopes |-> IF s \notin DOMAIN limits THEN @[s]
                                               ELSE IF set[s] = <<>> THEN 0 ELSE Latest(set[s]) + Grace],
               !.tickets = Without(@, {id}),
               !.settled = With(@, id, clock + ReplayWindow)]

\* redisQuotaSettleScript.
SettleScript(id, bill, used) ==
  LET f == Forget(db, clock)
      t == f.tickets[id]
      d == Prune(f, DOMAIN t.limits, {id}, clock)
      tpm == RateKeys(t.limits, "tpm", t.at)
      grown == IF used > t.held.tokens THEN [k \in tpm \cap DOMAIN d.counters |-> used - t.held.tokens] ELSE EmptyBag
      freed == Decrement(Reconcile(d.counters, tpm, t.held.tokens, used),
                         Joined(Holds(t.limits, t.at, t.held), ActiveBag(t.limits)))
      found == id \in DOMAIN f.tickets /\ \A s \in DOMAIN t.limits : id \in DOMAIN f.leases[s]
      settles == found /\ Fits(d.counters, Joined(bill, grown))
  IN [ok |-> settles,
      db |-> IF settles THEN [Unleased(d, id, t.limits) EXCEPT !.counters = Charged(freed, bill)]
             ELSE IF found THEN d ELSE f]

\* Commit charges what was used under the keys of the reservation; Refund charges nothing.
Settle(id, commit, actual) ==
  LET t == db.tickets[id]
      bill == IF commit /\ id \in DOMAIN db.tickets THEN UseBag(t.limits, t.at, actual) ELSE EmptyBag
      reply == SettleScript(id, bill, IF commit THEN actual.tokens ELSE 0)
  IN /\ db' = reply.db
     /\ history' = IF ~reply.ok THEN history
                   ELSE [history EXCEPT
                           !.billed = IF ~commit \/ history.receipt[id] = t.at THEN @ ELSE @ (+) bill,
                           !.receipt[id] = IF commit THEN t.at ELSE @,
                           !.overrun = @ (+) (bill (-) UseBag(t.limits, t.at, t.held)),
                           !.asked[id] = NoUsage, !.last[id] = <<>>]
     /\ UNCHANGED clock

\* redisQuotaPruneScript.
PruneScript(s) == Prune(db, {s}, {}, clock)

\* GetUsage, for GET /v1/limits and for soft limits: the counters are read once what is
\* overdue is released.
GetUsage(s) ==
  /\ Overdue(db, s, {}, clock) # {}
  /\ db' = PruneScript(s)
  /\ UNCHANGED <<clock, history>>

\* Time passes, and Redis drops the keys whose time is over.
Tick ==
  LET Over(t) == t > 0 /\ clock + 1 > t
  IN /\ clock < MaxTime
     /\ clock' = clock + 1
     /\ db' = [db EXCEPT
          !.counters = Without(@, {k \in DOMAIN @ : Over(@[k].expires)}),
          !.leases = [s \in Scopes |-> IF Over(db.leaseKeys[s]) THEN <<>> ELSE @[s]],
          !.leaseKeys = [s \in Scopes |-> IF Over(@[s]) THEN 0 ELSE @[s]],
          !.tickets = Without(@, {id \in DOMAIN @ : Over(@[id].expires)})]
     /\ UNCHANGED history

Next ==
  \/ \E id \in Request, l \in ScopedLimits, e \in Estimates, ttl \in TTLs, lag \in 0 .. MaxLag :
       clock >= lag /\ Reserve(id, l, e, ttl, clock - lag)
  \/ \E id \in Request, e \in Estimates, again \in BOOLEAN : TopUp(id, e, again)
  \/ \E id \in Request, a \in Actuals : Settle(id, TRUE, a)
  \/ \E id \in Request : Settle(id, FALSE, NoUsage)
  \/ \E s \in Scopes : GetUsage(s)
  \/ Tick

Spec == Init /\ [][Next]_vars
-----------------------------------------------------------------------------
SumOver(S, f(_)) == FoldSet(LAMBDA x, b : Joined(f(x), b), EmptyBag, S)
Largest(s, kind) == Max({0} \cup {l[s][kind] : l \in {m \in ScopedLimits : s \in DOMAIN m}})
IsUsed(k) == k[2] = "used"
IsHold(k) == k[2] \in {"held", "active"}
UsedOf(heldKey) == [heldKey EXCEPT ![2] = "used"]
Live(id) == id \in DOMAIN db.tickets /\ clock < db.tickets[id].score

\* Counters stay within the integers a Lua number holds exactly (MaximumQuotaValue),
\* never negative; tickets, leases and settled requests are of known requests.
TypeOK ==
  /\ \A k \in DOMAIN db.counters : db.counters[k].n \in 0 .. MaxAccounting
  /\ DOMAIN db.tickets \cup DOMAIN db.settled \subseteq Request
  /\ \A s \in Scopes : /\ DOMAIN db.leases[s] \subseteq Request
                       /\ db.leases[s] # <<>> => db.leaseKeys[s] >= clock
  /\ clock \in 0 .. MaxTime

\* A held or active counter is exactly what the leases of its scope hold, or it has
\* expired and those leases are overdue: no script releases a hold twice, none leaks,
\* and no key outlives or predeceases what it counts.
HoldsMatchLeases ==
  \A s \in Scopes :
    LET leases == db.leases[s]
        held == SumOver(DOMAIN leases, LAMBDA id : LeaseBag(s, leases[id]))
        keys == {k \in DOMAIN db.counters \cup DOMAIN held : k[1] = s /\ IsHold(k)}
        Of(k) == {id \in DOMAIN leases : At(k, LeaseBag(s, leases[id])) > 0}
    IN \A k \in keys : \/ Value(db.counters, k) = At(k, held)
                       \/ k \notin DOMAIN db.counters /\ \A id \in Of(k) : leases[id].score <= clock

\* A ticket that has not expired can still be topped up and settled: its leases are there.
TicketsHaveLeases ==
  \A id \in Request : Live(id) => \A s \in DOMAIN db.tickets[id].limits :
    id \in DOMAIN db.leases[s] /\ db.leases[s][id].held = db.tickets[id].held

\* Usage is charged exactly once: a used amount is what the first Commit of each
\* reservation reported, for as long as its bucket is current, and never more.
ChargedOnce ==
  LET Current(k) == ~Expires(k) \/ k[5] = BucketAt(k[4], clock) IN
  /\ \A k \in {x \in DOMAIN db.counters : IsUsed(x)} :
       /\ db.counters[k].n <= At(k, history.billed)
       /\ Expires(k) = (db.counters[k].expires > 0)
  /\ \A k \in DOMAIN history.billed :
       Current(k) => Value(db.counters, k) = At(k, history.billed)

\* What the scripts' checks promise: what the unexpired reservations hold and what was
\* used stay within the limit, except for usage committed beyond a hold.
WithinLimits ==
  LET live == SumOver({id \in Request : Live(id)}, LAMBDA id :
                LET t == db.tickets[id] IN Joined(Holds(t.limits, t.at, t.held), ActiveBag(t.limits)))
  IN \A k \in DOMAIN live :
       IF k[2] = "active" THEN live[k] <= Largest(k[1], "parallel")
       ELSE Largest(k[1], k[3]) > 0 =>
              live[k] + Value(db.counters, UsedOf(k)) <= Largest(k[1], k[3]) + At(UsedOf(k), history.overrun)

\* "Idempotent quota reservation, top-up, commit, and refund": a reservation holds what
\* the distinct calls for it asked for.
TopUpIsIdempotent == \A id \in DOMAIN db.tickets : db.tickets[id].held = history.asked[id]
=============================================================================
