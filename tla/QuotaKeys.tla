----------------------------- MODULE QuotaKeys ------------------------------
(***************************************************************************)
(* The keys both quota stores account under, and the amounts a usage adds  *)
(* to them (store/store.go: resolveScopeReservations, quotaKeysForScope,   *)
(* quotaExpiriesForLimit).                                                 *)
(***************************************************************************)
EXTENDS Integers

CONSTANTS
  Minute,      \* length of a minute in ticks
  Day, Month,  \* lengths of a day and a month in ticks
  Grace        \* quotaBucketExpiryGrace

\* What the constants must satisfy.
QuotaKeysAssumption ==
  Minute \in Nat \ {0} /\ Day \in Nat \ {0} /\ Month \in Nat \ {0} /\ Grace \in Nat \ {0}

Without(f, S) == [k \in DOMAIN f \ S |-> f[k]]
With(f, key, v) == [k \in DOMAIN f \cup {key} |-> IF k = key THEN v ELSE f[k]]

NoUsage == [tokens |-> 0, spend |-> 0]
Plus(u, v) == [tokens |-> u.tokens + v.tokens, spend |-> u.spend + v.spend]

Dim == {"spend", "day", "month"}

\* The amount of a usage that counts in a dimension.
Amount(dim, usage) == IF dim = "spend" THEN usage.spend ELSE usage.tokens

\* LimitSpec: zero means no limit.  softSpend is observed, never enforced.
Limited(limit, dim) == IF dim = "spend" THEN limit.spend > 0 \/ limit.softSpend > 0
                       ELSE limit[dim] > 0

\* The length of a bucket; a budget without a duration never ends (0).
Period(limit, dim) ==
  CASE dim = "spend" -> limit.budget [] dim = "day" -> Day [] dim = "month" -> Month

\* budgetBucketStart, and the UTC day and month of t, as a bucket number.
BucketAt(period, t) == IF period = 0 THEN 0 ELSE t \div period
MinuteAt(t) == t \div Minute

\* now plus timeUntilNextMinute.
EndOfMinute(t) == (MinuteAt(t) + 1) * Minute

\* quotaKeysForScope, for a reservation made at time t.
ActiveKey(s) == <<s, "active">>
UsedKey(s, dim, period, t) == <<s, "used", dim, period, BucketAt(period, t)>>
HeldKey(s, dim, period, t) == <<s, "held", dim, period, BucketAt(period, t)>>
RateKey(s, kind, t) == <<s, kind, MinuteAt(t)>>

\* quotaExpiriesForLimit: a used key expires when its bucket is over and the grace
\* period has passed; a key of a budget without duration never does.
Expires(usedKey) == usedKey[4] > 0
UsedExpiry(usedKey) == (usedKey[5] + 1) * usedKey[4] + Grace

\* What a usage adds, for a reservation made at time t, to the keys of the scopes
\* and dimensions that have a limit.
UsageBag(limits, usage, Key(_, _, _, _), t) ==
  LET pairs == {x \in (DOMAIN limits) \X Dim : Limited(limits[x[1]], x[2]) /\ Amount(x[2], usage) > 0}
      keys == {Key(x[1], x[2], Period(limits[x[1]], x[2]), t) : x \in pairs}
  IN [k \in keys |-> Amount(k[3], usage)]

HoldBag(limits, t, usage) == UsageBag(limits, usage, HeldKey, t)
UseBag(limits, t, usage) == UsageBag(limits, usage, UsedKey, t)
ActiveBag(limits) == [k \in {ActiveKey(s) : s \in {x \in DOMAIN limits : limits[x].parallel > 0}} |-> 1]

\* The tokens of a usage by tpm key, for a reservation made at time t.
TokenBag(limits, t, usage) ==
  [k \in {RateKey(s, "tpm", t) : s \in {x \in DOMAIN limits : limits[x].tpm > 0 /\ usage.tokens > 0}}
     |-> usage.tokens]

\* exceedsLimit.
Exceeds(limit, total) == limit > 0 /\ total > limit
=============================================================================
