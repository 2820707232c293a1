------------------------------ MODULE MCStores ------------------------------
(***************************************************************************)
(* The stores a gateway keeps quotas and slots in (buildStores): quotas in *)
(* memory or in Redis, slots in Redis.  Which store it is, and with which  *)
(* limits, is chosen at the start; the two quota stores have the same      *)
(* interface and use the same variables.                                   *)
(***************************************************************************)
EXTENDS Integers, TLC

CONSTANTS r1, r2, tenant, user, a1, a2, route1, provider

VARIABLES store,  \* "budgets", "rates", "metered", "nested" or "slots"
          db, clock, history,
          leases, keyTTL, wire, reply, pc, lease

quotaVars == <<db, clock, history>>
slotVars == <<leases, keyTTL, wire, reply, pc, lease>>

NoLimit == [parallel |-> 0, rpm |-> 0, tpm |-> 0, spend |-> 0, softSpend |-> 0, budget |-> 0,
            day |-> 0, month |-> 0]
Budget(ticks) == [NoLimit EXCEPT !.spend = 2, !.budget = ticks]

Usage(n) == [tokens |-> n, spend |-> n]
NoneOrOne == {Usage(0), Usage(1)}

-----------------------------------------------------------------------------
(* In memory.                                                               *)

\* A tenant with a budget that renews every two ticks, and a user of the tenant with a
\* daily allowance: a request belongs to the tenant alone or to both.
UserAllowance == [NoLimit EXCEPT !.parallel = 1, !.softSpend = 1, !.day = 1]
Budgets ==
  INSTANCE QuotaStore WITH
    Request <- {r1, r2},
    ScopedLimits <- {tenant :> Budget(2), (tenant :> Budget(2)) @@ (user :> UserAllowance)},
    Estimates <- {Usage(1)}, Actuals <- {Usage(0), Usage(2)}, TTL <- 2,
    Minute <- 1, Day <- 3, Month <- 6, Grace <- 1, ReplayWindow <- 1, MaxSettlements <- 3, MaxTime <- 3

\* A tenant with per-minute limits, before and after its rpm was lowered; the settlement
\* list is full with one entry.
PerMinute == [NoLimit EXCEPT !.rpm = 2, !.tpm = 2]
Rates ==
  INSTANCE QuotaStore WITH
    Request <- {r1, r2},
    ScopedLimits <- {tenant :> PerMinute, tenant :> [PerMinute EXCEPT !.rpm = 1]},
    Estimates <- NoneOrOne, Actuals <- {Usage(2)}, TTL <- 2,
    Minute <- 2, Day <- 3, Month <- 6, Grace <- 1, ReplayWindow <- 2, MaxSettlements <- 1, MaxTime <- 3

-----------------------------------------------------------------------------
(* In Redis.                                                                *)

\* A tenant with a budget that renews every three ticks and every other limit at once.
Metered ==
  INSTANCE RedisQuota WITH
    Request <- {r1, r2},
    ScopedLimits <- {tenant :> [Budget(3) EXCEPT !.parallel = 2, !.rpm = 2, !.tpm = 3]},
    Estimates <- NoneOrOne, Actuals <- {Usage(2)}, TTLs <- {1, 2}, MaxAccounting <- 3,
    Minute <- 2, Day <- 3, Month <- 6, Grace <- 3, ReplayWindow <- 1,
    MaxLag <- 0, Resends <- FALSE, MaxTime <- 3

\* Two nested scopes; keys expire, leases go overdue, calls are repeated.
UserSlots == [NoLimit EXCEPT !.parallel = 1, !.rpm = 2, !.tpm = 3]
Nested ==
  INSTANCE RedisQuota WITH
    Request <- {r1, r2},
    ScopedLimits <- {tenant :> Budget(3), (tenant :> Budget(3)) @@ (user :> UserSlots)},
    Estimates <- {Usage(1)}, Actuals <- {Usage(2)}, TTLs <- {2}, MaxAccounting <- 3,
    Minute <- 2, Day <- 3, Month <- 6, Grace <- 3, ReplayWindow <- 1,
    MaxLag <- 0, Resends <- FALSE, MaxTime <- 4

\* A Reserve is under way for a while after it has read the time.
Lagging ==
  INSTANCE RedisQuota WITH
    Request <- {r1, r2}, ScopedLimits <- {tenant :> Budget(3)},
    Estimates <- {Usage(1)}, Actuals <- {Usage(2)}, TTLs <- {3}, MaxAccounting <- 9,
    Minute <- 2, Day <- 3, Month <- 6, Grace <- 2, ReplayWindow <- 1,
    MaxLag <- 2, Resends <- FALSE, MaxTime <- 7

\* The client repeats a top-up whose reply it did not see.
Resending ==
  INSTANCE RedisQuota WITH
    Request <- {r1, r2}, ScopedLimits <- {tenant :> Budget(3)},
    Estimates <- NoneOrOne, Actuals <- {Usage(2)}, TTLs <- {2}, MaxAccounting <- 9,
    Minute <- 2, Day <- 3, Month <- 6, Grace <- 2, ReplayWindow <- 1,
    MaxLag <- 0, Resends <- TRUE, MaxTime <- 3

-----------------------------------------------------------------------------
(* Slots in Redis.                                                          *)

\* Two attempts on one limited route; the second's route has the longer timeout.
Slots ==
  INSTANCE RedisSlots WITH
    Attempt <- {a1, a2}, Bucket <- {route1, provider},
    BucketsOf <- [a \in {a1, a2} |-> <<route1, provider>>],
    Limit <- (route1 :> 1) @@ (provider :> 0), TTL <- (a1 :> 9) @@ (a2 :> 12),
    MinInterval <- 1, MaxInterval <- 3, CallTimeout <- 1

-----------------------------------------------------------------------------
ASSUME StoresAssumption ==
  /\ Budgets!QuotaStoreAssumption /\ Rates!QuotaStoreAssumption
  /\ Metered!RedisQuotaAssumption /\ Nested!RedisQuotaAssumption
  /\ Lagging!RedisQuotaAssumption /\ Resending!RedisQuotaAssumption
  /\ Slots!RedisSlotsAssumption

Init ==
  /\ Slots!Init
  /\ \/ store = "budgets" /\ Budgets!Init
     \/ store = "rates" /\ Rates!Init
     \/ store \in {"metered", "slots"} /\ Metered!Init
     \/ store = "nested" /\ Nested!Init

Next ==
  /\ UNCHANGED store
  /\ \/ /\ \/ store = "budgets" /\ Budgets!Next
           \/ store = "rates" /\ Rates!Next
           \/ store = "metered" /\ Metered!Next
           \/ store = "nested" /\ Nested!Next
        /\ UNCHANGED slotVars
     \/ store = "slots" /\ Slots!Next /\ UNCHANGED quotaVars

allVars == <<store, quotaVars, slotVars>>
Spec == Init /\ [][Next]_allVars

\* Redis again, with calls that take time and calls that are repeated.
FaultInit ==
  /\ Slots!Init
  /\ \/ store = "lagging" /\ Lagging!Init
     \/ store = "resending" /\ Resending!Init

FaultNext ==
  /\ UNCHANGED <<store, slotVars>>
  /\ \/ store = "lagging" /\ Lagging!Next
     \/ store = "resending" /\ Resending!Next

FaultSpec == FaultInit /\ [][FaultNext]_allVars

RequestSymmetry == Permutations({r1, r2})
-----------------------------------------------------------------------------
\* Every hold has an owner.  In memory the held amounts and the parallel counts are, key by
\* key, exactly what the open reservations hold: through top-ups, settlements and expiries,
\* across bucket boundaries and changed limits, applyScopeHold and releaseHold never leak a
\* hold and never take away another request's.  In Redis a held or active counter is
\* exactly what the leases of its scope hold, or it has expired and those leases are
\* overdue, and a ticket that has not expired still has its leases, so that it can be
\* topped up and settled (redisQuotaReserveScript, redisQuotaTopUpScript).
HoldsHaveOwners ==
  /\ store = "budgets" => Budgets!TypeOK /\ Budgets!HoldsMatchReservations
  /\ store = "metered" => Metered!TypeOK /\ Metered!HoldsMatchLeases /\ Metered!TicketsHaveLeases
  /\ store = "nested" => Nested!TypeOK /\ Nested!HoldsMatchLeases /\ Nested!TicketsHaveLeases

\* Usage is charged exactly once in either store: however often Commit and Refund are
\* repeated, a used amount never exceeds what the first Commit of each reservation
\* reported, and equals that for as long as its bucket is current.
ChargedOnce ==
  /\ store = "budgets" => Budgets!ChargedOnce
  /\ store = "metered" => Metered!ChargedOnce

\* What the checks of Reserve and TopUp promise: used plus held stays within the limit of
\* its budget, except for what was committed beyond a reservation's own hold; no more
\* reservations are open in a scope than its parallel limit; and no more requests were
\* admitted in any minute than its rpm, whatever was settled, expired or cleaned up.
WithinLimits ==
  /\ store = "rates" => Rates!RequestsPerMinute
  /\ store = "budgets" => Budgets!WithinLimits
  /\ store = "metered" => Metered!WithinLimits
  /\ store = "nested" => Nested!WithinLimits
  /\ store = "lagging" => Lagging!WithinLimits

\* The current minute's token counter in memory is exactly the tokens its open
\* reservations hold plus the tokens its settled ones used: addCounter and
\* reconcileCounter lose nothing to each other or to the cleanup.  Only tokens committed
\* by a reservation that held none may be missing.
TokenCounterIsExact == store = "rates" => Rates!TypeOK /\ Rates!TokenCounterIsExact

\* A settled or expired request ID is not admitted again within the replay window, unless
\* maxMemorySettlements other requests were settled after it.
NoReplayInWindow == [][store = "rates" => Rates!AdmitsNoReplay]_quotaVars

\* The tokens open requests were granted during the current minute stay within tpm
\* (the documented meaning of the limit).  TopUp checks the minute of the reservation
\* instead, so a request carried over a minute boundary is granted tokens the new
\* minute's counter never sees.
TokensPerMinute == store = "rates" => Rates!TokensPerMinute

\* "Idempotent quota reservation, top-up, commit, and refund": a reservation in Redis
\* holds what the distinct calls for it asked for.
TopUpIsIdempotent == store = "resending" => Resending!TopUpIsIdempotent

\* The limit the operator configured: attempts that were granted a slot, and whose renewals
\* got through at least every other time, never exceed the bucket's limit, across any
\* number of gateway instances.  Such a lease stays in Redis until its release: another
\* attempt's shorter lease, a full bucket, the key's own expiry or a late reply never take
\* it away; and a renewal that still has a caller never brings a released one back
\* (redisAcquireSlotScript, the ttl / 3 interval and the join of acquireDistributedLimiter).
UpstreamWithinLimit ==
  store = "slots" => /\ Slots!TypeOK /\ Slots!UpstreamWithinLimit
                     /\ Slots!RenewedLeaseSurvives /\ Slots!RenewalNeverResurrects
=============================================================================
