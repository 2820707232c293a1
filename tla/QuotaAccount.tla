---------------------------- MODULE QuotaAccount ----------------------------
(***************************************************************************)
(* The quota account of one request: the quota interceptor                 *)
(* (policy/quota.go: Wrap, settleReserved, startReservationRenewal) around *)
(* the provider attempts of Engine.dispatch and invoke (gateway/gateway.go),*)
(* with the request's AttemptUsageAccumulator (gateway/usage.go).          *)
(*                                                                         *)
(* The request reserves nothing at first, tops its reservation up before   *)
(* each provider attempt, hands the unused part of an attempt to the next  *)
(* one as credit, renews the reservation while it lives, and settles it    *)
(* once: Commit of the total usage, or Refund.  Calls to the store may be  *)
(* refused, or take effect and lose their reply, as they may with Redis.   *)
(*                                                                         *)
(* Tokens and spend go through the same minima, maxima and sums, so an     *)
(* amount is one number here.                                              *)
(***************************************************************************)
EXTENDS Integers, FiniteSets, Functions

CONSTANTS
  MaxAttempts,  \* provider attempts, retries and fallbacks included
  Estimates,    \* what an attempt may be estimated to use
  Reports,      \* what a provider may report to have used
  MaxMissed     \* renewals that may fail in a row before the reservation expires

ASSUME QuotaAccountAssumption ==
  /\ MaxAttempts \in Nat \ {0} /\ MaxMissed \in Nat \ {0}
  /\ Estimates \subseteq Nat /\ Reports \subseteq Nat

VARIABLES
  pc,        \* where the request is
  n,         \* the attempt it is at
  reserve, credit,
  records,   \* reservedAttempts: the estimate of each recorded attempt
  entries,   \* the usage accumulator: charge and final, per attempt begun
  stream,    \* of a streamed result: is its usage still to be completed?
  renewal,   \* the renewal goroutine
  cancelled, \* stopRenewal has cancelled it
  missed,    \* renewals that failed since the reservation was last extended
  settlement,\* what settleReserved is called with
  store,     \* the reservation in the store
  lost       \* amount the store holds that the request does not know of

vars == <<pc, n, reserve, credit, records, entries, stream, renewal, cancelled, missed,
          settlement, store, lost>>

Attempt == 1 .. MaxAttempts

PC == {"start", "denied", "dispatch", "reserved", "calling", "returned", "failed",
       "stopping", "topup", "settle", "done"}

Charge == [i \in DOMAIN entries |-> entries[i].charge]

\* TotalAttemptUsage, and the charges before attempt i.
Total == SumFunction(Charge)
TotalBefore(i) == SumFunctionOnSet(Charge, {j \in DOMAIN entries : j < i})

With(f, i, v) == [j \in DOMAIN f \cup {i} |-> IF j = i THEN v ELSE f[j]]
Without(f, i) == [j \in DOMAIN f \ {i} |-> f[j]]
Pos(x) == IF x > 0 THEN x ELSE 0

Init ==
  /\ pc = "start" /\ n = 1
  /\ reserve = 0 /\ credit = 0 /\ records = <<>> /\ entries = <<>> /\ stream = "none"
  /\ renewal = "off" /\ cancelled = FALSE /\ missed = 0
  /\ settlement = [exec |-> FALSE, actual |-> 0, commit |-> FALSE, short |-> FALSE]
  /\ store = [state |-> "none", held |-> 0, charged |-> 0]
  /\ lost = 0

-----------------------------------------------------------------------------
(* The store, as its callers see it.                                       *)

\* TopUp(amount) succeeds.
TopUpOK(amount) ==
  /\ store.state = "open"
  /\ store' = [store EXCEPT !.held = @ + amount]
  /\ missed' = 0
  /\ UNCHANGED lost

\* TopUp(amount) is refused, fails or finds no reservation.
TopUpFails(amount) == UNCHANGED <<store, missed, lost>>

\* TopUp(amount) takes effect, and the caller is told it failed.
TopUpLost(amount) ==
  /\ store.state = "open"
  /\ store' = [store EXCEPT !.held = @ + amount]
  /\ missed' = 0
  /\ lost' = lost + amount

Quiet == UNCHANGED <<store, missed, lost>>

\* The reservation expires: nothing has extended it for its time to live.
Expire ==
  /\ store.state = "open"
  /\ missed = MaxMissed \/ renewal \in {"off", "done"}
  /\ pc \notin {"start"}
  /\ store' = [store EXCEPT !.state = "expired"]
  /\ UNCHANGED <<pc, n, reserve, credit, records, entries, stream, renewal, cancelled, missed,
                 settlement, lost>>

-----------------------------------------------------------------------------
\* Wrap: the request-level reservation, of nothing.
Admit ==
  /\ pc = "start"
  /\ store' = [store EXCEPT !.state = "open"]
  /\ \/ pc' = "dispatch" /\ renewal' = "waiting"
     \/ pc' = "denied" /\ UNCHANGED renewal          \* the reply was lost
  /\ UNCHANGED <<n, reserve, credit, records, entries, stream, cancelled, missed, settlement, lost>>

Deny ==
  /\ pc = "start"
  /\ pc' = "denied"
  /\ UNCHANGED <<n, reserve, credit, records, entries, stream, renewal, cancelled, missed,
                 settlement, store, lost>>

\* dispatch and the retry loop: after an error, the next attempt or the end.
NextAttemptOr(fallback) ==
  \/ pc' = "failed" /\ UNCHANGED n
  \/ fallback /\ n < MaxAttempts /\ pc' = "dispatch" /\ n' = n + 1

\* Mutant of ReserveAttempt: the whole estimate is added to the reserve.
ReserveAttemptWhole(estimate) ==
  LET used == IF estimate < credit THEN estimate ELSE credit
      applied == estimate - used
  IN /\ pc = "dispatch"
     /\ \/ /\ IF applied > 0 THEN TopUpOK(applied) ELSE Quiet
           /\ credit' = credit - used
           /\ records' = With(records, n, estimate)
           /\ reserve' = reserve + estimate
           /\ pc' = "reserved" /\ UNCHANGED n
        \/ /\ applied > 0
           /\ \/ TopUpFails(applied) /\ NextAttemptOr(TRUE)
              \/ TopUpLost(applied) /\ NextAttemptOr(FALSE)
           /\ UNCHANGED <<credit, records, reserve>>
     /\ UNCHANGED <<entries, stream, renewal, cancelled, settlement>>

\* Mutant of ReserveAttempt: all of the credit is taken for the estimate.
ReserveAttemptOverdraws(estimate) ==
  LET used == IF estimate < credit THEN estimate ELSE credit
      applied == estimate - used
  IN /\ pc = "dispatch"
     /\ \/ /\ IF applied > 0 THEN TopUpOK(applied) ELSE Quiet
           /\ credit' = credit - estimate
           /\ records' = With(records, n, estimate)
           /\ reserve' = reserve + applied
           /\ pc' = "reserved" /\ UNCHANGED n
        \/ /\ applied > 0
           /\ \/ TopUpFails(applied) /\ NextAttemptOr(TRUE)
              \/ TopUpLost(applied) /\ NextAttemptOr(FALSE)
           /\ UNCHANGED <<credit, records, reserve>>
     /\ UNCHANGED <<entries, stream, renewal, cancelled, settlement>>

\* The attempt reservation callback: consume credit, top up the rest.
ReserveAttempt(estimate) ==
  LET used == IF estimate < credit THEN estimate ELSE credit
      applied == estimate - used
  IN /\ pc = "dispatch"
     /\ \/ /\ IF applied > 0 THEN TopUpOK(applied) ELSE Quiet
           /\ credit' = credit - used
           /\ records' = With(records, n, estimate)
           /\ reserve' = reserve + applied
           /\ pc' = "reserved" /\ UNCHANGED n
        \/ /\ applied > 0
           /\ \/ TopUpFails(applied) /\ NextAttemptOr(TRUE)
              \/ TopUpLost(applied) /\ NextAttemptOr(FALSE)
           /\ UNCHANGED <<credit, records, reserve>>
     /\ UNCHANGED <<entries, stream, renewal, cancelled, settlement>>

\* Mutant of Released: the record is left behind.
ReleasedKeepsRecord ==
  /\ records' = records
  /\ credit' = IF n \in DOMAIN records THEN credit + records[n] ELSE credit

\* The attempt reservation release callback; without a record it does nothing.
Released ==
  /\ records' = Without(records, n)
  /\ credit' = IF n \in DOMAIN records THEN credit + records[n] ELSE credit

\* WrapAttempt: the route's rate limits refuse the attempt.
RatesRefuse ==
  /\ pc = "reserved"
  /\ Released
  /\ NextAttemptOr(TRUE)
  /\ UNCHANGED <<reserve, entries, stream, renewal, cancelled, settlement, store, missed, lost>>

\* invoke: the usage entry begins with the estimate as its charge.
CallProvider ==
  /\ pc = "reserved"
  /\ entries' = With(entries, n, [charge |-> records[n], final |-> FALSE])
  /\ pc' = "calling"
  /\ UNCHANGED <<n, reserve, credit, records, stream, renewal, cancelled, settlement, store,
                 missed, lost>>

\* Mutant of Completed: a later completion overwrites a final one.
CompletedAgain(i, usage) ==
  IF i \in DOMAIN entries
  THEN [entries EXCEPT ![i] = [charge |-> IF usage = 0 THEN @.charge ELSE usage, final |-> TRUE]]
  ELSE entries

\* AttemptUsageAccumulator.complete: the first completion is final.  A report of
\* nothing leaves the estimate (ReconcileReportedUsage).
Completed(i, usage) ==
  IF i \in DOMAIN entries /\ ~entries[i].final
  THEN [entries EXCEPT ![i] = [charge |-> IF usage = 0 THEN @.charge ELSE usage, final |-> TRUE]]
  ELSE entries

\* invoke: nothing was sent upstream.  The engine releases the reservation and
\* WrapAttempt releases it again.
ProviderUnbillable ==
  /\ pc = "calling"
  /\ entries' = Without(entries, n)
  /\ Released
  /\ NextAttemptOr(TRUE)
  /\ UNCHANGED <<reserve, stream, renewal, cancelled, settlement, store, missed, lost>>

\* invoke: a failure (or panic) without usage is charged as estimated.  The attempt
\* keeps its record.
ProviderFails ==
  /\ pc = "calling"
  /\ entries' = Completed(n, 0)
  /\ NextAttemptOr(TRUE)
  /\ UNCHANGED <<reserve, credit, records, stream, renewal, cancelled, settlement, store, missed,
                 lost>>

\* Mutant of ProviderFailsWithUsage: the whole estimate becomes credit again.
ProviderFailsAllCredit(usage) ==
  LET overage == Pos(usage - records[n]) IN
  /\ pc = "calling" /\ usage > 0
  /\ entries' = Completed(n, usage)
  /\ \/ /\ IF overage > 0 THEN TopUpOK(overage) ELSE Quiet
        /\ reserve' = reserve + overage
        /\ records' = Without(records, n)
        /\ credit' = credit + records[n]
        /\ NextAttemptOr(TRUE)
     \/ /\ overage > 0
        /\ TopUpFails(overage) \/ TopUpLost(overage)
        /\ NextAttemptOr(FALSE)
        /\ UNCHANGED <<reserve, records, credit>>
  /\ UNCHANGED <<stream, renewal, cancelled, settlement>>

\* invoke and the reconcile callback: a failure that reports its usage.  An overage
\* is topped up, or ends the request; what was not used becomes credit.
ProviderFailsWithUsage(usage) ==
  LET overage == Pos(usage - records[n]) IN
  /\ pc = "calling" /\ usage > 0
  /\ entries' = Completed(n, usage)
  /\ \/ /\ IF overage > 0 THEN TopUpOK(overage) ELSE Quiet
        /\ reserve' = reserve + overage
        /\ records' = Without(records, n)
        /\ credit' = credit + Pos(records[n] - usage)
        /\ NextAttemptOr(TRUE)
     \/ /\ overage > 0
        /\ TopUpFails(overage) \/ TopUpLost(overage)
        /\ NextAttemptOr(FALSE)
        /\ UNCHANGED <<reserve, records, credit>>
  /\ UNCHANGED <<stream, renewal, cancelled, settlement>>

\* invoke: a unary result is complete, a stream's usage is not known yet.
ProviderReturns(usage) ==
  /\ pc = "calling"
  /\ \/ entries' = Completed(n, usage) /\ UNCHANGED stream
     \/ stream' = "open" /\ UNCHANGED entries
  /\ pc' = "returned"
  /\ UNCHANGED <<n, reserve, credit, records, renewal, cancelled, settlement, store, missed, lost>>

\* attemptUsageReadCloser: end of stream, a read error or a close by any goroutine
\* completes the usage, before or after the request is settled.
StreamCompletes(usage) ==
  /\ stream = "open"
  /\ stream' = "ended"
  /\ entries' = Completed(n, usage)
  /\ UNCHANGED <<pc, n, reserve, credit, records, renewal, cancelled, missed, settlement, store, lost>>

-----------------------------------------------------------------------------
(* The renewal goroutine.                                                  *)

RenewUnchanged == UNCHANGED <<pc, n, reserve, credit, records, entries, stream, cancelled, settlement>>

RenewStart ==
  /\ renewal = "waiting" /\ ~cancelled
  /\ renewal' = "calling"
  /\ UNCHANGED <<store, missed, lost>> /\ RenewUnchanged

\* TopUp of nothing extends the reservation, or fails; the loop goes on.
RenewReturns ==
  /\ renewal = "calling"
  /\ renewal' = "waiting"
  /\ \/ TopUpOK(0)
     \/ missed' = (IF missed < MaxMissed THEN missed + 1 ELSE missed) /\ UNCHANGED <<store, lost>>
  /\ RenewUnchanged

\* Mutant of RenewEnds: the goroutine returns without reporting on its channel.
RenewEndsSilently ==
  /\ renewal = "waiting"
  /\ renewal' = "off"
  /\ UNCHANGED <<store, missed, lost>> /\ RenewUnchanged

\* It ends when cancelled, or at the maximum lifetime.
RenewEnds ==
  /\ renewal = "waiting"
  /\ renewal' = "done"
  /\ UNCHANGED <<store, missed, lost>> /\ RenewUnchanged

-----------------------------------------------------------------------------
(* Settlement: the error and panic paths of Wrap, and exec.Finalize.        *)

\* Mutant of StopRenewal: it waits for the goroutine without cancelling it.
StopRenewalWaits ==
  /\ pc \in {"returned", "failed"}
  /\ cancelled' = cancelled
  /\ settlement' = [settlement EXCEPT !.exec = (pc = "returned")]
  /\ pc' = "stopping"
  /\ UNCHANGED <<n, reserve, credit, records, entries, stream, renewal, missed, store, lost>>

\* stopRenewal cancels the goroutine and waits for it.
StopRenewal ==
  /\ pc \in {"returned", "failed"}
  /\ cancelled' = TRUE
  /\ settlement' = [settlement EXCEPT !.exec = (pc = "returned")]
  /\ pc' = "stopping"
  /\ UNCHANGED <<n, reserve, credit, records, entries, stream, renewal, missed, store, lost>>

\* Mutant of SettleFailure: a failed request is refunded whatever its attempts used.
SettleFailureRefunds ==
  /\ pc = "stopping" /\ renewal = "done" /\ ~settlement.exec
  /\ settlement' = [settlement EXCEPT !.actual = Total, !.commit = FALSE]
  /\ pc' = "topup"
  /\ UNCHANGED <<n, reserve, credit, records, entries, stream, renewal, cancelled, missed, store, lost>>

\* Without an execution, the total of the attempts is committed if there is any.
SettleFailure ==
  /\ pc = "stopping" /\ renewal = "done" /\ ~settlement.exec
  /\ settlement' = [settlement EXCEPT !.actual = Total, !.commit = Total > 0]
  /\ pc' = "topup"
  /\ UNCHANGED <<n, reserve, credit, records, entries, stream, renewal, cancelled, missed, store, lost>>

\* Finalize: complete the last attempt, then commit unless a unary response failed
\* with nothing used.
SettleExecution(usage, callErr) ==
  LET total == SumFunction([i \in DOMAIN entries' |-> entries'[i].charge])
      settled == IF total > 0 THEN total ELSE usage
  IN /\ pc = "stopping" /\ renewal = "done" /\ settlement.exec
     /\ entries' = Completed(n, usage)
     /\ settlement' = [settlement EXCEPT
                         !.actual = settled,
                         !.commit = ~callErr \/ stream # "none" \/ settled > 0]
     /\ pc' = "topup"
     /\ UNCHANGED <<n, reserve, credit, records, stream, renewal, cancelled, missed, store, lost>>

\* settleReserved: top up to the actual usage; a failure does not stop the commit.
SettleTopUp ==
  LET delta == IF settlement.commit THEN Pos(settlement.actual - reserve) ELSE 0 IN
  /\ pc = "topup"
  /\ \/ /\ IF delta > 0 THEN TopUpOK(delta) ELSE Quiet
        /\ UNCHANGED settlement
     \/ /\ delta > 0
        /\ TopUpFails(delta) \/ TopUpLost(delta)
        /\ settlement' = [settlement EXCEPT !.short = TRUE]
  /\ pc' = "settle"
  /\ UNCHANGED <<n, reserve, credit, records, entries, stream, renewal, cancelled>>

\* Commit or Refund, tried once; its reply changes nothing here.
SettleStore ==
  /\ pc = "settle"
  /\ \/ /\ store.state = "open"
        /\ store' = IF settlement.commit
                    THEN [store EXCEPT !.state = "committed", !.charged = settlement.actual]
                    ELSE [store EXCEPT !.state = "refunded"]
     \/ UNCHANGED store
  /\ pc' = "done"
  /\ UNCHANGED <<n, reserve, credit, records, entries, stream, renewal, cancelled, missed,
                 settlement, lost>>

Next ==
  \/ Admit \/ Deny
  \/ \E e \in Estimates : ReserveAttempt(e)
  \/ RatesRefuse \/ CallProvider
  \/ ProviderUnbillable \/ ProviderFails
  \/ \E u \in Reports : ProviderFailsWithUsage(u)
  \/ \E u \in Reports : ProviderReturns(u)
  \/ \E u \in Reports : StreamCompletes(u)
  \/ RenewStart \/ RenewReturns \/ RenewEnds
  \/ StopRenewal \/ SettleFailure
  \/ \E u \in Reports, callErr \in BOOLEAN : SettleExecution(u, callErr)
  \/ SettleTopUp \/ SettleStore
  \/ Expire

Spec == Init /\ [][Next]_vars

\* The request and the renewal goroutine run; a reservation nobody extends expires.
\* The renewal's own calls return: they have a deadline of their own.
Request ==
  \/ Admit \/ Deny
  \/ \E e \in Estimates : ReserveAttempt(e)
  \/ RatesRefuse \/ CallProvider
  \/ ProviderUnbillable \/ ProviderFails
  \/ \E u \in Reports : ProviderFailsWithUsage(u) \/ ProviderReturns(u)
  \/ StopRenewal \/ SettleFailure
  \/ \E u \in Reports, callErr \in BOOLEAN : SettleExecution(u, callErr)
  \/ SettleTopUp \/ SettleStore
FairSpec == Spec /\ WF_vars(Request) /\ WF_vars(RenewReturns) /\ WF_vars(cancelled /\ RenewEnds)
                 /\ WF_vars(Expire)

-----------------------------------------------------------------------------
\* Reserve, credit and charges never go negative, and an account has records and usage
\* only of attempts it has begun (quota.go:78-156).
TypeOK ==
  /\ pc \in PC /\ n \in Attempt
  /\ reserve \in Nat /\ credit \in Nat /\ lost \in Nat
  /\ DOMAIN records \subseteq 1 .. n /\ DOMAIN entries \subseteq 1 .. n
  /\ \A i \in DOMAIN records : records[i] \in Nat
  /\ \A i \in DOMAIN entries : entries[i].charge \in Nat /\ entries[i].final \in BOOLEAN
  /\ stream \in {"none", "open", "ended"}
  /\ renewal \in {"off", "waiting", "calling", "done"}
  /\ cancelled \in BOOLEAN /\ missed \in 0 .. MaxMissed
  /\ store.state \in {"none", "open", "committed", "refunded", "expired"}

\* What the account has reserved is, at every step, its credit, the estimates of the
\* recorded attempts and the charges of the reconciled ones: no order of releases,
\* reconciliations, retries and failed top-ups makes up or loses an amount.  The store
\* holds that reserve, plus what was applied by calls whose reply was lost.
ReserveIsHeld ==
  LET reconciled == {i \in DOMAIN entries : i \notin DOMAIN records}
  IN /\ TypeOK
     /\ reserve = credit + SumFunction(records) + SumFunctionOnSet(Charge, reconciled)
     /\ store.state = "open" /\ pc \notin {"settle", "done"} => store.held = reserve + lost

\* Whenever a provider is at work, the hold covers its estimate together with all
\* that earlier attempts were charged ("Each provider call is topped up immediately
\* before dispatch").
WorkIsCovered ==
  pc = "calling" => TotalBefore(n) + records[n] <= reserve

\* A commit charges what the attempts used, no later completion of the stream's usage
\* changes that, and unless the last top-up failed the hold was enough for it; a refund
\* forgets no provider work (settleReserved).
SettlesWhatWasUsed ==
  /\ store.state = "committed" =>
       /\ Total > 0 => store.charged = Total
       /\ settlement.short \/ store.charged <= store.held
  /\ store.state = "refunded" => Total = 0

\* No reservation is left behind: it is committed, refunded or expires, also when the
\* reply to Reserve or to the settlement was lost.
HoldsEnd == store.state = "open" ~> store.state # "open"

\* An admitted request is settled even while the store keeps failing.
RequestSettles == pc = "dispatch" ~> pc = "done"
=============================================================================
