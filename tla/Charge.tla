------------------------------- MODULE Charge -------------------------------
(***************************************************************************)
(* What one request is charged: the estimate each candidate route is given *)
(* before any call (policy/token.go), the attempts made on them, the usage *)
(* providers report in a body, an error or a stream of snapshots, and the  *)
(* total the request is settled at (gateway/usage.go).  Attempts of one    *)
(* request run one after the other; a stream may still be open when the    *)
(* request is settled.  UsageMath has the arithmetic.                      *)
(***************************************************************************)
EXTENDS UsageMath, Sequences, Functions

CONSTANTS Attempt,      \* attempts of the request
          Requests,     \* [count, text, hint, body, max, n, parts, cache, units, embed]
          Routes,       \* [approx, maxOut, surcharge, maxUnits, pricing]; maxOut is 256 if undeclared
          Counts,       \* what a provider's token counter may answer
          Reports,      \* what a provider may report
          MaxSnapshots, \* bound: snapshots of one stream
          Limits,       \* spend limits the total is held against
          None          \* no answer, not settled

VARIABLES request,  \* the request
          route,    \* route[a]: the route of attempt a
          phase,    \* phase[a]: "idle", "estimated", "open", "cancelled", "final"
          est,      \* est[a]: route.Estimate
          report,   \* report[a]: usage reported so far, merged
          snaps,    \* snaps[a]: snapshots seen
          partial,  \* partial[a]: the final report was a partial one
          charge,   \* charge[a]: entries[a].charge
          settled   \* the total settled, or None

vars == <<request, route, phase, est, report, snaps, partial, charge, settled>>

-----------------------------------------------------------------------------
(* The estimate                                                            *)

FirstPositive(s) == LET I == {i \in DOMAIN s : s[i] > 0} IN s[Min(I)]

\* The tokenizer's count, with a margin where it is an approximation, else
\* ever cruder measures; never zero.
EstimateInput(req, r) ==
  FirstPositive(<<IF r.approx THEN SaturatingTokenMargin(req.count, 5, 4) ELSE req.count,
                  req.text, req.hint,
                  IF req.body > 0 THEN Larger(req.body \div 4, 1) ELSE 0, 1>>)

EstimateUsage(req, r) ==
  LET in == EstimateInput(req, r)
      out == IF req.embed THEN 0 ELSE req.max
  IN  [NoUsage EXCEPT !.in = in, !.out = out, !.total = SaturatingAdd(in, out)]

WantedOutput(req, r) ==
  IF req.max > 0 THEN req.max ELSE r.maxOut

ReserveOneOutput(u, req, r) ==
  LET out == Larger(u.out, WantedOutput(req, r))
  IN  [u EXCEPT !.out = out, !.total = Larger(@, SaturatingAdd(u.in, out))]

\* Every completion asked for may be as long as the route allows.
ReserveCandidateOutput(u, req, r) ==
  IF req.embed
  THEN [u EXCEPT !.out = 0, !.total = Larger(@, u.in)]
  ELSE LET out == Larger(u.out, SaturatingMultiply(WantedOutput(req, r), Larger(req.n, 1)))
       IN  [u EXCEPT !.out = out, !.total = Larger(@, SaturatingAdd(u.in, out))]

AddMultimodalSurcharges(u, req, r) ==
  LET extra == SaturatingMultiply(req.parts, r.surcharge)
      in == SaturatingAdd(u.in, extra)
  IN  [u EXCEPT !.in = in,
                !.total = Larger(SaturatingAdd(@, extra), SaturatingAdd(in, u.out))]

AddProviderUnits(u, req, r) ==
  [u EXCEPT !.units = [k \in Units |->
      IF k \in req.units THEN Larger(@[k], r.maxUnits[k]) ELSE @[k]]]

MaterializeCandidate(req, r, counted) ==
  LET a == EstimateUsage(req, r)
      b == IF counted = None THEN a ELSE ReconcileReportedUsage(counted, a)
      c == AddMultimodalSurcharges(ReserveCandidateOutput(b, req, r), req, r)
      d == IF req.cache THEN [c EXCEPT !.cacheWrite = c.in] ELSE c
  IN  AddProviderUnits(d, req, r)

-----------------------------------------------------------------------------
(* Stream snapshots                                                        *)

\* Snapshots are cumulative; a malformed counter stays malformed.
MergeLast(current, reported) == reported

MergeCounter(current, reported) ==
  IF current < 0 \/ reported < 0 THEN -1 ELSE Larger(current, reported)

MergeCounters(f, g) == [k \in DOMAIN f |-> MergeCounter(f[k], g[k])]

MergeUsage(dst, src) ==
  LET m == [in |-> MergeCounter(dst.in, src.in), out |-> MergeCounter(dst.out, src.out),
            total |-> MergeCounter(dst.total, src.total),
            cacheRead |-> MergeCounter(dst.cacheRead, src.cacheRead),
            cacheWrite |-> MergeCounter(dst.cacheWrite, src.cacheWrite),
            inDetails |-> MergeCounters(dst.inDetails, src.inDetails),
            outDetails |-> MergeCounters(dst.outDetails, src.outDetails),
            units |-> MergeCounters(dst.units, src.units)]
  IN  IF IsZero(src) THEN dst
      ELSE IF m.in >= 0 /\ m.out >= 0 /\ m.total >= 0
           THEN [m EXCEPT !.total = Larger(@, SaturatingAdd(m.in, m.out))]
           ELSE m
-----------------------------------------------------------------------------
Init ==
  /\ request \in Requests
  /\ route \in [Attempt -> Routes]
  /\ phase = [a \in Attempt |-> "idle"]
  /\ est = [a \in Attempt |-> NoUsage]
  /\ report = [a \in Attempt |-> NoUsage]
  /\ snaps = [a \in Attempt |-> 0]
  /\ partial = [a \in Attempt |-> FALSE]
  /\ charge = [a \in Attempt |-> NoCharge]
  /\ settled = None

\* TokenValidation gives the candidate its estimate.
Estimate(a, counted) ==
  /\ phase[a] = "idle"
  /\ est' = [est EXCEPT ![a] = MaterializeCandidate(request, route[a], counted)]
  /\ phase' = [phase EXCEPT ![a] = "estimated"]
  /\ UNCHANGED <<request, route, report, snaps, partial, charge, settled>>

\* One call at a time: an attempt begins when every other is over.
Begin(a) ==
  /\ settled = None
  /\ phase[a] = "estimated"
  /\ \A b \in Attempt : phase[b] # "open"
  /\ phase' = [phase EXCEPT ![a] = "open"]
  /\ charge' = [charge EXCEPT ![a] = ChargeForUsage(route[a].pricing, est[a])]
  /\ UNCHANGED <<request, route, est, report, snaps, partial, settled>>

\* The body's usage, or a stream event's.
Snapshot(a, r) ==
  /\ phase[a] = "open"
  /\ snaps[a] < MaxSnapshots
  /\ report' = [report EXCEPT ![a] = MergeUsage(@, r)]
  /\ snaps' = [snaps EXCEPT ![a] = @ + 1]
  /\ UNCHANGED <<request, route, phase, est, partial, charge, settled>>

\* A call the provider did not bill.
Cancel(a) ==
  /\ phase[a] = "open"
  /\ phase' = [phase EXCEPT ![a] = "cancelled"]
  /\ charge' = [charge EXCEPT ![a] = NoCharge]
  /\ UNCHANGED <<request, route, est, report, snaps, partial, settled>>

\* An error carries what its body reported; a stream or a body without usage
\* has the estimate's, and a body's is reconciled before it is returned.
ReportedBy(source, a) ==
  CASE source = "error"  -> report[a]
    [] source = "stream" -> IF IsZero(report[a]) THEN est[a] ELSE report[a]
    [] source = "body"   -> ReconcileReportedUsage(report[a], est[a])

CompletedUsageUnfilled(u, e, part) == ReconcileReportedUsage(u, e)

CompletedUsage(u, e, part) ==
  LET n == ReconcileReportedUsage(u, e) IN IF part THEN FillPartial(n, e) ELSE n

\* The first completion counts; only a stream ends in part.
Complete(a, source, part) ==
  /\ phase[a] = "open"
  /\ part => source = "stream"
  /\ source # "stream" => snaps[a] <= 1
  /\ phase' = [phase EXCEPT ![a] = "final"]
  /\ partial' = [partial EXCEPT ![a] = part]
  /\ charge' = [charge EXCEPT ![a] =
       ChargeForUsage(route[a].pricing,
                      CompletedUsage(ReportedBy(source, a), NormalizeAttemptUsage(est[a]), part))]
  /\ UNCHANGED <<request, route, est, report, snaps, settled>>

ExceedsLimitBySum(limit, used, more) ==
  limit > 0 /\ SaturatingAddWraps(used, more) > limit

\* The store's comparison of a counter and what is to be added to it.
ExceedsLimit(limit, used, more) ==
  limit > 0 /\ (used > limit \/ more > limit - used)

Total == FoldFunctionOnSet(AddCharge, NoCharge, charge, Attempt)

\* The request is settled at the total once its last call is over.
Settle ==
  /\ settled = None
  /\ \E a \in Attempt : phase[a] \in {"cancelled", "final"}
  /\ \A a \in Attempt : phase[a] # "open"
  /\ settled' = Total
  /\ UNCHANGED <<request, route, phase, est, report, snaps, partial, charge>>

Next ==
  \/ \E a \in Attempt :
       \/ \E c \in Counts \cup {None} : Estimate(a, c)
       \/ Begin(a)
       \/ \E r \in Reports : Snapshot(a, r)
       \/ Cancel(a)
       \/ \E source \in {"error", "stream", "body"}, p \in BOOLEAN : Complete(a, source, p)
  \/ Settle

Spec == Init /\ [][Next]_vars

-----------------------------------------------------------------------------
(* Properties                                                              *)

Charges == [in : 0..MaxInt, out : 0..MaxInt, spend : 0..MaxInt]

\* Every charge, and the total, is an int64 that is not negative: no sum the
\* accumulator makes wraps around (saturatingUsageAdd, SpendMicrosForUsage).
TypeOK ==
  /\ phase \in [Attempt -> {"idle", "estimated", "open", "cancelled", "final"}]
  /\ charge \in [Attempt -> Charges]
  /\ settled \in Charges \cup {None}
  /\ \A a \in Attempt : est[a].in \in 0..MaxInt /\ est[a].out \in 0..MaxInt

\* The estimate TokenValidation reserves bounds the call it is for: all n
\* completions at the cap that applies, the input with a surcharge for every
\* image or sound, and the metered units the request may use.  The bound is
\* the exact product and sum, or the largest int64.
EstimateCoversCall ==
  \A a \in Attempt : phase[a] # "idle" =>
    LET r == route[a]
        outputs == IF request.embed THEN 0 ELSE WantedOutput(request, r) * Larger(request.n, 1)
        extra == request.parts * r.surcharge
    IN  /\ est[a].out >= Smaller(outputs, MaxInt)
        /\ est[a].in >= Smaller(1 + extra, MaxInt)
        /\ est[a].total >= Smaller(est[a].in + est[a].out, MaxInt)
        /\ \A k \in request.units : est[a].units[k] >= r.maxUnits[k]

\* Tokens a provider reports are never charged short, in either direction or
\* in total: what only total_tokens shows is charged too.
ReportedTokensAreCharged ==
  \A a \in Attempt : phase[a] = "final" =>
    /\ charge[a].in >= report[a].in
    /\ charge[a].out >= report[a].out
    /\ charge[a].in + charge[a].out >= report[a].total

\* A report without any token count is charged at the estimate, and a
\* malformed (negative) count does not lower that dimension below it.
MissingTokensAreCharged ==
  \A a \in Attempt : phase[a] = "final" =>
    /\ ~HasPositiveTokens(report[a]) => charge[a].in >= est[a].in /\ charge[a].out >= est[a].out
    /\ report[a].in < 0 => charge[a].in >= est[a].in
    /\ report[a].out < 0 => charge[a].out >= est[a].out

\* A stream cut short is charged, in each dimension its last snapshot says
\* nothing about, at the estimate, and for no fewer metered units.
PartialIsFilledIn ==
  \A a \in Attempt : phase[a] = "final" /\ partial[a] =>
    /\ report[a].in = 0 /\ report[a].total \in 0..report[a].out => charge[a].in >= est[a].in
    /\ report[a].out = 0 /\ report[a].total \in 0..report[a].in => charge[a].out >= est[a].out
    /\ charge[a].spend >= Smaller(MaxInt, CeilDiv(
         MapThenSumSet(LAMBDA k : est[a].units[k] * route[a].pricing.units[k], Units), Scale))

\* A price list without cache rates charges every input token at the input
\* rate, however many the provider says it cached.
CacheIsNotFree ==
  \A a \in Attempt :
    LET p == route[a].pricing IN
    phase[a] \in {"open", "final"} /\ p.cacheRead = 0 /\ p.cacheWrite = 0
      => charge[a].spend >= Smaller(MaxInt,
           CeilDiv(charge[a].in * p.in + charge[a].out * p.out, Scale))

\* The request is settled at no less than any of its attempts: retries and
\* fallbacks add up, and only an unbilled call counts for nothing.
SettledCoversAttempts ==
  settled # None =>
    /\ \A a \in Attempt : settled.in >= charge[a].in /\ settled.spend >= charge[a].spend
    /\ settled.in = Smaller(MaxInt, MapThenSumSet(LAMBDA a : charge[a].in, Attempt))

\* The snapshots of a stream are cumulative: a later one never lowers what was
\* reported before, and a malformed count stays visible to the reconciliation.
Grows ==
  \A a \in Attempt : \/ report'[a].in >= report[a].in /\ report[a].in >= 0
                     \/ report'[a].in = -1
ReportOnlyGrows == [][Grows]_vars

\* exceedsLimit holds counters near the largest int64 to a limit exactly: what
\* is settled and what the next attempt would hold are compared without a sum.
LimitCheckIsExact ==
  settled # None => \A limit \in Limits, a \in Attempt :
    ExceedsLimit(limit, settled.spend, charge[a].spend)
      <=> (limit > 0 /\ settled.spend + charge[a].spend > limit)
=============================================================================
