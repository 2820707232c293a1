----------------------------- MODULE UsageMath -----------------------------
(***************************************************************************)
(* The arithmetic of token usage and spend: how a provider's report is     *)
(* normalised and reconciled with the estimate made before the call        *)
(* (gateway/usage.go), how that estimate is built (policy/token.go), how   *)
(* the snapshots of a stream are merged (proxy/stream.go), and what a      *)
(* request is settled at (policy/quota.go).  int64 is 0..MaxInt with the   *)
(* negative numbers a malformed report may hold; every sum and product     *)
(* saturates at MaxInt as the code's do.                                   *)
(*                                                                         *)
(* A *UsageDetails is a function from its counters (the modalities of      *)
(* ByModality among them) and ProviderDetails one from units; the nil      *)
(* pointer and an absent key are zero, which is what normalizing makes of  *)
(* them.  Prices are in 1/Scale micros per token or unit.                  *)
(***************************************************************************)
EXTENDS Integers, FiniteSets, FiniteSetsExt

CONSTANTS MaxInt,   \* math.MaxInt64
          Details,  \* the counters of UsageDetails, "cached" among them
          Units,    \* provider-metered units
          Scale     \* the denominator of a price

\* What the constants must satisfy.
MathAssumption == MaxInt \in Nat \ {0} /\ Scale \in Nat \ {0} /\ "cached" \in Details

Larger(a, b) == IF a < b THEN b ELSE a
Smaller(a, b) == IF a < b THEN a ELSE b
Positive(n) == Larger(n, 0)
AllPositive(f) == [k \in DOMAIN f |-> Positive(f[k])]

SaturatingAddWraps(a, b) ==
  LET s == Positive(a) + Positive(b)
  IN  IF s > MaxInt THEN s - 2 * (MaxInt + 1) ELSE s

SaturatingAdd(a, b) ==
  IF Positive(a) > MaxInt - Positive(b) THEN MaxInt ELSE Positive(a) + Positive(b)

SaturatingMultiply(a, b) ==
  IF a <= 0 \/ b <= 0 THEN 0
  ELSE IF a > MaxInt \div b THEN MaxInt ELSE a * b

\* The 5/4 margin on an approximate token count, rounded up.
SaturatingTokenMargin(n, num, den) ==
  IF n <= 0 THEN n
  ELSE IF n > (MaxInt - (den - 1)) \div num THEN MaxInt
  ELSE (n * num + den - 1) \div den

Tokens(u) == SaturatingAdd(u.in, u.out)

NoDetails == [d \in Details |-> 0]
NoUnits == [u \in Units |-> 0]
NoUsage == [in |-> 0, out |-> 0, total |-> 0, cacheRead |-> 0, cacheWrite |-> 0,
            inDetails |-> NoDetails, outDetails |-> NoDetails, units |-> NoUnits]

IsZero(u) == u = NoUsage

-----------------------------------------------------------------------------
(* Reports                                                                 *)

\* A total the provider does not explain is output.
ExplainTotal(u) ==
  LET a == IF u.in = 0 /\ u.total > u.out THEN [u EXCEPT !.in = u.total - u.out] ELSE u
      b == IF a.out = 0 /\ a.total > a.in THEN [a EXCEPT !.out = a.total - a.in] ELSE a
      c == IF b.total > Tokens(b)
           THEN [b EXCEPT !.out = SaturatingAdd(@, b.total - Tokens(b))] ELSE b
  IN  [c EXCEPT !.total = Larger(@, Tokens(c))]

Clamp(u) ==
  [in |-> Positive(u.in), out |-> Positive(u.out), total |-> Positive(u.total),
   cacheRead |-> Positive(u.cacheRead), cacheWrite |-> Positive(u.cacheWrite),
   inDetails |-> AllPositive(u.inDetails), outDetails |-> AllPositive(u.outDetails),
   units |-> AllPositive(u.units)]

NormalizeWithoutRemainder(u) ==
  LET a == Clamp(u) IN
  [a EXCEPT !.cacheRead = IF @ = 0 THEN a.inDetails["cached"] ELSE @,
            !.total = Larger(@, Tokens(a))]

NormalizeAttemptUsage(u) ==
  LET a == Clamp(u) IN
  ExplainTotal([a EXCEPT !.cacheRead = IF @ = 0 THEN a.inDetails["cached"] ELSE @])

RestoreCounters(current, reported, fallback) ==
  [k \in DOMAIN current |-> Positive(IF reported[k] < 0 THEN fallback[k] ELSE current[k])]

RestoreMalformedAuxiliary(u, reported, fallback) ==
  NormalizeAttemptUsage(
    [u EXCEPT !.cacheRead  = IF reported.cacheRead < 0 THEN fallback.cacheRead ELSE @,
              !.cacheWrite = IF reported.cacheWrite < 0 THEN fallback.cacheWrite ELSE @,
              !.inDetails  = RestoreCounters(@, reported.inDetails, fallback.inDetails),
              !.outDetails = RestoreCounters(@, reported.outDetails, fallback.outDetails),
              !.units      = RestoreCounters(@, reported.units, fallback.units)])

OverlayCounters(base, reported) ==
  [k \in DOMAIN base |-> IF reported[k] > 0 THEN reported[k] ELSE base[k]]

OverlayPositiveDetails(base, reported) ==
  [base EXCEPT !.cacheRead  = IF reported.cacheRead > 0 THEN reported.cacheRead ELSE @,
               !.cacheWrite = IF reported.cacheWrite > 0 THEN reported.cacheWrite ELSE @,
               !.inDetails  = OverlayCounters(@, reported.inDetails),
               !.outDetails = OverlayCounters(@, reported.outDetails),
               !.units      = OverlayCounters(@, reported.units)]

HasPositiveTokens(u) == u.in > 0 \/ u.out > 0 \/ u.total > 0
Malformed(u) == u.in < 0 \/ u.out < 0 \/ u.total < 0

\* What the provider reports, with what is malformed or wholly missing taken
\* from the estimate.
ReconcileTrusting(reported, fallback) == NormalizeAttemptUsage(reported)

ReconcileReportedUsage(reported, fallback) ==
  LET rep == NormalizeAttemptUsage(reported)
      est == NormalizeAttemptUsage(fallback)
      overlaid == IF HasPositiveTokens(reported)
                  THEN [est EXCEPT !.in    = IF reported.in < 0 THEN @ ELSE rep.in,
                                   !.out   = IF reported.out < 0 THEN @ ELSE rep.out,
                                   !.total = IF reported.total < 0 THEN @ ELSE rep.total]
                  ELSE est
  IN  IF HasPositiveTokens(reported) /\ ~Malformed(reported)
      THEN RestoreMalformedAuxiliary(rep, reported, est)
      ELSE NormalizeAttemptUsage(OverlayPositiveDetails(overlaid, rep))

LargerCounters(f, g) == [k \in DOMAIN f |-> Larger(f[k], g[k])]

RetainEstimatedAuxiliary(u, est) ==
  NormalizeAttemptUsage(
    [u EXCEPT !.cacheRead  = Larger(@, est.cacheRead),
              !.cacheWrite = Larger(@, est.cacheWrite),
              !.inDetails  = LargerCounters(AllPositive(@), AllPositive(est.inDetails)),
              !.outDetails = LargerCounters(AllPositive(@), AllPositive(est.outDetails)),
              !.units      = LargerCounters(@, est.units)])

\* An aborted stream's snapshot is partial: a dimension it leaves at zero is
\* taken from the estimate.
FillPartial(u, est) ==
  LET in  == IF u.in = 0 THEN est.in ELSE u.in
      out == IF u.out = 0 THEN est.out ELSE u.out
  IN  RetainEstimatedAuxiliary(
        [u EXCEPT !.in = in, !.out = out, !.total = SaturatingAdd(in, out)], est)

-----------------------------------------------------------------------------
(* Spend                                                                   *)

CeilDiv(n, d) == (n + d - 1) \div d

SpendMicrosWithFreeCache(pricing, usage) ==
  LET u == NormalizeAttemptUsage(usage)
      read == Smaller(u.cacheRead, u.in)
      value == (u.in - read) * pricing.in + read * pricing.cacheRead + u.out * pricing.out
  IN  Smaller(CeilDiv(value, Scale), MaxInt)

\* Pricing is [in, out, cacheRead, cacheWrite, units]; an omitted cache rate
\* is the input rate.
SpendMicrosForUsage(pricing, usage) ==
  LET u == NormalizeAttemptUsage(usage)
      read == Smaller(u.cacheRead, u.in)
      write == Smaller(u.cacheWrite, u.in - read)
      readRate == IF pricing.cacheRead = 0 THEN pricing.in ELSE pricing.cacheRead
      writeRate == IF pricing.cacheWrite = 0 THEN pricing.in ELSE pricing.cacheWrite
      value == (u.in - read - write) * pricing.in + read * readRate
                 + write * writeRate + u.out * pricing.out
                 + MapThenSumSet(LAMBDA k : u.units[k] * pricing.units[k], Units)
  IN  Smaller(CeilDiv(value, Scale), MaxInt)

ChargeForUsage(pricing, usage) ==
  LET u == NormalizeAttemptUsage(usage)
  IN  [in |-> u.in, out |-> u.out, spend |-> SpendMicrosForUsage(pricing, u)]

AddLargerCharge(a, b) == [in |-> Larger(a.in, b.in), out |-> Larger(a.out, b.out),
                          spend |-> Larger(a.spend, b.spend)]

AddCharge(a, b) == [in |-> SaturatingAdd(a.in, b.in), out |-> SaturatingAdd(a.out, b.out),
                    spend |-> SaturatingAdd(a.spend, b.spend)]

NoCharge == [in |-> 0, out |-> 0, spend |-> 0]
============================================================================
