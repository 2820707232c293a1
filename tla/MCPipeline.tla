----------------------------- MODULE MCPipeline -----------------------------
(***************************************************************************)
(* A request's way to its settlement: through the interceptors (Pipeline), *)
(* what its attempts are charged, one with every report and two with few   *)
(* (Charge), the stream its usage is read from (StreamUsage), and the      *)
(* limits that were put meanwhile, by two handlers (LimitSnapshot).  Each  *)
(* is a specification of its own: one moves, the others stay as they       *)
(* began.                                                                  *)
(***************************************************************************)
EXTENDS Pipeline, LimitSnapshot

CONSTANTS a1, a2, k1, w1, w2

VARIABLES part,  \* "pipeline", "charge", "retry", "stream" or "limits"
          request, route, phase, est, report, snaps, partial, charge, settled,
          remaining, overflow, lost, inFlight, tracker, fed, hungUp, result

chargeVars == <<request, route, phase, est, report, snaps, partial, charge, settled>>
streamVars == <<remaining, overflow, lost, inFlight, tracker, fed, hungUp, result>>

-----------------------------------------------------------------------------
(* Two models on routes of two providers, three configurations that can    *)
(* replace one another and two that must not.                              *)

Base == [name |-> 1, model |-> "m", provider |-> "openai", priority |-> 1, weight |-> 1,
         ops |-> {"chat"}, caps |-> {"streaming", "tools"}, maxIn |-> 0, maxOut |-> 4,
         maxBody |-> 0, extra |-> 0, timeout |-> 2, tries |-> 1, unitPriced |-> FALSE]

\* Heavy, and native to the responses API.
Heavy == [Base EXCEPT !.name = 2, !.weight = 2, !.ops = {"chat", "responses"}, !.maxOut = 6,
                      !.unitPriced = TRUE, !.timeout = 3, !.tries = 2]
\* Counts more tokens, takes only short prompts and bodies.
Small == [Base EXCEPT !.name = 3, !.maxIn = 3, !.maxBody = 2, !.extra = 1, !.caps = {}]
\* The fallback, with a long timeout.
Fallback == [Base EXCEPT !.name = 4, !.priority = 0, !.maxOut = 8, !.extra = 2, !.timeout = 9, !.tries = 2]
Other == [Base EXCEPT !.name = 5, !.provider = "anthropic", !.model = "n", !.maxOut = 5]
Vectors == [Base EXCEPT !.name = 6, !.ops = {"embeddings"}, !.maxOut = 0, !.model = "n", !.maxIn = 2, !.maxBody = 1]

Someone == [key |-> "k", models |-> {}, projects |-> {}, providers |-> {}]
Narrow == [key |-> "k", models |-> {"m"}, projects |-> {"p"}, providers |-> {"anthropic"}]

Open == [models |-> {}, providers |-> {}, maxIn |-> 0, maxOut |-> 0, spend |-> FALSE, counted |-> TRUE]
Tight == [Open EXCEPT !.maxIn = 3, !.maxOut = 6, !.spend = TRUE]
Gate == [Open EXCEPT !.models = {"n"}, !.providers = {"openai"}, !.counted = FALSE]

First == [valid |-> TRUE, restart |-> 1, routes |-> {Base, Heavy, Small, Fallback, Other}, anonymous |-> TRUE,
          tokens |-> [t \in {"s"} |-> Someone], requireUser |-> FALSE, requireProject |-> FALSE,
          maxBody |-> 3, keys |-> [k \in {"k"} |-> Open], ttl |-> 10]
\* Other routes, no anonymous callers, a narrower token.
Second == [First EXCEPT !.routes = {Heavy, [Base EXCEPT !.priority = 0], Other, Vectors}, !.anonymous = FALSE,
                        !.tokens = [t \in {"s", "t"} |-> IF t = "s" THEN Someone ELSE Narrow],
                        !.keys = [k \in {"anonymous"} |-> Tight]]
Strict == [First EXCEPT !.routes = {Base, Fallback}, !.requireUser = TRUE, !.requireProject = TRUE, !.maxBody = 2]
Broken == [First EXCEPT !.valid = FALSE]
Restarted == [First EXCEPT !.restart = 2, !.ttl = 25]

MCConfigs == {First, Second, Strict, Broken, Restarted}

Plain == [model |-> "m", provider |-> "openai", op |-> "chat", needs |-> {}, token |-> "s", user |-> "u",
          project |-> "p", badMeta |-> FALSE, badBody |-> FALSE, bytes |-> 1, in |-> 2, max |-> 0,
          choices |-> 1, units |-> FALSE, bridgeable |-> TRUE]

MCRequests ==
  {[Plain EXCEPT !.token = t, !.op = o] : t \in {None, "s", "t", "x"},
                                           o \in {"chat", "responses", "completions", "embeddings"}}
  \cup {[Plain EXCEPT !.in = i, !.max = x] : i \in {1, 3}, x \in {0, 5, 7}}
  \cup {[Plain EXCEPT !.model = m, !.provider = p, !.token = t] :
          m \in {"m", "n", "z"}, p \in {"openai", "anthropic"}, t \in {"s", "t"}}
  \cup {[Plain EXCEPT !.needs = {"streaming"}, !.op = o, !.bridgeable = b] :
          o \in {"chat", "responses", "completions"}, b \in BOOLEAN}
  \cup {[Plain EXCEPT !.choices = 2, !.max = x, !.bytes = b] : x \in {0, 4}, b \in {2, 3, 4}}
  \cup {[Plain EXCEPT !.units = TRUE, !.token = t] : t \in {None, "s"}}
  \cup {[Plain EXCEPT !.op = "embeddings", !.model = "n", !.in = i, !.bytes = b] : i \in {1, 3}, b \in {1, 2}}
  \cup {[Plain EXCEPT !.user = None], [Plain EXCEPT !.project = None],
        [Plain EXCEPT !.badMeta = TRUE], [Plain EXCEPT !.badBody = TRUE],
        [Plain EXCEPT !.project = "q", !.token = "t"],
        [Plain EXCEPT !.op = "responses", !.bridgeable = FALSE]}

MCLimits == {None, Tight, Gate}
MCHashes == 0..3
-----------------------------------------------------------------------------
(* Charges: every count is missing, malformed, ordinary or near the largest *)
(* int64 in some combination.                                               *)

MeteredUnits == {"search"}
TokenDetails == {"cached", "audio"}

Price(in, out, read, write, unit) ==
  [in |-> in, out |-> out, cacheRead |-> read, cacheWrite |-> write,
   units |-> [u \in MeteredUnits |-> unit]]

Call(count, text, max, n, parts, cache, units, embed) ==
  [count |-> count, text |-> text, hint |-> 0, body |-> 5, max |-> max, n |-> n,
   parts |-> parts, cache |-> cache, units |-> units, embed |-> embed]

Calls == {Call(3, 5, 2, 2, 1, TRUE, MeteredUnits, FALSE), Call(0, 0, 0, 1, 0, FALSE, {}, FALSE),
          Call(0, 4, 5, 4, 3, FALSE, MeteredUnits, FALSE), Call(7, 9, 0, 1, 0, TRUE, {}, TRUE)}

PricedRoutes ==
  {[approx |-> TRUE, maxOut |-> 4, surcharge |-> 2,
    maxUnits |-> [u \in MeteredUnits |-> 2], pricing |-> Price(1, 3, 0, 0, 1)],
   [approx |-> FALSE, maxOut |-> 6, surcharge |-> 5,
    maxUnits |-> [u \in MeteredUnits |-> 0], pricing |-> Price(2, 1, 1, 3, 0)]}

Reported(in, out, total, read, write, cached, unit) ==
  [in |-> in, out |-> out, total |-> total, cacheRead |-> read, cacheWrite |-> write,
   inDetails |-> [d \in TokenDetails |-> IF d = "cached" THEN cached ELSE 0],
   outDetails |-> [d \in TokenDetails |-> 0], units |-> [u \in MeteredUnits |-> unit]]

TokenCounts == {-1, 0, 2, 9}

\* Every combination of the three token counts, with the auxiliary ones
\* missing, malformed, or ordinary.
AllReports == {Reported(i, o, t, aux[1], aux[2], aux[3], aux[4]) :
                 i \in TokenCounts, o \in TokenCounts, t \in TokenCounts \cup {12},
                 aux \in {<<0, 0, 0, 0>>, <<-1, -1, 2, -1>>, <<1, 3, -1, 1>>, <<9, 0, 0, 2>>}}

FewReports == {Reported(0, 0, 0, 0, 0, 0, 0), Reported(2, 0, 0, 0, 1, 2, 1),
               Reported(-1, 2, 9, 0, 0, 0, -1), Reported(9, 12, -1, 2, 0, 0, 0)}

CounterAnswers == {Reported(9, 0, 0, 0, 0, 0, 0), Reported(-1, 0, 5, 0, 0, 0, 0)}

Once ==
  INSTANCE Charge WITH
    Attempt <- {a1}, Requests <- Calls, Routes <- PricedRoutes, Counts <- CounterAnswers,
    Reports <- AllReports, MaxSnapshots <- 1, Limits <- {0, 1, 14, 15}, MaxInt <- 15,
    Details <- TokenDetails, Units <- MeteredUnits, Scale <- 2

Retried ==
  INSTANCE Charge WITH
    Attempt <- {a1, a2}, Requests <- Calls, Routes <- PricedRoutes, Counts <- {},
    Reports <- FewReports, MaxSnapshots <- 2, Limits <- {0, 1, 14, 15}, MaxInt <- 15,
    Details <- TokenDetails, Units <- MeteredUnits, Scale <- 2

\* Bytes in pieces of up to two, events of up to three.
Usage ==
  INSTANCE StreamUsage WITH
    Limit <- 7, MaxEvent <- 3, Buffer <- 2, MaxBytes <- 8, closed <- hungUp

\* Two handlers put limits, beside other writers of the table and a Close at any time.
MCKeyID == {k1}
MCWriter == {w1, w2}

ASSUME ChargeAssumption == Once!MathAssumption
ASSUME ServedAssumption == LimitSnapshotAssumption

-----------------------------------------------------------------------------
MCInit ==
  /\ part \in {"pipeline", "charge", "retry", "stream", "limits"}
  /\ Init /\ Usage!Init /\ LimitsInit
  /\ IF part = "retry" THEN Retried!Init ELSE Once!Init
  /\ part # "pipeline" => config = First /\ req = Plain /\ hash = 0
  /\ part \notin {"charge", "retry"} =>
       /\ request = CHOOSE c \in Calls : TRUE
       /\ route = [a \in {a1} |-> CHOOSE r \in PricedRoutes : TRUE]

MCNext ==
  /\ UNCHANGED part
  /\ \/ part = "pipeline" /\ Next /\ UNCHANGED <<chargeVars, streamVars, limitVars>>
     \/ part = "charge" /\ Once!Next /\ UNCHANGED <<vars, streamVars, limitVars>>
     \/ part = "retry" /\ Retried!Next /\ UNCHANGED <<vars, streamVars, limitVars>>
     \/ part = "stream" /\ Usage!Next /\ UNCHANGED <<vars, chargeVars, limitVars>>
     \/ part = "limits" /\ LimitsNext /\ UNCHANGED <<vars, chargeVars, streamVars>>

MCSpec == MCInit /\ [][MCNext]_<<part, vars, chargeVars, streamVars, limitVars>>

-----------------------------------------------------------------------------
\* What is dispatched was eligible under one snapshot of the configuration, by every
\* filter of the pipeline, whatever was reloaded or put meanwhile; and the model listing
\* shows a caller just the models it could be dispatched to (the interceptors of app.New, modelsForPrincipal).
OnlyEligibleRoutes == DispatchedAreEligible /\ ListingAgrees

\* Candidates are tried by priority, and within a priority the execution IDs are shared
\* out by weight (Router.Resolve, rotateWeighted).
TriedInOrder == HigherPriorityFirst /\ WeightsAreHonoured

\* The reservation covers the dispatch: its estimate every candidate's, its lease all
\* their timeouts and retries, without overflow (quotaReservationTTL, MaxEstimate).
ReservationCoversDispatch == TypeOK /\ EstimateCoversCandidates /\ LeaseOutlivesCalls

\* Nothing is charged short.  The estimate TokenValidation reserves bounds the call it is
\* for: all n completions at the cap that applies, every surcharge and metered unit.
\* Tokens a provider reports are charged in each direction and in total; a report without
\* counts, a malformed count and the silent dimensions of a stream cut short are charged at
\* the estimate; cached input is not free without a cache rate; and no sum wraps around
\* (materializeCandidate, normalizeAttemptUsage, ReconcileReportedUsage,
\* SpendMicrosForUsage).
NothingIsChargedShort ==
  part = "charge" =>
    /\ Once!TypeOK /\ Once!EstimateCoversCall /\ Once!ReportedTokensAreCharged
    /\ Once!MissingTokensAreCharged /\ Once!PartialIsFilledIn /\ Once!CacheIsNotFree

\* A request is settled at no less than any of its attempts: retries and fallbacks add up,
\* to at most the largest int64, and exceedsLimit holds such totals to a limit exactly.  A
\* later snapshot of a stream never lowers what was reported before, and a malformed count
\* stays visible (the usage accumulator, mergeUsage).
SettledCoversAttempts ==
  /\ [](part = "retry" => Retried!TypeOK /\ Retried!SettledCoversAttempts /\ Retried!LimitCheckIsExact)
  /\ [][part = "retry" => Retried!Grows]_chargeVars

\* However reads cut the stream, the adapter is shown exactly the events of the bytes
\* taken in, each once and in order, and nothing after Close; the client sees a clean end
\* only of a stream whose terminal event went by, and a response over the limit ends in an
\* error (streamUsageTracker, usageTrackingReadCloser, responseLimitReadCloser).
PiecesDoNotMatter ==
  /\ [](part = "stream" => /\ Usage!TypeOK /\ Usage!PiecesDoNotMatter
                           /\ Usage!CleanEndHasTerminal /\ Usage!NothingIsCutSilently)
  /\ [][part = "stream" => Usage!Stays]_streamVars
=============================================================================
