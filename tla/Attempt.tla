------------------------------- MODULE Attempt -------------------------------
(***************************************************************************)
(* One request on its way through the routes: the fallback loop of         *)
(* Engine.dispatch (gateway/gateway.go), the retry loop of                 *)
(* AttemptLimits.WrapAttempt and the attemptLifecycleStream that owns the  *)
(* call once its response streams (policy/attempt.go).                     *)
(*                                                                         *)
(* Actors: the request's goroutine, which dispatches and then reads the    *)
(* stream to the client; the watcher goroutine of the stream; the          *)
(* provider; and the call context, which the client or the deadline ends.  *)
(* The breaker, the limiters and the rate store only say yes or no here:   *)
(* their own modules say when.                                             *)
(***************************************************************************)
EXTENDS Integers, FiniteSets, Sequences

CONSTANTS
  Routes,  \* candidate routes, in order 1 .. Routes
  Tries    \* routeAttemptCount: calls per route

ASSUME AttemptAssumption == Routes \in Nat \ {0} /\ Tries \in Nat \ {0}

Slot == {"route", "provider"}
Admission == 1 .. Routes * Tries

\* providerStatusError and WithDisposition: what an upstream error allows.
Error == {"server", "auth", "limited", "rejected"}
Retryable(e) == e = "server"
FallbackEligible(e) == e # "rejected"
CircuitFailure(e) == e \in {"server", "auth"}

VARIABLES
  pc, route, try,
  client,     \* is the client still there?
  ctx,        \* the call's context: live, cancelled or expired
  taken,      \* slots acquired and
  given,      \* slots released so far
  admission,  \* provider calls the breaker has admitted; the last is the current one
  reports,    \* per admission, the outcomes the breaker was told
  blame,      \* per admission, what ended the call first: the client or a fault
  upstream,   \* the provider's response stream
  once,       \* attemptLifecycleStream.once
  sawBytes,
  err,        \* the error the provider returned
  reader,     \* the request's goroutine, in the stream
  watcher     \* watchContext

vars == <<pc, route, try, client, ctx, taken, given, admission, reports, blame, upstream, once,
          sawBytes, err, reader, watcher>>

streamVars == <<upstream, once, sawBytes, reader, watcher>>

Held(s) == taken[s] - given[s]

\* WithoutCancel aside, a context ends once: the first cause stays.
CtxAfter(cause) == IF ctx = "live" THEN cause ELSE ctx

\* Record what ended the current call, unless something did before.
Blamed(cause) ==
  IF admission > 0 /\ blame[admission] = "none" THEN [blame EXCEPT ![admission] = cause] ELSE blame

Reported(outcome) == [reports EXCEPT ![admission] = @ \o <<outcome>>]

Init ==
  /\ pc = "dispatch" /\ route = 1 /\ try = 1
  /\ client = "here" /\ ctx = "live"
  /\ taken = [s \in Slot |-> 0] /\ given = [s \in Slot |-> 0]
  /\ admission = 0
  /\ reports = [a \in Admission |-> <<>>] /\ blame = [a \in Admission |-> "none"]
  /\ upstream = "none" /\ once = FALSE /\ sawBytes = FALSE /\ err = "none"
  /\ reader = "off" /\ watcher = "off"

-----------------------------------------------------------------------------
\* dispatch: after a route's error, the next route if the error allows it and the
\* client is still there.
RouteFails(fallback) ==
  IF client = "here" /\ fallback /\ route < Routes
  THEN pc' = "dispatch" /\ route' = route + 1 /\ try' = 1
  ELSE pc' = "done" /\ UNCHANGED <<route, try>>

\* The deferred release of WrapAttempt.
ReleaseSlots == given' = [s \in Slot |-> given[s] + 1]

\* breakerAllow admits a call.
Admitted == admission' = admission + 1

\* WrapAttempt begins: context check, then the breaker.
StartRoute ==
  /\ pc = "dispatch"
  /\ \/ client = "gone" /\ pc' = "done" /\ UNCHANGED <<route, try, admission>>
     \/ client = "here" /\ pc' = "acquire" /\ Admitted /\ UNCHANGED <<route, try>>
     \/ client = "here" /\ RouteFails(TRUE) /\ UNCHANGED admission    \* circuit open
     \/ client = "here" /\ RouteFails(FALSE) /\ UNCHANGED admission   \* breaker unavailable
  /\ ctx' = IF client = "here" THEN "live" ELSE "cancelled"
  /\ UNCHANGED <<client, taken, given, reports, blame, err, streamVars>>

\* acquire: the route's slot, then the provider's; a refusal of the second gives the
\* first back.
Acquire ==
  /\ pc = "acquire"
  /\ \/ /\ taken' = [s \in Slot |-> taken[s] + 1]
        /\ pc' = "ready" /\ UNCHANGED <<given, route, try>>
     \/ /\ RouteFails(TRUE) \/ RouteFails(FALSE)
        /\ UNCHANGED <<taken, given>>
     \/ /\ taken' = [taken EXCEPT !["route"] = @ + 1]
        /\ given' = [given EXCEPT !["route"] = @ + 1]
        /\ RouteFails(TRUE) \/ RouteFails(FALSE)
  /\ UNCHANGED <<client, ctx, admission, reports, blame, err, streamVars>>

\* The quota top-up and the rate check before each call; then the call, under a
\* context with the route's timeout.
Call ==
  /\ pc = "ready"
  /\ \/ /\ pc' = "calling"
        /\ ctx' = IF client = "here" THEN "live" ELSE "cancelled"
        /\ blame' = IF client = "here" THEN blame ELSE Blamed("client")
        /\ UNCHANGED <<given, route, try>>
     \/ /\ RouteFails(TRUE) \/ RouteFails(FALSE)
        /\ ReleaseSlots
        /\ UNCHANGED <<ctx, blame>>
  /\ UNCHANGED <<client, taken, admission, reports, err, streamVars>>

\* A unary response: the breaker hears of the success and the slots are released.
CallSucceeds ==
  /\ pc = "calling"
  /\ reports' = Reported("success")
  /\ ctx' = CtxAfter("cancelled")
  /\ ReleaseSlots
  /\ pc' = "done"
  /\ UNCHANGED <<route, try, client, taken, admission, blame, err, streamVars>>

\* Mutant of CallStreams: the deferred release runs although the stream goes on.
CallStreamsReleases ==
  /\ pc = "calling"
  /\ ReleaseSlots
  /\ upstream' = "open" /\ reader' = "idle" /\ watcher' = "waiting"
  /\ pc' = "streaming"
  /\ UNCHANGED <<route, try, client, ctx, taken, admission, reports, blame, err, once, sawBytes>>

\* A streamed response, prefetched to its first byte: the stream owns the slots now.
CallStreams ==
  /\ pc = "calling"
  /\ upstream' = "open" /\ reader' = "idle" /\ watcher' = "waiting"
  /\ pc' = "streaming"
  /\ UNCHANGED <<route, try, client, ctx, taken, given, admission, reports, blame, err, once, sawBytes>>

\* The provider returns an error, of its own or because the context ended.
CallErrs(e) ==
  /\ pc = "calling"
  /\ err' = e
  /\ blame' = Blamed("fault")
  /\ pc' = "failed"
  /\ UNCHANGED <<route, try, client, ctx, taken, given, admission, reports, streamVars>>

\* The error path of the retry loop, which reads the context's error first.
HandleError ==
  LET circuit == ctx # "cancelled" /\ (ctx = "expired" \/ CircuitFailure(err))
      again == ctx # "cancelled" /\ (ctx = "expired" \/ Retryable(err)) /\ try < Tries
  IN /\ pc = "failed"
     /\ reports' = IF circuit THEN Reported("failure") ELSE reports
     /\ ctx' = CtxAfter("cancelled")
     /\ IF again
        THEN pc' = "retry" /\ try' = try + 1 /\ UNCHANGED <<route, given>>
        ELSE RouteFails(FallbackEligible(err)) /\ ReleaseSlots
     /\ UNCHANGED <<client, taken, admission, blame, err, streamVars>>

\* Mutant of Retry: the breaker is not asked again.
RetryUnasked ==
  /\ pc = "retry"
  /\ \/ pc' = "ready" /\ UNCHANGED <<route, try, given, admission>>
     \/ (RouteFails(TRUE) \/ RouteFails(FALSE)) /\ ReleaseSlots /\ UNCHANGED admission
  /\ UNCHANGED <<client, ctx, taken, reports, blame, err, streamVars>>

\* The breaker is asked again before a retry.
Retry ==
  /\ pc = "retry"
  /\ \/ pc' = "ready" /\ Admitted /\ UNCHANGED <<route, try, given>>
     \/ (RouteFails(TRUE) \/ RouteFails(FALSE)) /\ ReleaseSlots /\ UNCHANGED admission
  /\ UNCHANGED <<client, ctx, taken, reports, blame, err, streamVars>>

\* A panic in the provider unwinds through the deferred release.
CallPanics ==
  /\ pc = "calling"
  /\ ReleaseSlots
  /\ pc' = "done"
  /\ UNCHANGED <<route, try, client, ctx, taken, admission, reports, blame, err, streamVars>>

-----------------------------------------------------------------------------
(* The stream.                                                             *)

\* Mutant of Complete: it does not check that the stream was completed before.
CompleteAgain(outcome) ==
  /\ once' = TRUE
  /\ ctx' = CtxAfter("cancelled")
  /\ ReleaseSlots
  /\ reports' = IF outcome = "stopped" THEN reports ELSE Reported(outcome)

\* attemptLifecycleStream.complete and the finish callback: once, cancel the context,
\* release the slots, tell the breaker.
Complete(outcome) ==
  IF once THEN UNCHANGED <<once, ctx, given, reports>>
  ELSE /\ once' = TRUE
       /\ ctx' = CtxAfter("cancelled")
       /\ ReleaseSlots
       /\ reports' = IF outcome = "stopped" THEN reports ELSE Reported(outcome)

ReadData ==
  /\ reader = "idle" /\ (upstream = "open" \/ ~sawBytes)
  /\ sawBytes' = TRUE
  /\ UNCHANGED <<pc, route, try, client, ctx, taken, given, admission, reports, blame, upstream,
                 once, err, reader, watcher>>

\* The underlying Read returns: end of stream, or an error of the provider, of the
\* ended context, or of a stream already closed.
ReadReturns(e) ==
  /\ reader = "idle" /\ sawBytes
  /\ \/ /\ upstream = "open"
        /\ reader' = "eof" /\ UNCHANGED <<err, blame>>
     \/ /\ reader' = "error" /\ err' = e
        /\ blame' = Blamed("fault")
  /\ upstream' = IF upstream = "open" THEN "ended" ELSE upstream
  /\ UNCHANGED <<pc, route, try, client, ctx, taken, given, admission, reports, once, sawBytes, watcher>>

\* Mutant of ReadHandle: any read error counts against the route.
ReadHandleBlames ==
  /\ \/ reader = "eof" /\ Complete("success")
     \/ /\ reader = "error"
        /\ Complete(IF CircuitFailure(err) THEN "failure" ELSE "stopped")
  /\ reader' = "closing"
  /\ UNCHANGED <<pc, route, try, client, taken, admission, blame, upstream, sawBytes, err, watcher>>

\* attemptLifecycleStream.Read, after the underlying Read.
ReadHandle ==
  /\ \/ reader = "eof" /\ Complete("success")
     \/ /\ reader = "error"
        /\ Complete(IF ctx # "cancelled" /\ CircuitFailure(err) THEN "failure" ELSE "stopped")
  /\ reader' = "closing"
  /\ UNCHANGED <<pc, route, try, client, taken, admission, blame, upstream, sawBytes, err, watcher>>

\* The client's side stops reading (a write failed, or the stream is over).
ReaderStops ==
  /\ reader = "idle"
  /\ reader' = "closing"
  /\ UNCHANGED <<pc, route, try, client, ctx, taken, given, admission, reports, blame, upstream,
                 once, sawBytes, err, watcher>>

\* Close: closeUnderlying, then complete.
CloseUnderlying ==
  /\ reader = "closing"
  /\ upstream' = "closed" /\ reader' = "closed"
  /\ UNCHANGED <<pc, route, try, client, ctx, taken, given, admission, reports, blame, once,
                 sawBytes, err, watcher>>

CloseCompletes ==
  /\ reader = "closed"
  /\ Complete("stopped")
  /\ reader' = "done" /\ pc' = "done"
  /\ UNCHANGED <<route, try, client, taken, admission, blame, upstream, sawBytes, err, watcher>>

\* watchContext: when the context ends, close the stream and complete it.
WatcherCloses ==
  /\ watcher = "waiting" /\ ctx # "live"
  /\ upstream' = "closed" /\ watcher' = "closed"
  /\ UNCHANGED <<pc, route, try, client, ctx, taken, given, admission, reports, blame, once,
                 sawBytes, err, reader>>

\* Mutant of WatcherCompletes: the watcher closes the stream and leaves the rest to
\* the reader.
WatcherOnlyCloses ==
  /\ watcher = "closed"
  /\ watcher' = "done"
  /\ UNCHANGED <<once, ctx, given, reports, pc, route, try, client, taken, admission, blame, upstream, sawBytes, err, reader>>

WatcherCompletes ==
  /\ watcher = "closed"
  /\ Complete(IF ctx = "expired" THEN "failure" ELSE "stopped")
  /\ watcher' = "done"
  /\ UNCHANGED <<pc, route, try, client, taken, admission, blame, upstream, sawBytes, err, reader>>

-----------------------------------------------------------------------------
\* The client disconnects: the request's context, and the call's, are cancelled.
ClientLeaves ==
  /\ client = "here" /\ pc # "done"
  /\ client' = "gone"
  /\ ctx' = CtxAfter("cancelled")
  /\ blame' = IF pc \in {"calling", "failed", "streaming"} THEN Blamed("client") ELSE blame
  /\ UNCHANGED <<pc, route, try, taken, given, admission, reports, err, streamVars>>

\* The route's timeout passes.
Deadline ==
  /\ pc \in {"calling", "failed", "streaming"} /\ ctx = "live"
  /\ ctx' = "expired"
  /\ blame' = Blamed("fault")
  /\ UNCHANGED <<pc, route, try, client, taken, given, admission, reports, err, streamVars>>

Handler ==
  \/ StartRoute \/ Acquire \/ Call \/ HandleError \/ Retry
Provider == CallSucceeds \/ CallStreams \/ CallPanics \/ \E e \in Error : CallErrs(e)
Reader == ReadData \/ ReaderStops \/ CloseUnderlying \/ CloseCompletes \/ ReadHandle
          \/ \E e \in Error : ReadReturns(e)
Watcher == WatcherCloses \/ WatcherCompletes
Next == Handler \/ Provider \/ Reader \/ Watcher \/ ClientLeaves \/ Deadline

Spec == Init /\ [][Next]_vars

\* Goroutines run and deadlines pass; a call returns once its context has ended.  The
\* reader, which writes to the client, may stall for ever.
FairSpec ==
  /\ Spec
  /\ WF_vars(Handler) /\ WF_vars(ctx # "live" /\ Provider)
  /\ WF_vars(Watcher) /\ WF_vars(Deadline)

-----------------------------------------------------------------------------
Outcomes(a) == {reports[a][i] : i \in 1 .. Len(reports[a])}

\* No route is tried more often than Tries, no slot is taken more than once per route,
\* and the breaker is told successes and failures only (attempt.go:58-236).
TypeOK ==
  /\ pc \in {"dispatch", "acquire", "ready", "calling", "failed", "retry", "streaming", "done"}
  /\ route \in 1 .. Routes /\ try \in 1 .. Tries
  /\ client \in {"here", "gone"} /\ ctx \in {"live", "cancelled", "expired"}
  /\ admission \in 0 .. Routes * Tries
  /\ taken \in [Slot -> 0 .. Routes] /\ given \in [Slot -> 0 .. Routes]
  /\ \A a \in Admission : Outcomes(a) \subseteq {"success", "failure"}
  /\ \A a \in Admission : blame[a] \in {"none", "client", "fault"}
  /\ upstream \in {"none", "open", "ended", "closed"}
  /\ err \in Error \cup {"none"} /\ once \in BOOLEAN /\ sawBytes \in BOOLEAN
  /\ reader \in {"off", "idle", "eof", "error", "closing", "closed", "done"}
  /\ watcher \in {"off", "waiting", "closed", "done"}

\* The slots are held for as long as the provider may be at work: through every
\* retry, and until the stream has ended or is closed, whichever goroutine ends it.
SlotsCoverUpstream ==
  pc = "calling" \/ upstream = "open" => \A s \in Slot : Held(s) = 1

\* Every slot is given back exactly once: never twice, although the reader, Close and
\* the watcher all complete the stream, and none is left when the request is over.
SlotsGivenBackOnce ==
  /\ \A s \in Slot : Held(s) \in {0, 1}
  /\ pc = "done" => \A s \in Slot : Held(s) = 0

\* The breaker hears of an admitted call at most once.
OneOutcomePerAdmission == \A a \in Admission : Len(reports[a]) <= 1

\* A failure is reported only of a call that failed or timed out before the client
\* ended it ("release capacity without treating that client action as a route
\* failure").
ClientIsNotAFailure ==
  \A a \in Admission : "failure" \in Outcomes(a) => blame[a] = "fault"

\* A client that stops reading does not keep a slot or an upstream stream: the
\* deadline and the watcher end them.
StalledReaderLosesSlot ==
  upstream = "open" ~> upstream # "open" /\ \A s \in Slot : Held(s) = 0
=============================================================================
