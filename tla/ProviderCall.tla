---------------------------- MODULE ProviderCall ----------------------------
(***************************************************************************)
(* One call of a provider: Provider.Invoke (proxy/proxy.go) inside the     *)
(* handler of Engine.invoke (gateway/gateway.go), which keeps the call's   *)
(* entry in the usage ledger and its quota reserve.  The response's body   *)
(* is a resource: whoever holds it last must close it.                     *)
(*                                                                         *)
(* Actors: the request's goroutine, the provider (what it answers, and     *)
(* when), the watcher that closes a stream whose context is over, and the  *)
(* call's context, which the client or the deadline ends at any point.     *)
(***************************************************************************)
EXTENDS Integers

CONSTANTS EmptyReads  \* empty reads prefetchStream puts up with

\* What the constant must satisfy.
ProviderCallAssumption == EmptyReads \in Nat \ {0}

\* Classes of HTTP status: "unexpected" is below 200 or 3xx, "beyond" above
\* 599, "auth" 401 and 403, "noRoute" a 404 about the model or deployment,
\* "transient" 408, 409 and 425, "limited" 429, "rejected" any other 4xx.
Failing == {"unexpected", "beyond", "auth", "noRoute", "server", "transient", "limited", "rejected"}

VARIABLES stream,   \* the request asks for a stream
          callCtx,  \* the call's context: "live", "cancelled", "expired"
          callPc,   \* "start", "sent", "response", "body", "prefetch", "streaming", "done"
          callSent, \* the request may have reached the provider
          status,   \* the response's status, or "none"
          body,     \* the response's body: "none", "open", "closed"
          reported, \* the provider's answer reported usage
          entry,    \* the ledger's: "open", "cancelled", "final", "partial"
          reserve,  \* the attempt's quota reserve: "held", "released", "reconciled"
          empties,  \* empty reads so far
          callErr   \* the error returned: a disposition, or NoError

callVars == <<stream, callCtx, callPc, callSent, status, body, reported, entry, reserve, empties, callErr>>

-----------------------------------------------------------------------------
(* Errors                                                                  *)

Disposition(retry, fallback, circuit) ==
  [retry |-> retry, fallback |-> fallback, circuit |-> circuit]

NoError   == Disposition(FALSE, FALSE, FALSE)
Outage    == Disposition(TRUE, TRUE, TRUE)
BadAnswer == Disposition(FALSE, TRUE, TRUE)
Elsewhere == Disposition(FALSE, TRUE, FALSE)
Refused   == Disposition(FALSE, FALSE, FALSE)

\* What retryable and circuitFailure make of the context's own error.
CtxError == IF callCtx = "cancelled" THEN Elsewhere ELSE Outage
Dispositions == [retry : BOOLEAN, fallback : BOOLEAN, circuit : BOOLEAN]

UpstreamDispositionByStatus(s) ==
  IF s \in {"server", "auth"} THEN Disposition(s = "server", FALSE, TRUE) ELSE Refused

UpstreamDisposition(s) ==
  IF s = "rejected" THEN Refused
  ELSE Disposition(s \in {"server", "transient"}, TRUE, s \notin {"transient", "limited"})

BillByStatus(s, rep) == IF s \in Failing \ {"server", "beyond"} THEN "free" ELSE "usage"

\* A call that failed with a status below 500 and reported no usage is free.
UpstreamBill(s, rep) ==
  IF rep THEN "usage" ELSE IF s \in {"server", "beyond"} THEN "unknown" ELSE "free"

-----------------------------------------------------------------------------
CallInit ==
  /\ stream \in BOOLEAN
  /\ callCtx = "live"
  /\ callPc = "start"
  /\ callSent = FALSE
  /\ status = "none"
  /\ body = "none"
  /\ reported = FALSE
  /\ entry = "open"
  /\ reserve = "held"
  /\ empties = 0
  /\ callErr = NoError

CompleteAlways(how) == how

\* AttemptUsageAccumulator.complete: the first completion counts.
CompleteEntry(how) == IF entry = "open" THEN how ELSE entry

\* ReconcileProviderAttemptReservation: the overage may be denied, which ends
\* the request.
Reconcile(d) ==
  \/ reserve' = "reconciled" /\ callErr' = d
  \/ reserve' = "held" /\ callErr' = Refused

\* The error path of Engine.invoke's handler.  A body still open is closed by
\* the caller of this.
Fail(d, bill) ==
  /\ callPc' = "done"
  /\ entry' = IF bill = "free" THEN "cancelled" ELSE CompleteEntry("final")
  /\ \/ bill = "free" /\ reserve' = "released" /\ callErr' = d
     \/ bill = "usage" /\ Reconcile(d)
     \/ bill = "unknown" /\ reserve' = "held" /\ callErr' = d

\* Prepare, the request's headers and its authentication, up to Do.
PrepareFails(d) ==
  /\ callPc = "start"
  /\ Fail(d, "free")
  /\ UNCHANGED <<stream, callCtx, callSent, status, body, reported, empties>>

Send ==
  /\ callPc = "start"
  /\ IF callCtx # "live"
     THEN Fail(CtxError, "free") /\ UNCHANGED callSent
     ELSE callSent' = TRUE /\ callPc' = "sent" /\ UNCHANGED <<entry, reserve, callErr>>
  /\ UNCHANGED <<stream, callCtx, status, body, reported, empties>>

\* The provider may have done the work all the same.
DoFails ==
  /\ callPc = "sent"
  /\ Fail(CtxError, "unknown")
  /\ UNCHANGED <<stream, callCtx, callSent, status, body, reported, empties>>

DoReturns(s) ==
  /\ callPc = "sent"
  /\ callPc' = "response"
  /\ status' = s
  /\ body' = "open"
  /\ UNCHANGED <<stream, callCtx, callSent, reported, entry, reserve, empties, callErr>>

\* The bounded body of an error, whatever was asked for.
ErrorStatus(read, rep) ==
  /\ callPc = "response"
  /\ status # "ok"
  /\ body' = "closed"
  /\ reported' = (rep /\ read = "ok")
  /\ \/ read = "failed" /\ Fail(Outage, "unknown")
     \/ read = "tooLarge" /\ Fail(Elsewhere, "unknown")
     \/ read = "ok" /\ Fail(UpstreamDisposition(status), UpstreamBill(status, rep))
  /\ UNCHANGED <<stream, callCtx, callSent, status, empties>>

LeaveOpen == "open"
CloseBody == "closed"

\* A stream that is not SSE, or that the adapter's Transform does not take.
StreamRefused(d) ==
  /\ callPc = "response"
  /\ status = "ok"
  /\ stream
  /\ body' = CloseBody
  /\ Fail(d, "unknown")
  /\ UNCHANGED <<stream, callCtx, callSent, status, reported, empties>>

StreamAccepted ==
  /\ callPc = "response"
  /\ status = "ok"
  /\ stream
  /\ callPc' = "prefetch"
  /\ UNCHANGED <<stream, callCtx, callSent, status, body, reported, entry, reserve, empties, callErr>>

\* A unary answer: read, then checked and translated by the adapter.
ReadBody(read, rep) ==
  /\ callPc = "response"
  /\ status = "ok"
  /\ ~stream
  /\ body' = "closed"
  /\ reported' = (rep /\ read = "ok")
  /\ \/ read = "failed" /\ Fail(Outage, "unknown")
     \/ read = "tooLarge" /\ Fail(Elsewhere, "unknown")
     \/ read = "ok" /\ callPc' = "body" /\ UNCHANGED <<entry, reserve, callErr>>
  /\ UNCHANGED <<stream, callCtx, callSent, status, empties>>

\* ValidateResponse, TransformResponse, and the size of what it made.
BodyRefused(how) ==
  /\ callPc = "body"
  /\ \/ how = "invalid" /\ Fail(BadAnswer, "unknown")
     \/ how = "untranslated" /\ Fail(BadAnswer, IF reported THEN "usage" ELSE "unknown")
     \/ how = "tooLarge" /\ Fail(Elsewhere, "unknown")
  /\ UNCHANGED <<stream, callCtx, callSent, status, body, reported, empties>>

\* validateProviderResult rejects an empty body; its usage, reconciled with the
\* estimate, is never zero.
BodyAccepted(empty) ==
  /\ callPc = "body"
  /\ IF empty THEN Fail(BadAnswer, "usage")
     ELSE callPc' = "done" /\ entry' = CompleteEntry("final") /\ UNCHANGED <<reserve, callErr>>
  /\ UNCHANGED <<stream, callCtx, callSent, status, body, reported, empties>>

-----------------------------------------------------------------------------
(* Streams                                                                 *)

\* attemptUsageReadCloser: reading to the end or into an error, or closing,
\* completes the entry.
FinishOnRead(how) ==
  IF how = "nil" THEN entry ELSE CompleteEntry(IF how = "eof" THEN "final" ELSE "partial")

FinishNever == entry
FinishOnClose == CompleteEntry("partial")

PrefetchFails(d) ==
  /\ callPc' = "done"
  /\ body' = "closed"
  /\ Reconcile(d)

\* A first byte, whether or not the stream ends with it.
PrefetchData(how) ==
  /\ callPc = "prefetch"
  /\ entry' = FinishOnRead(how)
  /\ IF how = "error"
     THEN \E d \in {BadAnswer, Outage, Elsewhere} : PrefetchFails(d)
     ELSE callPc' = "streaming" /\ UNCHANGED <<body, reserve, callErr>>
  /\ UNCHANGED <<stream, callCtx, callSent, status, reported, empties>>

\* The stream ends or breaks before its first byte.
PrefetchEnds(how) ==
  /\ callPc = "prefetch"
  /\ entry' = FinishOnRead(how)
  /\ \E d \in {BadAnswer, Outage, Elsewhere} : PrefetchFails(d)
  /\ UNCHANGED <<stream, callCtx, callSent, status, reported, empties>>

PrefetchEmpty ==
  /\ callPc = "prefetch"
  /\ empties < EmptyReads
  /\ empties' = empties + 1
  /\ IF callCtx # "live" \/ empties' = EmptyReads
     THEN /\ PrefetchFails(IF callCtx # "live" THEN CtxError ELSE BadAnswer)
          /\ entry' = FinishOnClose
     ELSE UNCHANGED <<callPc, body, entry, reserve, callErr>>
  /\ UNCHANGED <<stream, callCtx, callSent, status, reported>>

StreamReads(how) ==
  /\ callPc = "streaming"
  /\ body = "open"
  /\ entry' = FinishOnRead(how)
  /\ UNCHANGED <<stream, callCtx, callPc, callSent, status, body, reported, reserve, empties, callErr>>

\* The handler closes the stream when it stops reading, the watcher when the
\* context is over.
StreamCloses ==
  /\ callPc = "streaming"
  /\ body' = "closed"
  /\ entry' = FinishOnClose
  /\ callPc' = "done"
  /\ UNCHANGED <<stream, callCtx, callSent, status, reported, reserve, empties, callErr>>

-----------------------------------------------------------------------------
ContextEnds(cause) ==
  /\ callPc # "done"
  /\ callCtx = "live"
  /\ callCtx' = cause
  /\ UNCHANGED <<stream, callPc, callSent, status, body, reported, entry, reserve, empties, callErr>>

Reads == {"ok", "failed", "tooLarge"}

CallNext ==
  \/ \E d \in {Refused, Elsewhere, Outage} : PrepareFails(d)
  \/ Send
  \/ DoFails
  \/ \E s \in Failing \cup {"ok"} : DoReturns(s)
  \/ \E read \in Reads, rep \in BOOLEAN : ErrorStatus(read, rep) \/ ReadBody(read, rep)
  \/ \E d \in {BadAnswer, Elsewhere} : StreamRefused(d)
  \/ StreamAccepted
  \/ \E how \in {"invalid", "untranslated", "tooLarge"} : BodyRefused(how)
  \/ \E empty \in BOOLEAN : BodyAccepted(empty)
  \/ \E how \in {"nil", "eof", "error"} : PrefetchData(how) \/ StreamReads(how)
  \/ \E how \in {"eof", "error"} : PrefetchEnds(how)
  \/ PrefetchEmpty
  \/ StreamCloses
  \/ \E cause \in {"cancelled", "expired"} : ContextEnds(cause)

\* The deadline of the call passes; from then on the transport and the watcher
\* end whatever the provider leaves hanging, and the code goes on.
GivesUp ==
  /\ callCtx # "live"
  /\ \/ Send
     \/ DoFails
     \/ ErrorStatus("failed", FALSE)
     \/ ReadBody("failed", FALSE)
     \/ PrefetchEnds("error")
     \/ StreamAccepted
     \/ BodyAccepted(FALSE)
     \/ StreamCloses

CallFairness == WF_callVars(ContextEnds("expired")) /\ WF_callVars(GivesUp)

CallSpec == CallInit /\ [][CallNext]_callVars
CallFairSpec == CallSpec /\ CallFairness

-----------------------------------------------------------------------------
(* Properties                                                              *)

\* The variables' types; prefetchStream's loop of empty reads ends.
CallTypeOK ==
  /\ stream \in BOOLEAN /\ callSent \in BOOLEAN /\ reported \in BOOLEAN
  /\ callCtx \in {"live", "cancelled", "expired"}
  /\ callPc \in {"start", "sent", "response", "body", "prefetch", "streaming", "done"}
  /\ status \in Failing \cup {"none", "ok"}
  /\ body \in {"none", "open", "closed"}
  /\ entry \in {"open", "cancelled", "final", "partial"}
  /\ reserve \in {"held", "released", "reconciled"}
  /\ empties \in 0..EmptyReads
  /\ callErr \in Dispositions

\* However the call ends, its response body is closed, and only a stream on its
\* way to the client is still open (Provider.Invoke, prefetchStream).
BodyIsClosed == callPc = "done" => body # "open"

\* A call is free only when it never left, or when the provider refused it
\* without reporting usage (WithoutAttemptCharge, upstreamAttemptError).
FreeOnlyIfUnbilled ==
  entry = "cancelled" => ~callSent \/ (status \in Failing \ {"server", "beyond"} /\ ~reported)

\* The reserve follows the ledger: it is released exactly when the call is free,
\* and given back in part only once the charge is final.
ReserveFollowsLedger ==
  /\ reserve = "released" <=> entry = "cancelled"
  /\ reserve = "reconciled" => entry \in {"final", "partial"}

\* An error that counts against the route, or is worth a retry, also lets
\* another route be tried (withUpstreamDisposition and every other error path).
FaultsAllowFallback == callErr.retry \/ callErr.circuit => callErr.fallback

\* The ledger tells the truth about a call.  It is free only when it never left, or when
\* the provider refused it without reporting usage; its reserve is released exactly then,
\* and given back in part only once the charge is final; however it ends its body is
\* closed, unless the stream is on its way to the client; and an error that counts against
\* the route, or is worth a retry, also lets another route be tried (Provider.Invoke,
\* WithoutAttemptCharge, upstreamAttemptError, prefetchStream).
LedgerIsTrue ==
  CallTypeOK /\ BodyIsClosed /\ FreeOnlyIfUnbilled /\ ReserveFollowsLedger /\ FaultsAllowFallback

\* What the ledger says of a call is said once: a later end of the stream does
\* not overwrite it (AttemptUsageAccumulator.complete).
KeepsCharge == entry # "open" => entry' = entry
ChargedOnce == [][KeepsCharge]_callVars

\* Every call ends in the ledger, its body closed, even when the provider never
\* answers or its stream stalls (the deadline of the call's context).
CallEnds == <>(callPc = "done" /\ entry # "open" /\ body # "open")
=============================================================================
