------------------------------- MODULE Service -------------------------------
(***************************************************************************)
(* Graceful shutdown (app/app.go: Shutdown, the request tracker;           *)
(* cmd/llmgw/main.go: run).                                                *)
(*                                                                         *)
(* HTTP handlers settle quota in the stores before they return.  Shutdown  *)
(* refuses new requests, lets net/http drain, and closes the stores only   *)
(* once the tracker says that every accepted request has ended.  When the  *)
(* drain misses its deadline the connections are closed, Shutdown returns  *)
(* an error, and a goroutine it leaves behind closes the stores later.     *)
(***************************************************************************)
EXTENDS Integers, FiniteSets

CONSTANT Handler   \* connections, each with at most one handler running

ASSUME ServiceAssumption == IsFiniteSet(Handler)

VARIABLES
  shuttingDown, activeRequests, drainClosed,  \* the tracker, under requestMu
  drainCloses,   \* how often close(requestsDrained) ran
  handler,       \* where each connection's handler is
  shutdown,      \* where the call of Shutdown is
  cleaner,       \* the goroutine Shutdown may leave behind
  storeCloses,   \* how often closeOperationalResources ran
  exited         \* main has returned

tracker == <<shuttingDown, activeRequests, drainClosed, drainCloses>>
vars == <<tracker, handler, shutdown, cleaner, storeCloses, exited>>

\* "arrived": net/http has read a request and is about to call the handler.
\* "serving": beginRequest accepted it.  "settled": its quota is settled.
HandlerPC == {"idle", "arrived", "serving", "settled"}

\* "draining" is inside http.Server.Shutdown; "drained" and "expired" are its
\* two ways out, up to the point where Shutdown decides who closes the stores.
ShutdownPC == {"up", "draining", "drained", "expired", "returned"}

\* The tracker never counts below zero: each accepted request is deregistered once
\* (app.go:308-348).
TypeOK ==
  /\ shuttingDown \in BOOLEAN /\ drainClosed \in BOOLEAN /\ exited \in BOOLEAN
  /\ activeRequests \in Nat /\ drainCloses \in Nat /\ storeCloses \in Nat
  /\ handler \in [Handler -> HandlerPC]
  /\ shutdown \in ShutdownPC
  /\ cleaner \in {"none", "waiting", "done"}

Init ==
  /\ shuttingDown = FALSE /\ drainClosed = FALSE /\ exited = FALSE
  /\ activeRequests = 0 /\ drainCloses = 0 /\ storeCloses = 0
  /\ handler = [h \in Handler |-> "idle"]
  /\ shutdown = "up"
  /\ cleaner = "none"

-----------------------------------------------------------------------------
\* net/http reads a request.  Shutdown closes listeners and idle connections
\* but one that was just accepted may still deliver a request; after Shutdown
\* or Close has returned none can.
Arrive(h) ==
  /\ ~exited /\ handler[h] = "idle"
  /\ shutdown \in {"up", "draining"}
  /\ handler' = [handler EXCEPT ![h] = "arrived"]
  /\ UNCHANGED <<tracker, shutdown, cleaner, storeCloses, exited>>

\* trackRequests and beginRequest.
BeginRequest(h) ==
  /\ ~exited /\ handler[h] = "arrived"
  /\ IF shuttingDown
     THEN /\ handler' = [handler EXCEPT ![h] = "idle"]
          /\ UNCHANGED activeRequests
     ELSE /\ handler' = [handler EXCEPT ![h] = "serving"]
          /\ activeRequests' = activeRequests + 1
  /\ UNCHANGED <<shuttingDown, drainClosed, drainCloses, shutdown, cleaner, storeCloses, exited>>

\* The handler settles its reservation in the stores.
Settle(h) ==
  /\ ~exited /\ handler[h] = "serving"
  /\ handler' = [handler EXCEPT ![h] = "settled"]
  /\ UNCHANGED <<tracker, shutdown, cleaner, storeCloses, exited>>

\* close(requestsDrained), guarded by drainClosed, when n requests are active.
CloseDrainIf(down, n) ==
  IF down /\ n = 0 /\ ~drainClosed
  THEN drainClosed' = TRUE /\ drainCloses' = drainCloses + 1
  ELSE UNCHANGED <<drainClosed, drainCloses>>

\* Mutant: the last request to end does not close the drain channel.
EndRequestSilently(h) ==
  /\ ~exited /\ handler[h] = "settled"
  /\ handler' = [handler EXCEPT ![h] = "idle"]
  /\ activeRequests' = activeRequests - 1
  /\ UNCHANGED <<shuttingDown, drainClosed, drainCloses, shutdown, cleaner, storeCloses, exited>>

\* endRequest, deferred by trackRequests.
EndRequest(h) ==
  /\ ~exited /\ handler[h] = "settled"
  /\ handler' = [handler EXCEPT ![h] = "idle"]
  /\ activeRequests' = IF activeRequests > 0 THEN activeRequests - 1 ELSE activeRequests
  /\ CloseDrainIf(shuttingDown, activeRequests')
  /\ UNCHANGED <<shuttingDown, shutdown, cleaner, storeCloses, exited>>

\* A signal, or a failed Serve, makes main call Shutdown: beginShutdown.
BeginShutdown ==
  /\ ~exited /\ shutdown = "up"
  /\ shutdown' = "draining"
  /\ shuttingDown' = TRUE
  /\ CloseDrainIf(TRUE, activeRequests)
  /\ UNCHANGED <<activeRequests, handler, cleaner, storeCloses, exited>>

\* http.Server.Shutdown returns nil: every connection is idle and closed.
HTTPDrained ==
  /\ ~exited /\ shutdown = "draining"
  /\ \A h \in Handler : handler[h] = "idle"
  /\ shutdown' = "drained"
  /\ UNCHANGED <<tracker, handler, cleaner, storeCloses, exited>>

\* Its context expires first; Close then closes the connections.  Handlers go
\* on until they return.
HTTPExpired ==
  /\ ~exited /\ shutdown = "draining"
  /\ shutdown' = "expired"
  /\ UNCHANGED <<tracker, handler, cleaner, storeCloses, exited>>

\* After a clean drain Shutdown blocks on the tracker's channel, then closes.
CloseAfterDrain ==
  /\ ~exited /\ shutdown = "drained"
  /\ drainClosed
  /\ storeCloses' = storeCloses + 1
  /\ shutdown' = "returned"
  /\ UNCHANGED <<tracker, handler, cleaner, exited>>

\* Mutant: after an expired drain the stores are closed at once.
CloseAtOnce ==
  /\ ~exited /\ shutdown = "expired"
  /\ shutdown' = "returned"
  /\ storeCloses' = storeCloses + 1
  /\ UNCHANGED <<tracker, handler, cleaner, exited>>

\* Mutant: after an expired drain Shutdown waits for the handlers.
CloseWhenDrained ==
  /\ ~exited /\ shutdown = "expired" /\ drainClosed
  /\ shutdown' = "returned"
  /\ storeCloses' = storeCloses + 1
  /\ UNCHANGED <<tracker, handler, cleaner, exited>>

\* After an expired drain it closes only if the channel is closed already,
\* and otherwise leaves a goroutine to do so.
CloseOrDefer ==
  /\ ~exited /\ shutdown = "expired"
  /\ shutdown' = "returned"
  /\ IF drainClosed
     THEN storeCloses' = storeCloses + 1 /\ UNCHANGED cleaner
     ELSE cleaner' = "waiting" /\ UNCHANGED storeCloses
  /\ UNCHANGED <<tracker, handler, exited>>

\* That goroutine.
CloseLater ==
  /\ ~exited /\ cleaner = "waiting"
  /\ drainClosed
  /\ storeCloses' = storeCloses + 1
  /\ cleaner' = "done"
  /\ UNCHANGED <<tracker, handler, shutdown, exited>>

\* main returns once Shutdown has, which ends the process.
Exit ==
  /\ ~exited /\ shutdown = "returned"
  /\ exited' = TRUE
  /\ UNCHANGED <<tracker, handler, shutdown, cleaner, storeCloses>>

HandlerStep(h) == BeginRequest(h) \/ Settle(h) \/ EndRequest(h)
ShutdownStep == HTTPDrained \/ HTTPExpired \/ CloseAfterDrain \/ CloseOrDefer

\* The service as a library: nothing ends the process.
ServiceNext ==
  \/ \E h \in Handler : Arrive(h) \/ HandlerStep(h)
  \/ BeginShutdown \/ ShutdownStep \/ CloseLater

\* The command: main returns after Shutdown, and nothing runs after that.
Next == ServiceNext \/ Exit

Spec == Init /\ [][Next]_vars

\* Fairness.  The deadline makes http.Server.Shutdown return, and the Go
\* scheduler runs the goroutines of Shutdown, the cleaner and main, ...
ShutdownFairness == WF_vars(ShutdownStep) /\ WF_vars(CloseLater) /\ WF_vars(Exit)

\* ... and those of the handlers, which return once their request context is
\* cancelled.
HandlerFairness == \A h \in Handler : WF_vars(HandlerStep(h))

\* The command, when every cancelled handler returns.
FairSpec == Spec /\ ShutdownFairness /\ HandlerFairness

-----------------------------------------------------------------------------
Accepted == {h \in Handler : handler[h] \in {"serving", "settled"}}

\* The stores are never closed under a handler that may still settle quota,
\* and neither they nor the drain channel are closed twice (closing a channel
\* twice panics): app.go:270-285, 324-359.
StoresOutliveHandlers ==
  /\ storeCloses > 0 => Accepted = {}
  /\ storeCloses <= 1 /\ drainCloses <= 1

\* The tracker counts exactly the accepted requests, and the drain channel is
\* closed exactly when shutdown has begun and none is left, so no request is
\* accepted after that (app.go:308-348).
TrackerIsExact ==
  /\ activeRequests = Cardinality(Accepted)
  /\ drainClosed <=> (shuttingDown /\ Accepted = {})

\* Shutdown returns even when a handler never does (app.go:247-288).
ShutdownReturns == shuttingDown ~> (shutdown = "returned")

\* The stores are closed in the end, by Shutdown or by the goroutine it left,
\* provided cancelled handlers return (app.go:268-287).
StoresAreClosed == shuttingDown ~> (storeCloses = 1)

\* What the comment at app.go:278-279 promises: handlers whose connection was
\* force-closed still settle their quota.
AcceptedRequestsSettle ==
  \A h \in Handler : handler[h] = "serving" ~> handler[h] = "settled"
=============================================================================
