------------------------------- MODULE Breaker -------------------------------
(***************************************************************************)
(* The process-local circuit breaker (policy/attempt.go: type Breaker).    *)
(*                                                                         *)
(* Calls to a route are admitted by AllowAttempt, run concurrently, and    *)
(* report in any order, or never (a stream the client closed, an error     *)
(* that is not the provider's).  Each carries its admission time, and the  *)
(* breaker must treat a report as evidence of that time, not of the time   *)
(* it arrives.  Idle routes are forgotten by a periodic prune that any     *)
(* route's report may run.                                                 *)
(*                                                                         *)
(* Time is counted in nanoseconds.  The clock moves in steps of Tick, so   *)
(* several calls may be admitted in one instant; AllowAttempt then spreads *)
(* their admission times one nanosecond apart.                             *)
(***************************************************************************)
EXTENDS Integers, FiniteSets

CONSTANTS
  Route,       \* breaker keys
  Call,        \* identities of calls; one is reused once its call is over
  Threshold,   \* route.Circuit.Failures
  Cooldown,    \* route.Circuit.Cooldown
  StateTTL,    \* routeAttemptStateTTL: no admitted call outlives it
  IdleTTL,     \* localPolicyStateIdleTTL
  PruneEvery,  \* localPolicyPruneEvery
  Tick,        \* granularity of the clock
  MaxTime,     \* bound on the clock
  MaxCalls     \* bound on the number of admissions

ASSUME BreakerAssumption ==
  /\ Threshold \in Nat \ {0} /\ Cooldown \in Nat \ {0}
  /\ StateTTL \in Nat \ {0} /\ IdleTTL \in Nat
  /\ PruneEvery \in Nat \ {0} /\ Tick \in Nat \ {0}
  /\ MaxTime \in Nat /\ MaxCalls \in Nat

VARIABLES
  states,      \* Breaker.states; a missing key reads as the zero state
  operations,  \* Breaker.operations % PruneEvery
  clock,
  call,        \* the calls in flight
  admissions,  \* history: number of admissions so far
  failed,      \* history: per route, the admissions that reported a failure
  newestFail,  \* history: the latest of them
  newestOK,    \* history: per route, the latest admission that reported success
  curedBy      \* history: the latest that did so when no later one had failed

history == <<failed, newestFail, newestOK, curedBy>>
vars == <<states, operations, clock, call, admissions, history>>

\* The zero breakerState; 0 is the zero time.
Zero == [failures |-> 0, openUntil |-> 0, retainUntil |-> 0,
         lastAdmission |-> 0, lastFailure |-> 0, lastSuccess |-> 0]

BreakerState == [failures : Nat, openUntil : Nat, retainUntil : Nat,
                 lastAdmission : Nat, lastFailure : Nat, lastSuccess : Nat]

\* A call in flight: its route, the time AllowAttempt gave it, the clock at
\* that moment, and its place in the order of admissions.
CallState == [live : BOOLEAN, route : Route, startedAt : Nat, at : Nat, seq : Nat]

\* The per-route state keeps its types: failures is never negative, and only calls
\* that were admitted are held against a route (attempt.go:585-592).
TypeOK ==
  /\ states \in [Route -> BreakerState]
  /\ operations \in 0 .. PruneEvery - 1
  /\ clock \in Nat
  /\ call \in [Call -> CallState]
  /\ admissions \in Nat
  /\ failed \in [Route -> SUBSET (1 .. admissions)]
  /\ newestFail \in [Route -> Nat]
  /\ newestOK \in [Route -> Nat]
  /\ curedBy \in [Route -> Nat]

Max2(a, b) == IF a > b THEN a ELSE b

Init ==
  /\ states = [r \in Route |-> Zero]
  /\ operations = 0
  /\ clock = Tick
  /\ \E r \in Route :
       call = [c \in Call |-> [live |-> FALSE, route |-> r, startedAt |-> 0, at |-> 0, seq |-> 0]]
  /\ admissions = 0
  /\ failed = [r \in Route |-> {}]
  /\ newestFail = [r \in Route |-> 0]
  /\ newestOK = [r \in Route |-> 0]
  /\ curedBy = [r \in Route |-> 0]

-----------------------------------------------------------------------------
IsOpen(r) == states[r].openUntil > clock

\* The admission time: now, or just after the previous admission.
StartedAt(s) == IF s.lastAdmission # 0 /\ ~(clock > s.lastAdmission)
                THEN s.lastAdmission + 1
                ELSE clock

\* AllowAttempt that admits.  One that refuses changes nothing.
AllowAttempt(c, r) ==
  LET s == states[r] IN
  /\ ~call[c].live
  /\ admissions < MaxCalls
  /\ ~IsOpen(r)
  /\ states' = [states EXCEPT ![r] =
       [s EXCEPT !.lastAdmission = StartedAt(s),
                 !.retainUntil = Max2(s.retainUntil, clock + StateTTL)]]
  /\ admissions' = admissions + 1
  /\ call' = [call EXCEPT ![c] =
       [live |-> TRUE, route |-> r, startedAt |-> StartedAt(s), at |-> clock,
        seq |-> admissions + 1]]
  /\ UNCHANGED <<operations, clock, history>>

\* Mutant: the prune looks at idleness only, not at calls in flight.
ForgettableInFlight(s) ==
  /\ ~(s.openUntil > clock)
  /\ LET lastSeen == Max2(s.lastFailure, s.lastSuccess)
     IN lastSeen = 0 \/ ~(lastSeen > clock - IdleTTL)

\* What pruneStatesLocked deletes when it is due.
Forgettable(s) ==
  /\ ~(s.openUntil > clock)
  /\ ~(s.retainUntil > clock)
  /\ LET lastSeen == Max2(s.lastFailure, s.lastSuccess)
     IN lastSeen = 0 \/ ~(lastSeen > clock - IdleTTL)

\* The states as pruneStatesLocked leaves them.
Pruned == [r \in Route |-> IF (operations + 1) % PruneEvery = 0 /\ Forgettable(states[r])
                           THEN Zero ELSE states[r]]

\* The call is over, whatever its outcome.
Over(c) == call' = [call EXCEPT ![c] =
  [live |-> FALSE, route |-> @.route, startedAt |-> 0, at |-> 0, seq |-> 0]]

\* Mutant: FailAttempt counts a failure older than the last success.
FailingStale(s, startedAt) ==
  LET t == [s EXCEPT !.lastFailure = Max2(startedAt, @)]
  IN IF s.openUntil > clock THEN t
     ELSE IF s.failures + 1 >= Threshold
          THEN [t EXCEPT !.openUntil = clock + Cooldown, !.failures = 0]
     ELSE [t EXCEPT !.failures = @ + 1]

\* FailAttempt's update of a route's state.
Failing(s, startedAt) ==
  LET t == [s EXCEPT !.lastFailure = Max2(startedAt, @)]
      n == s.failures + 1
  IN IF s.lastSuccess # 0 /\ ~(startedAt > s.lastSuccess) THEN s
     ELSE IF s.openUntil > clock THEN t
     ELSE IF n >= Threshold THEN [t EXCEPT !.openUntil = clock + Cooldown, !.failures = 0]
     ELSE [t EXCEPT !.failures = n]

FailAttempt(c) ==
  LET r == call[c].route IN
  /\ call[c].live
  /\ operations' = (operations + 1) % PruneEvery
  /\ states' = [Pruned EXCEPT ![r] = Failing(@, call[c].startedAt)]
  /\ failed' = [failed EXCEPT ![r] = @ \cup {call[c].seq}]
  /\ newestFail' = [newestFail EXCEPT ![r] = Max2(call[c].seq, @)]
  /\ Over(c)
  /\ UNCHANGED <<clock, admissions, newestOK, curedBy>>

\* Mutant: SuccessAttempt closes the circuit whatever was reported before.
SucceedingStale(s, startedAt) ==
  [s EXCEPT !.failures = 0, !.openUntil = 0, !.lastSuccess = Max2(startedAt, @)]

\* SuccessAttempt's update of a route's state.
Succeeding(s, startedAt) ==
  IF s.lastFailure # 0 /\ ~(startedAt > s.lastFailure) THEN s
  ELSE [s EXCEPT !.failures = 0, !.openUntil = 0, !.lastSuccess = Max2(startedAt, @)]

SuccessAttempt(c) ==
  LET r == call[c].route IN
  /\ call[c].live
  /\ operations' = (operations + 1) % PruneEvery
  /\ states' = [Pruned EXCEPT ![r] = Succeeding(@, call[c].startedAt)]
  /\ newestOK' = [newestOK EXCEPT ![r] = Max2(call[c].seq, @)]
  /\ curedBy' = [curedBy EXCEPT ![r] = IF call[c].seq > newestFail[r]
                                      THEN Max2(call[c].seq, @) ELSE @]
  /\ Over(c)
  /\ UNCHANGED <<clock, admissions, newestFail, failed>>

\* A call that reports nothing: cancelled, closed early, or failed for a
\* reason circuitFailure does not blame on the provider.
Abandon(c) ==
  /\ call[c].live
  /\ Over(c)
  /\ UNCHANGED <<states, operations, clock, admissions, history>>

\* Time passes.  The call's timeout ends it before routeAttemptStateTTL does,
\* which is that timeout (for every retry) plus a buffer of 30 seconds.
Advance ==
  /\ clock + Tick <= MaxTime
  /\ \A c \in Call : call[c].live => clock + Tick < call[c].at + StateTTL
  /\ clock' = clock + Tick
  /\ UNCHANGED <<states, operations, call, admissions, history>>

Next ==
  \/ \E c \in Call :
       \/ \E r \in Route : AllowAttempt(c, r)
       \/ FailAttempt(c)
       \/ SuccessAttempt(c)
       \/ Abandon(c)
  \/ Advance

Spec == Init /\ [][Next]_vars

-----------------------------------------------------------------------------
\* When the latest admission that reported anything reported success, the
\* circuit is closed and no failure is held against the route, in whatever
\* order the reports came in (attempt.go:665-667, 708-718).
NewestSuccessCloses ==
  \A r \in Route : newestOK[r] > newestFail[r] =>
    states[r].failures = 0 /\ states[r].openUntil = 0

\* While the cooldown runs, nothing moves its end except a success admitted
\* after every failure reported so far: late failures do not extend it, and
\* neither a stale success nor a prune ends it (attempt.go:671-677, 708-713,
\* 738-741).
OnlyNewestSuccessCloses ==
  [][\A r \in Route :
       IsOpen(r) /\ states'[r].openUntil # states[r].openUntil =>
         /\ states'[r].openUntil = 0
         /\ \E c \in Call : /\ call[c].route = r /\ call[c].seq > newestFail[r]
                            /\ SuccessAttempt(c)]_vars

\* Failures of a route that no success has cured yet.
Uncured(r) == {n \in failed[r] : n > curedBy[r]}

\* An open circuit, and every failure counted towards opening it, rests on
\* that many distinct failed calls admitted after the success that last
\* cleared the route (attempt.go:665-691, 711-718).
OpensOnEvidence ==
  \A r \in Route :
    /\ states[r].failures <= Cardinality(Uncured(r))
    /\ states[r].openUntil # 0 => Threshold <= Cardinality(Uncured(r))

\* What the comment at attempt.go:665 says: a failure of a call admitted
\* before a call that has already reported success is stale, and does not
\* count against the route.
FailureBeforeSuccessIsStale ==
  [][\A c \in Call :
       LET r == call[c].route IN
       FailAttempt(c) /\ call[c].seq < newestOK[r] =>
         /\ states'[r].failures <= states[r].failures
         /\ states'[r].openUntil <= states[r].openUntil]_vars
=============================================================================
