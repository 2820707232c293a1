------------------------------ MODULE MCPolicy -------------------------------
(***************************************************************************)
(* What AttemptLimits decides a call by besides slots (policy/attempt.go): *)
(* circuit breaking, process-local or, when it has a State, shared through *)
(* Redis (breakerAllow, breakerFail, breakerSuccess), and the rates of the *)
(* route.  One of them moves, the others stay as they began: they share no *)
(* state.                                                                  *)
(*                                                                         *)
(* With Tick = 5 no burst of admissions in one instant reaches the next    *)
(* instant; the shared cooldown is of three milliseconds of four           *)
(* microseconds.                                                           *)
(***************************************************************************)
EXTENDS Breaker, RedisBreaker, RateStore, TLC

CONSTANTS r1, r2, a, b, c, rpm, tpm

MCRoute == {r1, r2}
MCCall == {a, b, c}
MCSymmetry == Permutations(MCCall) \cup Permutations(MCRoute)

\* Two requests in a burst, one earned every 3 ticks; three tokens, one every 2 ticks.
MCKey == {rpm, tpm}
MCInterval == (rpm :> 3) @@ (tpm :> 2)
MCBurst == (rpm :> 2) @@ (tpm :> 3)

\* Routes with both limits, with one of them, and one that names a key twice.
Both == [rpm |-> <<rpm>>, tpm |-> <<tpm>>]
Asks(route, attempt, request) == [route |-> route, attempt |-> attempt, request |-> request]
MCAsked == {Asks(Both, 2, 3), Asks(Both, 0, 4), Asks([Both EXCEPT !.tpm = <<>>], 2, 2),
            Asks([rpm |-> <<>>, tpm |-> <<tpm, tpm>>], 0, 0)}

ASSUME PartsAssumption == RedisBreakerAssumption /\ RateStoreAssumption

VARIABLE part  \* "local", "shared" or "rates"

MCInit ==
  /\ Init /\ RedisInit /\ RateInit /\ part \in {"local", "shared", "rates"}
  /\ part # "shared" => resends = 0

MCNext ==
  /\ UNCHANGED part
  /\ \/ part = "local" /\ Next /\ UNCHANGED <<redisVars, rateVars>>
     \/ part = "shared" /\ RedisNext /\ UNCHANGED <<vars, rateVars>>
     \/ part = "rates" /\ RateNext /\ UNCHANGED <<vars, redisVars>>

MCSpec == MCInit /\ [][MCNext]_<<part, vars, redisVars, rateVars>>
=============================================================================
