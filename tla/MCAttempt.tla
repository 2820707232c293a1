------------------------------ MODULE MCAttempt ------------------------------
(***************************************************************************)
(* An attempt and what it is made of: the leases on its slots when they    *)
(* are in Redis (RedisSlots), the provider's call (ProviderCall) and the   *)
(* stream a bridged call returns (BridgeStream).  Each of the four is a    *)
(* specification of its own; one moves, the others stay as they began.     *)
(***************************************************************************)
EXTENDS Attempt, ProviderCall, TLC

CONSTANTS a1, route1, provider, None, MaxLines

VARIABLES part,  \* "attempt", "leases", "call" or "bridge"
          leases, keyTTL, wire, reply, slotPc, lease,
          src, end, pending, pendingErr, out, got, sent

slotVars == <<leases, keyTTL, wire, reply, slotPc, lease>>
bridgeVars == <<src, end, pending, pendingErr, out, got, sent>>

\* One attempt with leases on a route and its provider, released in order.
Leases ==
  INSTANCE RedisSlots WITH
    Attempt <- {a1}, Bucket <- {route1, provider},
    BucketsOf <- [a \in {a1} |-> <<route1, provider>>],
    Limit <- (route1 :> 1) @@ (provider :> 1), TTL <- [a \in {a1} |-> 2],
    MinInterval <- 1, MaxInterval <- 3, CallTimeout <- 1, pc <- slotPc

\* Streams of at most MaxLines lines of every kind.
Bridge ==
  INSTANCE BridgeStream WITH
    Sizes <- {1, 2},
    Sources <- UNION {{[i \in 1 .. n |-> [kind |-> f[i], id |-> i]] :
                         f \in [1 .. n -> {"chunk", "half", "done", "void", "other", "blank"}]} :
                      n \in 0 .. MaxLines}

ASSUME PartsAssumption == Leases!RedisSlotsAssumption /\ ProviderCallAssumption

MCInit ==
  /\ part \in {"attempt", "leases", "call", "bridge"}
  /\ Init /\ Leases!Init /\ CallInit /\ Bridge!Init
  /\ part # "call" => ~stream
  /\ part # "bridge" => src = <<>> /\ end = "eof"

MCNext ==
  /\ UNCHANGED part
  /\ \/ part = "attempt" /\ Next /\ UNCHANGED <<slotVars, callVars, bridgeVars>>
     \/ part = "leases" /\ Leases!Next /\ UNCHANGED <<vars, callVars, bridgeVars>>
     \/ part = "call" /\ CallNext /\ UNCHANGED <<vars, slotVars, bridgeVars>>
     \/ part = "bridge" /\ Bridge!Next /\ UNCHANGED <<vars, slotVars, callVars>>

\* The fairness of each module, for the part that moves.
AttemptFairness ==
  /\ WF_vars(part = "attempt" /\ Handler)
  /\ WF_vars(part = "attempt" /\ ctx # "live" /\ Provider)
  /\ WF_vars(part = "attempt" /\ Watcher)
  /\ WF_vars(part = "attempt" /\ Deadline)

LeaseFairness ==
  /\ WF_slotVars(part = "leases" /\ Leases!Releases(a1))
  /\ \A k \in 1 .. 2 : WF_slotVars(part = "leases" /\ Leases!Renews(a1, k))
  /\ WF_slotVars(part = "leases" /\ Leases!Drains)
  /\ WF_slotVars(part = "leases" /\ Leases!Tick)

CallPartFairness ==
  /\ WF_callVars(part = "call" /\ ContextEnds("expired"))
  /\ WF_callVars(part = "call" /\ GivesUp)

BridgeFairness ==
  /\ WF_bridgeVars(part = "bridge" /\ Bridge!Fill)
  /\ WF_bridgeVars(part = "bridge" /\ Bridge!DeliverErr)
  /\ WF_bridgeVars(part = "bridge" /\ \E n \in {1, 2} : Bridge!Deliver(n))

MCSpec ==
  /\ MCInit /\ [][MCNext]_<<part, vars, slotVars, callVars, bridgeVars>>
  /\ AttemptFairness /\ LeaseFairness /\ CallPartFairness /\ BridgeFairness
-----------------------------------------------------------------------------
\* Once an attempt has begun to give its slots back, whatever was lost, repeated or
\* executed late, its leases are gone from Redis for good in the end, and no renewal that
\* still has a caller brings one back (the join before ReleaseSlot,
\* redisAcquireSlotScript's expiry).
LeasesEnd == [](Leases!TypeOK /\ Leases!RenewalNeverResurrects) /\ Leases!LeasesEnd

\* Every call ends in the ledger, its body closed, even when the provider never answers
\* or its stream stalls (the deadline of the call's context), and what the ledger says of
\* it is said once (AttemptUsageAccumulator.complete).
CallIsAccounted ==
  /\ part = "call" => CallEnds
  /\ [][KeepsCharge]_callVars

\* However the client of a bridged stream cuts its reads, it gets the conversion of the
\* events in their order, and nothing twice; before an EOF every event, the unfinished last
\* one too, before a fault every complete event and nothing of the one it cut; and if it
\* reads on it comes to an end (completionBridgeReadCloser).
BridgeDelivers ==
  /\ [](Bridge!TypeOK /\ Bridge!ReadsAreTheConversion /\ Bridge!NothingIsLostBeforeTheEnd)
  /\ part = "bridge" => Bridge!StreamEnds
=============================================================================
