----------------------------- MODULE RedisSlots -----------------------------
(***************************************************************************)
(* Concurrency slots shared by gateway instances through Redis             *)
(* (policy/attempt.go: acquire, acquireDistributedLimiter; store/redis.go: *)
(* AcquireSlot, ReleaseSlot and their scripts).                            *)
(*                                                                         *)
(* An attempt takes a lease in the bucket of its route and in the bucket   *)
(* of its provider.  A goroutine per lease renews it; the release stops    *)
(* and joins that goroutine before it gives the lease back.  Leases nobody *)
(* renews expire.  A command may be lost, executed more than once by the   *)
(* client's retries, or executed after its caller gave up; a reply may be  *)
(* late.  Time is relative: every deadline is the number of ticks left.    *)
(***************************************************************************)
EXTENDS Integers, Sequences, FiniteSets, FiniteSetsExt, Functions

CONSTANTS
  Attempt,      \* attempts, each with a token of its own (attempt.ID)
  Bucket,       \* route and provider buckets
  BucketsOf,    \* by attempt: <<route bucket, provider bucket>>
  Limit,        \* by bucket: the concurrency limit, 0 for none
  TTL,          \* by attempt: routeAttemptStateTTL of its route, in ticks
  MinInterval, MaxInterval,  \* the clamp of the renewal interval
  CallTimeout   \* how long a client waits for a call

\* What the constants must satisfy.
RedisSlotsAssumption ==
  /\ IsFiniteSet(Attempt)
  /\ BucketsOf \in [Attempt -> Bucket \X Bucket]
  /\ Limit \in [Bucket -> Nat]
  /\ TTL \in [Attempt -> Nat \ {0}]
  /\ MinInterval \in Nat \ {0} /\ MaxInterval \in Nat /\ MinInterval <= MaxInterval
  /\ CallTimeout \in Nat \ {0}

VARIABLES
  leases,  \* by bucket, Redis' sorted set: the ticks left to each member's score
  keyTTL,  \* by bucket: the ticks until Redis drops the whole key
  wire,    \* commands on their way to Redis
  reply,   \* replies on their way back
  pc,      \* by attempt: its phase, and the bucket it is at
  lease    \* by attempt and bucket index: the client's side of the lease

vars == <<leases, keyTTL, wire, reply, pc, lease>>

\* Buckets without a limit take no part (limit <= 0).
Buckets(a) == SelectSeq(BucketsOf[a], LAMBDA b : Limit[b] > 0)
At(a, k) == Buckets(a)[k]
Index(a) == 1 .. Len(Buckets(a))

\* ttl / 3, clamped.
Interval(a) ==
  LET third == TTL[a] \div 3
  IN IF third < MinInterval THEN MinInterval ELSE IF third > MaxInterval THEN MaxInterval ELSE third

\* who waits for the call under way and how long it still does; timer is the ticker of
\* the renewal goroutine (-1 when there is none); missed counts the renewals since
\* the last granted one that had no answer, up to 2.
NoLease == [who |-> "none", left |-> 0, timer |-> -1, missed |-> 0]
Phases == {"idle", "acquire", "run", "join", "release", "done"}

Init ==
  /\ leases = [b \in Bucket |-> <<>>]
  /\ keyTTL = [b \in Bucket |-> 0]
  /\ wire = {} /\ reply = {}
  /\ pc = [a \in Attempt |-> [phase |-> "idle", k |-> 1]]
  /\ lease = [a \in Attempt |-> [k \in 1 .. 2 |-> NoLease]]

-----------------------------------------------------------------------------
(* Redis.                                                                   *)

Drop(set, t) == Restrict(set, DOMAIN set \ {t})
Put(set, t, n) == [x \in DOMAIN set \cup {t} |-> IF x = t THEN n ELSE set[x]]
Latest(set) == Max({0} \cup Range(set))

\* ZREMRANGEBYSCORE -inf now.
Alive(set) == Restrict(set, {t \in DOMAIN set : set[t] > 0})

\* Mutant: the limit is passed by one.
GrantsOneMore(b, a) ==
  LET alive == Alive(leases[b]) IN a \in DOMAIN alive \/ ~(Cardinality(DOMAIN alive) > Limit[b])

\* Mutant: a renewal is admitted like a new lease.
GrantsNewOnly(b, a) == ~(Cardinality(DOMAIN Alive(leases[b])) >= Limit[b])

\* A present token is renewed whatever the count; a new one needs room.
Grants(b, a) ==
  LET alive == Alive(leases[b]) IN a \in DOMAIN alive \/ ~(Cardinality(DOMAIN alive) >= Limit[b])

\* redisAcquireSlotScript.
AcquireScript(b, a) ==
  LET alive == Alive(leases[b])
      set == Put(alive, a, TTL[a])
  IN IF Grants(b, a)
     THEN leases' = [leases EXCEPT ![b] = set] /\ keyTTL' = [keyTTL EXCEPT ![b] = Latest(set)]
     ELSE leases' = [leases EXCEPT ![b] = alive] /\ UNCHANGED keyTTL

\* redisReleaseSlotScript: PEXPIREAT in the past, like DEL, drops the key.
ReleaseScript(b, a) ==
  LET set == Drop(leases[b], a)
  IN /\ leases' = [leases EXCEPT ![b] = IF Latest(set) = 0 THEN <<>> ELSE set]
     /\ keyTTL' = [keyTTL EXCEPT ![b] = Latest(set)]

Command == [op : {"acquire", "release"}, a : Attempt, k : 1 .. 2, who : {"attempt", "renewal", "nobody"}]
ReplyTo(m, ok) == [a |-> m.a, k |-> m.k, who |-> m.who, ok |-> ok]

\* Redis executes a command.  The reply reaches a caller that still waits, or is lost and
\* the client sends the command again.
Execute(m) ==
  LET b == At(m.a, m.k)
      ok == m.op = "release" \/ Grants(b, m.a)
  IN /\ m \in wire
     /\ IF m.op = "acquire" THEN AcquireScript(b, m.a) ELSE ReleaseScript(b, m.a)
     /\ \/ /\ wire' = wire \ {m}
           /\ reply' = IF m.who = "nobody" THEN reply ELSE reply \cup {ReplyTo(m, ok)}
        \/ m.who # "nobody" /\ UNCHANGED <<wire, reply>>
     /\ UNCHANGED <<pc, lease>>

Lose(m) ==
  /\ m \in wire
  /\ wire' = wire \ {m}
  /\ UNCHANGED <<leases, keyTTL, reply, pc, lease>>

-----------------------------------------------------------------------------
(* The gateway.                                                             *)

Send(op, a, k, who) == [op |-> op, a |-> a, k |-> k, who |-> who]
Call(l, who) == [l EXCEPT !.who = who, !.left = CallTimeout]
NoCall(l) == [l EXCEPT !.who = "none", !.left = 0]

\* The caller stops waiting: its command may still be executed, its reply is ignored.
Abandoned(a, k, who) ==
  /\ wire' = {IF m.a = a /\ m.k = k /\ m.who = who THEN [m EXCEPT !.who = "nobody"] ELSE m : m \in wire}
  /\ reply' = {r \in reply : ~(r.a = a /\ r.k = k /\ r.who = who)}

\* acquireDistributedLimiter for the bucket at k, or the provider call when there is
\* none left; l is the lease side of a so far.
Advance(a, k, l) ==
  IF k > Len(Buckets(a))
  THEN /\ pc' = [pc EXCEPT ![a] = [phase |-> "run", k |-> Len(Buckets(a))]]
       /\ lease' = [lease EXCEPT ![a] = l]
       /\ UNCHANGED wire
  ELSE /\ pc' = [pc EXCEPT ![a] = [phase |-> "acquire", k |-> k]]
       /\ lease' = [lease EXCEPT ![a] = [l EXCEPT ![k] = Call(@, "attempt")]]
       /\ wire' = wire \cup {Send("acquire", a, k, "attempt")}

Begin(a) ==
  /\ pc[a].phase = "idle"
  /\ Advance(a, 1, lease[a])
  /\ UNCHANGED <<leases, keyTTL, reply>>

Granted(a) ==
  LET k == pc[a].k
      r == [a |-> a, k |-> k, who |-> "attempt", ok |-> TRUE]
  IN /\ pc[a].phase = "acquire" /\ r \in reply
     /\ reply' = reply \ {r}
     /\ Advance(a, k + 1, [lease[a] EXCEPT ![k] = [NoCall(@) EXCEPT !.timer = Interval(a)]])
     /\ UNCHANGED <<leases, keyTTL>>

\* After the bucket at k: release the one before it.
BackPhase(k) == IF k > 1 THEN [phase |-> "join", k |-> k - 1] ELSE [phase |-> "done", k |-> 0]

\* AcquireSlot failed: refused, timed out, or the request's context was cancelled.
\* Nothing is released in the bucket itself, even if Redis did add the lease.
NotGranted(a) ==
  LET k == pc[a].k IN
  /\ pc[a].phase = "acquire"
  /\ Abandoned(a, k, "attempt")
  /\ pc' = [pc EXCEPT ![a] = BackPhase(k)]
  /\ lease' = [lease EXCEPT ![a][k] = NoCall(@)]
  /\ UNCHANGED <<leases, keyTTL>>

\* The attempt is over; the provider's slot is released first.
Finish(a) ==
  /\ pc[a].phase = "run"
  /\ pc' = [pc EXCEPT ![a] = IF pc[a].k = 0 THEN [phase |-> "done", k |-> 0]
                                            ELSE [phase |-> "join", k |-> pc[a].k]]
  /\ UNCHANGED <<leases, keyTTL, wire, reply, lease>>

\* Mutant: the release does not wait for a renewal under way.
ReleaseSlotWithoutJoin(a) ==
  LET k == pc[a].k IN
  /\ pc[a].phase = "join"
  /\ pc' = [pc EXCEPT ![a].phase = "release"]
  /\ lease' = [lease EXCEPT ![a][k] = [Call(@, "attempt") EXCEPT !.timer = -1]]
  /\ wire' = wire \cup {Send("release", a, k, "attempt")}
  /\ UNCHANGED <<leases, keyTTL, reply>>

\* Mutant: the renewal goroutine is not stopped.
ReleaseSlotStillRenewing(a) ==
  LET k == pc[a].k IN
  /\ pc[a].phase = "join" /\ lease[a][k].who = "none"
  /\ pc' = [pc EXCEPT ![a].phase = "release"]
  /\ lease' = [lease EXCEPT ![a][k] = Call(@, "attempt")]
  /\ wire' = wire \cup {Send("release", a, k, "attempt")}
  /\ UNCHANGED <<leases, keyTTL, reply>>

\* stopRenewal, then <-renewDone, then ReleaseSlot.
ReleaseSlot(a) ==
  LET k == pc[a].k IN
  /\ pc[a].phase = "join" /\ lease[a][k].who = "none"
  /\ pc' = [pc EXCEPT ![a].phase = "release"]
  /\ lease' = [lease EXCEPT ![a][k] = [Call(@, "attempt") EXCEPT !.timer = -1]]
  /\ wire' = wire \cup {Send("release", a, k, "attempt")}
  /\ UNCHANGED <<leases, keyTTL, reply>>

\* ReleaseSlot returned; its error, if any, is ignored.
Released(a) ==
  LET k == pc[a].k
      r == [a |-> a, k |-> k, who |-> "attempt", ok |-> TRUE]
  IN /\ pc[a].phase = "release"
     /\ r \in reply \/ lease[a][k].left = 0
     /\ Abandoned(a, k, "attempt")
     /\ pc' = [pc EXCEPT ![a] = BackPhase(k)]
     /\ lease' = [lease EXCEPT ![a][k] = NoCall(@)]
     /\ UNCHANGED <<leases, keyTTL>>

\* The ticker fires; a tick that finds the previous call under way waits for it.
Stopped(a, k) == pc[a].phase = "join" /\ pc[a].k = k
Renew(a, k) ==
  /\ lease[a][k].timer = 0 /\ lease[a][k].who = "none"
  /\ ~Stopped(a, k)
  /\ lease' = [lease EXCEPT ![a][k] = [Call(@, "renewal") EXCEPT !.timer = Interval(a)]]
  /\ wire' = wire \cup {Send("acquire", a, k, "renewal")}
  /\ UNCHANGED <<leases, keyTTL, reply, pc>>

\* The renewal's call returns: granted, refused, timed out, or cancelled by stopRenewal.
Renewed(a, k) ==
  LET l == lease[a][k]
      granted == [a |-> a, k |-> k, who |-> "renewal", ok |-> TRUE] \in reply
      refused == [a |-> a, k |-> k, who |-> "renewal", ok |-> FALSE] \in reply
  IN /\ l.who = "renewal"
     /\ granted \/ refused \/ l.left = 0 \/ Stopped(a, k)
     /\ Abandoned(a, k, "renewal")
     /\ lease' = [lease EXCEPT ![a][k] =
          [NoCall(l) EXCEPT !.missed = IF granted THEN 0 ELSE IF refused THEN @ ELSE Min({2, @ + 1})]]
     /\ UNCHANGED <<leases, keyTTL, pc>>

\* Time passes, and no further than the next timer or timeout.
Tick ==
  /\ \A a \in Attempt : \A k \in Index(a) :
       /\ lease[a][k].who # "none" => lease[a][k].left > 0
       /\ lease[a][k].timer = 0 => lease[a][k].who = "renewal"
       /\ ~Stopped(a, k)
  /\ keyTTL' = [b \in Bucket |-> Max({0, keyTTL[b] - 1})]
  /\ leases' = [b \in Bucket |-> IF keyTTL[b] <= 1 THEN <<>>
                                 ELSE [t \in DOMAIN leases[b] |-> Max({0, leases[b][t] - 1})]]
  /\ lease' = [a \in Attempt |-> [k \in 1 .. 2 |->
       [lease[a][k] EXCEPT !.left = Max({0, @ - 1}), !.timer = IF @ > 0 THEN @ - 1 ELSE @]]]
  /\ UNCHANGED <<wire, reply, pc>>

Next ==
  \/ \E a \in Attempt : \/ Begin(a) \/ Granted(a) \/ NotGranted(a)
                        \/ Finish(a) \/ ReleaseSlot(a) \/ Released(a)
  \/ \E a \in Attempt : \E k \in Index(a) : Renew(a, k) \/ Renewed(a, k)
  \/ \E m \in wire : Execute(m) \/ Lose(m)
  \/ Tick

\* Timers and timeouts fire, a command is executed or lost, and time goes on.
Releases(a) == ReleaseSlot(a) \/ Released(a) \/ NotGranted(a)
Renews(a, k) == Renew(a, k) \/ Renewed(a, k)
Drains == \E m \in wire : (Execute(m) \/ Lose(m)) /\ wire' # wire
Fairness ==
  /\ \A a \in Attempt : WF_vars(Releases(a))
  /\ \A a \in Attempt : \A k \in Index(a) : WF_vars(Renews(a, k))
  /\ WF_vars(Drains) /\ WF_vars(Tick)

Spec == Init /\ [][Next]_vars /\ Fairness
-----------------------------------------------------------------------------
\* The redis sets hold tokens of the attempts, a dead key holds nothing, and a call is
\* under way exactly while its client waits for it.
TypeOK ==
  /\ \A b \in Bucket : /\ DOMAIN leases[b] \subseteq Attempt
                       /\ keyTTL[b] = Latest(leases[b])
  /\ wire \subseteq Command
  /\ \A a \in Attempt :
       /\ pc[a].phase \in Phases /\ pc[a].k \in 0 .. Len(Buckets(a)) + 1
       /\ pc[a].phase \in {"acquire", "release"} => lease[a][pc[a].k].who = "attempt"
       /\ pc[a].phase = "done" => \A k \in 1 .. 2 : lease[a][k].timer = -1

\* The attempt holds its lease at k as far as the gateway knows: acquired, and its
\* release not begun.
Holds(a, k) == lease[a][k].timer >= 0

\* As long as no two renewals in a row go unanswered, a lease stays in Redis until its release:
\* another token's lease with a shorter life, a full bucket, the key's own expiry or a
\* late reply never take it away (the ttl / 3 interval, the renewal branch and the
\* PEXPIREAT of the latest score in redisAcquireSlotScript).
RenewedLeaseSurvives ==
  \A a \in Attempt : \A k \in Index(a) :
    Holds(a, k) /\ lease[a][k].missed <= 1 => a \in DOMAIN Alive(leases[At(a, k)])

\* The limit the operator configured: the attempts at a provider that were granted a slot
\* and whose renewals got through at least every other time never exceed the bucket's
\* limit, across any number of gateway instances.
UpstreamWithinLimit ==
  \A b \in Bucket : Limit[b] > 0 =>
    Cardinality({a \in Attempt : \E k \in Index(a) : /\ At(a, k) = b /\ pc[a].phase = "run"
                                                     /\ lease[a][k].missed <= 1}) <= Limit[b]

\* The join before ReleaseSlot: once a release was executed, the lease comes back only
\* through a command its caller had given up on.  A renewal that still has a caller never
\* re-creates a lease that was released.
RenewalNeverResurrects ==
  \A m \in wire : m.op = "acquire" /\ m.who = "renewal" => Holds(m.a, m.k)

\* Nothing is leaked for good: once an attempt has begun to give its slots back, whatever
\* was lost, repeated or executed late, its leases are gone from Redis eventually and stay
\* away.
Ended(a) == pc[a].phase \in {"join", "release", "done"}
LeasesEnd ==
  \A a \in Attempt : [](Ended(a) => <>[](\A b \in Bucket : a \notin DOMAIN leases[b]))
=============================================================================
