------------------------------- MODULE Limiter -------------------------------
(***************************************************************************)
(* The process-local concurrency limiter of the attempt policy             *)
(* (policy/attempt.go: acquireLimiter, pruneLimiters, type limiter).       *)
(*                                                                         *)
(* A sync.Map holds one limiter object per key.  Callers look the object   *)
(* up, then lock it and take a slot; every PruneEvery-th call first walks  *)
(* the map and retires idle objects.  Between a look-up and the lock the   *)
(* object may have been retired and replaced, which is what this module    *)
(* is about: slots must never be counted on two objects of one key.        *)
(*                                                                         *)
(* Objects are elements of Entry.  Go's garbage collector is modelled by   *)
(* letting an object be allocated again once nothing refers to it.         *)
(***************************************************************************)
EXTENDS Integers, FiniteSets

CONSTANTS
  Caller,      \* goroutines that acquire and release slots
  Key,         \* limiter keys ("route:..." and "provider:...")
  Entry,       \* addresses of limiter objects
  Limits,      \* concurrency limits a configuration snapshot may carry
  PruneEvery,  \* localPolicyPruneEvery
  IdleTTL,     \* localPolicyStateIdleTTL
  MaxTime,     \* bound on the clock
  NoEntry      \* "no object"

ASSUME LimiterAssumption ==
  /\ IsFiniteSet(Caller)
  /\ NoEntry \notin Entry
  /\ Limits \subseteq Nat \ {0}
  /\ PruneEvery \in Nat \ {0}
  /\ IdleTTL \in Nat /\ MaxTime \in Nat

VARIABLES
  limiters,    \* the sync.Map: key -> object or NoEntry
  current,     \* limiter.current, per object
  lastSeen,    \* limiter.lastSeen, per object
  retired,     \* limiter.retired, per object
  operations,  \* limiterOperations % PruneEvery
  clock,       \* wall clock
  pc,          \* where each caller is
  key, limit, now,  \* a caller's arguments and the time it read on entry
  entry,       \* the object a caller looked up
  visit,       \* keys the Range of a pruning caller has still to yield
  at           \* the key that Range yielded last

limiterVars == <<limiters, current, lastSeen, retired, operations, clock,
          pc, key, limit, now, entry, visit, at>>

\* "idle" is outside the limiter; "held" owns a slot; the others are places
\* in acquireLimiter and in the pruneLimiters call it makes.
PC == {"idle", "prune", "retire", "unlink", "load", "lock", "drop", "held"}

\* The zero time.Time is older than every cutoff.
ZeroTime == 0

\* No limiter's counter goes negative, whatever the order of acquires, releases and
\* retirements (attempt.go:753-797).
LimiterTypeOK ==
  /\ limiters \in [Key -> Entry \cup {NoEntry}]
  /\ current \in [Entry -> Nat]
  /\ lastSeen \in [Entry -> Nat]
  /\ retired \in [Entry -> BOOLEAN]
  /\ operations \in 0 .. PruneEvery - 1
  /\ clock \in Nat
  /\ pc \in [Caller -> PC]
  /\ key \in [Caller -> Key]
  /\ limit \in [Caller -> Limits]
  /\ now \in [Caller -> Nat]
  /\ entry \in [Caller -> Entry \cup {NoEntry}]
  /\ visit \in [Caller -> SUBSET Key]
  /\ at \in [Caller -> Key]

\* Callers that own a slot counted on object e.
HoldersOf(e) == {c \in Caller : pc[c] = "held" /\ entry[c] = e}

Unreferenced(e) ==
  /\ \A k \in Key : limiters[k] # e
  /\ \A c \in Caller : entry[c] # e

LimiterInit ==
  /\ limiters = [k \in Key |-> NoEntry]
  /\ current = [e \in Entry |-> 0]
  /\ lastSeen = [e \in Entry |-> ZeroTime]
  /\ retired = [e \in Entry |-> FALSE]
  /\ operations = 0
  /\ clock = IdleTTL
  /\ pc = [c \in Caller |-> "idle"]
  /\ key \in [Caller -> Key]
  /\ limit \in [Caller -> Limits]
  /\ now = [c \in Caller |-> 0]
  /\ entry = [c \in Caller |-> NoEntry]
  /\ visit = [c \in Caller |-> {}]
  /\ at = key

-----------------------------------------------------------------------------
(* acquireLimiter up to its loop: read the clock, count the operation, and  *)
(* on every PruneEvery-th one walk the map.  (A limit of zero returns       *)
(* before any of this and takes no slot, so Limits holds positive limits.)  *)
Enter(c, k, n) ==
  /\ pc[c] = "idle"
  /\ key' = [key EXCEPT ![c] = k]
  /\ limit' = [limit EXCEPT ![c] = n]
  /\ now' = [now EXCEPT ![c] = clock]
  /\ operations' = (operations + 1) % PruneEvery
  /\ IF operations' = 0
     THEN /\ pc' = [pc EXCEPT ![c] = "prune"]
          /\ visit' = [visit EXCEPT ![c] = Key]
     ELSE /\ pc' = [pc EXCEPT ![c] = "load"]
          /\ UNCHANGED visit
  /\ UNCHANGED <<limiters, current, lastSeen, retired, clock, entry, at>>

\* One iteration of sync.Map.Range: keys come in any order, each at most once.
RangeNext(c, k) ==
  /\ pc[c] = "prune" /\ k \in visit[c]
  /\ visit' = [visit EXCEPT ![c] = @ \ {k}]
  /\ at' = [at EXCEPT ![c] = k]
  /\ entry' = [entry EXCEPT ![c] = limiters[k]]
  /\ pc' = [pc EXCEPT ![c] = IF limiters[k] = NoEntry THEN "prune" ELSE "retire"]
  /\ UNCHANGED <<limiters, current, lastSeen, retired, operations, clock,
                 key, limit, now>>

\* What retireIfIdle tests under the object's lock.
IsIdle(e, cutoff) == current[e] = 0 /\ lastSeen[e] <= cutoff

\* retireIfIdle on the yielded object, which may by now be an old one.
RetireIfIdle(c) ==
  LET e == entry[c] IN
  /\ pc[c] = "retire"
  /\ IF IsIdle(e, now[c] - IdleTTL)
     THEN /\ retired' = [retired EXCEPT ![e] = TRUE]
          /\ pc' = [pc EXCEPT ![c] = "unlink"]
          /\ UNCHANGED entry
     ELSE /\ pc' = [pc EXCEPT ![c] = "prune"]
          /\ entry' = [entry EXCEPT ![c] = NoEntry]
          /\ UNCHANGED retired
  /\ UNCHANGED <<limiters, current, lastSeen, operations, clock,
                 key, limit, now, visit, at>>

\* Mutant: a plain Delete, which unmaps whatever object is there.
DeleteAnyway(k, e) == limiters' = [limiters EXCEPT ![k] = NoEntry]

\* sync.Map.CompareAndDelete: unmap k if it still maps to object e.
CompareAndDelete(k, e) ==
  limiters' = [limiters EXCEPT ![k] = IF @ = e THEN NoEntry ELSE @]

\* The CompareAndDelete of pruneLimiters.
Unlink(c) ==
  /\ pc[c] = "unlink"
  /\ CompareAndDelete(at[c], entry[c])
  /\ entry' = [entry EXCEPT ![c] = NoEntry]
  /\ pc' = [pc EXCEPT ![c] = "prune"]
  /\ UNCHANGED <<current, lastSeen, retired, operations, clock,
                 key, limit, now, visit, at>>

PruneDone(c) ==
  /\ pc[c] = "prune" /\ visit[c] = {}
  /\ pc' = [pc EXCEPT ![c] = "load"]
  /\ UNCHANGED <<limiters, current, lastSeen, retired, operations, clock,
                 key, limit, now, entry, visit, at>>

\* LoadOrStore: the stored object, or a new zero limiter.
LoadOrStore(c) ==
  /\ pc[c] = "load"
  /\ pc' = [pc EXCEPT ![c] = "lock"]
  /\ \/ /\ limiters[key[c]] # NoEntry
        /\ entry' = [entry EXCEPT ![c] = limiters[key[c]]]
        /\ UNCHANGED <<limiters, current, lastSeen, retired>>
     \/ /\ limiters[key[c]] = NoEntry
        /\ \E e \in Entry :
             /\ Unreferenced(e)
             /\ entry' = [entry EXCEPT ![c] = e]
             /\ limiters' = [limiters EXCEPT ![key[c]] = e]
             /\ current' = [current EXCEPT ![e] = 0]
             /\ lastSeen' = [lastSeen EXCEPT ![e] = ZeroTime]
             /\ retired' = [retired EXCEPT ![e] = FALSE]
  /\ UNCHANGED <<operations, clock, key, limit, now, visit, at>>

\* Mutant: acquire does not look at the retired flag.
AcquireOnRetired(c) ==
  LET e == entry[c] IN
  /\ pc[c] = "lock"
  /\ lastSeen' = [lastSeen EXCEPT ![e] = now[c]]
  /\ IF current[e] >= limit[c]
     THEN /\ pc' = [pc EXCEPT ![c] = "idle"]
          /\ entry' = [entry EXCEPT ![c] = NoEntry]
          /\ UNCHANGED current
     ELSE /\ pc' = [pc EXCEPT ![c] = "held"]
          /\ current' = [current EXCEPT ![e] = @ + 1]
          /\ UNCHANGED entry
  /\ UNCHANGED <<limiters, retired, operations, clock, key, limit, now, visit, at>>

\* limiter.acquire, under the object's lock.
Acquire(c) ==
  LET e == entry[c] IN
  /\ pc[c] = "lock"
  /\ IF retired[e]
     THEN /\ pc' = [pc EXCEPT ![c] = "drop"]
          /\ UNCHANGED <<current, lastSeen, entry>>
     ELSE /\ lastSeen' = [lastSeen EXCEPT ![e] = now[c]]
          /\ IF current[e] >= limit[c]
             THEN /\ pc' = [pc EXCEPT ![c] = "idle"]
                  /\ entry' = [entry EXCEPT ![c] = NoEntry]
                  /\ UNCHANGED current
             ELSE /\ pc' = [pc EXCEPT ![c] = "held"]
                  /\ current' = [current EXCEPT ![e] = @ + 1]
                  /\ UNCHANGED entry
  /\ UNCHANGED <<limiters, retired, operations, clock, key, limit, now, visit, at>>

\* The CompareAndDelete of acquireLimiter after meeting a retired object.
Drop(c) ==
  /\ pc[c] = "drop"
  /\ CompareAndDelete(key[c], entry[c])
  /\ entry' = [entry EXCEPT ![c] = NoEntry]
  /\ pc' = [pc EXCEPT ![c] = "load"]
  /\ UNCHANGED <<current, lastSeen, retired, operations, clock, key, limit, now, visit, at>>

\* limiter.release, through the closure that captured the object.
Release(c) ==
  LET e == entry[c] IN
  /\ pc[c] = "held"
  /\ current' = [current EXCEPT ![e] = IF @ > 0 THEN @ - 1 ELSE @]
  /\ lastSeen' = [lastSeen EXCEPT ![e] = clock]
  /\ entry' = [entry EXCEPT ![c] = NoEntry]
  /\ pc' = [pc EXCEPT ![c] = "idle"]
  /\ UNCHANGED <<limiters, retired, operations, clock, key, limit, now, visit, at>>

Tick ==
  /\ clock < MaxTime
  /\ clock' = clock + 1
  /\ UNCHANGED <<limiters, current, lastSeen, retired, operations,
                 pc, key, limit, now, entry, visit, at>>

LimiterNext ==
  \/ \E c \in Caller :
       \/ \E k \in Key, n \in Limits : Enter(c, k, n)
       \/ \E k \in Key : RangeNext(c, k)
       \/ RetireIfIdle(c)
       \/ Unlink(c)
       \/ PruneDone(c)
       \/ LoadOrStore(c)
       \/ Acquire(c)
       \/ Drop(c)
       \/ Release(c)
  \/ Tick

LimiterSpec == LimiterInit /\ [][LimiterNext]_limiterVars

-----------------------------------------------------------------------------
\* Every slot is counted on the object it was taken from: limiter.current is
\* the number of callers that own a slot there, so no acquisition is counted
\* on a forgotten object and no release is lost (attempt.go:334-373, 761-797).
SlotsAreCounted ==
  \A e \in Entry : current[e] = Cardinality(HoldersOf(e))

\* All owners of a key's slots are on the object the map holds: retiring and
\* replacing idle objects never splits a key's count over two of them
\* (attempt.go:343-349, 364-372, 789-797).
HoldersShareTheMappedLimiter ==
  \A c \in Caller : pc[c] = "held" =>
    /\ limiters[key[c]] = entry[c]
    /\ ~retired[entry[c]]

\* What callers rely on: the limiter behaves as one counting semaphore per
\* key, whose limit is the one the asking caller's snapshot carries.  A slot
\* is granted only below that limit and refused only at or above it, counted
\* over all callers of the key (attempt.go:334-355, 761-778).
Sem == INSTANCE Semaphore WITH
  status <- [c \in Caller |-> CASE pc[c] = "idle" -> "idle"
                                [] pc[c] = "held" -> "held"
                                [] OTHER -> "asking"]

ImplementsSemaphore == Sem!Spec
=============================================================================
