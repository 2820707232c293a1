-------------------------- MODULE SharedStateProofs --------------------------
(***************************************************************************)
(* What the goroutines of one process share, for every number of them:     *)
(* what a shutdown waits for (Service), and the limits served while        *)
(* handlers, a refresh loop, a notifier and Close work on them             *)
(* (LimitSnapshot).                                                        *)
(***************************************************************************)
EXTENDS Service, LimitSnapshot, FiniteSetTheorems, TLAPS

(***************************************************************************)
(* Shutting down: the stores outlive the handlers, and the request tracker *)
(* is exact.                                                               *)
(***************************************************************************)
\* Where Shutdown is determines what has happened to the stores.
ShutdownProgress ==
  /\ shuttingDown <=> shutdown # "up"
  /\ drainCloses = IF drainClosed THEN 1 ELSE 0
  /\ shutdown # "returned" => storeCloses = 0 /\ cleaner = "none"
  /\ cleaner = "waiting" => storeCloses = 0
  /\ storeCloses > 0 => drainClosed
  /\ storeCloses <= 1

IInv == TypeOK /\ TrackerIsExact /\ ShutdownProgress

\* The accepted requests are finitely many; one more or one less changes
\* their number by one, and only the empty set has none.
LEMMA CountAccepted ==
  ASSUME NEW S \in SUBSET Handler
  PROVE  /\ Cardinality(S) \in Nat
         /\ Cardinality(S) = 0 <=> S = {}
         /\ \A h \in Handler \ S : Cardinality(S \cup {h}) = Cardinality(S) + 1
         /\ \A h \in S : Cardinality(S \ {h}) = Cardinality(S) - 1
<1>1. IsFiniteSet(S) BY ServiceAssumption, FS_Subset
<1> QED BY <1>1, FS_CardinalityType, FS_EmptySet, FS_AddElement, FS_RemoveElement

\* The invariant holds before the first request.
LEMMA InitIInv == Init => IInv
<1> SUFFICES ASSUME Init PROVE IInv OBVIOUS
<1>1. Accepted = {} BY DEF Init, Accepted
<1>2. Cardinality({}) = 0 BY FS_EmptySet
<1>3. TypeOK BY DEF Init, TypeOK, HandlerPC, ShutdownPC
<1> QED BY <1>1, <1>2, <1>3 DEF Init, IInv, TrackerIsExact, ShutdownProgress

\* Steps that leave the accepted requests and the tracker alone keep it exact.
LEMMA SameAccepted ==
  ASSUME IInv, UNCHANGED tracker, Accepted' = Accepted
  PROVE  TrackerIsExact'
BY DEF IInv, TrackerIsExact, tracker

\* Closing the drain signal keeps the types.
LEMMA DrainTyped ==
  ASSUME IInv, NEW down, NEW n, CloseDrainIf(down, n)
  PROVE  drainClosed' \in BOOLEAN /\ drainCloses' \in Nat
<1>1. CASE down /\ n = 0 /\ ~drainClosed BY <1>1 DEF IInv, TypeOK, CloseDrainIf
<1>2. CASE ~(down /\ n = 0 /\ ~drainClosed) BY <1>2 DEF IInv, TypeOK, CloseDrainIf
<1> QED BY <1>1, <1>2

\* Every step keeps the invariant.
LEMMA NextIInv == IInv /\ [Next]_vars => IInv'
<1> SUFFICES ASSUME IInv, [Next]_vars PROVE IInv' OBVIOUS
<1>0. /\ Accepted \in SUBSET Handler /\ handler \in [Handler -> HandlerPC]
      /\ activeRequests = Cardinality(Accepted) /\ activeRequests \in Nat
  BY DEF IInv, TypeOK, Accepted, TrackerIsExact
<1>1. ASSUME NEW h \in Handler, Arrive(h) \/ Settle(h) PROVE IInv'
  <2>1. TypeOK' /\ UNCHANGED tracker BY <1>1 DEF IInv, TypeOK, Arrive, Settle, HandlerPC, tracker
  <2>2. Accepted' = Accepted BY <1>0, <1>1 DEF Arrive, Settle, Accepted
  <2>3. TrackerIsExact' BY <2>1, <2>2, SameAccepted
  <2> QED BY <1>1, <2>1, <2>3 DEF IInv, Arrive, Settle, ShutdownProgress, tracker
<1>2. ASSUME NEW h \in Handler, BeginRequest(h) PROVE IInv'
  <2>1. TypeOK' BY <1>2 DEF IInv, TypeOK, BeginRequest, HandlerPC
  <2>2. ShutdownProgress' BY <1>2 DEF IInv, ShutdownProgress, BeginRequest
  <2>3. CASE shuttingDown
    <3>1. UNCHANGED tracker BY <1>2, <2>3 DEF BeginRequest, tracker
    <3>2. Accepted' = Accepted BY <1>0, <1>2, <2>3 DEF BeginRequest, Accepted
    <3> QED BY <2>1, <2>2, <3>1, <3>2, SameAccepted DEF IInv
  <2>4. CASE ~shuttingDown
    <3>1. Accepted' = Accepted \cup {h} /\ h \in Handler \ Accepted
      BY <1>0, <1>2, <2>4 DEF BeginRequest, Accepted
    <3>2. Cardinality(Accepted') = activeRequests + 1 BY <1>0, <3>1, CountAccepted
    <3>3. /\ activeRequests' = activeRequests + 1 /\ ~shuttingDown' /\ ~drainClosed'
      BY <1>2, <2>4 DEF BeginRequest, IInv, TrackerIsExact
    <3> QED BY <2>1, <2>2, <3>2, <3>3 DEF IInv, TrackerIsExact
  <2> QED BY <2>3, <2>4
<1>3. ASSUME NEW h \in Handler, EndRequest(h) PROVE IInv'
  <2>1. Accepted' = Accepted \ {h} /\ h \in Accepted
    BY <1>0, <1>3 DEF EndRequest, Accepted
  <2>2. Cardinality(Accepted') = activeRequests - 1 /\ activeRequests > 0
    BY <1>0, <2>1, CountAccepted
  <2>3. activeRequests' = activeRequests - 1 /\ activeRequests' \in Nat
    BY <1>0, <1>3, <2>2 DEF EndRequest
  <2>4. Accepted' = {} <=> activeRequests' = 0
    <3>1. Accepted' \in SUBSET Handler BY <1>0, <2>1
    <3> QED BY <2>2, <2>3, <3>1, CountAccepted
  <2>5. ~drainClosed /\ drainCloses = 0 /\ storeCloses = 0
    BY <2>1 DEF IInv, TypeOK, TrackerIsExact, ShutdownProgress
  <2>6. TypeOK'
    <3>1. drainClosed' \in BOOLEAN /\ drainCloses' \in Nat
      BY <1>3, DrainTyped DEF EndRequest
    <3> QED BY <1>3, <2>3, <3>1 DEF IInv, TypeOK, EndRequest, HandlerPC
  <2>7. TrackerIsExact'
    BY <1>3, <2>2, <2>3, <2>4, <2>5 DEF TrackerIsExact, EndRequest, CloseDrainIf
  <2>8. ShutdownProgress'
    BY <1>3, <2>5 DEF IInv, TypeOK, ShutdownProgress, EndRequest, CloseDrainIf
  <2> QED BY <2>6, <2>7, <2>8 DEF IInv
<1>4. CASE BeginShutdown
  <2>1. TypeOK'
    <3>1. drainClosed' \in BOOLEAN /\ drainCloses' \in Nat
      BY <1>4, DrainTyped DEF BeginShutdown
    <3> QED BY <1>4, <3>1 DEF IInv, TypeOK, BeginShutdown, ShutdownPC
  <2>2. Accepted' = Accepted BY <1>4 DEF BeginShutdown, Accepted
  <2>3. Accepted = {} <=> activeRequests = 0 BY <1>0, CountAccepted
  <2>4. ~drainClosed BY <1>4 DEF IInv, BeginShutdown, TrackerIsExact, ShutdownProgress
  <2>5. TrackerIsExact'
    BY <1>4, <2>2, <2>3, <2>4 DEF IInv, TrackerIsExact, BeginShutdown, CloseDrainIf
  <2>6. ShutdownProgress'
    BY <1>4, <2>4 DEF IInv, TypeOK, ShutdownProgress, BeginShutdown, CloseDrainIf
  <2> QED BY <2>1, <2>5, <2>6 DEF IInv
<1>5. CASE ShutdownStep \/ CloseLater \/ Exit
  <2> USE DEF ShutdownStep, HTTPDrained, HTTPExpired, CloseAfterDrain, CloseOrDefer,
              CloseLater, Exit
  <2>0. UNCHANGED tracker BY <1>5 DEF tracker
  <2>1. TypeOK'
    <3>1. CASE HTTPDrained \/ HTTPExpired BY <3>1 DEF IInv, TypeOK, ShutdownPC, tracker
    <3>2. CASE CloseAfterDrain BY <3>2 DEF IInv, TypeOK, ShutdownPC, tracker
    <3>3. CASE CloseOrDefer BY <3>3 DEF IInv, TypeOK, ShutdownPC, tracker
    <3>4. CASE CloseLater BY <3>4 DEF IInv, TypeOK, ShutdownPC, tracker
    <3>5. CASE Exit BY <3>5 DEF IInv, TypeOK, ShutdownPC, tracker
    <3> QED BY <1>5, <3>1, <3>2, <3>3, <3>4, <3>5
  <2>2. Accepted' = Accepted BY <1>5 DEF Accepted
  <2>3. TrackerIsExact' BY <2>0, <2>2, SameAccepted
  <2>4. ShutdownProgress' BY <1>5 DEF IInv, TypeOK, ShutdownProgress, tracker
  <2> QED BY <2>1, <2>3, <2>4 DEF IInv
<1>6. CASE UNCHANGED vars
  BY <1>6 DEF vars, tracker, IInv, TypeOK, TrackerIsExact, ShutdownProgress, Accepted
<1> QED BY <1>1, <1>2, <1>3, <1>4, <1>5, <1>6 DEF Next, ServiceNext, HandlerStep

\* So it holds in every reachable state.
LEMMA AlwaysIInv == Spec => []IInv
BY InitIInv, NextIInv, PTL DEF Spec

\* Type correctness of the shutdown model (app.go:243-359).
THEOREM ServiceTypeCorrect == Spec => []TypeOK
BY AlwaysIInv, PTL DEF IInv

\* The tracker counts the accepted requests and its channel is closed exactly
\* when shutdown has begun and none is left (app.go:308-348).
THEOREM ServiceTrackerIsExact == Spec => []TrackerIsExact
BY AlwaysIInv, PTL DEF IInv

\* However many handlers there are and however the drain ends, the stores are
\* closed at most once and never under a handler that may still settle
\* (app.go:268-287, 324-359).
THEOREM ServiceStoresOutliveHandlers == Spec => []StoresOutliveHandlers
<1>1. IInv => StoresOutliveHandlers
  BY DEF IInv, TypeOK, TrackerIsExact, ShutdownProgress, StoresOutliveHandlers
<1> QED BY <1>1, AlwaysIInv, PTL
-----------------------------------------------------------------------------
(***************************************************************************)
(* The limits RefreshingQuotaLimitStore serves are valid, never older than *)
(* one it has acknowledged, and never replaced by an older one; the gauge  *)
(* shows the last refresh; and nobody uses the source once it is closed.   *)
(***************************************************************************)
Version == 0 .. MaxVersion
WriterState == [at : {"idle", "lock", "source", "publish"}, key : KeyID, v : Version]
LoopState ==
  [at : {"idle", "lock", "load", "publish", "health", "signal", "done"},
   rows : [KeyID -> Row] \cup {Nothing}, failed : BOOLEAN]
HealthState == [failed : BOOLEAN, hook : BOOLEAN, signal : BOOLEAN, moved : BOOLEAN]
NotifierState == [at : {"wait", "read", "call", "recheck", "drain", "done"}, failed : BOOLEAN]

LimitsTypes ==
  /\ table \in [KeyID -> Row] /\ snapshot \in [KeyID -> Row] /\ writes \in Version
  /\ acked \in [KeyID -> Version] /\ closed \in BOOLEAN /\ source \in {"open", "closed"}
  /\ writer \in [Writer -> WriterState] /\ loop \in LoopState
  /\ health \in HealthState /\ notifier \in NotifierState
  /\ gauge \in BOOLEAN /\ closing \in {"no", "hook", "wait", "lock", "source", "done"}

\* updateMu has one holder, and each who is between Lock and Unlock is it.
LockIsHeld ==
  /\ updateMu \in Writer \cup {Nothing, Refresher, Closer}
  /\ \A w \in Writer : writer[w].at \in {"source", "publish"} <=> updateMu = w
  /\ loop.at \in {"load", "publish"} <=> updateMu = Refresher
  /\ closing = "source" <=> updateMu = Closer

\* The table is never behind the snapshot, and neither is what the holder of the lock is
\* about to publish.
NothingIsBehind ==
  /\ \A k \in KeyID : acked[k] <= snapshot[k].v /\ snapshot[k].v <= table[k].v /\ table[k].v <= writes
  /\ \A k \in KeyID : snapshot[k].found => snapshot[k].valid
  /\ \A w \in Writer : writer[w].at = "publish" =>
       snapshot[writer[w].key].v <= writer[w].v /\ writer[w].v <= table[writer[w].key].v
  /\ loop.at = "publish" /\ ~loop.failed =>
       /\ loop.rows \in [KeyID -> Row]
       /\ \A k \in KeyID : /\ snapshot[k].v <= loop.rows[k].v /\ loop.rows[k].v <= table[k].v
                           /\ loop.rows[k].found => loop.rows[k].valid

\* Close has waited for the loop before it takes the lock and ends the source.
CloseInOrder ==
  /\ closed <=> closing # "no"
  /\ closing \in {"lock", "source", "done"} => loop.at = "done"
  /\ source = "closed" <=> closing = "done"
  /\ closing = "done" => updateMu = Nothing

\* While the notifier waits, every generation it has not read has its signal, sent or
\* about to be sent; and without such a generation the gauge, or the call that will set
\* it, has the last refresh's result.
GaugeFollows ==
  /\ health.hook => closing \in {"no", "hook"}
  /\ notifier.at = "done" => Cancelled
  /\ notifier.at = "drain" => health.moved
  /\ health.hook /\ health.moved /\ notifier.at = "wait" => health.signal \/ loop.at = "signal"
  /\ health.hook /\ ~health.moved /\ notifier.at \in {"wait", "read", "recheck"} => gauge = health.failed
  /\ health.hook /\ ~health.moved /\ notifier.at = "call" => notifier.failed = health.failed

LimitsInv == LimitsTypes /\ LockIsHeld /\ NothingIsBehind /\ CloseInOrder /\ GaugeFollows
-----------------------------------------------------------------------------
\* The store as it is built satisfies the invariant.
LEMMA StoreStarts ==
  ASSUME LimitSnapshotAssumption, LimitsInit
  PROVE  LimitsInv
<1> USE LimitSnapshotAssumption DEF LimitSnapshotAssumption, LimitsInit
<1>1. table \in [KeyID -> Row] BY DEF Row
<1>2. (CHOOSE k \in KeyID : TRUE) \in KeyID OBVIOUS
<1>3. writer \in [Writer -> WriterState] BY <1>2 DEF WriterState, Version
<1>4. loop \in LoopState BY DEF LoopState
<1>5. health \in HealthState /\ notifier \in NotifierState BY DEF HealthState, NotifierState
<1>6. LimitsTypes
  <2>1. acked \in [KeyID -> Version] /\ writes \in Version BY DEF Version
  <2> QED BY <1>1, <1>3, <1>4, <1>5, <2>1 DEF LimitsTypes
<1>7. LockIsHeld BY DEF LockIsHeld, Refresher, Closer
<1>8. NothingIsBehind BY DEF NothingIsBehind
<1>9. CloseInOrder /\ GaugeFollows BY DEF CloseInOrder, GaugeFollows, Cancelled
<1> QED BY <1>6, <1>7, <1>8, <1>9 DEF LimitsInv

\* A write elsewhere moves the table on, and nothing else.
LEMMA TableStepKeeps ==
  ASSUME LimitSnapshotAssumption, LimitsInv, \E k \in KeyID : WriteElsewhere(k)
  PROVE  LimitsInv' /\ Advances
<1> USE LimitSnapshotAssumption DEF LimitSnapshotAssumption, LimitsInv
<1>1. ASSUME NEW k \in KeyID, WriteElsewhere(k) PROVE LimitsInv' /\ Advances
  <2> USE <1>1 DEF WriteElsewhere, Upsert, core, watch
  <2>a. table' \in [KeyID -> Row] /\ writes' \in Version BY DEF LimitsTypes, Row, Version
  <2>1. LimitsTypes' BY <2>a DEF LimitsTypes
  <2>2. LockIsHeld' BY DEF LimitsTypes, WriterState, LoopState, LockIsHeld, CloseInOrder, Refresher, Closer
  <2>3. NothingIsBehind' /\ Advances
    BY DEF LimitsTypes, WriterState, LoopState, NothingIsBehind, LockIsHeld, Advances, Version, Row
  <2>4. CloseInOrder' BY DEF LimitsTypes, LoopState, CloseInOrder, LockIsHeld, Cancelled
  <2>5. GaugeFollows' BY DEF LimitsTypes, LoopState, HealthState, NotifierState, GaugeFollows, CloseInOrder, Cancelled
  <2> QED BY <2>1, <2>2, <2>3, <2>4, <2>5
<1> QED BY <1>1

\* A handler publishes, under the lock, a row that is newer than what is served.
LEMMA PutStepKeeps ==
  ASSUME LimitSnapshotAssumption, LimitsInv, \E w \in Writer : Put(w) \/ \E k \in KeyID : PutLimits(w, k)
  PROVE  LimitsInv' /\ Advances
<1> USE LimitSnapshotAssumption DEF LimitSnapshotAssumption, LimitsInv
<1>1. ASSUME NEW w \in Writer, NEW k \in KeyID, PutLimits(w, k) PROVE LimitsInv' /\ Advances
  <2> USE <1>1 DEF PutLimits, core, watch
  <2>a. writer' \in [Writer -> WriterState] BY DEF LimitsTypes, WriterState, Version
  <2>1. LimitsTypes' BY <2>a DEF LimitsTypes
  <2>2. LockIsHeld' BY DEF LimitsTypes, WriterState, LoopState, LockIsHeld, CloseInOrder, Refresher, Closer
  <2>3. NothingIsBehind' /\ Advances
    BY DEF LimitsTypes, WriterState, LoopState, NothingIsBehind, LockIsHeld, Advances, Version, Row
  <2>4. CloseInOrder' BY DEF LimitsTypes, LoopState, CloseInOrder, LockIsHeld, Cancelled
  <2>5. GaugeFollows' BY DEF LimitsTypes, LoopState, HealthState, NotifierState, GaugeFollows, CloseInOrder, Cancelled
  <2> QED BY <2>1, <2>2, <2>3, <2>4, <2>5
<1>2. ASSUME NEW w \in Writer, PutLock(w) PROVE LimitsInv' /\ Advances
  <2> USE DEF PutLock, Locked, core, watch
  <2>1. PICK at \in {"idle", "source"} : writer' = [writer EXCEPT ![w].at = at]
    BY <1>2
  <2>2. writer' \in [Writer -> WriterState] BY <2>1 DEF LimitsTypes, WriterState
  <2>3. LimitsTypes' BY <1>2, <2>2 DEF LimitsTypes
  <2>4. LockIsHeld'
    BY <1>2 DEF LimitsTypes, WriterState, LoopState, LockIsHeld, CloseInOrder, Refresher, Closer
  <2>5. UNCHANGED <<table, writes, snapshot, acked, loop>> /\ Advances
    BY <1>2 DEF Advances, LimitsTypes, Row, Version
  <2>6. NothingIsBehind' BY <2>1, <2>5 DEF LimitsTypes, WriterState, NothingIsBehind
  <2>7. CloseInOrder' BY <1>2 DEF LimitsTypes, LoopState, CloseInOrder, LockIsHeld, Cancelled
  <2>8. GaugeFollows'
    BY <1>2 DEF LimitsTypes, LoopState, HealthState, NotifierState, GaugeFollows, CloseInOrder, Cancelled
  <2> QED BY <2>3, <2>4, <2>5, <2>6, <2>7, <2>8
<1>3. ASSUME NEW w \in Writer, PutSource(w) PROVE LimitsInv' /\ Advances
  <2> USE DEF PutSource, Upsert, core, watch
  <2>1. /\ writer[w].at = "source" /\ updateMu = w /\ writer[w].key \in KeyID
        /\ UNCHANGED <<snapshot, acked, loop>>
    BY <1>3 DEF LockIsHeld, LimitsTypes, WriterState
  <2>2. Advances BY <2>1 DEF Advances, LimitsTypes, Row, Version
  <2>3. ASSUME UNCHANGED <<table, writes>> PROVE LimitsTypes' /\ NothingIsBehind'
    <3>1. writer' = [writer EXCEPT ![w].at = "idle"] /\ updateMu' = Nothing
      BY <1>3, <2>3 DEF LimitsTypes, Version
    <3>2. writer' \in [Writer -> WriterState] BY <3>1 DEF LimitsTypes, WriterState
    <3>3. LimitsTypes' BY <1>3, <2>3, <3>2 DEF LimitsTypes
    <3>4. NothingIsBehind' BY <2>1, <2>3, <3>1 DEF LimitsTypes, WriterState, NothingIsBehind
    <3> QED BY <3>3, <3>4
  <2>4. ASSUME writes < MaxVersion,
               Upsert(writer[w].key, [v |-> writes + 1, found |-> TRUE, valid |-> TRUE])
        PROVE  LimitsTypes' /\ NothingIsBehind'
    <3>1. writes + 1 \in Version /\ writes \in Nat BY <2>4 DEF LimitsTypes, Version
    <3>2. table' \in [KeyID -> Row] /\ writes' \in Version BY <2>1, <2>4, <3>1 DEF LimitsTypes, Row, Version
    <3>3. \/ writer' = [writer EXCEPT ![w].at = "publish", ![w].v = writes + 1]
          \/ writer' = [writer EXCEPT ![w].at = "idle"]
      BY <1>3
    <3>4. writer' \in [Writer -> WriterState] BY <3>1, <3>3 DEF LimitsTypes, WriterState
    <3>5. LimitsTypes' BY <1>3, <3>2, <3>4 DEF LimitsTypes
    <3>6. \A k \in KeyID : table'[k].v >= table[k].v /\ table'[k].v <= writes'
      BY <2>1, <2>4, <3>1 DEF LimitsTypes, Row, Version, NothingIsBehind
    <3>7. \A u \in Writer : writer'[u].at = "publish" =>
            u = w /\ writer'[u].key = writer[w].key /\ writer'[u].v = writes + 1
      BY <2>1, <3>3 DEF LimitsTypes, WriterState, LockIsHeld
    <3>8. table'[writer[w].key].v = writes + 1 BY <2>1, <2>4 DEF LimitsTypes
    <3>9. loop.at # "publish" BY <2>1 DEF LockIsHeld, Refresher
    <3>10. NothingIsBehind'
      BY <2>1, <3>1, <3>2, <3>6, <3>7, <3>8, <3>9 DEF LimitsTypes, Row, Version, NothingIsBehind
    <3> QED BY <3>5, <3>10
  <2>5. LimitsTypes' /\ NothingIsBehind' BY <1>3, <2>3, <2>4
  <2>6. LockIsHeld'
    BY <1>3 DEF LimitsTypes, WriterState, LoopState, LockIsHeld, CloseInOrder, Refresher, Closer
  <2>7. CloseInOrder' BY <1>3 DEF LimitsTypes, LoopState, CloseInOrder, LockIsHeld, Cancelled
  <2>8. GaugeFollows'
    BY <1>3 DEF LimitsTypes, LoopState, HealthState, NotifierState, GaugeFollows, CloseInOrder, Cancelled
  <2> QED BY <2>2, <2>5, <2>6, <2>7, <2>8
<1>4. ASSUME NEW w \in Writer, PutPublish(w) PROVE LimitsInv' /\ Advances
  <2> USE <1>4 DEF PutPublish, Published, core, watch
  <2>a. snapshot' \in [KeyID -> Row] BY DEF LimitsTypes, Row, WriterState, LoopState, NothingIsBehind, Version
  <2>b. writer' \in [Writer -> WriterState] BY DEF LimitsTypes, WriterState, Version
  <2>c. acked' \in [KeyID -> Version] BY DEF LimitsTypes, WriterState
  <2>1. LimitsTypes' BY <2>a, <2>b, <2>c DEF LimitsTypes
  <2>2. LockIsHeld' BY DEF LimitsTypes, WriterState, LoopState, LockIsHeld, CloseInOrder, Refresher, Closer
  <2>3. NothingIsBehind' /\ Advances
    BY DEF LimitsTypes, WriterState, LoopState, NothingIsBehind, LockIsHeld, Advances, Version, Row
  <2>4. CloseInOrder' BY DEF LimitsTypes, LoopState, CloseInOrder, LockIsHeld, Cancelled
  <2>5. GaugeFollows' BY DEF LimitsTypes, LoopState, HealthState, NotifierState, GaugeFollows, CloseInOrder, Cancelled
  <2> QED BY <2>1, <2>2, <2>3, <2>4, <2>5
<1> QED BY <1>1, <1>2, <1>3, <1>4 DEF Put

\* A refresh publishes, under the lock, the table as it was when the lock was held already.
LEMMA RefreshStepKeeps ==
  ASSUME LimitSnapshotAssumption, LimitsInv, Refresh
  PROVE  LimitsInv' /\ Advances
<1> USE LimitSnapshotAssumption DEF LimitSnapshotAssumption, LimitsInv
<1>1. CASE RefreshTick
  <2> USE <1>1 DEF RefreshTick, Cancelled, core, watch
  <2>a. loop' \in LoopState BY DEF LimitsTypes, LoopState
  <2>1. LimitsTypes' BY <2>a DEF LimitsTypes
  <2>2. LockIsHeld' BY DEF LimitsTypes, WriterState, LoopState, LockIsHeld, CloseInOrder, Refresher, Closer
  <2>3. NothingIsBehind' /\ Advances
    BY DEF LimitsTypes, WriterState, LoopState, NothingIsBehind, LockIsHeld, Advances, Version, Row
  <2>4. CloseInOrder' BY DEF LimitsTypes, LoopState, CloseInOrder, LockIsHeld, Cancelled
  <2>5. GaugeFollows' BY DEF LimitsTypes, LoopState, HealthState, NotifierState, GaugeFollows, CloseInOrder, Cancelled
  <2> QED BY <2>1, <2>2, <2>3, <2>4, <2>5
<1>2. CASE RefreshLock
  <2> USE <1>2 DEF RefreshLock, LoadsLocked, Locked, core, watch
  <2>a. loop' \in LoopState BY DEF LimitsTypes, LoopState
  <2>1. LimitsTypes' BY <2>a DEF LimitsTypes
  <2>2. LockIsHeld' BY DEF LimitsTypes, WriterState, LoopState, LockIsHeld, CloseInOrder, Refresher, Closer
  <2>3. NothingIsBehind' /\ Advances
    BY DEF LimitsTypes, WriterState, LoopState, NothingIsBehind, LockIsHeld, Advances, Version, Row
  <2>4. CloseInOrder' BY DEF LimitsTypes, LoopState, CloseInOrder, LockIsHeld, Cancelled
  <2>5. GaugeFollows' BY DEF LimitsTypes, LoopState, HealthState, NotifierState, GaugeFollows, CloseInOrder, Cancelled
  <2> QED BY <2>1, <2>2, <2>3, <2>4, <2>5
<1>3. CASE LoadSucceeds
  <2> USE <1>3 DEF LoadSucceeds, Loadable, core, watch
  <2>a. loop' \in LoopState BY DEF LimitsTypes, LoopState
  <2>1. LimitsTypes' BY <2>a DEF LimitsTypes
  <2>2. LockIsHeld' BY DEF LimitsTypes, WriterState, LoopState, LockIsHeld, CloseInOrder, Refresher, Closer
  <2>3. NothingIsBehind' /\ Advances
    BY DEF LimitsTypes, WriterState, LoopState, NothingIsBehind, LockIsHeld, Advances, Version, Row
  <2>4. CloseInOrder' BY DEF LimitsTypes, LoopState, CloseInOrder, LockIsHeld, Cancelled
  <2>5. GaugeFollows' BY DEF LimitsTypes, LoopState, HealthState, NotifierState, GaugeFollows, CloseInOrder, Cancelled
  <2> QED BY <2>1, <2>2, <2>3, <2>4, <2>5
<1>4. CASE LoadFails
  <2> USE <1>4 DEF LoadFails, core, watch
  <2>a. loop' \in LoopState BY DEF LimitsTypes, LoopState
  <2>1. LimitsTypes' BY <2>a DEF LimitsTypes
  <2>2. LockIsHeld' BY DEF LimitsTypes, WriterState, LoopState, LockIsHeld, CloseInOrder, Refresher, Closer
  <2>3. NothingIsBehind' /\ Advances
    BY DEF LimitsTypes, WriterState, LoopState, NothingIsBehind, LockIsHeld, Advances, Version, Row
  <2>4. CloseInOrder' BY DEF LimitsTypes, LoopState, CloseInOrder, LockIsHeld, Cancelled
  <2>5. GaugeFollows' BY DEF LimitsTypes, LoopState, HealthState, NotifierState, GaugeFollows, CloseInOrder, Cancelled
  <2> QED BY <2>1, <2>2, <2>3, <2>4, <2>5
<1>5. CASE RefreshPublish
  <2> USE <1>5 DEF RefreshPublish, LoadedOrOld, core, watch
  <2>a. loop' \in LoopState BY DEF LimitsTypes, LoopState
  <2>b. snapshot' \in [KeyID -> Row] BY DEF LimitsTypes, Row, WriterState, LoopState, NothingIsBehind, Version
  <2>1. LimitsTypes' BY <2>a, <2>b DEF LimitsTypes
  <2>2. LockIsHeld' BY DEF LimitsTypes, WriterState, LoopState, LockIsHeld, CloseInOrder, Refresher, Closer
  <2>3. NothingIsBehind' /\ Advances
    BY DEF LimitsTypes, WriterState, LoopState, NothingIsBehind, LockIsHeld, Advances, Version, Row
  <2>4. CloseInOrder' BY DEF LimitsTypes, LoopState, CloseInOrder, LockIsHeld, Cancelled
  <2>5. GaugeFollows' BY DEF LimitsTypes, LoopState, HealthState, NotifierState, GaugeFollows, CloseInOrder, Cancelled
  <2> QED BY <2>1, <2>2, <2>3, <2>4, <2>5
<1>6. CASE RefreshHealth
  <2> USE <1>6 DEF RefreshHealth, core, watch
  <2>a. loop' \in LoopState BY DEF LimitsTypes, LoopState
  <2>b. health' \in HealthState BY DEF LimitsTypes, HealthState, LoopState
  <2>1. LimitsTypes' BY <2>a, <2>b DEF LimitsTypes
  <2>2. LockIsHeld' BY DEF LimitsTypes, WriterState, LoopState, LockIsHeld, CloseInOrder, Refresher, Closer
  <2>3. NothingIsBehind' /\ Advances
    BY DEF LimitsTypes, WriterState, LoopState, NothingIsBehind, LockIsHeld, Advances, Version, Row
  <2>4. CloseInOrder' BY DEF LimitsTypes, LoopState, CloseInOrder, LockIsHeld, Cancelled
  <2>5. GaugeFollows' BY DEF LimitsTypes, LoopState, HealthState, NotifierState, GaugeFollows, CloseInOrder, Cancelled
  <2> QED BY <2>1, <2>2, <2>3, <2>4, <2>5
<1>7. CASE RefreshSignal
  <2> USE <1>7 DEF RefreshSignal, core, watch
  <2>a. loop' \in LoopState BY DEF LimitsTypes, LoopState
  <2>b. health' \in HealthState BY DEF LimitsTypes, HealthState, LoopState
  <2>1. LimitsTypes' BY <2>a, <2>b DEF LimitsTypes
  <2>2. LockIsHeld' BY DEF LimitsTypes, WriterState, LoopState, LockIsHeld, CloseInOrder, Refresher, Closer
  <2>3. NothingIsBehind' /\ Advances
    BY DEF LimitsTypes, WriterState, LoopState, NothingIsBehind, LockIsHeld, Advances, Version, Row
  <2>4. CloseInOrder' BY DEF LimitsTypes, LoopState, CloseInOrder, LockIsHeld, Cancelled
  <2>5. GaugeFollows' BY DEF LimitsTypes, LoopState, HealthState, NotifierState, GaugeFollows, CloseInOrder, Cancelled
  <2> QED BY <2>1, <2>2, <2>3, <2>4, <2>5
<1> QED BY <1>1, <1>2, <1>3, <1>4, <1>5, <1>6, <1>7 DEF Refresh

\* The notifier does not rest while a generation it has not read has no signal.
LEMMA NotifyStepKeeps ==
  ASSUME LimitSnapshotAssumption, LimitsInv, Notify \/ SetHook
  PROVE  LimitsInv' /\ Advances
<1> USE LimitSnapshotAssumption DEF LimitSnapshotAssumption, LimitsInv
<1>1. CASE SetHook
  <2> USE <1>1 DEF SetHook, core, watch
  <2>a. health' \in HealthState BY DEF LimitsTypes, HealthState, LoopState
  <2>1. LimitsTypes' BY <2>a DEF LimitsTypes
  <2>2. LockIsHeld' BY DEF LimitsTypes, WriterState, LoopState, LockIsHeld, CloseInOrder, Refresher, Closer
  <2>3. NothingIsBehind' /\ Advances
    BY DEF LimitsTypes, WriterState, LoopState, NothingIsBehind, LockIsHeld, Advances, Version, Row
  <2>4. CloseInOrder' BY DEF LimitsTypes, LoopState, CloseInOrder, LockIsHeld, Cancelled
  <2>5. GaugeFollows' BY DEF LimitsTypes, LoopState, HealthState, NotifierState, GaugeFollows, CloseInOrder, Cancelled
  <2> QED BY <2>1, <2>2, <2>3, <2>4, <2>5
<1>2. CASE NotifierWakes
  <2> USE <1>2 DEF NotifierWakes, NotifierGo, core, watch
  <2>a. health' \in HealthState BY DEF LimitsTypes, HealthState, LoopState
  <2>b. notifier' \in NotifierState BY DEF LimitsTypes, NotifierState, HealthState
  <2>1. LimitsTypes' BY <2>a, <2>b DEF LimitsTypes
  <2>2. LockIsHeld' BY DEF LimitsTypes, WriterState, LoopState, LockIsHeld, CloseInOrder, Refresher, Closer
  <2>3. NothingIsBehind' /\ Advances
    BY DEF LimitsTypes, WriterState, LoopState, NothingIsBehind, LockIsHeld, Advances, Version, Row
  <2>4. CloseInOrder' BY DEF LimitsTypes, LoopState, CloseInOrder, LockIsHeld, Cancelled
  <2>5. GaugeFollows' BY DEF LimitsTypes, LoopState, HealthState, NotifierState, GaugeFollows, CloseInOrder, Cancelled
  <2> QED BY <2>1, <2>2, <2>3, <2>4, <2>5
<1>3. CASE NotifierReads
  <2> USE <1>3 DEF NotifierReads, NotifierGo, core, watch
  <2>a. health' \in HealthState BY DEF LimitsTypes, HealthState, LoopState
  <2>b. notifier' \in NotifierState BY DEF LimitsTypes, NotifierState, HealthState
  <2>1. LimitsTypes' BY <2>a, <2>b DEF LimitsTypes
  <2>2. LockIsHeld' BY DEF LimitsTypes, WriterState, LoopState, LockIsHeld, CloseInOrder, Refresher, Closer
  <2>3. NothingIsBehind' /\ Advances
    BY DEF LimitsTypes, WriterState, LoopState, NothingIsBehind, LockIsHeld, Advances, Version, Row
  <2>4. CloseInOrder' BY DEF LimitsTypes, LoopState, CloseInOrder, LockIsHeld, Cancelled
  <2>5. GaugeFollows' BY DEF LimitsTypes, LoopState, HealthState, NotifierState, GaugeFollows, CloseInOrder, Cancelled
  <2> QED BY <2>1, <2>2, <2>3, <2>4, <2>5
<1>4. CASE HookReturns
  <2> USE <1>4 DEF HookReturns, NotifierGo, core, watch
  <2>a. notifier' \in NotifierState BY DEF LimitsTypes, NotifierState, HealthState
  <2>b. gauge' \in BOOLEAN BY DEF LimitsTypes, NotifierState
  <2>1. LimitsTypes' BY <2>a, <2>b DEF LimitsTypes
  <2>2. LockIsHeld' BY DEF LimitsTypes, WriterState, LoopState, LockIsHeld, CloseInOrder, Refresher, Closer
  <2>3. NothingIsBehind' /\ Advances
    BY DEF LimitsTypes, WriterState, LoopState, NothingIsBehind, LockIsHeld, Advances, Version, Row
  <2>4. CloseInOrder' BY DEF LimitsTypes, LoopState, CloseInOrder, LockIsHeld, Cancelled
  <2>5. GaugeFollows' BY DEF LimitsTypes, LoopState, HealthState, NotifierState, GaugeFollows, CloseInOrder, Cancelled
  <2> QED BY <2>1, <2>2, <2>3, <2>4, <2>5
<1>5. CASE NotifierRechecks
  <2> USE <1>5 DEF NotifierRechecks, NotifierGo, core, watch
  <2>a. notifier' \in NotifierState BY DEF LimitsTypes, NotifierState, HealthState
  <2>1. LimitsTypes' BY <2>a DEF LimitsTypes
  <2>2. LockIsHeld' BY DEF LimitsTypes, WriterState, LoopState, LockIsHeld, CloseInOrder, Refresher, Closer
  <2>3. NothingIsBehind' /\ Advances
    BY DEF LimitsTypes, WriterState, LoopState, NothingIsBehind, LockIsHeld, Advances, Version, Row
  <2>4. CloseInOrder' BY DEF LimitsTypes, LoopState, CloseInOrder, LockIsHeld, Cancelled
  <2>5. GaugeFollows' BY DEF LimitsTypes, LoopState, HealthState, NotifierState, GaugeFollows, CloseInOrder, Cancelled
  <2> QED BY <2>1, <2>2, <2>3, <2>4, <2>5
<1>6. CASE NotifierDrains
  <2> USE <1>6 DEF NotifierDrains, NotifierGo, AfterDrain, core, watch
  <2>a. health' \in HealthState BY DEF LimitsTypes, HealthState, LoopState
  <2>b. notifier' \in NotifierState BY DEF LimitsTypes, NotifierState, HealthState
  <2>1. LimitsTypes' BY <2>a, <2>b DEF LimitsTypes
  <2>2. LockIsHeld' BY DEF LimitsTypes, WriterState, LoopState, LockIsHeld, CloseInOrder, Refresher, Closer
  <2>3. NothingIsBehind' /\ Advances
    BY DEF LimitsTypes, WriterState, LoopState, NothingIsBehind, LockIsHeld, Advances, Version, Row
  <2>4. CloseInOrder' BY DEF LimitsTypes, LoopState, CloseInOrder, LockIsHeld, Cancelled
  <2>5. GaugeFollows' BY DEF LimitsTypes, LoopState, HealthState, NotifierState, GaugeFollows, CloseInOrder, Cancelled
  <2> QED BY <2>1, <2>2, <2>3, <2>4, <2>5
<1> QED BY <1>1, <1>2, <1>3, <1>4, <1>5, <1>6 DEF Notify

\* Close waits for the loop, then for the lock.
LEMMA CloseStepKeeps ==
  ASSUME LimitSnapshotAssumption, LimitsInv, CloseFlag \/ Close
  PROVE  LimitsInv' /\ Advances
<1> USE LimitSnapshotAssumption DEF LimitSnapshotAssumption, LimitsInv
<1>1. CASE CloseFlag
  <2> USE <1>1 DEF CloseFlag, core, watch
  <2>1. LimitsTypes' BY DEF LimitsTypes
  <2>2. LockIsHeld' BY DEF LimitsTypes, WriterState, LoopState, LockIsHeld, CloseInOrder, Refresher, Closer
  <2>3. NothingIsBehind' /\ Advances
    BY DEF LimitsTypes, WriterState, LoopState, NothingIsBehind, LockIsHeld, Advances, Version, Row
  <2>4. CloseInOrder' BY DEF LimitsTypes, LoopState, CloseInOrder, LockIsHeld, Cancelled
  <2>5. GaugeFollows' BY DEF LimitsTypes, LoopState, HealthState, NotifierState, GaugeFollows, CloseInOrder, Cancelled
  <2> QED BY <2>1, <2>2, <2>3, <2>4, <2>5
<1>2. CASE CloseHook
  <2> USE <1>2 DEF CloseHook, core, watch
  <2>a. health' \in HealthState BY DEF LimitsTypes, HealthState, LoopState
  <2>1. LimitsTypes' BY <2>a DEF LimitsTypes
  <2>2. LockIsHeld' BY DEF LimitsTypes, WriterState, LoopState, LockIsHeld, CloseInOrder, Refresher, Closer
  <2>3. NothingIsBehind' /\ Advances
    BY DEF LimitsTypes, WriterState, LoopState, NothingIsBehind, LockIsHeld, Advances, Version, Row
  <2>4. CloseInOrder' BY DEF LimitsTypes, LoopState, CloseInOrder, LockIsHeld, Cancelled
  <2>5. GaugeFollows' BY DEF LimitsTypes, LoopState, HealthState, NotifierState, GaugeFollows, CloseInOrder, Cancelled
  <2> QED BY <2>1, <2>2, <2>3, <2>4, <2>5
<1>3. CASE CloseWait
  <2> USE <1>3 DEF CloseWait, core, watch
  <2>1. LimitsTypes' BY DEF LimitsTypes
  <2>2. LockIsHeld' BY DEF LimitsTypes, WriterState, LoopState, LockIsHeld, CloseInOrder, Refresher, Closer
  <2>3. NothingIsBehind' /\ Advances
    BY DEF LimitsTypes, WriterState, LoopState, NothingIsBehind, LockIsHeld, Advances, Version, Row
  <2>4. CloseInOrder' BY DEF LimitsTypes, LoopState, CloseInOrder, LockIsHeld, Cancelled
  <2>5. GaugeFollows' BY DEF LimitsTypes, LoopState, HealthState, NotifierState, GaugeFollows, CloseInOrder, Cancelled
  <2> QED BY <2>1, <2>2, <2>3, <2>4, <2>5
<1>4. CASE CloseLock
  <2> USE <1>4 DEF CloseLock, core, watch
  <2>1. LimitsTypes' BY DEF LimitsTypes
  <2>2. LockIsHeld' BY DEF LimitsTypes, WriterState, LoopState, LockIsHeld, CloseInOrder, Refresher, Closer
  <2>3. NothingIsBehind' /\ Advances
    BY DEF LimitsTypes, WriterState, LoopState, NothingIsBehind, LockIsHeld, Advances, Version, Row
  <2>4. CloseInOrder' BY DEF LimitsTypes, LoopState, CloseInOrder, LockIsHeld, Cancelled
  <2>5. GaugeFollows' BY DEF LimitsTypes, LoopState, HealthState, NotifierState, GaugeFollows, CloseInOrder, Cancelled
  <2> QED BY <2>1, <2>2, <2>3, <2>4, <2>5
<1>5. CASE CloseSource
  <2> USE <1>5 DEF CloseSource, core, watch
  <2>1. LimitsTypes' BY DEF LimitsTypes
  <2>2. LockIsHeld' BY DEF LimitsTypes, WriterState, LoopState, LockIsHeld, CloseInOrder, Refresher, Closer
  <2>3. NothingIsBehind' /\ Advances
    BY DEF LimitsTypes, WriterState, LoopState, NothingIsBehind, LockIsHeld, Advances, Version, Row
  <2>4. CloseInOrder' BY DEF LimitsTypes, LoopState, CloseInOrder, LockIsHeld, Cancelled
  <2>5. GaugeFollows' BY DEF LimitsTypes, LoopState, HealthState, NotifierState, GaugeFollows, CloseInOrder, Cancelled
  <2> QED BY <2>1, <2>2, <2>3, <2>4, <2>5
<1> QED BY <1>1, <1>2, <1>3, <1>4, <1>5 DEF Close

\* Every step keeps the invariant, and replaces no published limit by an older one.
LEMMA StepKeeps ==
  ASSUME LimitSnapshotAssumption, LimitsInv, [LimitsNext]_limitVars
  PROVE  LimitsInv' /\ [Advances]_limitVars
<1>1. CASE LimitsNext
  BY <1>1, TableStepKeeps, PutStepKeeps, RefreshStepKeeps, NotifyStepKeeps, CloseStepKeeps DEF LimitsNext
<1>2. CASE UNCHANGED limitVars
  BY <1>2 DEF limitVars, core, watch, LimitsInv, LimitsTypes, LockIsHeld, NothingIsBehind, CloseInOrder, GaugeFollows, Cancelled
<1> QED BY <1>1, <1>2

\* What is served is valid, covers every acknowledged put and only moves on, whatever loads,
\* writes, failures and a Close overlap; the gauge shows the last refresh once the notifier
\* rests; and the source is closed only when nobody uses it (Put, Refresh,
\* refreshErrorHookLoop and RefreshingQuotaLimitStore.Close in store/limits.go).
THEOREM LimitSnapshotServesCurrentLimits ==
  ASSUME LimitSnapshotAssumption
  PROVE  LimitsSpec => ServedLimitsAreCurrent
<1>1. LimitsInit => LimitsInv BY StoreStarts
<1>2. LimitsInv /\ [LimitsNext]_limitVars => LimitsInv' /\ [Advances]_limitVars BY StepKeeps
<1>3. LimitsInv => LimitsTypeOK /\ AcknowledgedLimitsStay /\ OnlyValidIsServed /\ GaugeIsCurrent /\ NoUseAfterClose
  <2> SUFFICES ASSUME LimitsInv
               PROVE  LimitsTypeOK /\ AcknowledgedLimitsStay /\ OnlyValidIsServed /\ GaugeIsCurrent /\ NoUseAfterClose
    OBVIOUS
  <2> USE LimitSnapshotAssumption DEF LimitSnapshotAssumption, LimitsInv, LimitsTypes, WriterState, LoopState, HealthState, NotifierState
  <2>1. LimitsTypeOK BY DEF LimitsTypeOK, LockIsHeld, Version
  <2>2. AcknowledgedLimitsStay /\ OnlyValidIsServed
    BY DEF NothingIsBehind, AcknowledgedLimitsStay, OnlyValidIsServed, Row, Version
  <2>3. GaugeIsCurrent BY DEF GaugeFollows, GaugeIsCurrent
  <2>4. NoUseAfterClose BY DEF NoUseAfterClose, CloseInOrder, LockIsHeld
  <2> QED BY <2>1, <2>2, <2>3, <2>4
<1> QED BY <1>1, <1>2, <1>3, PTL DEF LimitsSpec, ServedLimitsAreCurrent
==============================================================================
