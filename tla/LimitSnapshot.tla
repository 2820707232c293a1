---------------------------- MODULE LimitSnapshot ---------------------------
(***************************************************************************)
(* RefreshingQuotaLimitStore (store/limits.go): quota limits that live in  *)
(* a Postgres table several gateway instances write, served by each of     *)
(* them from a snapshot in memory.                                         *)
(*                                                                         *)
(* A PUT /v1/limits handler writes the table and then its key of the       *)
(* snapshot, under updateMu.  A background loop loads the whole table      *)
(* under the same lock and replaces the snapshot; what came of it goes to  *)
(* lastErr under another lock, and a third goroutine tells a hook, which   *)
(* sets the stale gauge.  Close runs beside all of them.                   *)
(*                                                                         *)
(* A row is the version of the write it comes from, whether there is a row *)
(* (it may have been deleted) and whether it would pass validation (it may *)
(* have been written by hand).  Readers load the snapshot without a lock,  *)
(* so what they see is the variable snapshot itself.                       *)
(***************************************************************************)
EXTENDS Naturals, FiniteSets

CONSTANTS
  KeyID,        \* key IDs
  Writer,       \* PUT handlers of this instance
  Nothing,      \* no lock holder, or no row loaded
  Hooked,       \* whether the service installs a refresh error hook
  MaxVersion    \* bound on the writes to the table

VARIABLES
  table,      \* the durable rows, by key
  writes,     \* how many writes the table has seen
  source,     \* whether the connection to the table is open
  snapshot,   \* the published limits, by key
  updateMu,   \* its holder
  closed,     \* the atomic flag
  writer,     \* per handler: where it is, its key, and the row it has written
  acked,      \* per key, the version of the last write a handler has answered 200 for
  loop,       \* the refresh loop: where it is, what it has loaded, and whether that failed
  health,     \* lastErr, whether a hook is installed, healthChanged, and whether
              \* healthGeneration has moved since the notifier read it
  notifier,   \* where the notifier is, and the error it is reporting
  gauge,      \* what the hook was told last
  closing     \* how far Close has come

core == <<table, writes, source, snapshot, updateMu, closed, writer, acked>>
watch == <<loop, health, notifier, gauge, closing>>
limitVars == <<core, watch>>

Row == [v : 0 .. MaxVersion, found : BOOLEAN, valid : BOOLEAN]
Refresher == "refresh"
Closer == "close"

\* What the constants must satisfy: whoever holds the lock can be told from the others.
LimitSnapshotAssumption ==
  /\ MaxVersion \in Nat /\ Hooked \in BOOLEAN /\ KeyID # {}
  /\ Nothing \notin Writer /\ {Refresher, Closer} \cap (Writer \cup {Nothing}) = {}

-----------------------------------------------------------------------------
(* The table.  One statement reads or writes it at one instant.             *)

\* Mutant: rows are taken as they are.
LoadableAlways == TRUE

\* LoadAll fails on the first row that does not validate.
Loadable == \A k \in KeyID : table[k].found => table[k].valid

Upsert(k, row) == writes' = writes + 1 /\ table' = [table EXCEPT ![k] = row]

\* Another instance, or an operator: an upsert, a deletion, or a row nobody validated.
WriteElsewhere(k) ==
  /\ writes < MaxVersion
  /\ \E row \in {[v |-> writes + 1, found |-> f, valid |-> g] : f, g \in BOOLEAN} :
       /\ row.found \/ row.valid
       /\ Upsert(k, row)
  /\ UNCHANGED <<source, snapshot, updateMu, closed, writer, acked, watch>>

-----------------------------------------------------------------------------
\* NewRefreshingQuotaLimitStore has loaded a valid table and starts its two loops.
LimitsInit ==
  /\ table = [k \in KeyID |-> [v |-> 0, found |-> FALSE, valid |-> TRUE]]
  /\ writes = 0
  /\ source = "open"
  /\ snapshot = table
  /\ updateMu = Nothing
  /\ closed = FALSE
  /\ writer = [w \in Writer |-> [at |-> "idle", key |-> CHOOSE k \in KeyID : TRUE, v |-> 0]]
  /\ acked = [k \in KeyID |-> 0]
  /\ loop = [at |-> "idle", rows |-> Nothing, failed |-> FALSE]
  /\ health = [failed |-> FALSE, hook |-> FALSE, signal |-> FALSE, moved |-> FALSE]
  /\ notifier = [at |-> "wait", failed |-> FALSE]
  /\ gauge = FALSE
  /\ closing = "no"

\* putLimits, up to the lock: a request that does not authenticate, lacks the
\* permission, or carries an invalid limit, or finds the store closed, changes nothing.
PutLimits(w, k) ==
  /\ writer[w].at = "idle" /\ ~closed
  /\ writer' = [writer EXCEPT ![w] = [at |-> "lock", key |-> k, v |-> 0]]
  /\ UNCHANGED <<table, writes, source, snapshot, updateMu, closed, acked, watch>>

\* Mutant: the flag is not read again once the lock is held.
LockedBlindly(who) == updateMu = Nothing /\ updateMu' = who

\* updateMu.Lock, with the second look at closed: a store closed meanwhile is left alone.
Locked(who) == updateMu = Nothing /\ ~closed /\ updateMu' = who

PutLock(w) ==
  /\ writer[w].at = "lock"
  /\ \/ Locked(w) /\ writer' = [writer EXCEPT ![w].at = "source"]
     \/ updateMu = Nothing /\ closed /\ writer' = [writer EXCEPT ![w].at = "idle"] /\ UNCHANGED updateMu
  /\ UNCHANGED <<table, writes, source, snapshot, closed, acked, watch>>

\* PostgresQuotaLimitStore.Put.  A call that fails may have taken effect.
PutSource(w) ==
  /\ writer[w].at = "source"
  /\ \/ /\ writes < MaxVersion
        /\ Upsert(writer[w].key, [v |-> writes + 1, found |-> TRUE, valid |-> TRUE])
        /\ \/ /\ writer' = [writer EXCEPT ![w].at = "publish", ![w].v = writes + 1]
              /\ UNCHANGED updateMu
           \/ /\ writer' = [writer EXCEPT ![w].at = "idle"]
              /\ updateMu' = Nothing
     \/ /\ writer' = [writer EXCEPT ![w].at = "idle"]
        /\ updateMu' = Nothing
        /\ UNCHANGED <<table, writes>>
  /\ UNCHANGED <<source, snapshot, closed, acked, watch>>

\* Mutant: the limit reaches the snapshot at the next refresh only.
PublishedLater(k, v) == UNCHANGED snapshot

\* The snapshot is cloned with the key replaced.
Published(k, v) == snapshot' = [snapshot EXCEPT ![k] = [v |-> v, found |-> TRUE, valid |-> TRUE]]

\* The new snapshot is stored, the lock released and the handler answers.
PutPublish(w) ==
  /\ writer[w].at = "publish"
  /\ Published(writer[w].key, writer[w].v)
  /\ updateMu' = Nothing
  /\ acked' = [acked EXCEPT ![writer[w].key] = writer[w].v]
  /\ writer' = [writer EXCEPT ![w].at = "idle"]
  /\ UNCHANGED <<table, writes, source, closed, watch>>

-----------------------------------------------------------------------------
(* The refresh loop.                                                        *)

\* Mutant: Close does not cancel the loops' context.
CancelledNever == FALSE

Cancelled == closing \in {"wait", "lock", "source", "done"}

\* The ticker, or the end of the context.  Refresh looks at closed first.
RefreshTick ==
  /\ loop.at = "idle"
  /\ \/ Cancelled /\ loop' = [loop EXCEPT !.at = "done"]
     \/ ~closed /\ loop' = [loop EXCEPT !.at = "lock"]
  /\ UNCHANGED <<core, health, notifier, gauge, closing>>

\* Refresh holds updateMu from before the load until the snapshot is stored.
LoadsLocked == Locked(Refresher)

RefreshLock ==
  /\ loop.at = "lock"
  /\ \/ LoadsLocked /\ loop' = [loop EXCEPT !.at = "load"]
     \/ updateMu = Nothing /\ closed /\ loop' = [loop EXCEPT !.at = "idle"] /\ UNCHANGED updateMu
  /\ UNCHANGED <<table, writes, source, snapshot, closed, writer, acked, health, notifier, gauge, closing>>

LoadSucceeds ==
  /\ loop.at = "load" /\ Loadable
  /\ loop' = [at |-> "publish", rows |-> table, failed |-> FALSE]
  /\ UNCHANGED <<core, health, notifier, gauge, closing>>

\* The query fails, is cancelled, or meets a row that does not validate.
LoadFails ==
  /\ loop.at = "load"
  /\ loop' = [at |-> "publish", rows |-> Nothing, failed |-> TRUE]
  /\ UNCHANGED <<core, health, notifier, gauge, closing>>

\* Mutant: a failed load publishes what it has, an empty map.
LoadedOrNothing == IF loop.failed THEN [k \in KeyID |-> [v |-> 0, found |-> FALSE, valid |-> TRUE]] ELSE loop.rows

\* Mutant: a snapshot that is there is kept.
OldAnyway == snapshot

\* A failed refresh leaves the last known-good snapshot.
LoadedOrOld == IF loop.failed THEN snapshot ELSE loop.rows

RefreshPublish ==
  /\ loop.at = "publish"
  /\ snapshot' = LoadedOrOld
  /\ updateMu' = IF updateMu = Refresher THEN Nothing ELSE updateMu
  /\ loop' = [loop EXCEPT !.at = "health", !.rows = Nothing]
  /\ UNCHANGED <<table, writes, source, closed, writer, acked, health, notifier, gauge, closing>>

\* lastErr and healthGeneration, under healthMu.
RefreshHealth ==
  /\ loop.at = "health"
  /\ health' = [health EXCEPT !.failed = loop.failed, !.moved = TRUE]
  /\ loop' = [loop EXCEPT !.at = "signal", !.failed = FALSE]
  /\ UNCHANGED <<core, notifier, gauge, closing>>

\* signalRefreshErrorHook: the channel holds one signal.
RefreshSignal ==
  /\ loop.at = "signal"
  /\ health' = [health EXCEPT !.signal = TRUE]
  /\ loop' = [loop EXCEPT !.at = "idle"]
  /\ UNCHANGED <<core, notifier, gauge, closing>>

-----------------------------------------------------------------------------
(* The notifier and its hook.                                               *)

\* SetRefreshErrorHook, which the service calls once; its signal is sent at once.
SetHook ==
  /\ Hooked /\ ~health.hook /\ ~closed
  /\ health' = [health EXCEPT !.hook = TRUE, !.moved = TRUE, !.signal = TRUE]
  /\ UNCHANGED <<core, loop, notifier, gauge, closing>>

NotifierGo(at) == notifier' = [notifier EXCEPT !.at = at]

\* refreshErrorHookLoop.
NotifierWakes ==
  /\ notifier.at = "wait"
  /\ \/ Cancelled /\ NotifierGo("done") /\ UNCHANGED health
     \/ health.signal /\ NotifierGo("read") /\ health' = [health EXCEPT !.signal = FALSE]
  /\ UNCHANGED <<core, loop, gauge, closing>>

\* The hook, the error and the generation, under healthMu.
NotifierReads ==
  /\ notifier.at = "read"
  /\ \/ Cancelled /\ NotifierGo("done") /\ UNCHANGED health
     \/ /\ ~Cancelled /\ health.hook
        /\ notifier' = [at |-> "call", failed |-> health.failed]
        /\ health' = [health EXCEPT !.moved = FALSE]
     \/ ~Cancelled /\ ~health.hook /\ NotifierGo("wait") /\ UNCHANGED health
  /\ UNCHANGED <<core, loop, gauge, closing>>

\* The callback returns.
HookReturns ==
  /\ notifier.at = "call"
  /\ gauge' = notifier.failed
  /\ NotifierGo("recheck")
  /\ UNCHANGED <<core, loop, health, closing>>

NotifierRechecks ==
  /\ notifier.at = "recheck"
  /\ NotifierGo(IF health.moved THEN "drain" ELSE "wait")
  /\ UNCHANGED <<core, loop, health, gauge, closing>>

\* Mutant: the newer state is not read once its signal is consumed.
AfterDrainWaits == "wait"

\* A generation that has moved is read again, in place of its signal.
AfterDrain == "read"

NotifierDrains ==
  /\ notifier.at = "drain"
  /\ health' = [health EXCEPT !.signal = FALSE]
  /\ NotifierGo(AfterDrain)
  /\ UNCHANGED <<core, loop, gauge, closing>>

-----------------------------------------------------------------------------
(* Close: the flag, the hook, the context, the loop, the lock, the source.  *)

CloseFlag ==
  /\ closing = "no" /\ closing' = "hook"
  /\ closed' = TRUE
  /\ UNCHANGED <<table, writes, source, snapshot, updateMu, writer, acked, loop, health, notifier, gauge>>

CloseHook ==
  /\ closing = "hook" /\ closing' = "wait"
  /\ health' = [health EXCEPT !.hook = FALSE, !.moved = TRUE]
  /\ UNCHANGED <<core, loop, notifier, gauge>>

CloseWait ==
  /\ closing = "wait" /\ loop.at = "done"
  /\ closing' = "lock"
  /\ UNCHANGED <<core, loop, health, notifier, gauge>>

CloseLock ==
  /\ closing = "lock" /\ updateMu = Nothing
  /\ closing' = "source"
  /\ updateMu' = Closer
  /\ UNCHANGED <<table, writes, source, snapshot, closed, writer, acked, loop, health, notifier, gauge>>

CloseSource ==
  /\ closing = "source" /\ closing' = "done"
  /\ source' = "closed"
  /\ updateMu' = Nothing
  /\ UNCHANGED <<table, writes, snapshot, closed, writer, acked, loop, health, notifier, gauge>>

-----------------------------------------------------------------------------
Refresh == RefreshTick \/ RefreshLock \/ LoadSucceeds \/ LoadFails \/ RefreshPublish
           \/ RefreshHealth \/ RefreshSignal
Notify == NotifierWakes \/ NotifierReads \/ HookReturns \/ NotifierRechecks \/ NotifierDrains
Close == CloseHook \/ CloseWait \/ CloseLock \/ CloseSource
Put(w) == PutLock(w) \/ PutSource(w) \/ PutPublish(w)

LimitsNext ==
  \/ \E k \in KeyID : WriteElsewhere(k)
  \/ \E w \in Writer : Put(w) \/ \E k \in KeyID : PutLimits(w, k)
  \/ Refresh \/ Notify \/ SetHook \/ CloseFlag \/ Close

LimitsSpec == LimitsInit /\ [][LimitsNext]_limitVars

\* Goroutines run, calls of the source return, the ticker fires; a lock that is free again
\* and again is won.  That the table answers again and again is an assumption about it.
Fairness ==
  /\ WF_limitVars(Refresh) /\ SF_limitVars(RefreshLock) /\ SF_limitVars(LoadSucceeds)
  /\ WF_limitVars(Close) /\ SF_limitVars(CloseLock)
  /\ \A w \in Writer : WF_limitVars(Put(w))

LimitsFairSpec == LimitsSpec /\ Fairness

-----------------------------------------------------------------------------
\* Every variable stays in its type; the lock's holder is where it holds the lock.
LimitsTypeOK ==
  /\ table \in [KeyID -> Row] /\ snapshot \in [KeyID -> Row]
  /\ updateMu \in Writer \cup {Nothing, Refresher, Closer}
  /\ \A w \in Writer : writer[w].at \in {"source", "publish"} => updateMu = w
  /\ loop.at \in {"load", "publish"} => updateMu = Refresher
  /\ acked \in [KeyID -> 0 .. MaxVersion]
  /\ {health.failed, health.hook, health.signal, health.moved, gauge} \subseteq BOOLEAN

\* A limit a client has put, and got a 200 for, is the limit this instance applies, or a
\* newer one is: no refresh that loaded the table earlier takes it back.
AcknowledgedLimitsStay == \A k \in KeyID : snapshot[k].v >= acked[k]

\* A key's published limit is never replaced by an older one, whatever loads, writes and
\* failures overlap.
Advances == \A k \in KeyID : snapshot'[k].v >= snapshot[k].v

\* What is published was valid: a row written by hand is never served.
OnlyValidIsServed == \A k \in KeyID : snapshot[k].found => snapshot[k].valid

\* "An older callback cannot be the final observation": once refresh and notifier are at
\* rest, the gauge shows what the last refresh came to.
GaugeIsCurrent ==
  health.hook /\ notifier.at = "wait" /\ ~health.signal /\ loop.at # "signal" => gauge = health.failed

\* Close ends the connection only when nobody is using it, and nobody uses it after.
NoUseAfterClose ==
  source = "closed" => loop.at = "done" /\ \A w \in Writer : writer[w].at \in {"idle", "lock"}

\* A limit a client has put, and got a 200 for, is the limit this instance applies, or a
\* newer one is: no refresh that loaded the table earlier takes it back, a failed one leaves
\* what was served, and no row that does not validate is served.  "An older callback cannot
\* be the final observation": once refresh and notifier are at rest, the gauge shows what
\* the last refresh came to.  Close ends the connection only when nobody uses it any more
\* (Put, Refresh, refreshErrorHookLoop, RefreshingQuotaLimitStore.Close).
ServedLimitsAreCurrent ==
  /\ [](LimitsTypeOK /\ AcknowledgedLimitsStay /\ OnlyValidIsServed /\ GaugeIsCurrent /\ NoUseAfterClose)
  /\ [][Advances]_limitVars

\* Close returns, whichever handlers and refreshes it meets.
CloseReturns == closed ~> closing = "done"

\* A limit written elsewhere reaches this instance, unless it closes or a row that does
\* not validate keeps the table from being loaded; and Close of the limit store returns,
\* whichever handlers and refreshes it meets (refreshLoop, RefreshingQuotaLimitStore.Close).
LimitsArrive ==
  /\ \A k \in KeyID, n \in 1 .. MaxVersion :
       table[k].v = n ~> (snapshot[k].v >= n \/ closed \/ ~Loadable)
  /\ CloseReturns
=============================================================================
