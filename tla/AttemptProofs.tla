---------------------------- MODULE AttemptProofs ----------------------------
(***************************************************************************)
(* For every number of routes and tries: slots cover the upstream call and *)
(* are given back once, the breaker hears one outcome per admission, and   *)
(* never of a failure that the client caused.  For one call of a provider: *)
(* the ledger tells the truth about it, and says it once.                  *)
(***************************************************************************)
EXTENDS Attempt, ProviderCall, TLAPS

\* The request, or the stream it has become, owes the release of its slots.
Owing ==
  \/ pc \in {"ready", "calling", "failed", "retry"}
  \/ pc = "streaming" /\ ~once

\* The current admission has not been reported.
Unreported ==
  \/ pc \in {"acquire", "ready", "calling", "failed"}
  \/ pc = "streaming" /\ ~once

Told == {<<>>, <<"success">>, <<"failure">>}

Types ==
  /\ pc \in {"dispatch", "acquire", "ready", "calling", "failed", "retry", "streaming", "done"}
  /\ route \in 1 .. Routes /\ try \in 1 .. Tries
  /\ client \in {"here", "gone"} /\ ctx \in {"live", "cancelled", "expired"}
  /\ upstream \in {"none", "open", "ended", "closed"}
  /\ err \in Error \cup {"none"} /\ once \in BOOLEAN /\ sawBytes \in BOOLEAN
  /\ reader \in {"off", "idle", "eof", "error", "closing", "closed", "done"}
  /\ watcher \in {"off", "waiting", "closed", "done"}

\* One slot of each kind per route, taken at most once and owed while held.
SlotsOwed ==
  /\ taken \in [Slot -> Nat] /\ given \in [Slot -> Nat]
  /\ \A s \in Slot :
       /\ taken[s] = given[s] + (IF Owing THEN 1 ELSE 0)
       /\ taken[s] <= IF pc \in {"dispatch", "acquire"} THEN route - 1 ELSE route

\* The stream is open only while it owes its completion: whoever completes it has
\* ended or closed it before.
StreamOwes ==
  /\ upstream # "none" <=> reader # "off"
  /\ watcher # "off" <=> reader # "off"
  /\ pc = "streaming" <=> reader \notin {"off", "done"}
  /\ reader # "off" => pc \in {"streaming", "done"}
  /\ reader = "off" => ~once
  /\ reader = "done" => once
  /\ upstream = "open" => ~once /\ reader \in {"idle", "closing"} /\ watcher = "waiting"
  /\ once => ctx # "live"

\* The tries of the routes before route r.
Before(r) == (r - 1) * Tries

\* Admissions are at most one per try.
AdmissionsInOrder ==
  /\ admission \in Nat /\ admission <= Routes * Tries
  /\ pc = "dispatch" => admission <= Before(route) /\ try = 1
  /\ pc \in {"acquire", "ready", "calling", "failed"} => admission <= Before(route) + try
  /\ pc = "retry" => admission < Before(route) + try
  /\ pc \notin {"dispatch", "done"} => admission > 0

\* Of each admission the breaker was told one outcome or none, and none yet of the
\* current one while it runs.
OutcomesTold ==
  /\ reports \in [Admission -> Told]
  /\ \A a \in Admission : a > admission \/ (a = admission /\ Unreported) => reports[a] = <<>>

\* Who ended the current call first, as its context tells it.
BlameFollowsContext ==
  /\ blame \in [Admission -> {"none", "client", "fault"}]
  /\ \A a \in Admission : a > admission => blame[a] = "none"
  /\ \A a \in Admission : reports[a] = <<"failure">> => blame[a] = "fault"
  /\ pc \in {"acquire", "ready"} => blame[admission] = "none"
  /\ pc = "calling" /\ ctx = "live" => blame[admission] = "none"
  /\ pc \in {"calling", "failed", "streaming"} /\ ctx = "expired" /\ ~once => blame[admission] = "fault"
  /\ pc = "failed" /\ ctx # "cancelled" => blame[admission] = "fault"
  /\ pc = "streaming" /\ ctx = "live" /\ reader = "error" => blame[admission] = "fault"
  /\ pc = "streaming" /\ ctx = "live" => blame[admission] # "client"

IInv ==
  /\ Types /\ SlotsOwed /\ StreamOwes /\ AdmissionsInOrder /\ OutcomesTold /\ BlameFollowsContext
-----------------------------------------------------------------------------
\* Every route has its Tries, and the routes up to Routes have all of them.
LEMMA TriesPerRoute ==
  ASSUME NEW r \in 1 .. Routes
  PROVE  /\ Before(r) \in Nat /\ Routes * Tries \in Nat
         /\ Before(r + 1) = Before(r) + Tries
         /\ Before(r) + Tries <= Routes * Tries
<1> USE AttemptAssumption
<1>1. /\ Routes \in Nat /\ Tries \in Nat /\ r - 1 \in Nat /\ Routes - r \in Nat OBVIOUS
<1>2. /\ (r - 1) * Tries \in Nat /\ Routes * Tries \in Nat /\ (Routes - r) * Tries \in Nat BY <1>1
<1>3. (r + 1 - 1) * Tries = (r - 1) * Tries + Tries BY <1>1
<1>4. (r - 1) * Tries + Tries + (Routes - r) * Tries = Routes * Tries BY <1>1
<1> QED BY <1>2, <1>3, <1>4 DEF Before

\* The types are kept.
LEMMA TypesKept == IInv /\ [Next]_vars => Types'
<1> SUFFICES ASSUME IInv, [Next]_vars PROVE Types' OBVIOUS
<1> USE AttemptAssumption DEF IInv
<1>1. CASE StartRoute BY <1>1 DEF StartRoute, RouteFails, Admitted, Types, streamVars
<1>2. CASE Acquire BY <1>2 DEF Acquire, RouteFails, Types, streamVars
<1>3. CASE Call BY <1>3 DEF Call, RouteFails, Blamed, Types, streamVars
<1>4. CASE HandleError BY <1>4 DEF HandleError, RouteFails, CtxAfter, Types, streamVars
<1>5. CASE Retry BY <1>5 DEF Retry, RouteFails, Admitted, Types, streamVars
<1>6. CASE CallSucceeds BY <1>6 DEF CallSucceeds, CtxAfter, Types, streamVars
<1>7. CASE CallStreams BY <1>7 DEF CallStreams, Types, streamVars
<1>8. CASE CallPanics BY <1>8 DEF CallPanics, Types, streamVars
<1>9. ASSUME NEW e \in Error, CallErrs(e) PROVE Types'
  BY <1>9 DEF CallErrs, Blamed, Types, streamVars
<1>10. CASE ReadData BY <1>10 DEF ReadData, Types, streamVars
<1>11. CASE ReaderStops BY <1>11 DEF ReaderStops, Types, streamVars
<1>12. CASE CloseUnderlying BY <1>12 DEF CloseUnderlying, Types, streamVars
<1>13. CASE CloseCompletes
  <2>1. CASE once BY <1>13, <2>1 DEF CloseCompletes, Complete, CtxAfter, Types, streamVars
  <2>2. CASE ~once BY <1>13, <2>2 DEF CloseCompletes, Complete, CtxAfter, Types, streamVars
  <2> QED BY <2>1, <2>2
<1>14. CASE ReadHandle
  <2>1. /\ UNCHANGED <<pc, route, try, client, upstream, sawBytes, err, watcher>>
        /\ reader' = "closing"
    BY <1>14 DEF ReadHandle
  <2>2. PICK o : Complete(o) BY <1>14 DEF ReadHandle
  <2>3. once' \in BOOLEAN /\ ctx' \in {"live", "cancelled", "expired"}
    BY <2>2 DEF Complete, CtxAfter, Types
  <2> QED BY <2>1, <2>3 DEF Types
<1>15. ASSUME NEW e \in Error, ReadReturns(e) PROVE Types'
  BY <1>15 DEF ReadReturns, Blamed, Types, streamVars
<1>16. CASE WatcherCloses BY <1>16 DEF WatcherCloses, Types, streamVars
<1>17. CASE WatcherCompletes
  <2>1. CASE once BY <1>17, <2>1 DEF WatcherCompletes, Complete, CtxAfter, Types, streamVars
  <2>2. CASE ~once BY <1>17, <2>2 DEF WatcherCompletes, Complete, CtxAfter, Types, streamVars
  <2> QED BY <2>1, <2>2
<1>18. CASE ClientLeaves BY <1>18 DEF ClientLeaves, CtxAfter, Blamed, Types, streamVars
<1>19. CASE Deadline BY <1>19 DEF Deadline, Blamed, Types, streamVars
<1>20. CASE UNCHANGED vars BY <1>20 DEF vars, Types
<1> QED BY <1>1, <1>2, <1>3, <1>4, <1>5, <1>6, <1>7, <1>8, <1>9, <1>10, <1>11, <1>12, <1>13,
           <1>14, <1>15, <1>16, <1>17, <1>18, <1>19, <1>20
       DEF Next, Handler, Provider, Reader, Watcher

\* Whoever completes the stream has ended or closed it before.
LEMMA StreamOwesKept == IInv /\ [Next]_vars => StreamOwes'
<1> SUFFICES ASSUME IInv, [Next]_vars PROVE StreamOwes' OBVIOUS
<1> USE AttemptAssumption DEF IInv
<1>1. CASE StartRoute BY <1>1 DEF StartRoute, RouteFails, Admitted, StreamOwes, Types,
       streamVars
<1>2. CASE Acquire BY <1>2 DEF Acquire, RouteFails, StreamOwes, Types, streamVars
<1>3. CASE Call BY <1>3 DEF Call, RouteFails, ReleaseSlots, Blamed, StreamOwes, Types,
       streamVars
<1>4. CASE HandleError BY <1>4 DEF HandleError, RouteFails, ReleaseSlots, CtxAfter, Reported,
       StreamOwes, Types, streamVars
<1>5. CASE Retry BY <1>5 DEF Retry, RouteFails, ReleaseSlots, Admitted, StreamOwes, Types,
       streamVars
<1>6. CASE CallSucceeds BY <1>6 DEF CallSucceeds, ReleaseSlots, CtxAfter, Reported, StreamOwes,
       Types, streamVars
<1>7. CASE CallStreams BY <1>7 DEF CallStreams, StreamOwes, Types, streamVars
<1>8. CASE CallPanics BY <1>8 DEF CallPanics, ReleaseSlots, StreamOwes, Types, streamVars
<1>9. ASSUME NEW e \in Error, CallErrs(e) PROVE StreamOwes'
  BY <1>9 DEF CallErrs, Blamed, StreamOwes, Types, streamVars
<1>10. CASE ReadData BY <1>10 DEF ReadData, StreamOwes, Types, streamVars
<1>11. CASE ReaderStops BY <1>11 DEF ReaderStops, StreamOwes, Types, streamVars
<1>12. CASE CloseUnderlying BY <1>12 DEF CloseUnderlying, StreamOwes, Types, streamVars
<1>13. CASE CloseCompletes BY <1>13 DEF CloseCompletes, Complete, ReleaseSlots, CtxAfter,
       Reported, StreamOwes, Types, streamVars
<1>14. CASE ReadHandle BY <1>14 DEF ReadHandle, Complete, ReleaseSlots, CtxAfter, Reported,
       StreamOwes, Types, streamVars
<1>15. ASSUME NEW e \in Error, ReadReturns(e) PROVE StreamOwes'
  BY <1>15 DEF ReadReturns, Blamed, StreamOwes, Types, streamVars
<1>16. CASE WatcherCloses BY <1>16 DEF WatcherCloses, StreamOwes, Types, streamVars
<1>17. CASE WatcherCompletes BY <1>17 DEF WatcherCompletes, Complete, ReleaseSlots, CtxAfter,
       Reported, StreamOwes, Types, streamVars
<1>18. CASE ClientLeaves BY <1>18 DEF ClientLeaves, CtxAfter, Blamed, StreamOwes, Types,
       streamVars
<1>19. CASE Deadline BY <1>19 DEF Deadline, Blamed, StreamOwes, Types, streamVars
<1>20. CASE UNCHANGED vars BY <1>20 DEF vars, StreamOwes, Types
<1> QED BY <1>1, <1>2, <1>3, <1>4, <1>5, <1>6, <1>7, <1>8, <1>9, <1>10, <1>11, <1>12, <1>13,
           <1>14, <1>15, <1>16, <1>17, <1>18, <1>19, <1>20
       DEF Next, Handler, Provider, Reader, Watcher

\* Slots are taken once per route, and given back once.
LEMMA SlotsOwedKept == IInv /\ [Next]_vars => SlotsOwed'
<1> SUFFICES ASSUME IInv, [Next]_vars PROVE SlotsOwed' OBVIOUS
<1> USE AttemptAssumption DEF IInv
<1>1. CASE StartRoute BY <1>1 DEF StartRoute, RouteFails, Admitted, SlotsOwed, Owing,
       StreamOwes, Types, streamVars
<1>2. CASE Acquire BY <1>2 DEF Acquire, RouteFails, SlotsOwed, Owing, StreamOwes, Types,
       streamVars
<1>3. CASE Call BY <1>3 DEF Call, RouteFails, ReleaseSlots, Blamed, SlotsOwed, Owing,
       StreamOwes, Types, streamVars
<1>4. CASE HandleError BY <1>4 DEF HandleError, RouteFails, ReleaseSlots, CtxAfter, Reported,
       SlotsOwed, Owing, StreamOwes, Types, streamVars
<1>5. CASE Retry BY <1>5 DEF Retry, RouteFails, ReleaseSlots, Admitted, SlotsOwed, Owing,
       StreamOwes, Types, streamVars
<1>6. CASE CallSucceeds BY <1>6 DEF CallSucceeds, ReleaseSlots, CtxAfter, Reported, SlotsOwed,
       Owing, StreamOwes, Types, streamVars
<1>7. CASE CallStreams BY <1>7 DEF CallStreams, SlotsOwed, Owing, StreamOwes, Types, streamVars
<1>8. CASE CallPanics BY <1>8 DEF CallPanics, ReleaseSlots, SlotsOwed, Owing, StreamOwes, Types,
       streamVars
<1>9. ASSUME NEW e \in Error, CallErrs(e) PROVE SlotsOwed'
  BY <1>9 DEF CallErrs, Blamed, SlotsOwed, Owing, StreamOwes, Types, streamVars
<1>10. CASE ReadData BY <1>10 DEF ReadData, SlotsOwed, Owing, StreamOwes, Types, streamVars
<1>11. CASE ReaderStops BY <1>11 DEF ReaderStops, SlotsOwed, Owing, StreamOwes, Types,
       streamVars
<1>12. CASE CloseUnderlying BY <1>12 DEF CloseUnderlying, SlotsOwed, Owing, StreamOwes, Types,
       streamVars
<1>13. CASE CloseCompletes BY <1>13 DEF CloseCompletes, Complete, ReleaseSlots, CtxAfter,
       Reported, SlotsOwed, Owing, StreamOwes, Types, streamVars
<1>14. CASE ReadHandle BY <1>14 DEF ReadHandle, Complete, ReleaseSlots, CtxAfter, Reported,
       SlotsOwed, Owing, StreamOwes, Types, streamVars
<1>15. ASSUME NEW e \in Error, ReadReturns(e) PROVE SlotsOwed'
  BY <1>15 DEF ReadReturns, Blamed, SlotsOwed, Owing, StreamOwes, Types, streamVars
<1>16. CASE WatcherCloses BY <1>16 DEF WatcherCloses, SlotsOwed, Owing, StreamOwes, Types,
       streamVars
<1>17. CASE WatcherCompletes BY <1>17 DEF WatcherCompletes, Complete, ReleaseSlots, CtxAfter,
       Reported, SlotsOwed, Owing, StreamOwes, Types, streamVars
<1>18. CASE ClientLeaves BY <1>18 DEF ClientLeaves, CtxAfter, Blamed, SlotsOwed, Owing,
       StreamOwes, Types, streamVars
<1>19. CASE Deadline BY <1>19 DEF Deadline, Blamed, SlotsOwed, Owing, StreamOwes, Types,
       streamVars
<1>20. CASE UNCHANGED vars BY <1>20 DEF vars, SlotsOwed, Owing, StreamOwes, Types
<1> QED BY <1>1, <1>2, <1>3, <1>4, <1>5, <1>6, <1>7, <1>8, <1>9, <1>10, <1>11, <1>12, <1>13,
           <1>14, <1>15, <1>16, <1>17, <1>18, <1>19, <1>20
       DEF Next, Handler, Provider, Reader, Watcher

\* Each try is admitted at most once.
LEMMA AdmissionsKept == IInv /\ [Next]_vars => AdmissionsInOrder'
<1> SUFFICES ASSUME IInv, [Next]_vars PROVE AdmissionsInOrder' OBVIOUS
<1> USE AttemptAssumption DEF IInv
<1>0. /\ Before(route) \in Nat /\ Routes * Tries \in Nat
      /\ Before(route + 1) = Before(route) + Tries
      /\ Before(route) + Tries <= Routes * Tries
  BY TriesPerRoute DEF Types
<1>1. CASE StartRoute BY <1>1, <1>0 DEF StartRoute, RouteFails, Admitted, AdmissionsInOrder,
       Types, StreamOwes, streamVars
<1>2. CASE Acquire BY <1>2, <1>0 DEF Acquire, RouteFails, AdmissionsInOrder, Types, StreamOwes,
       streamVars
<1>3. CASE Call BY <1>3, <1>0 DEF Call, RouteFails, ReleaseSlots, Blamed, AdmissionsInOrder,
       Types, StreamOwes, streamVars
<1>4. CASE HandleError BY <1>4, <1>0 DEF HandleError, RouteFails, ReleaseSlots, CtxAfter,
       Reported, AdmissionsInOrder, Types, StreamOwes, streamVars
<1>5. CASE Retry BY <1>5, <1>0 DEF Retry, RouteFails, ReleaseSlots, Admitted, AdmissionsInOrder,
       Types, StreamOwes, streamVars
<1>6. CASE CallSucceeds BY <1>6, <1>0 DEF CallSucceeds, ReleaseSlots, CtxAfter, Reported,
       AdmissionsInOrder, Types, StreamOwes, streamVars
<1>7. CASE CallStreams BY <1>7, <1>0 DEF CallStreams, AdmissionsInOrder, Types, StreamOwes,
       streamVars
<1>8. CASE CallPanics BY <1>8, <1>0 DEF CallPanics, ReleaseSlots, AdmissionsInOrder, Types,
       StreamOwes, streamVars
<1>9. ASSUME NEW e \in Error, CallErrs(e) PROVE AdmissionsInOrder'
  BY <1>9, <1>0 DEF CallErrs, Blamed, AdmissionsInOrder, Types, StreamOwes, streamVars
<1>10. CASE ReadData BY <1>10, <1>0 DEF ReadData, AdmissionsInOrder, Types, StreamOwes,
       streamVars
<1>11. CASE ReaderStops BY <1>11, <1>0 DEF ReaderStops, AdmissionsInOrder, Types, StreamOwes,
       streamVars
<1>12. CASE CloseUnderlying BY <1>12, <1>0 DEF CloseUnderlying, AdmissionsInOrder, Types,
       StreamOwes, streamVars
<1>13. CASE CloseCompletes BY <1>13, <1>0 DEF CloseCompletes, Complete, ReleaseSlots, CtxAfter,
       Reported, AdmissionsInOrder, Types, StreamOwes, streamVars
<1>14. CASE ReadHandle BY <1>14, <1>0 DEF ReadHandle, Complete, ReleaseSlots, CtxAfter,
       Reported, AdmissionsInOrder, Types, StreamOwes, streamVars
<1>15. ASSUME NEW e \in Error, ReadReturns(e) PROVE AdmissionsInOrder'
  BY <1>15, <1>0 DEF ReadReturns, Blamed, AdmissionsInOrder, Types, StreamOwes, streamVars
<1>16. CASE WatcherCloses BY <1>16, <1>0 DEF WatcherCloses, AdmissionsInOrder, Types,
       StreamOwes, streamVars
<1>17. CASE WatcherCompletes BY <1>17, <1>0 DEF WatcherCompletes, Complete, ReleaseSlots,
       CtxAfter, Reported, AdmissionsInOrder, Types, StreamOwes, streamVars
<1>18. CASE ClientLeaves BY <1>18, <1>0 DEF ClientLeaves, CtxAfter, Blamed, AdmissionsInOrder,
       Types, StreamOwes, streamVars
<1>19. CASE Deadline BY <1>19, <1>0 DEF Deadline, Blamed, AdmissionsInOrder, Types, StreamOwes,
       streamVars
<1>20. CASE UNCHANGED vars BY <1>20 DEF vars, AdmissionsInOrder, Types, StreamOwes
<1> QED BY <1>1, <1>2, <1>3, <1>4, <1>5, <1>6, <1>7, <1>8, <1>9, <1>10, <1>11, <1>12, <1>13,
           <1>14, <1>15, <1>16, <1>17, <1>18, <1>19, <1>20
       DEF Next, Handler, Provider, Reader, Watcher

\* A call at work is one of the admissions.
LEMMA AtWork == IInv /\ pc \notin {"dispatch", "done"} => admission \in Admission
BY AttemptAssumption, TriesPerRoute DEF IInv, AdmissionsInOrder, Types, Admission

\* A first outcome is the only one.
LEMMA FirstOutcome ==
  ASSUME IInv, Unreported, NEW o
  PROVE  Reported(o) = [reports EXCEPT ![admission] = <<o>>]
<1>1. admission \in Admission BY AtWork DEF Unreported
<1>2. reports[admission] = <<>> BY <1>1 DEF IInv, OutcomesTold
<1>3. <<>> \o <<o>> = <<o>> OBVIOUS
<1> QED BY <1>2, <1>3 DEF Reported

\* The current admission is reported when it ends.
LEMMA OutcomesKept == IInv /\ [Next]_vars => OutcomesTold'
<1> SUFFICES ASSUME IInv, [Next]_vars PROVE OutcomesTold' OBVIOUS
<1> USE AttemptAssumption DEF IInv
<1>0. /\ pc \notin {"dispatch", "done"} => admission \in Admission
      /\ Unreported => \A o \in {"success", "failure"} :
                         Reported(o) = [reports EXCEPT ![admission] = <<o>>]
  BY AtWork, FirstOutcome
<1>b. \A a : a \in Admission <=> a \in Nat /\ 0 < a /\ a <= Routes * Tries
  BY TriesPerRoute DEF Admission
<1>1. CASE StartRoute BY <1>1, <1>0, <1>b DEF StartRoute, RouteFails, Admitted, OutcomesTold, Told,
       Unreported, AdmissionsInOrder, StreamOwes, Types, streamVars
<1>2. CASE Acquire BY <1>2, <1>0 DEF Acquire, RouteFails, OutcomesTold, Told, Unreported,
       AdmissionsInOrder, StreamOwes, Types, streamVars
<1>3. CASE Call BY <1>3, <1>0 DEF Call, RouteFails, ReleaseSlots, Blamed, OutcomesTold, Told,
       Unreported, AdmissionsInOrder, StreamOwes, Types, streamVars
<1>4. CASE HandleError BY <1>4, <1>0 DEF HandleError, RouteFails, ReleaseSlots, CtxAfter,
       OutcomesTold, Told, Unreported, AdmissionsInOrder, StreamOwes, Types, streamVars
<1>5. CASE Retry BY <1>5, <1>0 DEF Retry, RouteFails, ReleaseSlots, Admitted, OutcomesTold,
       Told, Unreported, AdmissionsInOrder, StreamOwes, Types, streamVars
<1>6. CASE CallSucceeds BY <1>6, <1>0 DEF CallSucceeds, ReleaseSlots, CtxAfter, OutcomesTold,
       Told, Unreported, AdmissionsInOrder, StreamOwes, Types, streamVars
<1>7. CASE CallStreams BY <1>7, <1>0 DEF CallStreams, OutcomesTold, Told, Unreported,
       AdmissionsInOrder, StreamOwes, Types, streamVars
<1>8. CASE CallPanics BY <1>8, <1>0 DEF CallPanics, ReleaseSlots, OutcomesTold, Told,
       Unreported, AdmissionsInOrder, StreamOwes, Types, streamVars
<1>9. ASSUME NEW e \in Error, CallErrs(e) PROVE OutcomesTold'
  BY <1>9, <1>0 DEF CallErrs, Blamed, OutcomesTold, Told, Unreported, AdmissionsInOrder,
       StreamOwes, Types, streamVars
<1>10. CASE ReadData BY <1>10, <1>0 DEF ReadData, OutcomesTold, Told, Unreported,
       AdmissionsInOrder, StreamOwes, Types, streamVars
<1>11. CASE ReaderStops BY <1>11, <1>0 DEF ReaderStops, OutcomesTold, Told, Unreported,
       AdmissionsInOrder, StreamOwes, Types, streamVars
<1>12. CASE CloseUnderlying BY <1>12, <1>0 DEF CloseUnderlying, OutcomesTold, Told, Unreported,
       AdmissionsInOrder, StreamOwes, Types, streamVars
<1>13. CASE CloseCompletes
  <2>1. CASE once BY <1>13, <2>1, <1>0 DEF CloseCompletes, Complete, ReleaseSlots, CtxAfter,
       OutcomesTold, Told, Unreported, AdmissionsInOrder, StreamOwes, Types, streamVars
  <2>2. CASE ~once BY <1>13, <2>2, <1>0 DEF CloseCompletes, Complete, ReleaseSlots, CtxAfter,
       OutcomesTold, Told, Unreported, AdmissionsInOrder, StreamOwes, Types, streamVars
  <2> QED BY <2>1, <2>2
<1>14. CASE ReadHandle
  <2>1. CASE once BY <1>14, <2>1, <1>0 DEF ReadHandle, Complete, ReleaseSlots, CtxAfter,
       OutcomesTold, Told, Unreported, AdmissionsInOrder, StreamOwes, Types, streamVars
  <2>2. CASE ~once BY <1>14, <2>2, <1>0 DEF ReadHandle, Complete, ReleaseSlots, CtxAfter,
       OutcomesTold, Told, Unreported, AdmissionsInOrder, StreamOwes, Types, streamVars
  <2> QED BY <2>1, <2>2
<1>15. ASSUME NEW e \in Error, ReadReturns(e) PROVE OutcomesTold'
  BY <1>15, <1>0 DEF ReadReturns, Blamed, OutcomesTold, Told, Unreported, AdmissionsInOrder,
       StreamOwes, Types, streamVars
<1>16. CASE WatcherCloses BY <1>16, <1>0 DEF WatcherCloses, OutcomesTold, Told, Unreported,
       AdmissionsInOrder, StreamOwes, Types, streamVars
<1>17. CASE WatcherCompletes
  <2>1. CASE once BY <1>17, <2>1, <1>0 DEF WatcherCompletes, Complete, ReleaseSlots, CtxAfter,
       OutcomesTold, Told, Unreported, AdmissionsInOrder, StreamOwes, Types, streamVars
  <2>2. CASE ~once BY <1>17, <2>2, <1>0 DEF WatcherCompletes, Complete, ReleaseSlots, CtxAfter,
       OutcomesTold, Told, Unreported, AdmissionsInOrder, StreamOwes, Types, streamVars
  <2> QED BY <2>1, <2>2
<1>18. CASE ClientLeaves BY <1>18, <1>0 DEF ClientLeaves, CtxAfter, Blamed, OutcomesTold, Told,
       Unreported, AdmissionsInOrder, StreamOwes, Types, streamVars
<1>19. CASE Deadline BY <1>19, <1>0 DEF Deadline, Blamed, OutcomesTold, Told, Unreported,
       AdmissionsInOrder, StreamOwes, Types, streamVars
<1>20. CASE UNCHANGED vars BY <1>20 DEF vars, OutcomesTold, Told, Unreported, AdmissionsInOrder, StreamOwes, Types
<1> QED BY <1>1, <1>2, <1>3, <1>4, <1>5, <1>6, <1>7, <1>8, <1>9, <1>10, <1>11, <1>12, <1>13,
           <1>14, <1>15, <1>16, <1>17, <1>18, <1>19, <1>20
       DEF Next, Handler, Provider, Reader, Watcher

\* What the breaker hears of as a failure is not the client's doing.
LEMMA BlameKept == IInv /\ [Next]_vars => BlameFollowsContext'
<1> SUFFICES ASSUME IInv, [Next]_vars PROVE BlameFollowsContext' OBVIOUS
<1> USE AttemptAssumption DEF IInv
<1>0. /\ pc \notin {"dispatch", "done"} => admission \in Admission
      /\ Unreported => \A o \in {"success", "failure"} :
                         Reported(o) = [reports EXCEPT ![admission] = <<o>>]
  BY AtWork, FirstOutcome
<1>a. AdmissionsInOrder' BY AdmissionsKept
<1>b. \A a : a \in Admission <=> a \in Nat /\ 0 < a /\ a <= Routes * Tries
  BY TriesPerRoute DEF Admission
<1>1. CASE StartRoute BY <1>1, <1>0, <1>a, <1>b DEF StartRoute, RouteFails, Admitted, BlameFollowsContext,
       OutcomesTold, Told, Unreported, AdmissionsInOrder, StreamOwes, Types, streamVars
<1>2. CASE Acquire BY <1>2, <1>0 DEF Acquire, RouteFails, BlameFollowsContext, OutcomesTold,
       Told, Unreported, AdmissionsInOrder, StreamOwes, Types, streamVars
<1>3. CASE Call BY <1>3, <1>0 DEF Call, RouteFails, ReleaseSlots, Blamed, BlameFollowsContext,
       OutcomesTold, Told, Unreported, AdmissionsInOrder, StreamOwes, Types, streamVars
<1>4. CASE HandleError BY <1>4, <1>0 DEF HandleError, RouteFails, ReleaseSlots, CtxAfter,
       BlameFollowsContext, OutcomesTold, Told, Unreported, AdmissionsInOrder, StreamOwes,
       Types, streamVars
<1>5. CASE Retry BY <1>5, <1>0, <1>a, <1>b DEF Retry, RouteFails, ReleaseSlots, Admitted,
       BlameFollowsContext, OutcomesTold, Told, Unreported, AdmissionsInOrder, StreamOwes,
       Types, streamVars
<1>6. CASE CallSucceeds BY <1>6, <1>0 DEF CallSucceeds, ReleaseSlots, CtxAfter,
       BlameFollowsContext, OutcomesTold, Told, Unreported, AdmissionsInOrder, StreamOwes,
       Types, streamVars
<1>7. CASE CallStreams BY <1>7, <1>0 DEF CallStreams, BlameFollowsContext, OutcomesTold, Told,
       Unreported, AdmissionsInOrder, StreamOwes, Types, streamVars
<1>8. CASE CallPanics BY <1>8, <1>0 DEF CallPanics, ReleaseSlots, BlameFollowsContext,
       OutcomesTold, Told, Unreported, AdmissionsInOrder, StreamOwes, Types, streamVars
<1>9. ASSUME NEW e \in Error, CallErrs(e) PROVE BlameFollowsContext'
  BY <1>9, <1>0 DEF CallErrs, Blamed, BlameFollowsContext, OutcomesTold, Told, Unreported,
       AdmissionsInOrder, StreamOwes, Types, streamVars
<1>10. CASE ReadData BY <1>10, <1>0 DEF ReadData, BlameFollowsContext, OutcomesTold, Told,
       Unreported, AdmissionsInOrder, StreamOwes, Types, streamVars
<1>11. CASE ReaderStops BY <1>11, <1>0 DEF ReaderStops, BlameFollowsContext, OutcomesTold, Told,
       Unreported, AdmissionsInOrder, StreamOwes, Types, streamVars
<1>12. CASE CloseUnderlying BY <1>12, <1>0 DEF CloseUnderlying, BlameFollowsContext,
       OutcomesTold, Told, Unreported, AdmissionsInOrder, StreamOwes, Types, streamVars
<1>13. CASE CloseCompletes
  <2>1. CASE once BY <1>13, <2>1, <1>0 DEF CloseCompletes, Complete, ReleaseSlots, CtxAfter,
       BlameFollowsContext, OutcomesTold, Told, Unreported, AdmissionsInOrder, StreamOwes,
       Types, streamVars
  <2>2. CASE ~once BY <1>13, <2>2, <1>0 DEF CloseCompletes, Complete, ReleaseSlots, CtxAfter,
       BlameFollowsContext, OutcomesTold, Told, Unreported, AdmissionsInOrder, StreamOwes,
       Types, streamVars
  <2> QED BY <2>1, <2>2
<1>14. CASE ReadHandle
  <2>1. CASE once BY <1>14, <2>1, <1>0 DEF ReadHandle, Complete, ReleaseSlots, CtxAfter,
       BlameFollowsContext, OutcomesTold, Told, Unreported, AdmissionsInOrder, StreamOwes,
       Types, streamVars
  <2>2. CASE ~once BY <1>14, <2>2, <1>0 DEF ReadHandle, Complete, ReleaseSlots, CtxAfter,
       BlameFollowsContext, OutcomesTold, Told, Unreported, AdmissionsInOrder, StreamOwes,
       Types, streamVars
  <2> QED BY <2>1, <2>2
<1>15. ASSUME NEW e \in Error, ReadReturns(e) PROVE BlameFollowsContext'
  BY <1>15, <1>0 DEF ReadReturns, Blamed, BlameFollowsContext, OutcomesTold, Told, Unreported,
       AdmissionsInOrder, StreamOwes, Types, streamVars
<1>16. CASE WatcherCloses BY <1>16, <1>0 DEF WatcherCloses, BlameFollowsContext, OutcomesTold,
       Told, Unreported, AdmissionsInOrder, StreamOwes, Types, streamVars
<1>17. CASE WatcherCompletes
  <2>1. CASE once BY <1>17, <2>1, <1>0 DEF WatcherCompletes, Complete, ReleaseSlots, CtxAfter,
       BlameFollowsContext, OutcomesTold, Told, Unreported, AdmissionsInOrder, StreamOwes,
       Types, streamVars
  <2>2. CASE ~once BY <1>17, <2>2, <1>0 DEF WatcherCompletes, Complete, ReleaseSlots, CtxAfter,
       BlameFollowsContext, OutcomesTold, Told, Unreported, AdmissionsInOrder, StreamOwes,
       Types, streamVars
  <2> QED BY <2>1, <2>2
<1>18. CASE ClientLeaves BY <1>18, <1>0 DEF ClientLeaves, CtxAfter, Blamed, BlameFollowsContext,
       OutcomesTold, Told, Unreported, AdmissionsInOrder, StreamOwes, Types, streamVars
<1>19. CASE Deadline BY <1>19, <1>0 DEF Deadline, Blamed, BlameFollowsContext, OutcomesTold,
       Told, Unreported, AdmissionsInOrder, StreamOwes, Types, streamVars
<1>20. CASE UNCHANGED vars BY <1>20 DEF vars, BlameFollowsContext, OutcomesTold, Told, Unreported, AdmissionsInOrder, StreamOwes, Types
<1> QED BY <1>1, <1>2, <1>3, <1>4, <1>5, <1>6, <1>7, <1>8, <1>9, <1>10, <1>11, <1>12, <1>13,
           <1>14, <1>15, <1>16, <1>17, <1>18, <1>19, <1>20
       DEF Next, Handler, Provider, Reader, Watcher

-----------------------------------------------------------------------------
\* The inductive invariant holds in every reachable state.
LEMMA AlwaysIInv == Spec => []IInv
<1>1. Init => IInv
  <2> SUFFICES ASSUME Init PROVE IInv OBVIOUS
  <2> USE AttemptAssumption
  <2>1. Types
    <3>1. route \in 1 .. Routes /\ try \in 1 .. Tries BY DEF Init
    <3>2. once \in BOOLEAN /\ sawBytes \in BOOLEAN BY DEF Init
    <3> QED BY <3>1, <3>2 DEF Init, Types
  <2>2. SlotsOwed BY DEF Init, SlotsOwed, Owing, Slot
  <2>3. StreamOwes BY DEF Init, StreamOwes
  <2>4. AdmissionsInOrder BY TriesPerRoute DEF Init, AdmissionsInOrder
  <2>5. OutcomesTold BY DEF Init, OutcomesTold, Told
  <2>6. BlameFollowsContext BY DEF Init, BlameFollowsContext
  <2> QED BY <2>1, <2>2, <2>3, <2>4, <2>5, <2>6 DEF IInv
<1>2. IInv /\ [Next]_vars => IInv'
  BY TypesKept, StreamOwesKept, SlotsOwedKept, AdmissionsKept, OutcomesKept, BlameKept DEF IInv
<1> QED BY <1>1, <1>2, PTL DEF Spec

\* The outcomes told of an admission, as a set and in number.
LEMMA ToldOutcomes ==
  ASSUME IInv, NEW a \in Admission
  PROVE  /\ Outcomes(a) \subseteq {"success", "failure"}
         /\ Len(reports[a]) <= 1
         /\ "failure" \in Outcomes(a) => reports[a] = <<"failure">>
<1>1. reports[a] \in Told BY DEF IInv, OutcomesTold
<1>2. CASE reports[a] = <<>> BY <1>2 DEF Outcomes
<1>3. CASE reports[a] = <<"success">> BY <1>3 DEF Outcomes
<1>4. CASE reports[a] = <<"failure">> BY <1>4 DEF Outcomes
<1> QED BY <1>1, <1>2, <1>3, <1>4 DEF Told

\* The variables of a request keep their types: no route is tried more often than
\* Tries, and no more than one slot of a kind is taken per route (attempt.go:58-150).
THEOREM AttemptTypeCorrect == Spec => []TypeOK
<1>1. IInv => TypeOK
  <2> SUFFICES ASSUME IInv PROVE TypeOK OBVIOUS
  <2>1. /\ taken \in [Slot -> 0 .. Routes] /\ given \in [Slot -> 0 .. Routes]
    <3>1. \A s \in Slot : /\ taken[s] \in Nat /\ given[s] \in Nat
                          /\ given[s] <= taken[s] /\ taken[s] <= Routes
      BY AttemptAssumption DEF IInv, SlotsOwed, Types
    <3> QED BY <3>1, AttemptAssumption DEF IInv, SlotsOwed
  <2>2. admission \in 0 .. Routes * Tries BY AttemptAssumption DEF IInv, AdmissionsInOrder
  <2>3. \A a \in Admission : blame[a] \in {"none", "client", "fault"}
    BY DEF IInv, BlameFollowsContext
  <2> QED BY <2>1, <2>2, <2>3, ToldOutcomes DEF IInv, Types, TypeOK
<1> QED BY <1>1, AlwaysIInv, PTL

\* Slots are held while the provider may be at work: WrapAttempt's deferred release
\* and the stream's completion come after the call or the stream has ended
\* (attempt.go:76-80, 115-132, 172-219).
THEOREM AttemptSlotsCoverUpstream == Spec => []SlotsCoverUpstream
<1>1. IInv => SlotsCoverUpstream
  BY DEF IInv, Types, SlotsOwed, StreamOwes, Owing, SlotsCoverUpstream, Held
<1> QED BY <1>1, AlwaysIInv, PTL

\* Reader, Close and watcher give the slots back once between them, and a request
\* that is over has none (attempt.go:76-80, 230-236).
THEOREM AttemptSlotsGivenBackOnce == Spec => []SlotsGivenBackOnce
<1>1. IInv => SlotsGivenBackOnce
  BY DEF IInv, Types, SlotsOwed, StreamOwes, Owing, SlotsGivenBackOnce, Held
<1> QED BY <1>1, AlwaysIInv, PTL

\* The breaker hears of an admitted call at most once, in whatever order the stream's
\* ends are reached (attempt.go:137-149, 230-236).
THEOREM AttemptOneOutcome == Spec => []OneOutcomePerAdmission
<1>1. IInv => OneOutcomePerAdmission BY ToldOutcomes DEF OneOutcomePerAdmission
<1> QED BY <1>1, AlwaysIInv, PTL

\* A call that the client ended first is never reported as a failure of the route
\* (attempt.go:176-206, 816-828).
THEOREM AttemptClientIsNotAFailure == Spec => []ClientIsNotAFailure
<1>1. IInv => ClientIsNotAFailure
  BY ToldOutcomes DEF ClientIsNotAFailure, IInv, BlameFollowsContext
<1> QED BY <1>1, AlwaysIInv, PTL
-----------------------------------------------------------------------------
(* The call inside an attempt: module ProviderCall.                        *)

\* Where the call stands decides who holds the response's body, whether the request left,
\* and that the ledger's entry is still open while the answer is not in.
CallStands ==
  /\ callPc = "start" => ~callSent
  /\ callPc \in {"start", "sent"} => body = "none" /\ status = "none" /\ ~reported
  /\ callPc \in {"sent", "response", "body", "prefetch", "streaming"} => callSent
  /\ callPc \in {"response", "prefetch", "streaming"} <=> body = "open"
  /\ callPc \in {"body", "prefetch", "streaming"} => status = "ok"
  /\ callPc = "response" => status # "none" /\ ~reported
  /\ callPc \notin {"streaming", "done"} => entry = "open"
  /\ callPc # "done" => reserve = "held" /\ callErr = NoError
  /\ callPc = "streaming" => entry \in {"open", "final", "partial"}

CallInv == LedgerIsTrue /\ CallStands

\* Every error the call returns is a disposition, and one that blames the route or is worth a
\* retry allows another route.
LEMMA CallErrorsAllowFallback ==
  /\ \A d \in {NoError, Outage, BadAnswer, Elsewhere, Refused, CtxError} :
       d \in Dispositions /\ (d.retry \/ d.circuit => d.fallback)
  /\ \A s : /\ UpstreamDisposition(s) \in Dispositions
            /\ LET d == UpstreamDisposition(s) IN d.retry \/ d.circuit => d.fallback
BY DEF NoError, Outage, BadAnswer, Elsewhere, Refused, CtxError,
       UpstreamDisposition, Dispositions, Disposition

\* The error path of the handler: what it says of the entry, the reserve and the error.
LEMMA CallFailEnds ==
  ASSUME NEW d \in Dispositions, d.retry \/ d.circuit => d.fallback,
         NEW bill \in {"free", "usage", "unknown"}, entry = "open", Fail(d, bill)
  PROVE  /\ callPc' = "done"
         /\ entry' = IF bill = "free" THEN "cancelled" ELSE "final"
         /\ reserve' \in {"held", "released", "reconciled"}
         /\ reserve' = "released" <=> bill = "free"
         /\ reserve' = "reconciled" => bill = "usage"
         /\ callErr' \in Dispositions /\ (callErr'.retry \/ callErr'.circuit => callErr'.fallback)
<1>1. Refused \in Dispositions /\ ~Refused.retry /\ ~Refused.circuit
  BY DEF Refused, Dispositions, Disposition
<1>2. callPc' = "done" /\ entry' = IF bill = "free" THEN "cancelled" ELSE "final"
  BY DEF Fail, CompleteEntry
<1>3. CASE bill = "free" BY <1>2, <1>3 DEF Fail
<1>4. CASE bill = "usage" BY <1>1, <1>2, <1>4 DEF Fail, Reconcile
<1>5. CASE bill = "unknown" BY <1>2, <1>5 DEF Fail
<1> QED BY <1>3, <1>4, <1>5

\* A call that has not begun satisfies the invariant.
LEMMA CallInvHolds ==
  ASSUME ProviderCallAssumption, CallInit
  PROVE  CallInv
<1>1. callErr \in Dispositions /\ (callErr.retry \/ callErr.circuit => callErr.fallback)
  BY CallErrorsAllowFallback DEF CallInit
<1>2. FaultsAllowFallback BY <1>1 DEF FaultsAllowFallback
<1>3. CallTypeOK
  <2>1. empties \in 0 .. EmptyReads BY DEF CallInit, ProviderCallAssumption
  <2>2. stream \in BOOLEAN /\ callSent \in BOOLEAN /\ reported \in BOOLEAN BY DEF CallInit
  <2>3. status \in Failing \cup {"none", "ok"} BY DEF CallInit
  <2> QED BY <1>1, <2>1, <2>2, <2>3 DEF CallInit, CallTypeOK
<1>4. BodyIsClosed /\ FreeOnlyIfUnbilled /\ ReserveFollowsLedger
  BY DEF CallInit, BodyIsClosed, FreeOnlyIfUnbilled, ReserveFollowsLedger
<1>5. CallStands BY DEF CallInit, CallStands
<1> QED BY <1>2, <1>3, <1>4, <1>5 DEF CallInv, LedgerIsTrue

\* Every step of a call keeps the invariant, and leaves an entry that is not open as it is.
LEMMA CallStepKeeps ==
  ASSUME ProviderCallAssumption, CallInv, [CallNext]_callVars
  PROVE  CallInv' /\ KeepsCharge
<1> USE ProviderCallAssumption DEF ProviderCallAssumption
<1> USE DEF CallInv, CallStands, LedgerIsTrue, CallTypeOK, BodyIsClosed,
            FreeOnlyIfUnbilled, ReserveFollowsLedger, FaultsAllowFallback, KeepsCharge
<1>a. /\ NoError \in Dispositions
      /\ \A d \in {Outage, BadAnswer, Elsewhere, Refused, CtxError} :
           d \in Dispositions /\ (d.retry \/ d.circuit => d.fallback)
  BY CallErrorsAllowFallback
<1>b. ASSUME NEW d \in Dispositions, d.retry \/ d.circuit => d.fallback, Reconcile(d)
      PROVE  /\ reserve' \in {"held", "reconciled"} /\ callErr' \in Dispositions
             /\ callErr'.retry \/ callErr'.circuit => callErr'.fallback
  BY <1>a, <1>b DEF Reconcile
<1>1. ASSUME NEW d \in {Refused, Elsewhere, Outage}, PrepareFails(d)
      PROVE  CallInv' /\ KeepsCharge
  <2>1. Fail(d, "free") /\ callPc = "start" BY <1>1 DEF PrepareFails
  <2> QED BY <1>a, <1>1, <2>1, CallFailEnds DEF PrepareFails
<1>2. CASE Send
  <2>1. CASE callCtx # "live"
    <3>1. Fail(CtxError, "free") /\ callPc = "start" BY <1>2, <2>1 DEF Send
    <3> QED BY <1>a, <1>2, <2>1, <3>1, CallFailEnds DEF Send
  <2>2. CASE callCtx = "live" BY <1>2, <2>2 DEF Send
  <2> QED BY <2>1, <2>2
<1>3. CASE DoFails
  <2>1. Fail(CtxError, "unknown") /\ callPc = "sent" BY <1>3 DEF DoFails
  <2> QED BY <1>a, <1>3, <2>1, CallFailEnds DEF DoFails
<1>4. ASSUME NEW s \in Failing \cup {"ok"}, DoReturns(s)
      PROVE  CallInv' /\ KeepsCharge
  BY <1>4 DEF DoReturns, Failing
<1>5. ASSUME NEW read \in Reads, NEW rep \in BOOLEAN, ErrorStatus(read, rep)
      PROVE  CallInv' /\ KeepsCharge
  <2>1. PICK d \in Dispositions, bill \in {"free", "usage", "unknown"} :
          /\ d.retry \/ d.circuit => d.fallback
          /\ Fail(d, bill)
          /\ bill = "free" => status \notin {"server", "beyond"} /\ ~(rep /\ read = "ok")
    BY <1>a, <1>5, CallErrorsAllowFallback DEF ErrorStatus, UpstreamBill
  <2> QED BY <1>5, <2>1, CallFailEnds DEF ErrorStatus, Failing
<1>6. ASSUME NEW read \in Reads, NEW rep \in BOOLEAN, ReadBody(read, rep)
      PROVE  CallInv' /\ KeepsCharge
  <2>1. CASE read = "ok" BY <1>6, <2>1 DEF ReadBody
  <2>2. CASE read # "ok"
    <3>1. PICK d \in Dispositions :
            (d.retry \/ d.circuit => d.fallback) /\ Fail(d, "unknown")
      BY <1>a, <1>6, <2>2 DEF ReadBody
    <3> QED BY <1>6, <3>1, CallFailEnds DEF ReadBody
  <2> QED BY <2>1, <2>2
<1>7. ASSUME NEW d \in {BadAnswer, Elsewhere}, StreamRefused(d)
      PROVE  CallInv' /\ KeepsCharge
  <2>1. Fail(d, "unknown") BY <1>7 DEF StreamRefused
  <2> QED BY <1>a, <1>7, <2>1, CallFailEnds DEF StreamRefused, CloseBody
<1>8. CASE StreamAccepted BY <1>8 DEF StreamAccepted
<1>9. ASSUME NEW how \in {"invalid", "untranslated", "tooLarge"}, BodyRefused(how)
      PROVE  CallInv' /\ KeepsCharge
  <2>1. PICK d \in Dispositions, bill \in {"usage", "unknown"} :
          (d.retry \/ d.circuit => d.fallback) /\ Fail(d, bill)
    BY <1>a, <1>9 DEF BodyRefused
  <2> QED BY <1>9, <2>1, CallFailEnds DEF BodyRefused
<1>10. ASSUME NEW empty \in BOOLEAN, BodyAccepted(empty)
       PROVE  CallInv' /\ KeepsCharge
  <2>1. CASE empty
    <3>1. Fail(BadAnswer, "usage") BY <1>10, <2>1 DEF BodyAccepted
    <3> QED BY <1>a, <1>10, <3>1, CallFailEnds DEF BodyAccepted
  <2>2. CASE ~empty BY <1>10, <2>2 DEF BodyAccepted, CompleteEntry
  <2> QED BY <2>1, <2>2
<1>11. ASSUME NEW how \in {"nil", "eof", "error"}, PrefetchData(how)
       PROVE  CallInv' /\ KeepsCharge
  <2>1. CASE how = "error"
    <3>1. PICK d \in Dispositions :
            (d.retry \/ d.circuit => d.fallback) /\ PrefetchFails(d)
      BY <1>a, <1>11, <2>1 DEF PrefetchData
    <3>2. callPc' = "done" /\ body' = "closed" /\ Reconcile(d) BY <3>1 DEF PrefetchFails
    <3>3. entry' = "partial" BY <1>11, <2>1 DEF PrefetchData, FinishOnRead, CompleteEntry
    <3> QED BY <1>11, <3>1, <3>2, <3>3, <1>b DEF PrefetchData
  <2>2. CASE how # "error"
    BY <1>11, <2>2 DEF PrefetchData, FinishOnRead, CompleteEntry
  <2> QED BY <2>1, <2>2
<1>12. ASSUME NEW how \in {"nil", "eof", "error"}, StreamReads(how)
       PROVE  CallInv' /\ KeepsCharge
  BY <1>12 DEF StreamReads, FinishOnRead, CompleteEntry
<1>13. ASSUME NEW how \in {"eof", "error"}, PrefetchEnds(how)
       PROVE  CallInv' /\ KeepsCharge
  <2>1. PICK d \in Dispositions :
          (d.retry \/ d.circuit => d.fallback) /\ PrefetchFails(d)
    BY <1>a, <1>13 DEF PrefetchEnds
  <2>2. callPc' = "done" /\ body' = "closed" /\ Reconcile(d) BY <2>1 DEF PrefetchFails
  <2>3. entry' \in {"final", "partial"}
    BY <1>13 DEF PrefetchEnds, FinishOnRead, CompleteEntry
  <2> QED BY <1>13, <2>1, <2>2, <2>3, <1>b DEF PrefetchEnds
<1>14. CASE PrefetchEmpty
  <2>1. CASE callCtx # "live" \/ empties' = EmptyReads
    <3>1. PICK d \in Dispositions :
            (d.retry \/ d.circuit => d.fallback) /\ PrefetchFails(d)
      BY <1>a, <1>14, <2>1 DEF PrefetchEmpty
    <3>2. callPc' = "done" /\ body' = "closed" /\ Reconcile(d) BY <3>1 DEF PrefetchFails
    <3>3. entry' = "partial" BY <1>14, <2>1 DEF PrefetchEmpty, FinishOnClose, CompleteEntry
    <3> QED BY <1>14, <3>1, <3>2, <3>3, <1>b DEF PrefetchEmpty
  <2>2. CASE ~(callCtx # "live" \/ empties' = EmptyReads)
    BY <1>14, <2>2 DEF PrefetchEmpty
  <2> QED BY <2>1, <2>2
<1>15. CASE StreamCloses BY <1>15 DEF StreamCloses, FinishOnClose, CompleteEntry
<1>16. ASSUME NEW cause \in {"cancelled", "expired"}, ContextEnds(cause)
       PROVE  CallInv' /\ KeepsCharge
  BY <1>16 DEF ContextEnds
<1>17. CASE UNCHANGED callVars BY <1>17 DEF callVars
<1> QED BY <1>1, <1>2, <1>3, <1>4, <1>5, <1>6, <1>7, <1>8, <1>9, <1>10, <1>11, <1>12, <1>13, <1>14,
           <1>15, <1>16, <1>17 DEF CallNext

\* For every bound on the empty reads, the ledger tells the truth about a call: it is free only
\* when it never left or was refused without usage, its reserve is released exactly then, its
\* body is closed when it is over, and a fault of the route lets another route be tried
\* (Provider.Invoke, WithoutAttemptCharge, upstreamAttemptError, prefetchStream).

THEOREM LedgerOfEveryCallIsTrue ==
  ASSUME ProviderCallAssumption
  PROVE  CallSpec => []LedgerIsTrue
<1>1. CallInit => CallInv BY CallInvHolds
<1>2. CallInv /\ [CallNext]_callVars => CallInv' BY CallStepKeeps
<1>3. CallInv => LedgerIsTrue BY DEF CallInv
<1> QED BY <1>1, <1>2, <1>3, PTL DEF CallSpec

\* What the ledger says of a call is said once: a later end of its stream does not overwrite it
\* (AttemptUsageAccumulator.complete).

THEOREM CallChargedOnce ==
  ASSUME ProviderCallAssumption
  PROVE  CallSpec => ChargedOnce
<1>1. CallInit => CallInv BY CallInvHolds
<1>2. CallInv /\ [CallNext]_callVars => CallInv' /\ [KeepsCharge]_callVars BY CallStepKeeps
<1> QED BY <1>1, <1>2, PTL DEF CallSpec, ChargedOnce
=============================================================================
