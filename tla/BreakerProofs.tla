---------------------------- MODULE BreakerProofs ----------------------------
(***************************************************************************)
(* For every number of routes and concurrent calls, every threshold,       *)
(* cooldown and idle period: the local breaker orders evidence by          *)
(* admission.                                                              *)
(*                                                                         *)
(* The code compares admission times; the properties speak of the order    *)
(* of admissions.  The core of the inductive invariant (LiveCall) says     *)
(* that for a call still in flight the two comparisons agree.  It rests on *)
(* retainUntil: evidence is never forgotten under a call in flight.        *)
(***************************************************************************)
EXTENDS Breaker, FiniteSetTheorems, TLAPS

\* What holds of a call in flight.
LiveCall(c) ==
  LET r == call[c].route
      s == states[r]
  IN /\ call[c].seq \in 1 .. admissions
     /\ call[c].seq \notin failed[r]
     /\ 0 < call[c].startedAt /\ call[c].startedAt <= s.lastAdmission
     /\ clock < s.retainUntil
     /\ clock < call[c].at + StateTTL /\ call[c].at + StateTTL <= s.retainUntil
     /\ call[c].startedAt > s.lastSuccess <=> call[c].seq > curedBy[r]
     /\ call[c].seq > newestFail[r] => call[c].startedAt > s.lastFailure
     /\ newestFail[r] > curedBy[r] /\ call[c].startedAt > s.lastFailure
          => call[c].seq > newestFail[r]

LiveCalls == \A c \in Call : call[c].live => LiveCall(c)

\* Admission times are ordered as the admissions were.
TimesFollowOrder ==
  \A c, d \in Call :
    /\ call[c].live /\ call[d].live /\ c # d => call[c].seq # call[d].seq
    /\ call[c].live /\ call[d].live /\ call[c].route = call[d].route =>
         (call[c].seq < call[d].seq <=> call[c].startedAt < call[d].startedAt)

\* What holds of a route.
RouteOK(r) ==
  LET s == states[r]
  IN /\ s.lastFailure <= s.lastAdmission /\ s.lastSuccess <= s.lastAdmission
     /\ newestFail[r] <= admissions /\ newestOK[r] <= admissions /\ curedBy[r] <= admissions
     /\ newestFail[r] <= curedBy[r] => s.failures = 0 /\ s.openUntil = 0
     /\ newestOK[r] > newestFail[r] => curedBy[r] >= newestOK[r]

RoutesOK == \A r \in Route : RouteOK(r)

IInv ==
  /\ TypeOK
  /\ clock > 0
  /\ LiveCalls
  /\ TimesFollowOrder
  /\ RoutesOK
  /\ OpensOnEvidence

-----------------------------------------------------------------------------
\* The invariant holds of a new breaker (attempt.go:594-596).
LEMMA InitIInv == Init => IInv
<1> SUFFICES ASSUME Init PROVE IInv OBVIOUS
<1> USE BreakerAssumption
<1>1. PICK q \in Route :
        call = [c \in Call |-> [live |-> FALSE, route |-> q, startedAt |-> 0, at |-> 0, seq |-> 0]]
  BY DEF Init
<1>2. TypeOK BY <1>1 DEF Init, TypeOK, Zero, BreakerState, CallState
<1>3. LiveCalls /\ TimesFollowOrder BY <1>1 DEF LiveCalls, TimesFollowOrder
<1>4. ASSUME NEW r \in Route PROVE RouteOK(r)
  <2>1. /\ states[r] = Zero /\ admissions = 0
        /\ newestFail[r] = 0 /\ newestOK[r] = 0 /\ curedBy[r] = 0
    BY DEF Init
  <2> QED BY <2>1 DEF RouteOK, Zero
<1>5. OpensOnEvidence
  <2>1. \A r \in Route : Uncured(r) = {} BY DEF Init, Uncured
  <2>2. \A r \in Route : states[r].failures = 0 /\ states[r].openUntil = 0
    BY DEF Init, Zero
  <2>3. Cardinality({}) = 0 BY FS_EmptySet
  <2> QED BY <2>1, <2>2, <2>3 DEF OpensOnEvidence
<1> QED BY <1>2, <1>3, <1>4, <1>5 DEF IInv, Init, RoutesOK

\* The failures not cured yet are finitely many, and a new one adds one.
LEMMA CountUncured ==
  ASSUME TypeOK, NEW r \in Route
  PROVE  /\ IsFiniteSet(Uncured(r))
         /\ Cardinality(Uncured(r)) \in Nat
         /\ \A n : n \notin Uncured(r) =>
              Cardinality(Uncured(r) \cup {n}) = Cardinality(Uncured(r)) + 1
<1>1. IsFiniteSet(1 .. admissions) BY FS_Interval DEF TypeOK
<1>2. Uncured(r) \subseteq 1 .. admissions BY DEF TypeOK, Uncured
<1>3. IsFiniteSet(Uncured(r)) BY <1>1, <1>2, FS_Subset
<1> QED BY <1>3, FS_CardinalityType, FS_AddElement

\* A prune forgets a route or leaves it as it is, and never forgets one with
\* a call in flight.
LEMMA PruneKeepsEvidence ==
  ASSUME IInv, NEW r \in Route
  PROVE  /\ Pruned[r] \in BreakerState
         /\ Pruned[r] = states[r] \/ Pruned[r] = Zero
         /\ (\E c \in Call : call[c].live /\ call[c].route = r) => Pruned[r] = states[r]
         /\ IsOpen(r) => Pruned[r] = states[r]
<1>1. Zero \in BreakerState BY DEF Zero, BreakerState
<1>2. states[r] \in BreakerState BY DEF IInv, TypeOK
<1>3. Pruned[r] = states[r] \/ Pruned[r] = Zero BY DEF Pruned
<1>4. ASSUME NEW c \in Call, call[c].live, call[c].route = r
      PROVE  Pruned[r] = states[r]
  <2>1. clock < states[r].retainUntil BY <1>4 DEF IInv, LiveCalls, LiveCall
  <2>2. ~Forgettable(states[r]) BY <2>1, <1>2 DEF Forgettable, BreakerState, IInv, TypeOK
  <2> QED BY <2>2 DEF Pruned
<1>5. IsOpen(r) => Pruned[r] = states[r] BY DEF IsOpen, Pruned, Forgettable
<1> QED BY <1>1, <1>2, <1>3, <1>4, <1>5

\* AllowAttempt hands out ever later times.
LEMMA AdmissionIsLater ==
  ASSUME IInv, NEW r \in Route
  PROVE  /\ StartedAt(states[r]) \in Nat
         /\ StartedAt(states[r]) > states[r].lastAdmission
         /\ StartedAt(states[r]) > 0
BY DEF IInv, TypeOK, BreakerState, StartedAt

\* AllowAttempt keeps it (attempt.go:623-647).
LEMMA AllowIInv ==
  ASSUME IInv, NEW c \in Call, NEW r \in Route, AllowAttempt(c, r)
  PROVE  IInv'
<1> USE BreakerAssumption
<1> DEFINE sa == StartedAt(states[r])
           ru == Max2(states[r].retainUntil, clock + StateTTL)
<1>1. sa \in Nat /\ sa > states[r].lastAdmission /\ sa > 0 BY AdmissionIsLater
<1>2. /\ states[r] \in BreakerState /\ clock \in Nat /\ admissions \in Nat
      /\ states \in [Route -> BreakerState] /\ call \in [Call -> CallState]
  BY DEF IInv, TypeOK
<1>3. ru \in Nat /\ ru >= states[r].retainUntil /\ ru >= clock + StateTTL
  BY <1>2 DEF Max2, BreakerState
<1> HIDE DEF sa, ru
<1>4. /\ states' = [states EXCEPT ![r] =
               [states[r] EXCEPT !.lastAdmission = sa, !.retainUntil = ru]]
      /\ admissions' = admissions + 1
      /\ call' = [call EXCEPT ![c] = [live |-> TRUE, route |-> r, startedAt |-> sa,
                                     at |-> clock, seq |-> admissions + 1]]
      /\ UNCHANGED <<operations, clock, failed, newestFail, newestOK, curedBy>>
      /\ ~call[c].live
  BY DEF AllowAttempt, sa, ru, history
<1>5. /\ states'[r].lastAdmission = sa /\ states'[r].retainUntil = ru
      /\ states'[r].lastFailure = states[r].lastFailure
      /\ states'[r].lastSuccess = states[r].lastSuccess
      /\ states'[r].failures = states[r].failures
      /\ states'[r].openUntil = states[r].openUntil
      /\ \A q \in Route \ {r} : states'[q] = states[q]
  BY <1>2, <1>4 DEF BreakerState
<1>6. /\ call'[c].live /\ call'[c].route = r /\ call'[c].startedAt = sa
      /\ call'[c].at = clock /\ call'[c].seq = admissions + 1
      /\ \A d \in Call \ {c} : call'[d] = call[d]
  BY <1>2, <1>4
<1>7. TypeOK'
  <2>1. states' \in [Route -> BreakerState] BY <1>1, <1>2, <1>3, <1>4 DEF BreakerState
  <2>2. call' \in [Call -> CallState] BY <1>1, <1>2, <1>4 DEF CallState
  <2>3. failed' \in [Route -> SUBSET (1 .. admissions')]
    <3>1. 1 .. admissions \subseteq 1 .. (admissions + 1) BY <1>2
    <3> QED BY <1>4, <3>1 DEF IInv, TypeOK
  <2> QED BY <1>2, <1>4, <2>1, <2>2, <2>3 DEF IInv, TypeOK
<1>8. LiveCalls'
  <2> SUFFICES ASSUME NEW d \in Call, call'[d].live PROVE LiveCall(d)'
    BY DEF LiveCalls
  <2>0. newestFail[r] \in Nat /\ curedBy[r] \in Nat BY DEF IInv, TypeOK
  <2>1. CASE d = c
    <3>1. RouteOK(r) BY DEF IInv, RoutesOK
    <3>2. admissions + 1 \notin failed[r]
      <4>1. failed[r] \subseteq 1 .. admissions BY DEF IInv, TypeOK
      <4> QED BY <4>1, <1>2
    <3> QED BY <1>1, <1>2, <1>3, <1>4, <1>5, <1>6, <2>0, <2>1, <3>1, <3>2
            DEF LiveCall, RouteOK, BreakerState
  <2>2. CASE d # c
    <3>1. call'[d] = call[d] /\ LiveCall(d) /\ call[d] \in CallState
      BY <1>2, <1>6, <2>2 DEF IInv, LiveCalls
    <3>2. CASE call[d].route = r
      BY <1>1, <1>2, <1>3, <1>4, <1>5, <3>1, <3>2 DEF LiveCall, BreakerState, CallState
    <3>3. CASE call[d].route # r
      BY <1>2, <1>4, <1>5, <3>1, <3>3 DEF LiveCall, BreakerState, CallState
    <3> QED BY <3>2, <3>3
  <2> QED BY <2>1, <2>2
<1>9. TimesFollowOrder'
  <2>1. \A d \in Call \ {c} : call[d].live =>
          /\ call[d].seq \in 1 .. admissions
          /\ call[d].startedAt \in Nat
          /\ call[d].route = r => call[d].startedAt < sa
    BY <1>1, <1>2 DEF IInv, LiveCalls, LiveCall, CallState, BreakerState
  <2>2. \A d \in Call : call[d].seq \in Nat /\ call[d].startedAt \in Nat
    BY <1>2 DEF CallState
  <2> SUFFICES ASSUME NEW d \in Call, NEW e \in Call, call'[d].live, call'[e].live
               PROVE  /\ d # e => call'[d].seq # call'[e].seq
                      /\ call'[d].route = call'[e].route =>
                           (call'[d].seq < call'[e].seq <=> call'[d].startedAt < call'[e].startedAt)
    BY DEF TimesFollowOrder
  <2>3. CASE d = c /\ e = c BY <1>1, <1>2, <1>6, <2>3
  <2>4. CASE d = c /\ e # c BY <1>1, <1>2, <1>6, <2>1, <2>4
  <2>5. CASE d # c /\ e = c BY <1>1, <1>2, <1>6, <2>1, <2>5
  <2>6. CASE d # c /\ e # c BY <1>6, <2>6 DEF IInv, TimesFollowOrder
  <2> QED BY <2>3, <2>4, <2>5, <2>6
<1>10. RoutesOK'
  <2> SUFFICES ASSUME NEW q \in Route PROVE RouteOK(q)' BY DEF RoutesOK
  <2>1. RouteOK(q) /\ states[q] \in BreakerState BY <1>2 DEF IInv, RoutesOK
  <2>2. newestFail[q] \in Nat /\ newestOK[q] \in Nat /\ curedBy[q] \in Nat
    BY DEF IInv, TypeOK
  <2>3. CASE q = r BY <1>1, <1>2, <1>4, <1>5, <2>1, <2>2, <2>3 DEF RouteOK, BreakerState
  <2>4. CASE q # r BY <1>2, <1>4, <1>5, <2>1, <2>2, <2>4 DEF RouteOK, BreakerState
  <2> QED BY <2>3, <2>4
<1>11. OpensOnEvidence'
  <2>1. \A q \in Route : Uncured(q)' = Uncured(q) BY <1>4 DEF Uncured
  <2>2. \A q \in Route : /\ states'[q].failures = states[q].failures
                         /\ states'[q].openUntil = states[q].openUntil
    BY <1>5
  <2> QED BY <2>1, <2>2 DEF IInv, OpensOnEvidence
<1> QED BY <1>4, <1>7, <1>8, <1>9, <1>10, <1>11 DEF IInv

\* A report ends its call; the others are as they were, and so is their order.
LEMMA OverKeepsOrder ==
  ASSUME IInv, NEW c \in Call, Over(c)
  PROVE  /\ call' \in [Call -> CallState]
         /\ ~call'[c].live
         /\ \A d \in Call \ {c} : call'[d] = call[d]
         /\ TimesFollowOrder'
<1>1. call \in [Call -> CallState] BY DEF IInv, TypeOK
<1>2. /\ call' \in [Call -> CallState]
      /\ ~call'[c].live
      /\ \A d \in Call \ {c} : call'[d] = call[d]
  BY <1>1 DEF Over, CallState
<1> QED BY <1>2 DEF IInv, TimesFollowOrder

\* On a route that is not the reporting call's, at most a prune happened.
LEMMA ReportElsewhere ==
  ASSUME IInv, NEW r \in Route, NEW q \in Route, q # r,
         states'[q] = Pruned[q], clock' = clock, admissions' = admissions,
         failed'[q] = failed[q], newestFail'[q] = newestFail[q],
         newestOK'[q] = newestOK[q], curedBy'[q] = curedBy[q]
  PROVE  /\ RouteOK(q)'
         /\ \A d \in Call : call[d].live /\ call[d].route = q /\ call'[d] = call[d] => LiveCall(d)'
         /\ states'[q].failures <= Cardinality(Uncured(q)')
         /\ states'[q].openUntil # 0 => Threshold <= Cardinality(Uncured(q)')
<1>0. /\ newestFail[q] \in Nat /\ newestOK[q] \in Nat /\ curedBy[q] \in Nat
      /\ admissions \in Nat /\ states[q] \in BreakerState
  BY DEF IInv, TypeOK
<1>1. RouteOK(q) BY DEF IInv, RoutesOK
<1>2. Uncured(q)' = Uncured(q) BY DEF Uncured
<1>3. Cardinality(Uncured(q)) \in Nat BY CountUncured DEF IInv
<1>4. /\ states[q].failures <= Cardinality(Uncured(q))
      /\ states[q].openUntil # 0 => Threshold <= Cardinality(Uncured(q))
  BY DEF IInv, OpensOnEvidence
<1>5. CASE states'[q] = states[q]
  <2>1. RouteOK(q)' BY <1>1, <1>5 DEF RouteOK
  <2>2. \A d \in Call : call[d].live /\ call[d].route = q /\ call'[d] = call[d] => LiveCall(d)'
    BY <1>5 DEF IInv, LiveCalls, LiveCall
  <2> QED BY <1>2, <1>4, <1>5, <2>1, <2>2
<1>6. CASE states'[q] # states[q]
  <2>1. states'[q] = Zero /\ \A d \in Call : ~(call[d].live /\ call[d].route = q)
    BY <1>6, PruneKeepsEvidence
  <2>2. RouteOK(q)' BY <1>0, <1>1, <2>1 DEF RouteOK, Zero
  <2> QED BY <1>2, <1>3, <2>1, <2>2 DEF Zero
<1> QED BY <1>5, <1>6

\* What FailAttempt does to a route's state.
LEMMA FailingFacts ==
  ASSUME NEW s \in BreakerState, NEW a \in Nat, a > 0, clock \in Nat,
         NEW t, t = Failing(s, a)
  PROVE  /\ t \in BreakerState
         /\ t.lastAdmission = s.lastAdmission /\ t.retainUntil = s.retainUntil
         /\ t.lastSuccess = s.lastSuccess
         /\ ~(a > s.lastSuccess) => t = s
         /\ a > s.lastSuccess =>
              /\ t.lastFailure = Max2(a, s.lastFailure)
              /\ \/ t.failures = s.failures /\ t.openUntil = s.openUntil
                 \/ t.failures = s.failures + 1 /\ t.openUntil = s.openUntil
                 \/ t.failures = 0 /\ s.failures + 1 >= Threshold
<1> USE BreakerAssumption
<1> DEFINE m == Max2(a, s.lastFailure)
<1>1. m \in Nat BY DEF Max2, BreakerState
<1>2. CASE ~(a > s.lastSuccess) BY <1>2 DEF Failing, BreakerState
<1>3. CASE a > s.lastSuccess
  <2>1. ~(s.lastSuccess # 0 /\ ~(a > s.lastSuccess)) BY <1>3
  <2>2. CASE s.openUntil > clock
    <3>1. t = [s EXCEPT !.lastFailure = m] BY <2>1, <2>2 DEF Failing
    <3> HIDE DEF m
    <3> QED BY <1>1, <1>3, <3>1 DEF BreakerState, m
  <2>3. CASE ~(s.openUntil > clock) /\ s.failures + 1 >= Threshold
    <3> DEFINE u == [s EXCEPT !.lastFailure = m]
               v == [u EXCEPT !.openUntil = clock + Cooldown]
    <3>1. t = [v EXCEPT !.failures = 0] BY <2>1, <2>3 DEF Failing
    <3>2. clock + Cooldown \in Nat OBVIOUS
    <3> HIDE DEF m
    <3>3. /\ u \in BreakerState
          /\ u.lastAdmission = s.lastAdmission /\ u.retainUntil = s.retainUntil
          /\ u.lastSuccess = s.lastSuccess /\ u.lastFailure = m
      BY <1>1 DEF BreakerState
    <3> HIDE DEF u
    <3>4. /\ v \in BreakerState
          /\ v.lastAdmission = s.lastAdmission /\ v.retainUntil = s.retainUntil
          /\ v.lastSuccess = s.lastSuccess /\ v.lastFailure = m
      BY <3>2, <3>3 DEF BreakerState
    <3> HIDE DEF v
    <3>5. /\ t \in BreakerState
          /\ t.lastAdmission = s.lastAdmission /\ t.retainUntil = s.retainUntil
          /\ t.lastSuccess = s.lastSuccess /\ t.lastFailure = m /\ t.failures = 0
      BY <3>1, <3>4 DEF BreakerState
    <3> QED BY <1>3, <2>3, <3>5 DEF m
  <2>4. CASE ~(s.openUntil > clock) /\ ~(s.failures + 1 >= Threshold)
    <3>1. t = [[s EXCEPT !.lastFailure = m] EXCEPT !.failures = s.failures + 1]
      BY <2>1, <2>4 DEF Failing
    <3>2. s.failures + 1 \in Nat BY DEF BreakerState
    <3> HIDE DEF m
    <3>3. /\ t \in BreakerState
          /\ t.lastAdmission = s.lastAdmission /\ t.retainUntil = s.retainUntil
          /\ t.lastSuccess = s.lastSuccess /\ t.lastFailure = m
          /\ t.failures = s.failures + 1 /\ t.openUntil = s.openUntil
      BY <1>1, <3>1, <3>2 DEF BreakerState
    <3> QED BY <1>3, <2>4, <3>3 DEF m
  <2> QED BY <2>2, <2>3, <2>4
<1> QED BY <1>2, <1>3

\* FailAttempt keeps it, whenever the failure is reported (attempt.go:654-692).
LEMMA FailIInv ==
  ASSUME IInv, NEW c \in Call, FailAttempt(c)
  PROVE  IInv'
<1> USE BreakerAssumption
<1>0. PICK r \in Route, a \in Nat, n \in Nat :
        r = call[c].route /\ a = call[c].startedAt /\ n = call[c].seq
  BY DEF FailAttempt, IInv, TypeOK, CallState
<1> DEFINE s == states[r]
           t == states'[r]
           stale == ~(a > s.lastSuccess)
<1>1. /\ call[c] \in CallState /\ call[c].live /\ LiveCall(c)
      /\ s \in BreakerState /\ clock \in Nat /\ admissions \in Nat
      /\ newestFail[r] \in Nat /\ newestOK[r] \in Nat /\ curedBy[r] \in Nat
  BY DEF FailAttempt, IInv, TypeOK, CallState, LiveCalls
<1>2. Pruned[r] = s BY <1>0, <1>1, PruneKeepsEvidence
<1>3. /\ states' = [Pruned EXCEPT ![r] = Failing(s, a)]
      /\ t = Failing(s, a)
      /\ \A q \in Route \ {r} : states'[q] = Pruned[q]
  BY <1>0, <1>1, <1>2 DEF FailAttempt, Pruned
<1>4. /\ failed' = [failed EXCEPT ![r] = @ \cup {n}]
      /\ newestFail' = [newestFail EXCEPT ![r] = Max2(n, @)]
      /\ Over(c)
      /\ UNCHANGED <<clock, admissions, newestOK, curedBy>>
      /\ operations' = (operations + 1) % PruneEvery
  BY <1>0 DEF FailAttempt
<1>5. /\ failed'[r] = failed[r] \cup {n} /\ newestFail'[r] = Max2(n, newestFail[r])
      /\ newestFail'[r] \in Nat /\ newestFail'[r] >= n /\ newestFail'[r] >= newestFail[r]
      /\ newestFail'[r] = n \/ newestFail'[r] = newestFail[r]
  BY <1>1, <1>4 DEF IInv, TypeOK, Max2
<1>6. /\ t \in BreakerState
      /\ t.lastAdmission = s.lastAdmission /\ t.retainUntil = s.retainUntil
      /\ t.lastSuccess = s.lastSuccess
      /\ stale => t = s
      /\ ~stale => /\ t.lastFailure = Max2(a, s.lastFailure)
                   /\ \/ t.failures = s.failures /\ t.openUntil = s.openUntil
                      \/ t.failures = s.failures + 1 /\ t.openUntil = s.openUntil
                      \/ t.failures = 0 /\ s.failures + 1 >= Threshold
  <2>1. a > 0 BY <1>0, <1>1 DEF LiveCall
  <2> HIDE DEF s, t
  <2> QED BY <1>1, <1>3, <2>1, FailingFacts DEF stale
<1>7. /\ call' \in [Call -> CallState] /\ ~call'[c].live /\ TimesFollowOrder'
      /\ \A d \in Call \ {c} : call'[d] = call[d]
  BY <1>4, OverKeepsOrder
<1>8. \A q \in Route \ {r} :
        /\ failed'[q] = failed[q] /\ newestFail'[q] = newestFail[q]
        /\ newestOK'[q] = newestOK[q] /\ curedBy'[q] = curedBy[q]
  BY <1>1, <1>4 DEF IInv, TypeOK
<1>9. n \in 1 .. admissions /\ n \notin failed[r] BY <1>0, <1>1 DEF LiveCall
<1> HIDE DEF s, t, stale
<1>10. TypeOK'
  <2>1. states' \in [Route -> BreakerState]
    <3>1. \A q \in Route : states'[q] \in BreakerState BY <1>3, <1>6, PruneKeepsEvidence DEF t
    <3> QED BY <1>3, <3>1 DEF Pruned
  <2>2. failed' \in [Route -> SUBSET (1 .. admissions)]
    BY <1>1, <1>4, <1>9 DEF IInv, TypeOK
  <2>3. newestFail' \in [Route -> Nat] BY <1>1, <1>4, <1>5 DEF IInv, TypeOK
  <2>4. operations' \in 0 .. PruneEvery - 1 BY <1>4 DEF IInv, TypeOK
  <2> QED BY <1>4, <1>7, <2>1, <2>2, <2>3, <2>4 DEF IInv, TypeOK
<1>11. stale <=> ~(n > curedBy[r]) BY <1>0, <1>1 DEF stale, LiveCall, s
<1>12. LiveCalls'
  <2> SUFFICES ASSUME NEW d \in Call, call'[d].live PROVE LiveCall(d)' BY DEF LiveCalls
  <2>1. d # c /\ call'[d] = call[d] /\ call[d].live /\ LiveCall(d) /\ call[d] \in CallState
    BY <1>7 DEF IInv, TypeOK, LiveCalls
  <2>2. CASE call[d].route # r
    <3>1. call[d].route \in Route BY <2>1 DEF CallState
    <3> QED BY <1>1, <1>3, <1>4, <1>8, <2>1, <2>2, <3>1, ReportElsewhere
  <2>3. CASE call[d].route = r
    <3>1. /\ call[d].seq # n
          /\ (n < call[d].seq <=> a < call[d].startedAt)
      BY <1>0, <1>1, <2>1, <2>3 DEF IInv, TimesFollowOrder
    <3>2. call[d].seq \in Nat /\ call[d].startedAt \in Nat BY <2>1 DEF CallState
    <3>3. CASE stale
      <4>1. states'[r] = s BY <1>6, <3>3 DEF t
      <4>2. newestFail'[r] > curedBy[r] => newestFail'[r] = newestFail[r]
        BY <1>1, <1>5, <1>11, <3>3
      <4>3. call[d].seq > newestFail'[r] => call[d].seq > newestFail[r] BY <1>1, <1>5, <3>2
      <4>4. call[d].seq \notin failed'[r] BY <1>5, <2>1, <2>3, <3>1 DEF LiveCall
      <4> QED BY <1>4, <2>1, <2>3, <4>1, <4>2, <4>3, <4>4 DEF LiveCall, s
    <3>4. CASE ~stale
      <4>1. newestFail'[r] > curedBy[r]
        <5>1. n > curedBy[r] /\ newestFail'[r] >= n BY <1>5, <1>11, <3>4
        <5>2. curedBy[r] \in Nat /\ newestFail'[r] \in Nat BY <1>1, <1>5
        <5> QED BY <5>1, <5>2
      <4>2. t.lastFailure = Max2(a, s.lastFailure) BY <1>6, <3>4
      <4>3. call[d].startedAt > t.lastFailure <=>
              call[d].startedAt > a /\ call[d].startedAt > s.lastFailure
        BY <1>1, <3>2, <4>2 DEF Max2, BreakerState
      <4>4. call[d].seq > newestFail'[r] <=> call[d].seq > n /\ call[d].seq > newestFail[r]
        BY <1>1, <1>5, <3>2
      <4>5. call[d].seq > n /\ newestFail[r] <= curedBy[r] => call[d].seq > newestFail[r]
        BY <1>1, <1>11, <3>2, <3>4
      <4>6. call[d].startedAt > t.lastFailure <=> call[d].seq > newestFail'[r]
        <5>1. /\ call[d].seq > newestFail[r] => call[d].startedAt > s.lastFailure
              /\ newestFail[r] > curedBy[r] /\ call[d].startedAt > s.lastFailure
                   => call[d].seq > newestFail[r]
          BY <2>1, <2>3 DEF LiveCall, s
        <5>2. newestFail[r] > curedBy[r] \/ newestFail[r] <= curedBy[r] BY <1>1
        <5> QED BY <3>1, <4>3, <4>4, <4>5, <5>1, <5>2
      <4> QED BY <1>1, <1>4, <1>5, <1>6, <2>1, <2>3, <3>1, <3>2, <4>1, <4>6
              DEF LiveCall, BreakerState, t, s
    <3> QED BY <3>3, <3>4
  <2> QED BY <2>2, <2>3
<1>13. RouteOK(r)'
  <2>1. RouteOK(r) BY <1>1 DEF IInv, RoutesOK
  <2>2. a <= s.lastAdmission BY <1>0, <1>1 DEF LiveCall, s
  <2>3. newestFail'[r] <= admissions BY <1>1, <1>5, <1>9, <2>1 DEF RouteOK
  <2>4. newestOK[r] > newestFail'[r] => newestOK[r] > newestFail[r] BY <1>1, <1>5
  <2>5. CASE stale
    <3>1. states'[r] = s BY <1>6, <2>5 DEF t
    <3>2. newestFail'[r] <= curedBy[r] => newestFail[r] <= curedBy[r] BY <1>1, <1>5
    <3> QED BY <1>4, <2>1, <2>3, <2>4, <3>1, <3>2 DEF RouteOK, s
  <2>6. CASE ~stale
    <3>0. curedBy[r] \in Nat /\ newestFail'[r] \in Nat BY <1>1, <1>5
    <3>1. ~(newestFail'[r] <= curedBy[r]) BY <1>5, <1>11, <2>6, <3>0
    <3>2. s.lastFailure <= s.lastAdmission /\ s.lastSuccess <= s.lastAdmission
      BY <2>1 DEF RouteOK, s
    <3>3. t.lastFailure <= t.lastAdmission /\ t.lastSuccess <= t.lastAdmission
      BY <1>1, <1>6, <2>2, <2>6, <3>2 DEF Max2, BreakerState
    <3> QED BY <1>4, <2>1, <2>3, <2>4, <3>1, <3>3 DEF RouteOK, t
  <2> QED BY <2>5, <2>6
<1>14. /\ states'[r].failures <= Cardinality(Uncured(r)')
       /\ states'[r].openUntil # 0 => Threshold <= Cardinality(Uncured(r)')
  <2>0. /\ Cardinality(Uncured(r)) \in Nat
        /\ s.failures <= Cardinality(Uncured(r))
        /\ s.openUntil # 0 => Threshold <= Cardinality(Uncured(r))
    BY <1>1, CountUncured DEF IInv, OpensOnEvidence, s
  <2>1. CASE stale
    <3>1. Uncured(r)' = Uncured(r) BY <1>4, <1>5, <1>11, <2>1 DEF Uncured
    <3> QED BY <1>6, <2>0, <2>1, <3>1 DEF t
  <2>2. CASE ~stale
    <3>1. Uncured(r)' = Uncured(r) \cup {n} BY <1>1, <1>4, <1>5, <1>11, <2>2 DEF Uncured
    <3>2. n \notin Uncured(r) BY <1>9 DEF Uncured
    <3>3. Cardinality(Uncured(r)') = Cardinality(Uncured(r)) + 1
      BY <1>1, <3>1, <3>2, CountUncured DEF IInv
    <3> QED BY <1>1, <1>6, <2>0, <2>2, <3>3 DEF t, BreakerState
  <2> QED BY <2>1, <2>2
<1>15. \A q \in Route \ {r} :
         /\ RouteOK(q)'
         /\ states'[q].failures <= Cardinality(Uncured(q)')
         /\ states'[q].openUntil # 0 => Threshold <= Cardinality(Uncured(q)')
  BY <1>1, <1>3, <1>4, <1>8, ReportElsewhere
<1>16. RoutesOK' BY <1>13, <1>15 DEF RoutesOK
<1>17. OpensOnEvidence' BY <1>14, <1>15 DEF OpensOnEvidence
<1>18. (clock > 0)' BY <1>4 DEF IInv
<1> QED BY <1>7, <1>10, <1>12, <1>16, <1>17, <1>18 DEF IInv

\* What SuccessAttempt does to a route's state.
LEMMA SucceedingFacts ==
  ASSUME NEW s \in BreakerState, NEW a \in Nat, a > 0, NEW t, t = Succeeding(s, a)
  PROVE  /\ t \in BreakerState
         /\ t.lastAdmission = s.lastAdmission /\ t.retainUntil = s.retainUntil
         /\ t.lastFailure = s.lastFailure
         /\ ~(a > s.lastFailure) => t = s
         /\ a > s.lastFailure =>
              /\ t.lastSuccess = Max2(a, s.lastSuccess)
              /\ t.failures = 0 /\ t.openUntil = 0
<1> DEFINE m == Max2(a, s.lastSuccess)
<1>1. m \in Nat BY DEF Max2, BreakerState
<1>2. CASE ~(a > s.lastFailure) BY <1>2 DEF Succeeding, BreakerState
<1>3. CASE a > s.lastFailure
  <2> DEFINE u == [s EXCEPT !.failures = 0]
             v == [u EXCEPT !.openUntil = 0]
  <2>1. t = [v EXCEPT !.lastSuccess = m] BY <1>3 DEF Succeeding, BreakerState
  <2> HIDE DEF m
  <2>2. /\ u \in BreakerState
        /\ u.lastAdmission = s.lastAdmission /\ u.retainUntil = s.retainUntil
        /\ u.lastFailure = s.lastFailure /\ u.failures = 0
    BY DEF BreakerState
  <2> HIDE DEF u
  <2>3. /\ v \in BreakerState
        /\ v.lastAdmission = s.lastAdmission /\ v.retainUntil = s.retainUntil
        /\ v.lastFailure = s.lastFailure /\ v.failures = 0 /\ v.openUntil = 0
    BY <2>2 DEF BreakerState
  <2> HIDE DEF v
  <2>4. /\ t \in BreakerState
        /\ t.lastAdmission = s.lastAdmission /\ t.retainUntil = s.retainUntil
        /\ t.lastFailure = s.lastFailure /\ t.failures = 0 /\ t.openUntil = 0
        /\ t.lastSuccess = m
    BY <1>1, <2>1, <2>3 DEF BreakerState
  <2> QED BY <1>3, <2>4 DEF m
<1> QED BY <1>2, <1>3

\* SuccessAttempt keeps it, whenever the success is reported (attempt.go:699-721).
LEMMA SuccessIInv ==
  ASSUME IInv, NEW c \in Call, SuccessAttempt(c)
  PROVE  IInv'
<1> USE BreakerAssumption
<1>0. PICK r \in Route, a \in Nat, n \in Nat :
        r = call[c].route /\ a = call[c].startedAt /\ n = call[c].seq
  BY DEF SuccessAttempt, IInv, TypeOK, CallState
<1> DEFINE s == states[r]
           t == states'[r]
           stale == ~(a > s.lastFailure)
<1>1. /\ call[c] \in CallState /\ call[c].live /\ LiveCall(c)
      /\ s \in BreakerState /\ clock \in Nat /\ admissions \in Nat
      /\ newestFail[r] \in Nat /\ newestOK[r] \in Nat /\ curedBy[r] \in Nat
  BY DEF SuccessAttempt, IInv, TypeOK, CallState, LiveCalls
<1>2. Pruned[r] = s BY <1>0, <1>1, PruneKeepsEvidence
<1>3. /\ states' = [Pruned EXCEPT ![r] = Succeeding(s, a)]
      /\ t = Succeeding(s, a)
      /\ \A q \in Route \ {r} : states'[q] = Pruned[q]
  BY <1>0, <1>1, <1>2 DEF SuccessAttempt, Pruned
<1>4. /\ newestOK' = [newestOK EXCEPT ![r] = Max2(n, @)]
      /\ curedBy' = [curedBy EXCEPT ![r] = IF n > newestFail[r] THEN Max2(n, @) ELSE @]
      /\ Over(c)
      /\ UNCHANGED <<clock, admissions, newestFail, failed>>
      /\ operations' = (operations + 1) % PruneEvery
  BY <1>0 DEF SuccessAttempt
<1>5. /\ newestOK'[r] \in Nat /\ newestOK'[r] = Max2(n, newestOK[r])
      /\ curedBy'[r] \in Nat
      /\ n > newestFail[r] => curedBy'[r] = Max2(n, curedBy[r])
      /\ ~(n > newestFail[r]) => curedBy'[r] = curedBy[r]
  BY <1>1, <1>4 DEF IInv, TypeOK, Max2
<1>6. /\ t \in BreakerState
      /\ t.lastAdmission = s.lastAdmission /\ t.retainUntil = s.retainUntil
      /\ t.lastFailure = s.lastFailure
      /\ stale => t = s
      /\ ~stale => t.lastSuccess = Max2(a, s.lastSuccess) /\ t.failures = 0 /\ t.openUntil = 0
  <2>1. a > 0 BY <1>0, <1>1 DEF LiveCall
  <2> HIDE DEF s, t
  <2> QED BY <1>1, <1>3, <2>1, SucceedingFacts DEF stale
<1>7. /\ call' \in [Call -> CallState] /\ ~call'[c].live /\ TimesFollowOrder'
      /\ \A d \in Call \ {c} : call'[d] = call[d]
  BY <1>4, OverKeepsOrder
<1>8. \A q \in Route \ {r} :
        /\ failed'[q] = failed[q] /\ newestFail'[q] = newestFail[q]
        /\ newestOK'[q] = newestOK[q] /\ curedBy'[q] = curedBy[q]
  BY <1>1, <1>4 DEF IInv, TypeOK
<1>9. /\ n \in 1 .. admissions
      /\ a > s.lastSuccess <=> n > curedBy[r]
      /\ n > newestFail[r] => ~stale
      /\ newestFail[r] > curedBy[r] /\ ~stale => n > newestFail[r]
  BY <1>0, <1>1 DEF LiveCall
<1>10. RouteOK(r) BY <1>1 DEF IInv, RoutesOK
<1> HIDE DEF s, t, stale
\* The last success moves, in admission times and in the history, together.
<1>11. \/ t.lastSuccess = s.lastSuccess /\ curedBy'[r] = curedBy[r]
       \/ /\ ~stale /\ n > newestFail[r] /\ n > curedBy[r]
          /\ t.lastSuccess = a /\ curedBy'[r] = n
  <2>1. CASE n > newestFail[r] /\ n > curedBy[r]
    BY <1>1, <1>5, <1>6, <1>9, <2>1 DEF Max2, BreakerState
  <2>2. CASE n > newestFail[r] /\ ~(n > curedBy[r])
    BY <1>1, <1>5, <1>6, <1>9, <2>2 DEF Max2, BreakerState
  <2>3. CASE ~(n > newestFail[r])
    BY <1>1, <1>5, <1>6, <1>9, <2>3 DEF Max2, BreakerState
  <2> QED BY <2>1, <2>2, <2>3
<1>12. TypeOK'
  <2>1. states' \in [Route -> BreakerState]
    <3>1. \A q \in Route : states'[q] \in BreakerState BY <1>3, <1>6, PruneKeepsEvidence DEF t
    <3> QED BY <1>3, <3>1 DEF Pruned
  <2>2. newestOK' \in [Route -> Nat] /\ curedBy' \in [Route -> Nat]
    BY <1>1, <1>4, <1>5 DEF IInv, TypeOK
  <2>3. operations' \in 0 .. PruneEvery - 1 BY <1>4 DEF IInv, TypeOK
  <2> QED BY <1>4, <1>7, <2>1, <2>2, <2>3 DEF IInv, TypeOK
<1>13. LiveCalls'
  <2> SUFFICES ASSUME NEW d \in Call, call'[d].live PROVE LiveCall(d)' BY DEF LiveCalls
  <2>1. d # c /\ call'[d] = call[d] /\ call[d].live /\ LiveCall(d) /\ call[d] \in CallState
    BY <1>7 DEF IInv, TypeOK, LiveCalls
  <2>2. CASE call[d].route # r
    <3>1. call[d].route \in Route BY <2>1 DEF CallState
    <3> QED BY <1>1, <1>3, <1>4, <1>8, <2>1, <2>2, <3>1, ReportElsewhere
  <2>3. CASE call[d].route = r
    <3>1. /\ call[d].seq # n
          /\ (n < call[d].seq <=> a < call[d].startedAt)
      BY <1>0, <1>1, <2>1, <2>3 DEF IInv, TimesFollowOrder
    <3>2. call[d].seq \in Nat /\ call[d].startedAt \in Nat BY <2>1 DEF CallState
    <3>3. call[d].startedAt > t.lastSuccess <=> call[d].seq > curedBy'[r]
      BY <1>1, <1>11, <2>1, <2>3, <3>1, <3>2 DEF LiveCall, s
    <3>4. newestFail[r] > curedBy'[r] => newestFail[r] > curedBy[r]
      BY <1>1, <1>5, <1>11
    <3> QED BY <1>1, <1>4, <1>5, <1>6, <2>1, <2>3, <3>2, <3>3, <3>4
            DEF LiveCall, BreakerState, t, s
  <2> QED BY <2>2, <2>3
<1>14. RouteOK(r)'
  <2>1. a <= s.lastAdmission BY <1>0, <1>1 DEF LiveCall, s
  <2>2. t.lastFailure <= t.lastAdmission /\ t.lastSuccess <= t.lastAdmission
    BY <1>1, <1>6, <1>10, <1>11, <2>1 DEF RouteOK, BreakerState, s
  <2>3. newestOK'[r] <= admissions /\ curedBy'[r] <= admissions /\ newestFail[r] <= admissions
    BY <1>1, <1>5, <1>9, <1>10, <1>11 DEF RouteOK, Max2
  <2>4. newestFail[r] <= curedBy'[r] => t.failures = 0 /\ t.openUntil = 0
    BY <1>1, <1>6, <1>10, <1>11 DEF RouteOK, s
  <2>5. newestOK'[r] > newestFail[r] => curedBy'[r] >= newestOK'[r]
    BY <1>1, <1>5, <1>10 DEF RouteOK, Max2
  <2> QED BY <1>4, <2>2, <2>3, <2>4, <2>5 DEF RouteOK, t
<1>15. /\ t.failures <= Cardinality(Uncured(r)')
       /\ t.openUntil # 0 => Threshold <= Cardinality(Uncured(r)')
  <2>0. /\ Cardinality(Uncured(r)) \in Nat
        /\ s.failures <= Cardinality(Uncured(r))
        /\ s.openUntil # 0 => Threshold <= Cardinality(Uncured(r))
    BY <1>1, CountUncured DEF IInv, OpensOnEvidence, s
  <2>1. CASE stale
    <3>1. t = s BY <1>6, <2>1
    <3>2. ~(n > newestFail[r]) BY <1>9, <2>1
    <3>3. Uncured(r)' = Uncured(r) BY <1>4, <1>5, <3>2 DEF Uncured
    <3> QED BY <2>0, <3>1, <3>3
  <2>2. CASE ~stale
    <3>1. Cardinality(Uncured(r)') \in Nat
      <4>1. IsFiniteSet(Uncured(r)) BY <1>1, CountUncured DEF IInv
      <4>2. curedBy'[r] >= curedBy[r] BY <1>1, <1>11
      <4>3. Uncured(r)' \subseteq Uncured(r)
        <5> SUFFICES ASSUME NEW k \in failed[r], k > curedBy'[r] PROVE k > curedBy[r]
          BY <1>4 DEF Uncured
        <5>1. k \in Nat BY <1>1 DEF IInv, TypeOK
        <5> QED BY <1>1, <1>5, <4>2, <5>1
      <4> QED BY <4>1, <4>3, FS_Subset, FS_CardinalityType
    <3> QED BY <1>6, <2>2, <3>1
  <2> QED BY <2>1, <2>2
<1>16. \A q \in Route \ {r} :
         /\ RouteOK(q)'
         /\ states'[q].failures <= Cardinality(Uncured(q)')
         /\ states'[q].openUntil # 0 => Threshold <= Cardinality(Uncured(q)')
  BY <1>1, <1>3, <1>4, <1>8, ReportElsewhere
<1>17. RoutesOK' BY <1>14, <1>16 DEF RoutesOK
<1>18. OpensOnEvidence' BY <1>15, <1>16 DEF OpensOnEvidence, t
<1>19. (clock > 0)' BY <1>4 DEF IInv
<1> QED BY <1>7, <1>12, <1>13, <1>17, <1>18, <1>19 DEF IInv

\* A call that ends without a report keeps it (attempt.go:104-107).
LEMMA AbandonIInv ==
  ASSUME IInv, NEW c \in Call, Abandon(c)
  PROVE  IInv'
<1>1. Over(c) /\ UNCHANGED <<states, operations, clock, admissions,
                             failed, newestFail, newestOK, curedBy>>
  BY DEF Abandon, history
<1>2. /\ call' \in [Call -> CallState] /\ ~call'[c].live /\ TimesFollowOrder'
      /\ \A d \in Call \ {c} : call'[d] = call[d]
  BY <1>1, OverKeepsOrder
<1>3. TypeOK' BY <1>1, <1>2 DEF IInv, TypeOK
<1>4. LiveCalls' BY <1>1, <1>2 DEF IInv, LiveCalls, LiveCall
<1>5. RoutesOK' BY <1>1 DEF IInv, RoutesOK, RouteOK
<1>6. OpensOnEvidence' BY <1>1 DEF IInv, OpensOnEvidence, Uncured
<1> QED BY <1>1, <1>2, <1>3, <1>4, <1>5, <1>6 DEF IInv

\* The clock keeps it, as no call outlives its state (attempt.go:554-568).
LEMMA AdvanceIInv == IInv /\ Advance => IInv'
<1> SUFFICES ASSUME IInv, Advance PROVE IInv' OBVIOUS
<1> USE BreakerAssumption
<1>1. /\ clock' = clock + Tick
      /\ \A c \in Call : call[c].live => clock + Tick < call[c].at + StateTTL
      /\ UNCHANGED <<states, operations, call, admissions, failed, newestFail, newestOK, curedBy>>
  BY DEF Advance, history
<1>2. TypeOK' /\ (clock > 0)' BY <1>1 DEF IInv, TypeOK
<1>3. LiveCalls'
  <2> SUFFICES ASSUME NEW c \in Call, call[c].live PROVE LiveCall(c)'
    BY <1>1 DEF LiveCalls
  <2>1. LiveCall(c) BY DEF IInv, LiveCalls
  <2>2. call[c].at \in Nat /\ states[call[c].route] \in BreakerState /\ clock \in Nat
    BY DEF IInv, TypeOK, CallState
  <2>3. clock' < call[c].at + StateTTL /\ clock' < states[call[c].route].retainUntil
    BY <1>1, <2>1, <2>2 DEF LiveCall, BreakerState
  <2> QED BY <1>1, <2>1, <2>3 DEF LiveCall
<1>4. TimesFollowOrder' BY <1>1 DEF IInv, TimesFollowOrder
<1>5. RoutesOK' BY <1>1 DEF IInv, RoutesOK, RouteOK
<1>6. OpensOnEvidence' BY <1>1 DEF IInv, OpensOnEvidence, Uncured
<1> QED BY <1>2, <1>3, <1>4, <1>5, <1>6 DEF IInv

\* So does a step of nobody.
LEMMA StutterIInv == IInv /\ UNCHANGED vars => IInv'
BY DEF vars, history, IInv, TypeOK, LiveCalls, LiveCall, TimesFollowOrder, RoutesOK, RouteOK,
       OpensOnEvidence, Uncured

\* The inductive invariant holds in every reachable state.
LEMMA AlwaysIInv == Spec => []IInv
<1>1. IInv /\ [Next]_vars => IInv'
  BY AllowIInv, FailIInv, SuccessIInv, AbandonIInv, AdvanceIInv, StutterIInv DEF Next
<1> QED BY <1>1, InitIInv, PTL DEF Spec

\* TypeOK for every instance: the breaker's variables keep their types
\* (attempt.go:578-596).
THEOREM BreakerTypeCorrect == Spec => []TypeOK
BY AlwaysIInv, PTL DEF IInv

\* In whatever order reports arrive, if the latest admission that reported
\* anything succeeded, the circuit is closed (attempt.go:665-667, 708-718).
THEOREM BreakerNewestSuccessCloses == Spec => []NewestSuccessCloses
<1>1. IInv => NewestSuccessCloses
  BY DEF IInv, TypeOK, RoutesOK, RouteOK, NewestSuccessCloses
<1> QED BY <1>1, AlwaysIInv, PTL

\* An open circuit rests on Threshold failures that no success has cured
\* (attempt.go:665-691, 711-718).
THEOREM BreakerOpensOnEvidence == Spec => []OpensOnEvidence
BY AlwaysIInv, PTL DEF IInv

\* The end of a running cooldown moves only when a call admitted after every
\* reported failure succeeds (attempt.go:671-677, 708-713, 738-741).
THEOREM BreakerOnlyNewestSuccessCloses == Spec => OnlyNewestSuccessCloses
<1> DEFINE Closes == \A r \in Route :
             IsOpen(r) /\ states'[r].openUntil # states[r].openUntil =>
               /\ states'[r].openUntil = 0
               /\ \E c \in Call : /\ call[c].route = r /\ call[c].seq > newestFail[r]
                                  /\ SuccessAttempt(c)
<1>1. IInv /\ [Next]_vars => [Closes]_vars
  <2> SUFFICES ASSUME IInv, Next, NEW r \in Route, IsOpen(r),
                      states'[r].openUntil # states[r].openUntil
               PROVE  /\ states'[r].openUntil = 0
                      /\ \E c \in Call : /\ call[c].route = r /\ call[c].seq > newestFail[r]
                                         /\ SuccessAttempt(c)
    OBVIOUS
  <2>0. /\ states \in [Route -> BreakerState] /\ states[r] \in BreakerState
        /\ call \in [Call -> CallState] /\ clock \in Nat
        /\ states[r].openUntil > clock /\ states[r].openUntil # 0
        /\ newestFail[r] \in Nat /\ curedBy[r] \in Nat
    BY DEF IInv, TypeOK, IsOpen, BreakerState
  <2>1. ASSUME NEW c \in Call, NEW q \in Route, AllowAttempt(c, q) PROVE FALSE
    BY <2>0, <2>1 DEF AllowAttempt, BreakerState
  <2>2. ASSUME \/ Advance
               \/ \E c \in Call : Abandon(c)
        PROVE  FALSE
    BY <2>2 DEF Abandon, Advance
  <2>3. Pruned[r] = states[r] BY PruneKeepsEvidence
  <2>4. ASSUME NEW c \in Call, FailAttempt(c) PROVE FALSE
    <3>1. states' = [Pruned EXCEPT ![call[c].route] = Failing(@, call[c].startedAt)]
      BY <2>4 DEF FailAttempt
    <3>2. CASE call[c].route # r BY <2>3, <3>1, <3>2 DEF Pruned
    <3>3. CASE call[c].route = r
      <4>1. states'[r] = Failing(states[r], call[c].startedAt) BY <2>3, <3>1, <3>3 DEF Pruned
      <4>2. Failing(states[r], call[c].startedAt).openUntil = states[r].openUntil
        BY <2>0 DEF Failing, BreakerState
      <4> QED BY <4>1, <4>2
    <3> QED BY <3>2, <3>3
  <2>5. ASSUME NEW c \in Call, SuccessAttempt(c)
        PROVE  /\ states'[r].openUntil = 0
               /\ call[c].route = r /\ call[c].seq > newestFail[r]
    <3>1. states' = [Pruned EXCEPT ![call[c].route] = Succeeding(@, call[c].startedAt)]
      BY <2>5 DEF SuccessAttempt
    <3>2. call[c].route = r
      <4> SUFFICES ASSUME call[c].route # r PROVE states'[r] = states[r] OBVIOUS
      <4> QED BY <2>3, <3>1 DEF Pruned
    <3>3. states'[r] = Succeeding(states[r], call[c].startedAt) BY <2>3, <3>1, <3>2 DEF Pruned
    <3>4. LiveCall(c) /\ call[c].startedAt \in Nat /\ call[c].startedAt > 0
      BY <2>5, <2>0 DEF SuccessAttempt, IInv, LiveCalls, LiveCall, CallState
    <3>5. call[c].startedAt > states[r].lastFailure /\ states'[r].openUntil = 0
      BY <2>0, <3>3, <3>4, SucceedingFacts
    <3>6. newestFail[r] > curedBy[r]
      <4>1. RouteOK(r) BY DEF IInv, RoutesOK
      <4>2. ~(newestFail[r] <= curedBy[r]) BY <2>0, <4>1 DEF RouteOK
      <4> QED BY <2>0, <4>2
    <3> QED BY <3>2, <3>4, <3>5, <3>6 DEF LiveCall
  <2> QED BY <2>1, <2>2, <2>4, <2>5 DEF Next
<1> QED BY <1>1, AlwaysIInv, PTL DEF Spec, OnlyNewestSuccessCloses
=============================================================================
