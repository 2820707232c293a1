-------------------------- MODULE QuotaAccountProofs --------------------------
(***************************************************************************)
(* For every number of attempts, every estimate and every reported usage:  *)
(* the quota account of a request neither makes up nor loses an amount.    *)
(***************************************************************************)
EXTENDS QuotaAccount, SumTheorems

LEMMA SumWith ==
  ASSUME NEW f, IsFiniteSet(DOMAIN f), \A j \in DOMAIN f : f[j] \in Nat,
         NEW i, i \notin DOMAIN f, NEW v \in Nat
  PROVE  SumFunction(With(f, i, v)) = SumFunction(f) + v
<1> DEFINE g == With(f, i, v)
           S == DOMAIN f \cup {i}
<1>1. DOMAIN g = S /\ g[i] = v /\ \A j \in DOMAIN f : g[j] = f[j] BY DEF With
<1>2. S \ {i} = DOMAIN f /\ i \in S OBVIOUS
<1>3. IsFiniteSet(S) BY FS_AddElement
<1> HIDE DEF g, S
<1>4. \A j \in S : g[j] \in Nat BY <1>1, <1>2
<1>5. SumFunctionOnSet(g, S) = v + SumFunctionOnSet(g, DOMAIN f)
  <2>1. \A j \in S : g[j] \in Int BY <1>4
  <2> QED BY <1>1, <1>2, <1>3, <2>1, SumAdds
<1>6. SumFunctionOnSet(f, DOMAIN f) = SumFunctionOnSet(g, DOMAIN f) /\ SumFunctionOnSet(f, DOMAIN f) \in Nat
  BY <1>1, SumSame
<1>7. SumFunction(g) = SumFunctionOnSet(g, S) /\ SumFunction(f) = SumFunctionOnSet(f, DOMAIN f)
  BY <1>1 DEF SumFunction
<1>8. SumFunction(g) = SumFunction(f) + v BY <1>5, <1>6, <1>7
<1> QED BY <1>8 DEF g

LEMMA SumWithout ==
  ASSUME NEW f, IsFiniteSet(DOMAIN f), \A j \in DOMAIN f : f[j] \in Nat, NEW i \in DOMAIN f
  PROVE  /\ SumFunction(f) = SumFunction(Without(f, i)) + f[i]
         /\ SumFunction(f) \in Nat /\ SumFunction(Without(f, i)) \in Nat
<1> DEFINE g == Without(f, i)
           S == DOMAIN f \ {i}
<1>1. DOMAIN g = S /\ \A j \in S : g[j] = f[j] BY DEF Without
<1>2. IsFiniteSet(S) BY FS_RemoveElement
<1>3. \A j \in S : f[j] \in Nat OBVIOUS
<1>4. SumFunctionOnSet(f, DOMAIN f) = f[i] + SumFunctionOnSet(f, S)
  <2>1. \A j \in DOMAIN f : f[j] \in Int OBVIOUS
  <2> QED BY <2>1, SumAdds
<1> HIDE DEF g, S
<1>5. SumFunctionOnSet(f, S) = SumFunctionOnSet(g, S) /\ SumFunctionOnSet(f, S) \in Nat
  BY <1>1, <1>2, <1>3, SumSame
<1>6. SumFunction(g) = SumFunctionOnSet(g, S) /\ SumFunction(f) = SumFunctionOnSet(f, DOMAIN f)
  BY <1>1 DEF SumFunction
<1>7. f[i] \in Nat OBVIOUS
<1>8. SumFunction(f) = SumFunction(g) + f[i] /\ SumFunction(f) \in Nat /\ SumFunction(g) \in Nat
  BY <1>4, <1>5, <1>6, <1>7
<1> QED BY <1>8 DEF g
-----------------------------------------------------------------------------
(***************************************************************************)
(* The account.  Balance is what ReserveIsHeld says; Position says which   *)
(* of records and entries the current attempt has, and Paid how the usage  *)
(* of earlier attempts, the settlement and the store follow from it.       *)
(***************************************************************************)
Reconciled == {i \in DOMAIN entries : i \notin DOMAIN records}
Settling == {"stopping", "topup", "settle", "done"}

Types ==
  /\ TypeOK
  /\ store \in [state : {"none", "open", "committed", "refunded", "expired"}, held : Nat, charged : Nat]
  /\ settlement \in [exec : BOOLEAN, actual : Nat, commit : BOOLEAN, short : BOOLEAN]

Balance ==
  /\ reserve = credit + SumFunction(records) + SumFunctionOnSet(Charge, Reconciled)
  /\ store.state \in {"none", "open"} /\ pc \notin {"settle", "done"} => store.held = reserve + lost

Position ==
  /\ pc \in {"start", "dispatch", "reserved"} => n \notin DOMAIN entries
  /\ pc \in {"start", "dispatch"} => n \notin DOMAIN records
  /\ pc = "reserved" => n \in DOMAIN records
  /\ pc \in {"calling", "returned"} => n \in DOMAIN entries /\ n \in DOMAIN records
  /\ pc = "calling" => entries[n] = [charge |-> records[n], final |-> FALSE]
  /\ settlement.exec => pc \in Settling /\ n \in DOMAIN entries /\ n \in DOMAIN records
  /\ stream # "none" => pc = "returned" \/ settlement.exec
  /\ settlement.exec /\ pc # "stopping" => entries[n].final

Paid ==
  /\ \A i \in DOMAIN entries : i \in DOMAIN records /\ i < n => entries[i].charge <= records[i]
  /\ pc \in {"topup", "settle", "done"} =>
       /\ Total > 0 => settlement.actual = Total
       /\ ~settlement.commit => Total = 0
  /\ pc = "settle" /\ store.state = "open" /\ settlement.commit =>
       settlement.short \/ settlement.actual <= store.held
  /\ pc = "start" => store.state = "none"
  /\ store.state \in {"committed", "refunded"} => pc = "done"
  /\ store.state = "committed" => /\ settlement.commit /\ store.charged = settlement.actual
                                  /\ settlement.short \/ settlement.actual <= store.held
  /\ store.state = "refunded" => ~settlement.commit

IInv == Types /\ Balance /\ Position /\ Paid
-----------------------------------------------------------------------------
StoreState == [state : {"none", "open", "committed", "refunded", "expired"}, held : Nat, charged : Nat]

\* The account's sums are over finitely many attempts.
LEMMA AccountSums ==
  ASSUME Types
  PROVE  /\ IsFiniteSet(DOMAIN records) /\ IsFiniteSet(DOMAIN entries) /\ IsFiniteSet(Reconciled)
         /\ SumFunction(records) \in Nat /\ SumFunctionOnSet(Charge, Reconciled) \in Nat /\ Total \in Nat
         /\ DOMAIN Charge = DOMAIN entries
         /\ \A i \in DOMAIN entries : Charge[i] = entries[i].charge /\ Charge[i] \in Nat
<1>1. n \in Int /\ DOMAIN records \subseteq 1 .. n /\ DOMAIN entries \subseteq 1 .. n
  BY DEF Types, TypeOK, Attempt
<1>2. IsFiniteSet(1 .. n) BY <1>1, FS_Interval
<1>3. IsFiniteSet(DOMAIN records) /\ IsFiniteSet(DOMAIN entries) BY <1>1, <1>2, FS_Subset
<1>4. Reconciled \subseteq DOMAIN entries BY DEF Reconciled
<1>5. IsFiniteSet(Reconciled) BY <1>3, <1>4, FS_Subset
<1>6. \A i \in DOMAIN records : records[i] \in Nat BY DEF Types, TypeOK
<1>7. /\ DOMAIN Charge = DOMAIN entries
      /\ \A i \in DOMAIN entries : Charge[i] = entries[i].charge /\ Charge[i] \in Nat
  BY DEF Charge, Types, TypeOK
<1>8. SumFunction(records) \in Nat BY <1>3, <1>6, SumSame DEF SumFunction
<1>9. Total \in Nat BY <1>3, <1>7, SumSame DEF Total, SumFunction
<1>10. SumFunctionOnSet(Charge, Reconciled) \in Nat BY <1>4, <1>5, <1>7, SumSame
<1> QED BY <1>3, <1>5, <1>7, <1>8, <1>9, <1>10

LEMMA SameAccount ==
  ASSUME UNCHANGED <<records, entries>>
  PROVE  /\ SumFunction(records)' = SumFunction(records) /\ Reconciled' = Reconciled
         /\ SumFunctionOnSet(Charge, Reconciled)' = SumFunctionOnSet(Charge, Reconciled)
         /\ Total' = Total /\ Charge' = Charge
<1>1. Charge' = Charge /\ Reconciled' = Reconciled BY DEF Charge, Reconciled
<1> QED BY <1>1 DEF Total

\* A call of TopUp: what the store holds, and what of it the request does not know of.
TopsUp(amount, unknown) ==
  /\ store' \in StoreState /\ missed' \in 0 .. MaxMissed /\ lost' = lost + unknown
  /\ \/ store' = store /\ amount = 0
     \/ /\ store.state = "open" /\ store'.state = "open" /\ store'.charged = store.charged
        /\ store'.held = store.held + amount

LEMMA TopUpOutcomes ==
  ASSUME Types, NEW a \in Nat
  PROVE  /\ (IF a > 0 THEN TopUpOK(a) ELSE Quiet) => TopsUp(a, 0)
         /\ TopUpOK(a) => TopsUp(a, 0)
         /\ TopUpFails(a) => TopsUp(0, 0)
         /\ TopUpLost(a) => TopsUp(a, a)
         /\ Quiet => TopsUp(0, 0)
<1>1. store \in StoreState /\ missed \in 0 .. MaxMissed /\ lost \in Nat /\ MaxMissed \in Nat
  BY QuotaAccountAssumption DEF Types, TypeOK, StoreState
<1>2. TopUpOK(a) => TopsUp(a, 0) BY <1>1 DEF TopUpOK, TopsUp, StoreState
<1>3. TopUpLost(a) => TopsUp(a, a) BY <1>1 DEF TopUpLost, TopsUp, StoreState
<1>4. Quiet => TopsUp(0, 0) BY <1>1 DEF Quiet, TopsUp
<1>5. TopUpFails(a) => TopsUp(0, 0) BY <1>1 DEF TopUpFails, TopsUp
<1>6. (IF a > 0 THEN TopUpOK(a) ELSE Quiet) => TopsUp(a, 0)
  <2>1. CASE a > 0 BY <1>2, <2>1
  <2>2. CASE ~(a > 0)
    <3>1. a = 0 BY <2>2
    <3> QED BY <1>4, <2>2, <3>1
  <2> QED BY <2>1, <2>2
<1> QED BY <1>2, <1>3, <1>4, <1>5, <1>6

\* After an error there is a next attempt, with nothing recorded for it, or the end.
LEMMA NextAttempt ==
  ASSUME Types, NEW b \in BOOLEAN, NextAttemptOr(b),
         DOMAIN records' \subseteq DOMAIN records, DOMAIN entries' \subseteq DOMAIN entries
  PROVE  /\ n' \in Attempt /\ n <= n' /\ pc' \in {"dispatch", "failed"}
         /\ DOMAIN records' \subseteq 1 .. n' /\ DOMAIN entries' \subseteq 1 .. n'
         /\ pc' = "dispatch" => b /\ n' = n + 1 /\ n' \notin DOMAIN records' /\ n' \notin DOMAIN entries'
         /\ pc' = "failed" => n' = n
<1>1. n \in Attempt /\ DOMAIN records \subseteq 1 .. n /\ DOMAIN entries \subseteq 1 .. n /\ MaxAttempts \in Nat
  BY QuotaAccountAssumption DEF Types, TypeOK
<1> QED BY <1>1 DEF NextAttemptOr, Attempt
-----------------------------------------------------------------------------
(* Every step keeps the invariant.                                          *)

LEMMA AccountInit == Init => IInv
<1> SUFFICES ASSUME Init PROVE IInv OBVIOUS
<1>1. DOMAIN records = {} /\ DOMAIN entries = {} BY DEF Init
<1>2. Types
  <2>1. n \in Attempt /\ missed \in 0 .. MaxMissed BY QuotaAccountAssumption DEF Init, Attempt
  <2>2. /\ store \in [state : {"none", "open", "committed", "refunded", "expired"}, held : Nat, charged : Nat]
        /\ settlement \in [exec : BOOLEAN, actual : Nat, commit : BOOLEAN, short : BOOLEAN]
    BY DEF Init
  <2>3. /\ DOMAIN records \subseteq 1 .. n /\ DOMAIN entries \subseteq 1 .. n
        /\ \A i \in DOMAIN records : records[i] \in Nat
        /\ \A i \in DOMAIN entries : entries[i].charge \in Nat /\ entries[i].final \in BOOLEAN
    BY <1>1
  <2>4. /\ pc \in PC /\ reserve \in Nat /\ credit \in Nat /\ lost \in Nat
        /\ stream \in {"none", "open", "ended"} /\ cancelled \in BOOLEAN
        /\ renewal \in {"off", "waiting", "calling", "done"}
    BY DEF Init, PC
  <2> QED BY <2>1, <2>2, <2>3, <2>4 DEF Types, TypeOK
<1>3. Reconciled = {} BY <1>1 DEF Reconciled
<1>4. SumFunction(records) = 0 /\ SumFunctionOnSet(Charge, Reconciled) = 0
  BY <1>1, <1>3, SumEmpty DEF SumFunction
<1>5. Balance BY <1>4 DEF Balance, Init
<1>6. Position /\ Paid BY <1>1 DEF Position, Paid, Init
<1> QED BY <1>2, <1>5, <1>6 DEF IInv

LEMMA StutterKeeps == ASSUME IInv, UNCHANGED vars PROVE IInv'
<1> USE DEF vars
<1>1. Types' BY DEF IInv, Types, TypeOK
<1>2. Balance' BY SameAccount DEF IInv, Balance
<1>3. Position' BY DEF IInv, Position
<1>4. Paid' BY SameAccount DEF IInv, Paid
<1> QED BY <1>1, <1>2, <1>3, <1>4 DEF IInv

LEMMA AdmissionKeeps == ASSUME IInv, Admit \/ Deny PROVE IInv'
<1>1. pc = "start" /\ pc' \in {"dispatch", "denied"}
      /\ UNCHANGED <<n, reserve, credit, records, entries, stream, cancelled, missed, settlement, lost>>
      /\ renewal' \in {renewal, "waiting"}
      /\ (store' = store \/ store' = [store EXCEPT !.state = "open"])
  BY DEF Admit, Deny
<1>2. store' \in StoreState /\ store'.held = store.held /\ store'.state \in {"open", store.state}
  BY <1>1 DEF IInv, Types, StoreState
<1>3. Types' BY <1>1, <1>2 DEF IInv, Types, TypeOK, PC, StoreState
<1>4. store.state = "none" BY <1>1 DEF IInv, Paid
<1>5. ~settlement.exec /\ stream = "none" BY <1>1 DEF IInv, Position, Settling
<1>6. Position' BY <1>1, <1>5 DEF IInv, Position
<1>7. Paid' BY <1>1, <1>2, <1>4, SameAccount DEF IInv, Paid
<1>8. Balance' BY <1>1, <1>2, <1>4, SameAccount DEF IInv, Balance
<1> QED BY <1>3, <1>6, <1>7, <1>8 DEF IInv

LEMMA RenewalKeeps == ASSUME IInv, RenewStart \/ RenewReturns \/ RenewEnds PROVE IInv'
<1>1. RenewUnchanged /\ renewal' \in {"waiting", "calling", "done"} /\ lost' = lost
  BY DEF RenewStart, RenewReturns, RenewEnds, TopUpOK
<1>2. missed' \in 0 .. MaxMissed /\ store' = store
  <2>1. missed \in 0 .. MaxMissed /\ MaxMissed \in Nat \ {0} /\ store \in StoreState
    BY QuotaAccountAssumption DEF IInv, Types, TypeOK, StoreState
  <2>2. TopUpOK(0) => store' = store /\ missed' = 0 BY <2>1 DEF TopUpOK, StoreState
  <2> QED BY <2>1, <2>2 DEF RenewStart, RenewReturns, RenewEnds
<1>3. Types' BY <1>1, <1>2 DEF IInv, Types, TypeOK, RenewUnchanged
<1>4. Balance' BY <1>1, <1>2, SameAccount DEF IInv, Balance, RenewUnchanged
<1>5. Position' BY <1>1 DEF IInv, Position, RenewUnchanged
<1>6. Paid' BY <1>1, <1>2, SameAccount DEF IInv, Paid, RenewUnchanged
<1> QED BY <1>3, <1>4, <1>5, <1>6 DEF IInv

LEMMA ExpireKeeps == ASSUME IInv, Expire PROVE IInv'
<1>1. store' \in StoreState /\ store'.state = "expired" BY DEF Expire, IInv, Types, StoreState
<1>2. Types' BY <1>1 DEF Expire, IInv, Types, TypeOK, StoreState
<1>3. Balance' BY <1>1, SameAccount DEF Expire, IInv, Balance
<1>4. Position' BY DEF Expire, IInv, Position
<1>5. Paid' BY <1>1, SameAccount DEF Expire, IInv, Paid
<1> QED BY <1>2, <1>3, <1>4, <1>5 DEF IInv

LEMMA StopRenewalKeeps == ASSUME IInv, StopRenewal PROVE IInv'
<1>1. settlement' = [settlement EXCEPT !.exec = (pc = "returned")] /\ (pc = "returned") \in BOOLEAN
  BY DEF StopRenewal
<1>2. /\ settlement' \in [exec : BOOLEAN, actual : Nat, commit : BOOLEAN, short : BOOLEAN]
      /\ settlement'.exec => pc = "returned"
      /\ pc = "returned" => settlement'.exec
  BY <1>1 DEF IInv, Types
<1>3. Types' BY <1>2 DEF StopRenewal, IInv, Types, TypeOK, PC
<1>4. Balance' BY SameAccount DEF StopRenewal, IInv, Balance
<1>5. Position' BY <1>2 DEF StopRenewal, IInv, Position, Settling
<1>6. store.state \notin {"committed", "refunded"} BY DEF StopRenewal, IInv, Paid
<1>7. Paid' BY <1>6, SameAccount DEF StopRenewal, IInv, Paid
<1> QED BY <1>3, <1>4, <1>5, <1>7 DEF IInv

LEMMA SettleFailureKeeps == ASSUME IInv, SettleFailure PROVE IInv'
<1>1. Total \in Nat BY AccountSums DEF IInv
<1>2. /\ settlement' \in [exec : BOOLEAN, actual : Nat, commit : BOOLEAN, short : BOOLEAN]
      /\ settlement'.exec = settlement.exec /\ ~settlement.exec
      /\ settlement'.actual = Total /\ (settlement'.commit <=> Total > 0)
  <2> DEFINE b == Total > 0
  <2>1. b \in BOOLEAN /\ (b <=> Total > 0) OBVIOUS
  <2> HIDE DEF b
  <2>2. settlement' = [settlement EXCEPT !.actual = Total, !.commit = b] /\ ~settlement.exec
    BY DEF SettleFailure, b
  <2> QED BY <1>1, <2>1, <2>2 DEF IInv, Types
<1>3. Types' BY <1>2 DEF SettleFailure, IInv, Types, TypeOK, PC
<1>4. Balance' BY SameAccount DEF SettleFailure, IInv, Balance
<1>5. Position' BY <1>2 DEF SettleFailure, IInv, Position, Settling
<1>6. store.state \notin {"committed", "refunded"} BY DEF SettleFailure, IInv, Paid
<1>7. Paid' BY <1>1, <1>2, <1>6, SameAccount DEF SettleFailure, IInv, Paid
<1> QED BY <1>3, <1>4, <1>5, <1>7 DEF IInv

LEMMA SettleTopUpKeeps == ASSUME IInv, SettleTopUp PROVE IInv'
<1> DEFINE delta == IF settlement.commit THEN Pos(settlement.actual - reserve) ELSE 0
           Short == settlement' = [settlement EXCEPT !.short = TRUE]
<1>1. /\ settlement \in [exec : BOOLEAN, actual : Nat, commit : BOOLEAN, short : BOOLEAN]
      /\ reserve \in Nat /\ lost \in Nat /\ store \in StoreState
  BY DEF IInv, Types, TypeOK, StoreState
<1>2. delta \in Nat /\ (settlement.commit => settlement.actual <= reserve + delta) BY <1>1 DEF Pos
<1> HIDE DEF delta
<1>3. \/ TopsUp(delta, 0) /\ settlement' = settlement
      \/ Short /\ \E a \in Nat, l \in Nat : TopsUp(a, l)
  <2>1. CASE (IF delta > 0 THEN TopUpOK(delta) ELSE Quiet) /\ UNCHANGED settlement
    BY <1>2, <2>1, TopUpOutcomes DEF IInv
  <2>2. CASE (TopUpFails(delta) \/ TopUpLost(delta)) /\ Short
    BY <1>2, <2>2, TopUpOutcomes DEF IInv
  <2> QED BY <2>1, <2>2 DEF SettleTopUp, delta
<1>4. /\ settlement' \in [exec : BOOLEAN, actual : Nat, commit : BOOLEAN, short : BOOLEAN]
      /\ settlement'.exec = settlement.exec /\ settlement'.actual = settlement.actual
      /\ settlement'.commit = settlement.commit
      /\ settlement'.short \/ (settlement' = settlement /\ TopsUp(delta, 0))
  BY <1>1, <1>3
<1>5. store' \in StoreState /\ missed' \in 0 .. MaxMissed /\ lost' \in Nat
  BY <1>1, <1>3 DEF TopsUp
<1>6. UNCHANGED <<n, reserve, credit, records, entries, stream, renewal, cancelled>> /\ pc = "topup" /\ pc' = "settle"
  BY DEF SettleTopUp
<1>7. Types' BY <1>4, <1>5, <1>6 DEF IInv, Types, TypeOK, PC, StoreState
<1>8. Balance' BY <1>6, SameAccount DEF IInv, Balance
<1>9. Position' BY <1>4, <1>6 DEF IInv, Position, Settling
<1>10. store.state \notin {"committed", "refunded"} BY <1>6 DEF IInv, Paid
<1>11. store'.state \in {store.state, "open"} BY <1>3 DEF TopsUp
<1>12. store'.state = "open" /\ settlement'.commit => settlement'.short \/ settlement'.actual <= store'.held
  <2> SUFFICES ASSUME store'.state = "open", settlement'.commit, ~settlement'.short
               PROVE  settlement'.actual <= store'.held
    OBVIOUS
  <2>1. TopsUp(delta, 0) BY <1>4
  <2>2. store.state = "open" /\ store'.held = store.held + delta
    BY <1>1, <1>2, <2>1 DEF TopsUp, StoreState
  <2>3. store.held = reserve + lost BY <1>6, <2>2 DEF IInv, Balance
  <2> QED BY <1>1, <1>2, <1>4, <2>2, <2>3
<1>13. Paid' BY <1>4, <1>6, <1>10, <1>11, <1>12, SameAccount DEF IInv, Paid
<1> QED BY <1>7, <1>8, <1>9, <1>13 DEF IInv

LEMMA SettleStoreKeeps == ASSUME IInv, SettleStore PROVE IInv'
<1>1. settlement \in [exec : BOOLEAN, actual : Nat, commit : BOOLEAN, short : BOOLEAN] /\ store \in StoreState
  BY DEF IInv, Types, StoreState
<1>2. /\ store' \in StoreState
      /\ \/ store' = store
         \/ /\ store.state = "open" /\ store'.held = store.held
            /\ \/ settlement.commit /\ store'.state = "committed" /\ store'.charged = settlement.actual
               \/ ~settlement.commit /\ store'.state = "refunded"
  BY <1>1 DEF SettleStore, StoreState
<1>3. pc = "settle" /\ pc' = "done" /\ UNCHANGED <<n, reserve, credit, records, entries, stream, renewal,
                                                  cancelled, missed, settlement, lost>>
  BY DEF SettleStore
<1>4. Types' BY <1>2, <1>3 DEF IInv, Types, TypeOK, PC, StoreState
<1>5. Balance' BY <1>3, SameAccount DEF IInv, Balance
<1>6. Position' BY <1>3 DEF IInv, Position, Settling
<1>7. store.state \notin {"committed", "refunded"} BY <1>3 DEF IInv, Paid
<1>8. Paid' BY <1>2, <1>3, <1>7, SameAccount DEF IInv, Paid
<1> QED BY <1>4, <1>5, <1>6, <1>8 DEF IInv

\* A completion touches one entry, and the first one is final.
LEMMA Completion ==
  ASSUME Types, NEW i \in DOMAIN records, NEW u \in Nat, entries' = Completed(i, u), records' = records
  PROVE  /\ DOMAIN entries' = DOMAIN entries /\ Reconciled' = Reconciled
         /\ \A j \in DOMAIN entries : /\ entries'[j].charge \in Nat /\ entries'[j].final \in BOOLEAN
                                      /\ j # i => entries'[j] = entries[j]
                                      /\ u = 0 => entries'[j].charge = entries[j].charge
         /\ i \in DOMAIN entries => entries'[i].final /\ (entries[i].final => entries' = entries)
         /\ i \in DOMAIN entries /\ ~entries[i].final /\ u > 0 => entries'[i].charge = u
         /\ SumFunctionOnSet(Charge, Reconciled)' = SumFunctionOnSet(Charge, Reconciled)
         /\ SumFunction(records)' = SumFunction(records)
         /\ Total' \in Nat
<1>1. \A j \in DOMAIN entries : entries[j].charge \in Nat /\ entries[j].final \in BOOLEAN
  BY DEF Types, TypeOK
<1>2. CASE ~(i \in DOMAIN entries /\ ~entries[i].final)
  <2>1. entries' = entries BY <1>2 DEF Completed
  <2>2. Reconciled' = Reconciled BY <2>1 DEF Reconciled
  <2> QED BY <1>1, <1>2, <2>1, <2>2, AccountSums, SameAccount
<1>3. CASE i \in DOMAIN entries /\ ~entries[i].final
  <2> DEFINE c == IF u = 0 THEN entries[i].charge ELSE u
  <2>1. entries' = [entries EXCEPT ![i] = [charge |-> c, final |-> TRUE]] BY <1>3 DEF Completed
  <2>2. c \in Nat BY <1>1, <1>3
  <2>3. /\ DOMAIN entries' = DOMAIN entries /\ entries'[i] = [charge |-> c, final |-> TRUE]
        /\ \A j \in DOMAIN entries : j # i => entries'[j] = entries[j]
    BY <1>3, <2>1
  <2>4. \A j \in DOMAIN entries : /\ entries'[j].charge \in Nat /\ entries'[j].final \in BOOLEAN
                                  /\ u = 0 => entries'[j].charge = entries[j].charge
    <3> SUFFICES ASSUME NEW j \in DOMAIN entries
                 PROVE  /\ entries'[j].charge \in Nat /\ entries'[j].final \in BOOLEAN
                        /\ u = 0 => entries'[j].charge = entries[j].charge
      OBVIOUS
    <3>1. CASE j = i
      <4>1. entries'[i].charge = c /\ entries'[i].final = TRUE BY <2>3
      <4> QED BY <2>2, <3>1, <4>1
    <3>2. CASE j # i BY <1>1, <2>3, <3>2
    <3> QED BY <3>1, <3>2
  <2>5. Reconciled' = Reconciled /\ Reconciled \subseteq DOMAIN entries /\ i \notin Reconciled
    BY <2>3 DEF Reconciled
  <2>6. DOMAIN Charge' = DOMAIN entries /\ \A j \in DOMAIN entries : Charge'[j] = entries'[j].charge
    BY <2>3 DEF Charge
  <2>7. SumFunctionOnSet(Charge, Reconciled) = SumFunctionOnSet(Charge', Reconciled)
    <3>1. \A j \in Reconciled : Charge[j] \in Nat /\ Charge[j] = Charge'[j]
      BY <1>1, <2>3, <2>5, <2>6, AccountSums
    <3> QED BY <3>1, AccountSums, SumSame
  <2>8. Total' \in Nat
    <3>1. \A j \in DOMAIN entries : Charge'[j] \in Nat BY <2>4, <2>6
    <3>2. SumFunctionOnSet(Charge', DOMAIN entries) \in Nat BY <3>1, AccountSums, SumSame
    <3> QED BY <2>6, <3>2 DEF Total, SumFunction
  <2> QED BY <1>3, <2>3, <2>4, <2>5, <2>7, <2>8
<1> QED BY <1>2, <1>3

LEMMA SettleExecutionKeeps ==
  ASSUME IInv, NEW u \in Reports, NEW callErr \in BOOLEAN, SettleExecution(u, callErr) PROVE IInv'
<1> DEFINE settled == IF Total' > 0 THEN Total' ELSE u
<1>1. u \in Nat BY QuotaAccountAssumption
<1>2. /\ pc = "stopping" /\ pc' = "topup" /\ settlement.exec /\ entries' = Completed(n, u)
      /\ UNCHANGED <<n, reserve, credit, records, stream, renewal, cancelled, missed, store, lost>>
  BY DEF SettleExecution
<1>3. n \in DOMAIN records /\ n \in DOMAIN entries BY <1>2 DEF IInv, Position
<1>4. /\ DOMAIN entries' = DOMAIN entries /\ Reconciled' = Reconciled
      /\ \A j \in DOMAIN entries : /\ entries'[j].charge \in Nat /\ entries'[j].final \in BOOLEAN
                                   /\ j # n => entries'[j] = entries[j]
      /\ entries'[n].final
      /\ SumFunctionOnSet(Charge, Reconciled)' = SumFunctionOnSet(Charge, Reconciled)
      /\ SumFunction(records)' = SumFunction(records)
      /\ Total' \in Nat
  BY <1>1, <1>2, <1>3, Completion DEF IInv
<1>5. /\ settlement' \in [exec : BOOLEAN, actual : Nat, commit : BOOLEAN, short : BOOLEAN]
      /\ settlement'.exec /\ settlement'.actual = settled
      /\ ~settlement'.commit => settled = 0
  <2>1. Total' = SumFunction([i \in DOMAIN entries' |-> entries'[i].charge]) BY DEF Total, Charge
  <2>2. PICK b \in BOOLEAN : b <=> (~callErr \/ stream # "none" \/ settled > 0) OBVIOUS
  <2>3. settlement' = [settlement EXCEPT !.actual = settled, !.commit = b]
    BY <2>1, <2>2 DEF SettleExecution
  <2>4. settled \in Nat BY <1>1, <1>4
  <2> HIDE DEF settled
  <2>5. settlement \in [exec : BOOLEAN, actual : Nat, commit : BOOLEAN, short : BOOLEAN]
    BY DEF IInv, Types
  <2>6. /\ settlement' \in [exec : BOOLEAN, actual : Nat, commit : BOOLEAN, short : BOOLEAN]
        /\ settlement'.exec = settlement.exec /\ settlement'.actual = settled /\ settlement'.commit = b
    BY <2>3, <2>4, <2>5
  <2> QED BY <1>2, <2>2, <2>4, <2>6
<1>6. Types' BY <1>2, <1>4, <1>5 DEF IInv, Types, TypeOK, PC
<1>7. Balance' BY <1>2, <1>4 DEF IInv, Balance
<1>8. Position' BY <1>2, <1>3, <1>4, <1>5 DEF IInv, Position, Settling
<1>9. store.state \notin {"committed", "refunded"} BY <1>2 DEF IInv, Paid
<1>10. \A i \in DOMAIN entries' : i \in DOMAIN records' /\ i < n' => entries'[i].charge <= records'[i]
  <2>1. n \in Int BY DEF IInv, Types, TypeOK, Attempt
  <2>2. \A i \in DOMAIN entries : i < n => i # n BY <2>1
  <2> QED BY <1>2, <1>4, <2>2 DEF IInv, Paid
<1>11. Paid' BY <1>2, <1>4, <1>5, <1>9, <1>10 DEF Paid
<1> QED BY <1>6, <1>7, <1>8, <1>11 DEF IInv

LEMMA StreamCompletesKeeps == ASSUME IInv, NEW u \in Reports, StreamCompletes(u) PROVE IInv'
<1>1. u \in Nat BY QuotaAccountAssumption
<1>2. /\ stream = "open" /\ stream' = "ended" /\ entries' = Completed(n, u)
      /\ UNCHANGED <<pc, n, reserve, credit, records, renewal, cancelled, missed, settlement, store, lost>>
  BY DEF StreamCompletes
<1>3. /\ n \in DOMAIN records /\ n \in DOMAIN entries /\ (pc = "returned" \/ settlement.exec)
      /\ pc \notin {"start", "calling"}
      /\ pc \in {"topup", "settle", "done"} => entries[n].final
  BY <1>2 DEF IInv, Position, Settling
<1>4. /\ DOMAIN entries' = DOMAIN entries /\ Reconciled' = Reconciled
      /\ \A j \in DOMAIN entries : /\ entries'[j].charge \in Nat /\ entries'[j].final \in BOOLEAN
                                   /\ j # n => entries'[j] = entries[j]
      /\ entries'[n].final /\ (entries[n].final => entries' = entries)
      /\ SumFunctionOnSet(Charge, Reconciled)' = SumFunctionOnSet(Charge, Reconciled)
      /\ SumFunction(records)' = SumFunction(records)
  BY <1>1, <1>2, <1>3, Completion DEF IInv
<1>5. Types' BY <1>2, <1>4 DEF IInv, Types, TypeOK
<1>6. Balance' BY <1>2, <1>4 DEF IInv, Balance
<1>7. Position' BY <1>2, <1>3, <1>4 DEF IInv, Position, Settling
<1>8. \A i \in DOMAIN entries' : i \in DOMAIN records' /\ i < n' => entries'[i].charge <= records'[i]
  <2>1. n \in Int BY DEF IInv, Types, TypeOK, Attempt
  <2>2. \A i \in DOMAIN entries : i < n => i # n BY <2>1
  <2> QED BY <1>2, <1>4, <2>2 DEF IInv, Paid
<1>9. pc \in {"topup", "settle", "done"} => Total' = Total BY <1>2, <1>3, <1>4, SameAccount
<1>10. Paid' BY <1>2, <1>8, <1>9 DEF IInv, Paid
<1> QED BY <1>5, <1>6, <1>7, <1>10 DEF IInv

\* While an attempt is under way nothing of the settlement has happened.
LEMMA Underway ==
  ASSUME IInv, pc \in {"dispatch", "reserved", "calling"}
  PROVE  ~settlement.exec /\ stream = "none" /\ store.state \notin {"committed", "refunded"}
BY DEF IInv, Position, Paid, Settling

LEMMA ProviderReturnsKeeps == ASSUME IInv, NEW u \in Reports, ProviderReturns(u) PROVE IInv'
<1>1. u \in Nat BY QuotaAccountAssumption
<1>2. /\ pc = "calling" /\ pc' = "returned" /\ stream' \in {stream, "open"}
      /\ entries' = entries \/ entries' = Completed(n, u)
      /\ UNCHANGED <<n, reserve, credit, records, renewal, cancelled, missed, settlement, store, lost>>
  BY DEF ProviderReturns
<1>3. n \in DOMAIN records /\ n \in DOMAIN entries BY <1>2 DEF IInv, Position
<1>4. /\ DOMAIN entries' = DOMAIN entries /\ Reconciled' = Reconciled
      /\ \A j \in DOMAIN entries : /\ entries'[j].charge \in Nat /\ entries'[j].final \in BOOLEAN
                                   /\ j # n => entries'[j] = entries[j]
      /\ SumFunctionOnSet(Charge, Reconciled)' = SumFunctionOnSet(Charge, Reconciled)
      /\ SumFunction(records)' = SumFunction(records)
  <2>1. CASE entries' = Completed(n, u) BY <1>1, <1>2, <1>3, <2>1, Completion DEF IInv
  <2>2. CASE entries' = entries BY <1>2, <2>2, SameAccount DEF IInv, Types, TypeOK
  <2> QED BY <1>2, <2>1, <2>2
<1>5. ~settlement.exec /\ store.state \notin {"committed", "refunded"} BY <1>2, Underway
<1>6. Types' BY <1>2, <1>4 DEF IInv, Types, TypeOK, PC
<1>7. Balance' BY <1>2, <1>4 DEF IInv, Balance
<1>8. Position' BY <1>2, <1>3, <1>4, <1>5 DEF IInv, Position
<1>9. \A i \in DOMAIN entries' : i \in DOMAIN records' /\ i < n' => entries'[i].charge <= records'[i]
  <2>1. n \in Int BY DEF IInv, Types, TypeOK, Attempt
  <2>2. \A i \in DOMAIN entries : i < n => i # n BY <2>1
  <2> QED BY <1>2, <1>4, <2>2 DEF IInv, Paid
<1>10. Paid' BY <1>2, <1>5, <1>9 DEF Paid
<1> QED BY <1>6, <1>7, <1>8, <1>10 DEF IInv

LEMMA ProviderFailsKeeps == ASSUME IInv, ProviderFails PROVE IInv'
<1>2. /\ pc = "calling" /\ entries' = Completed(n, 0) /\ NextAttemptOr(TRUE)
      /\ UNCHANGED <<reserve, credit, records, stream, renewal, cancelled, missed, settlement, store, lost>>
  BY DEF ProviderFails
<1>3. n \in DOMAIN records /\ n \in DOMAIN entries /\ entries[n] = [charge |-> records[n], final |-> FALSE]
  BY <1>2 DEF IInv, Position
<1>4. /\ DOMAIN entries' = DOMAIN entries /\ Reconciled' = Reconciled
      /\ \A j \in DOMAIN entries : /\ entries'[j].charge \in Nat /\ entries'[j].final \in BOOLEAN
                                   /\ entries'[j].charge = entries[j].charge
      /\ SumFunctionOnSet(Charge, Reconciled)' = SumFunctionOnSet(Charge, Reconciled)
      /\ SumFunction(records)' = SumFunction(records)
  BY <1>2, <1>3, Completion DEF IInv
<1>5. ~settlement.exec /\ stream = "none" /\ store.state \notin {"committed", "refunded"} BY <1>2, Underway
<1>6. /\ n' \in Attempt /\ n <= n' /\ pc' \in {"dispatch", "failed"}
      /\ DOMAIN records' \subseteq 1 .. n' /\ DOMAIN entries' \subseteq 1 .. n'
      /\ pc' = "dispatch" => n' \notin DOMAIN records' /\ n' \notin DOMAIN entries'
  BY <1>2, <1>4, NextAttempt DEF IInv
<1>7. Types' BY <1>2, <1>4, <1>6 DEF IInv, Types, TypeOK, PC
<1>8. Balance' BY <1>2, <1>4 DEF IInv, Balance
<1>9. Position' BY <1>2, <1>5, <1>6 DEF Position
<1>10. \A i \in DOMAIN entries' : i \in DOMAIN records' => entries'[i].charge <= records'[i]
  <2> SUFFICES ASSUME NEW i \in DOMAIN entries, i \in DOMAIN records PROVE entries[i].charge <= records[i]
    BY <1>2, <1>4
  <2>1. i \in 1 .. n /\ n \in Int /\ records[i] \in Nat BY DEF IInv, Types, TypeOK, Attempt
  <2>2. CASE i = n
    <3>1. entries[n].charge = records[n] BY <1>3
    <3> QED BY <2>1, <2>2, <3>1
  <2>3. CASE i # n
    <3>1. i < n BY <2>1, <2>3
    <3> QED BY <3>1 DEF IInv, Paid
  <2> QED BY <2>2, <2>3
<1>11. Paid' BY <1>2, <1>5, <1>6, <1>10 DEF Paid
<1> QED BY <1>7, <1>8, <1>9, <1>11 DEF IInv

LEMMA CallProviderKeeps == ASSUME IInv, CallProvider PROVE IInv'
<1> DEFINE e == [charge |-> records[n], final |-> FALSE]
<1>1. /\ pc = "reserved" /\ pc' = "calling" /\ entries' = With(entries, n, e)
      /\ UNCHANGED <<n, reserve, credit, records, stream, renewal, cancelled, settlement, store, missed, lost>>
  BY DEF CallProvider
<1>2. n \in DOMAIN records /\ n \notin DOMAIN entries /\ records[n] \in Nat /\ n \in Int
  BY <1>1 DEF IInv, Position, Types, TypeOK, Attempt
<1>3. /\ DOMAIN entries' = DOMAIN entries \cup {n} /\ entries'[n] = e
      /\ \A j \in DOMAIN entries : entries'[j] = entries[j]
  BY <1>1, <1>2 DEF With
<1>4. e.charge = records[n] /\ e.final = FALSE OBVIOUS
<1>5. \A j \in DOMAIN entries' : entries'[j].charge \in Nat /\ entries'[j].final \in BOOLEAN
  <2> SUFFICES ASSUME NEW j \in DOMAIN entries'
               PROVE  entries'[j].charge \in Nat /\ entries'[j].final \in BOOLEAN
    OBVIOUS
  <2>1. CASE j = n BY <1>2, <1>3, <1>4, <2>1
  <2>2. CASE j # n BY <1>3, <2>2 DEF IInv, Types, TypeOK
  <2> QED BY <2>1, <2>2
<1>6. Reconciled' = Reconciled BY <1>1, <1>2, <1>3 DEF Reconciled
<1>7. SumFunctionOnSet(Charge', Reconciled) = SumFunctionOnSet(Charge, Reconciled)
  <2>1. \A j \in Reconciled : Charge[j] \in Nat /\ Charge[j] = Charge'[j]
    <3> SUFFICES ASSUME NEW j \in Reconciled PROVE Charge[j] \in Nat /\ Charge[j] = Charge'[j] OBVIOUS
    <3>1. j \in DOMAIN entries /\ j \in DOMAIN entries' BY <1>3 DEF Reconciled
    <3>2. Charge[j] = entries[j].charge /\ Charge[j] \in Nat BY <3>1, AccountSums DEF IInv
    <3>3. Charge'[j] = entries'[j].charge BY <3>1 DEF Charge
    <3> QED BY <1>3, <3>1, <3>2, <3>3
  <2> QED BY <2>1, AccountSums, SumSame DEF IInv
<1>8. ~settlement.exec /\ stream = "none" /\ store.state \notin {"committed", "refunded"} BY <1>1, Underway
<1>9. Types'
  <2>1. n \in 1 .. n BY <1>2 DEF IInv, Types, TypeOK, Attempt
  <2>2. DOMAIN entries' \subseteq 1 .. n' BY <1>1, <1>3, <2>1 DEF IInv, Types, TypeOK
  <2> QED BY <1>1, <1>5, <2>2 DEF IInv, Types, TypeOK, PC
<1>10. Balance' BY <1>1, <1>6, <1>7 DEF IInv, Balance
<1>11. Position' BY <1>1, <1>2, <1>3, <1>8 DEF Position
<1>12. \A i \in DOMAIN entries' : i \in DOMAIN records' /\ i < n' => entries'[i].charge <= records'[i]
  <2> SUFFICES ASSUME NEW i \in DOMAIN entries', i \in DOMAIN records, i < n
               PROVE  entries'[i].charge <= records[i]
    BY <1>1
  <2>1. i # n BY <1>2
  <2> QED BY <1>3, <2>1 DEF IInv, Paid
<1>13. Paid' BY <1>1, <1>8, <1>12 DEF Paid
<1> QED BY <1>9, <1>10, <1>11, <1>13 DEF IInv

\* What a released attempt had reserved becomes credit.
LEMMA ReleaseKeeps ==
  ASSUME IInv, pc \in {"reserved", "calling"}, Released, NextAttemptOr(TRUE),
         DOMAIN entries' = DOMAIN entries \ {n}, \A j \in DOMAIN entries' : entries'[j] = entries[j],
         UNCHANGED <<reserve, stream, renewal, cancelled, settlement, store, missed, lost>>
  PROVE  IInv'
<1>1. n \in DOMAIN records /\ records[n] \in Nat /\ credit \in Nat
  BY DEF IInv, Position, Types, TypeOK
<1>2. records' = Without(records, n) /\ credit' = credit + records[n] BY <1>1 DEF Released
<1>3. DOMAIN records' = DOMAIN records \ {n} /\ \A j \in DOMAIN records' : records'[j] = records[j]
  BY <1>2 DEF Without
<1>4. /\ SumFunction(records) = SumFunction(records') + records[n]
      /\ SumFunction(records) \in Nat /\ SumFunction(records') \in Nat
  <2>1. \A j \in DOMAIN records : records[j] \in Nat BY DEF IInv, Types, TypeOK
  <2> QED BY <1>1, <1>2, <2>1, AccountSums, SumWithout DEF IInv
<1>5. Reconciled' = Reconciled BY <1>1, <1>3 DEF Reconciled
<1>6. SumFunctionOnSet(Charge', Reconciled) = SumFunctionOnSet(Charge, Reconciled)
  <2>1. \A j \in Reconciled : Charge[j] \in Nat /\ Charge[j] = Charge'[j]
    <3> SUFFICES ASSUME NEW j \in Reconciled PROVE Charge[j] \in Nat /\ Charge[j] = Charge'[j] OBVIOUS
    <3>1. j \in DOMAIN entries /\ j \in DOMAIN entries' BY <1>1 DEF Reconciled
    <3>2. Charge[j] = entries[j].charge /\ Charge[j] \in Nat BY <3>1, AccountSums DEF IInv
    <3>3. Charge'[j] = entries'[j].charge BY <3>1 DEF Charge
    <3> QED BY <3>1, <3>2, <3>3
  <2> QED BY <2>1, AccountSums, SumSame DEF IInv
<1>7. ~settlement.exec /\ stream = "none" /\ store.state \notin {"committed", "refunded"} BY Underway
<1>8. /\ n' \in Attempt /\ n <= n' /\ pc' \in {"dispatch", "failed"}
      /\ DOMAIN records' \subseteq 1 .. n' /\ DOMAIN entries' \subseteq 1 .. n'
      /\ pc' = "dispatch" => n' \notin DOMAIN records' /\ n' \notin DOMAIN entries'
  BY <1>3, NextAttempt DEF IInv
<1>9. Types'
  <2>1. credit' \in Nat BY <1>1, <1>2
  <2>2. /\ \A j \in DOMAIN records' : records'[j] \in Nat
        /\ \A j \in DOMAIN entries' : entries'[j].charge \in Nat /\ entries'[j].final \in BOOLEAN
    BY <1>3 DEF IInv, Types, TypeOK
  <2> QED BY <1>8, <2>1, <2>2 DEF IInv, Types, TypeOK, PC
<1>10. Balance'
  <2>1. SumFunctionOnSet(Charge, Reconciled) \in Nat BY AccountSums DEF IInv
  <2>2. reserve = credit + SumFunction(records) + SumFunctionOnSet(Charge, Reconciled) BY DEF IInv, Balance
  <2>3. reserve' = credit' + SumFunction(records') + SumFunctionOnSet(Charge', Reconciled')
    BY <1>1, <1>2, <1>4, <1>5, <1>6, <2>1, <2>2
  <2> QED BY <1>8, <2>3 DEF IInv, Balance
<1>11. Position' BY <1>7, <1>8 DEF Position
<1>12. \A i \in DOMAIN entries' : i \in DOMAIN records' => entries'[i].charge <= records'[i]
  <2> SUFFICES ASSUME NEW i \in DOMAIN entries', i \in DOMAIN records' PROVE entries[i].charge <= records[i]
    BY <1>3
  <2>1. i \in 1 .. n /\ n \in Int /\ i # n BY <1>3 DEF IInv, Types, TypeOK, Attempt
  <2>2. i < n BY <2>1
  <2> QED BY <1>3, <2>2 DEF IInv, Paid
<1>13. Paid' BY <1>7, <1>8, <1>12 DEF Paid
<1> QED BY <1>9, <1>10, <1>11, <1>13 DEF IInv

LEMMA RefusalKeeps == ASSUME IInv, RatesRefuse \/ ProviderUnbillable PROVE IInv'
<1>1. CASE RatesRefuse
  <2>1. n \notin DOMAIN entries BY <1>1 DEF RatesRefuse, IInv, Position
  <2>2. DOMAIN entries' = DOMAIN entries \ {n} /\ \A j \in DOMAIN entries' : entries'[j] = entries[j]
    BY <1>1, <2>1 DEF RatesRefuse
  <2> QED BY <1>1, <2>2, ReleaseKeeps DEF RatesRefuse
<1>2. CASE ProviderUnbillable
  <2>1. DOMAIN entries' = DOMAIN entries \ {n} /\ \A j \in DOMAIN entries' : entries'[j] = entries[j]
    BY <1>2 DEF ProviderUnbillable, Without
  <2> QED BY <1>2, <2>1, ReleaseKeeps DEF ProviderUnbillable
<1> QED BY <1>1, <1>2

\* A top-up of a request under way: the store's hold follows the reserve.
LEMMA TopUpHolds ==
  ASSUME IInv, pc \in {"dispatch", "calling"}, NEW a \in Nat, NEW l \in Nat, TopsUp(a, l),
         reserve' = reserve + a - l
  PROVE  /\ store'.state = store.state /\ lost' \in Nat
         /\ store'.state \in {"none", "open"} => store'.held = reserve' + lost'
<1>1. store \in StoreState /\ lost \in Nat /\ reserve \in Nat BY DEF IInv, Types, TypeOK, StoreState
<1>2. store.state \in {"none", "open"} => store.held = reserve + lost BY DEF IInv, Balance
<1>3. store'.state = store.state /\ store'.held = store.held + a /\ lost' = lost + l
  BY <1>1 DEF TopsUp, StoreState
<1> QED BY <1>1, <1>2, <1>3

LEMMA ReserveAttemptKeeps == ASSUME IInv, NEW e \in Estimates, ReserveAttempt(e) PROVE IInv'
<1> DEFINE used == IF e < credit THEN e ELSE credit
           applied == e - used
<1>1. e \in Nat /\ credit \in Nat /\ reserve \in Nat /\ n \in Int
  BY QuotaAccountAssumption DEF IInv, Types, TypeOK, Attempt
<1>2. used \in Nat /\ applied \in Nat /\ used + applied = e /\ credit - used \in Nat BY <1>1
<1>3. pc = "dispatch" /\ UNCHANGED <<entries, stream, renewal, cancelled, settlement>> BY DEF ReserveAttempt
<1>4. n \notin DOMAIN entries /\ n \notin DOMAIN records BY <1>3 DEF IInv, Position
<1>5. ~settlement.exec /\ stream = "none" /\ store.state \notin {"committed", "refunded"} BY <1>3, Underway
<1>6. \/ /\ IF applied > 0 THEN TopUpOK(applied) ELSE Quiet
         /\ credit' = credit - used /\ records' = With(records, n, e)
         /\ reserve' = reserve + applied /\ pc' = "reserved" /\ n' = n
      \/ /\ TopUpFails(applied) \/ TopUpLost(applied)
         /\ \E b \in BOOLEAN : NextAttemptOr(b)
         /\ UNCHANGED <<credit, records, reserve>>
  BY DEF ReserveAttempt
<1> HIDE DEF used, applied
<1>7. CASE /\ IF applied > 0 THEN TopUpOK(applied) ELSE Quiet
           /\ credit' = credit - used /\ records' = With(records, n, e)
           /\ reserve' = reserve + applied /\ pc' = "reserved" /\ n' = n
  <2>1. TopsUp(applied, 0) BY <1>2, <1>7, TopUpOutcomes DEF IInv
  <2>2. reserve' = reserve + applied - 0 BY <1>1, <1>2, <1>7
  <2>3. /\ store'.state = store.state /\ lost' \in Nat
        /\ store'.state \in {"none", "open"} => store'.held = reserve' + lost'
    BY <1>2, <1>3, <2>1, <2>2, TopUpHolds
  <2>4. /\ DOMAIN records' = DOMAIN records \cup {n} /\ records'[n] = e
        /\ \A j \in DOMAIN records : records'[j] = records[j]
    BY <1>4, <1>7 DEF With
  <2>5. Types'
    <3>1. n \in 1 .. n BY DEF IInv, Types, TypeOK, Attempt
    <3>2. DOMAIN records' \subseteq 1 .. n' /\ DOMAIN entries' \subseteq 1 .. n'
      BY <1>3, <1>7, <2>4, <3>1 DEF IInv, Types, TypeOK
    <3>3. \A j \in DOMAIN records' : records'[j] \in Nat BY <1>1, <2>4 DEF IInv, Types, TypeOK
    <3>4. store' \in StoreState /\ missed' \in 0 .. MaxMissed BY <2>1 DEF TopsUp
    <3>5. reserve' \in Nat /\ credit' \in Nat BY <1>1, <1>2, <1>7
    <3> QED BY <1>3, <1>7, <2>3, <3>2, <3>3, <3>4, <3>5 DEF IInv, Types, TypeOK, PC, StoreState
  <2>6. SumFunction(records') = SumFunction(records) + e /\ SumFunction(records) \in Nat
    <3>1. \A j \in DOMAIN records : records[j] \in Nat BY DEF IInv, Types, TypeOK
    <3> QED BY <1>1, <1>4, <1>7, <3>1, AccountSums, SumWith DEF IInv
  <2>7. Reconciled' = Reconciled BY <1>3, <1>4, <2>4 DEF Reconciled
  <2>8. Charge' = Charge BY <1>3 DEF Charge
  <2>9. Balance'
    <3>1. SumFunctionOnSet(Charge, Reconciled) \in Nat BY AccountSums DEF IInv
    <3>2. reserve = credit + SumFunction(records) + SumFunctionOnSet(Charge, Reconciled) BY DEF IInv, Balance
    <3>3. reserve' = credit' + SumFunction(records') + SumFunctionOnSet(Charge', Reconciled')
      BY <1>1, <1>2, <1>7, <2>6, <2>7, <2>8, <3>1, <3>2
    <3> QED BY <2>3, <3>3 DEF Balance
  <2>10. Position' BY <1>3, <1>4, <1>5, <1>7, <2>4 DEF Position
  <2>11. \A i \in DOMAIN entries' : i \in DOMAIN records' /\ i < n' => entries'[i].charge <= records'[i]
    BY <1>3, <1>4, <1>7, <2>4 DEF IInv, Paid
  <2>12. Paid' BY <1>5, <1>7, <2>3, <2>11 DEF Paid
  <2> QED BY <2>5, <2>9, <2>10, <2>12 DEF IInv
<1>8. CASE /\ TopUpFails(applied) \/ TopUpLost(applied)
           /\ \E b \in BOOLEAN : NextAttemptOr(b)
           /\ UNCHANGED <<credit, records, reserve>>
  <2>1. PICK a \in Nat : TopsUp(a, a)
    <3>1. TopUpFails(applied) => TopsUp(0, 0) BY <1>2, TopUpOutcomes DEF IInv
    <3>2. TopUpLost(applied) => TopsUp(applied, applied) BY <1>2, TopUpOutcomes DEF IInv
    <3> QED BY <1>2, <1>8, <3>1, <3>2
  <2>2. reserve' = reserve + a - a BY <1>1, <1>8
  <2>3. /\ store'.state = store.state /\ lost' \in Nat
        /\ store'.state \in {"none", "open"} => store'.held = reserve' + lost'
    BY <1>3, <2>1, <2>2, TopUpHolds
  <2>4. /\ n' \in Attempt /\ n <= n' /\ pc' \in {"dispatch", "failed"}
        /\ DOMAIN records' \subseteq 1 .. n' /\ DOMAIN entries' \subseteq 1 .. n'
        /\ pc' = "dispatch" => n' \notin DOMAIN records' /\ n' \notin DOMAIN entries'
    BY <1>3, <1>8, NextAttempt DEF IInv
  <2>5. store' \in StoreState /\ missed' \in 0 .. MaxMissed BY <2>1 DEF TopsUp
  <2>6. Types' BY <1>3, <1>8, <2>3, <2>4, <2>5 DEF IInv, Types, TypeOK, PC, StoreState
  <2>7. Balance' BY <1>3, <1>8, <2>3, SameAccount DEF IInv, Balance
  <2>8. Position' BY <1>3, <1>5, <2>4 DEF Position
  <2>9. \A i \in DOMAIN entries' : i \in DOMAIN records' => entries'[i].charge <= records'[i]
    <3> SUFFICES ASSUME NEW i \in DOMAIN entries, i \in DOMAIN records PROVE entries[i].charge <= records[i]
      BY <1>3, <1>8
    <3>1. i \in 1 .. n /\ i # n BY <1>4 DEF IInv, Types, TypeOK
    <3>2. i < n BY <1>1, <3>1
    <3> QED BY <3>2 DEF IInv, Paid
  <2>10. Paid' BY <1>5, <2>3, <2>4, <2>9 DEF Paid
  <2> QED BY <2>6, <2>7, <2>8, <2>10 DEF IInv
<1> QED BY <1>6, <1>7, <1>8

\* A failed attempt that reports its usage: its estimate leaves the records, its charge
\* joins the reconciled ones, and the difference goes to the reserve or to the credit.
LEMMA ReconciliationKeeps ==
  ASSUME IInv, NEW u \in Nat, u > 0, pc = "calling", entries' = Completed(n, u),
         TopsUp(Pos(u - records[n]), 0), reserve' = reserve + Pos(u - records[n]),
         records' = Without(records, n), credit' = credit + Pos(records[n] - u), NextAttemptOr(TRUE),
         UNCHANGED <<stream, renewal, cancelled, settlement>>
  PROVE  IInv'
<1> DEFINE r == records[n]
<1>1. /\ n \in DOMAIN records /\ n \in DOMAIN entries /\ entries[n] = [charge |-> r, final |-> FALSE]
      /\ r \in Nat /\ credit \in Nat /\ reserve \in Nat
  BY DEF IInv, Position, Types, TypeOK
<1>2. Pos(u - r) \in Nat /\ Pos(r - u) \in Nat /\ Pos(u - r) = Pos(r - u) + u - r BY <1>1 DEF Pos
<1>3. ~settlement.exec /\ stream = "none" /\ store.state \notin {"committed", "refunded"} BY Underway
<1>4. DOMAIN records' = DOMAIN records \ {n} /\ \A j \in DOMAIN records' : records'[j] = records[j]
  BY DEF Without
<1>5. /\ DOMAIN entries' = DOMAIN entries /\ entries'[n] = [charge |-> u, final |-> TRUE]
      /\ \A j \in DOMAIN entries : j # n => entries'[j] = entries[j]
  <2>1. ~entries[n].final BY <1>1
  <2> DEFINE c == IF u = 0 THEN entries[n].charge ELSE u
  <2>2. c = u OBVIOUS
  <2>3. entries' = [entries EXCEPT ![n] = [charge |-> c, final |-> TRUE]] BY <1>1, <2>1 DEF Completed
  <2> QED BY <1>1, <2>2, <2>3
<1>6. entries'[n].charge = u /\ entries'[n].final = TRUE BY <1>5
<1>7. /\ n' \in Attempt /\ n <= n' /\ pc' \in {"dispatch", "failed"}
      /\ DOMAIN records' \subseteq 1 .. n' /\ DOMAIN entries' \subseteq 1 .. n'
      /\ pc' = "dispatch" => n' \notin DOMAIN records' /\ n' \notin DOMAIN entries'
  BY <1>4, <1>5, NextAttempt DEF IInv
<1>8. /\ store'.state = store.state /\ lost' \in Nat
      /\ store'.state \in {"none", "open"} => store'.held = reserve' + lost'
  <2>1. reserve' = reserve + Pos(u - r) - 0 BY <1>1, <1>2
  <2> QED BY <1>2, <2>1, TopUpHolds
<1>9. Types'
  <2>1. reserve' \in Nat /\ credit' \in Nat BY <1>1, <1>2
  <2>2. \A j \in DOMAIN records' : records'[j] \in Nat BY <1>4 DEF IInv, Types, TypeOK
  <2>3. \A j \in DOMAIN entries' : entries'[j].charge \in Nat /\ entries'[j].final \in BOOLEAN
    <3> SUFFICES ASSUME NEW j \in DOMAIN entries'
                 PROVE  entries'[j].charge \in Nat /\ entries'[j].final \in BOOLEAN
      OBVIOUS
    <3>1. CASE j = n BY <1>6, <3>1
    <3>2. CASE j # n BY <1>5, <3>2 DEF IInv, Types, TypeOK
    <3> QED BY <3>1, <3>2
  <2>4. store' \in StoreState /\ missed' \in 0 .. MaxMissed BY DEF TopsUp
  <2> QED BY <1>7, <1>8, <2>1, <2>2, <2>3, <2>4 DEF IInv, Types, TypeOK, PC, StoreState
<1>10. /\ SumFunction(records) = SumFunction(records') + r
       /\ SumFunction(records) \in Nat /\ SumFunction(records') \in Nat
  <2>1. \A j \in DOMAIN records : records[j] \in Nat BY DEF IInv, Types, TypeOK
  <2> QED BY <1>1, <2>1, AccountSums, SumWithout DEF IInv
<1>11. Reconciled' = Reconciled \cup {n} /\ n \notin Reconciled BY <1>1, <1>4, <1>5 DEF Reconciled
<1>12. /\ SumFunctionOnSet(Charge', Reconciled') = u + SumFunctionOnSet(Charge, Reconciled)
       /\ SumFunctionOnSet(Charge, Reconciled) \in Nat
  <2>1. Charge'[n] = u BY <1>1, <1>5, <1>6 DEF Charge
  <2>2. \A j \in Reconciled : Charge[j] \in Nat /\ Charge[j] = Charge'[j]
    <3> SUFFICES ASSUME NEW j \in Reconciled PROVE Charge[j] \in Nat /\ Charge[j] = Charge'[j] OBVIOUS
    <3>1. j \in DOMAIN entries /\ j \in DOMAIN entries' /\ j # n BY <1>5, <1>11 DEF Reconciled
    <3>2. Charge[j] = entries[j].charge /\ Charge[j] \in Nat BY <3>1, AccountSums DEF IInv
    <3>3. Charge'[j] = entries'[j].charge BY <3>1 DEF Charge
    <3> QED BY <1>5, <3>1, <3>2, <3>3
  <2>3. SumFunctionOnSet(Charge, Reconciled) = SumFunctionOnSet(Charge', Reconciled)
        /\ SumFunctionOnSet(Charge, Reconciled) \in Nat
    BY <2>2, AccountSums, SumSame DEF IInv
  <2>4. IsFiniteSet(Reconciled \cup {n}) BY AccountSums, FS_AddElement DEF IInv
  <2>5. \A j \in Reconciled \cup {n} : Charge'[j] \in Int BY <2>1, <2>2
  <2>6. SumFunctionOnSet(Charge', Reconciled \cup {n}) =
          Charge'[n] + SumFunctionOnSet(Charge', (Reconciled \cup {n}) \ {n})
    BY <2>4, <2>5, SumAdds
  <2>7. (Reconciled \cup {n}) \ {n} = Reconciled BY <1>11
  <2> QED BY <1>11, <2>1, <2>3, <2>6, <2>7
<1>13. Balance'
  <2>1. reserve = credit + SumFunction(records) + SumFunctionOnSet(Charge, Reconciled) BY DEF IInv, Balance
  <2>2. reserve' = credit' + SumFunction(records') + SumFunctionOnSet(Charge', Reconciled')
    BY <1>1, <1>2, <1>10, <1>12, <2>1
  <2> QED BY <1>8, <2>2 DEF Balance
<1>14. Position' BY <1>3, <1>7 DEF Position
<1>15. \A i \in DOMAIN entries' : i \in DOMAIN records' => entries'[i].charge <= records'[i]
  <2> SUFFICES ASSUME NEW i \in DOMAIN entries, i \in DOMAIN records' PROVE entries[i].charge <= records[i]
    BY <1>4, <1>5
  <2>1. i \in 1 .. n /\ n \in Int /\ i # n BY <1>4 DEF IInv, Types, TypeOK, Attempt
  <2>2. i < n BY <2>1
  <2> QED BY <1>4, <2>2 DEF IInv, Paid
<1>16. Paid' BY <1>3, <1>7, <1>8, <1>15 DEF Paid
<1> QED BY <1>9, <1>13, <1>14, <1>16 DEF IInv

LEMMA ProviderFailsWithUsageKeeps ==
  ASSUME IInv, NEW u \in Reports, ProviderFailsWithUsage(u) PROVE IInv'
<1> DEFINE over == Pos(u - records[n])
<1>1. u \in Nat /\ u > 0 /\ pc = "calling" /\ entries' = Completed(n, u)
      /\ UNCHANGED <<stream, renewal, cancelled, settlement>>
  BY QuotaAccountAssumption DEF ProviderFailsWithUsage
<1>2. /\ n \in DOMAIN records /\ n \in DOMAIN entries /\ records[n] \in Nat
      /\ reserve \in Nat /\ n \in Int
  BY <1>1 DEF IInv, Position, Types, TypeOK, Attempt
<1>3. over \in Nat BY <1>1, <1>2 DEF Pos
<1>4. \/ /\ IF over > 0 THEN TopUpOK(over) ELSE Quiet
         /\ reserve' = reserve + over /\ records' = Without(records, n)
         /\ credit' = credit + Pos(records[n] - u) /\ NextAttemptOr(TRUE)
      \/ /\ TopUpFails(over) \/ TopUpLost(over)
         /\ NextAttemptOr(FALSE) /\ UNCHANGED <<reserve, records, credit>>
  BY DEF ProviderFailsWithUsage
<1>5. CASE /\ IF over > 0 THEN TopUpOK(over) ELSE Quiet
           /\ reserve' = reserve + over /\ records' = Without(records, n)
           /\ credit' = credit + Pos(records[n] - u) /\ NextAttemptOr(TRUE)
  <2>1. TopsUp(over, 0) BY <1>3, <1>5, TopUpOutcomes DEF IInv
  <2> QED BY <1>1, <1>5, <2>1, ReconciliationKeeps
<1>6. CASE /\ TopUpFails(over) \/ TopUpLost(over)
           /\ NextAttemptOr(FALSE) /\ UNCHANGED <<reserve, records, credit>>
  <2> HIDE DEF over
  <2>1. PICK a \in Nat : TopsUp(a, a)
    <3>1. TopUpFails(over) => TopsUp(0, 0) BY <1>3, TopUpOutcomes DEF IInv
    <3>2. TopUpLost(over) => TopsUp(over, over) BY <1>3, TopUpOutcomes DEF IInv
    <3> QED BY <1>3, <1>6, <3>1, <3>2
  <2>2. reserve' = reserve + a - a BY <1>2, <1>6
  <2>3. /\ store'.state = store.state /\ lost' \in Nat
        /\ store'.state \in {"none", "open"} => store'.held = reserve' + lost'
    BY <1>1, <2>1, <2>2, TopUpHolds
  <2>4. /\ DOMAIN entries' = DOMAIN entries /\ Reconciled' = Reconciled
        /\ \A j \in DOMAIN entries : /\ entries'[j].charge \in Nat /\ entries'[j].final \in BOOLEAN
                                     /\ j # n => entries'[j] = entries[j]
        /\ SumFunctionOnSet(Charge, Reconciled)' = SumFunctionOnSet(Charge, Reconciled)
        /\ SumFunction(records)' = SumFunction(records)
    BY <1>1, <1>2, <1>6, Completion DEF IInv
  <2>5. pc' = "failed" /\ n' = n BY <1>6 DEF NextAttemptOr
  <2>6. store' \in StoreState /\ missed' \in 0 .. MaxMissed BY <2>1 DEF TopsUp
  <2>7. ~settlement.exec /\ stream = "none" /\ store.state \notin {"committed", "refunded"} BY <1>1, Underway
  <2>8. Types' BY <1>1, <1>6, <2>3, <2>4, <2>5, <2>6 DEF IInv, Types, TypeOK, PC, StoreState
  <2>9. Balance' BY <1>6, <2>3, <2>4 DEF IInv, Balance
  <2>10. Position' BY <1>1, <2>5, <2>7 DEF Position
  <2>11. \A i \in DOMAIN entries' : i \in DOMAIN records' /\ i < n' => entries'[i].charge <= records'[i]
    <3>1. \A i \in DOMAIN entries : i < n => i # n BY <1>2
    <3> QED BY <1>6, <2>4, <2>5, <3>1 DEF IInv, Paid
  <2>12. Paid' BY <2>3, <2>5, <2>7, <2>11 DEF Paid
  <2> QED BY <2>8, <2>9, <2>10, <2>12 DEF IInv
<1> QED BY <1>4, <1>5, <1>6
-----------------------------------------------------------------------------
LEMMA NextKeeps == IInv /\ [Next]_vars => IInv'
<1> SUFFICES ASSUME IInv, [Next]_vars PROVE IInv' OBVIOUS
<1>1. CASE Admit \/ Deny BY <1>1, AdmissionKeeps
<1>2. CASE \E e \in Estimates : ReserveAttempt(e) BY <1>2, ReserveAttemptKeeps
<1>3. CASE RatesRefuse \/ ProviderUnbillable BY <1>3, RefusalKeeps
<1>4. CASE CallProvider BY <1>4, CallProviderKeeps
<1>5. CASE ProviderFails BY <1>5, ProviderFailsKeeps
<1>6. CASE \E u \in Reports : ProviderFailsWithUsage(u) BY <1>6, ProviderFailsWithUsageKeeps
<1>7. CASE \E u \in Reports : ProviderReturns(u) BY <1>7, ProviderReturnsKeeps
<1>8. CASE \E u \in Reports : StreamCompletes(u) BY <1>8, StreamCompletesKeeps
<1>9. CASE RenewStart \/ RenewReturns \/ RenewEnds BY <1>9, RenewalKeeps
<1>10. CASE StopRenewal BY <1>10, StopRenewalKeeps
<1>11. CASE SettleFailure BY <1>11, SettleFailureKeeps
<1>12. CASE \E u \in Reports, callErr \in BOOLEAN : SettleExecution(u, callErr)
  BY <1>12, SettleExecutionKeeps
<1>13. CASE SettleTopUp BY <1>13, SettleTopUpKeeps
<1>14. CASE SettleStore BY <1>14, SettleStoreKeeps
<1>15. CASE Expire BY <1>15, ExpireKeeps
<1>16. CASE UNCHANGED vars BY <1>16, StutterKeeps
<1> QED BY <1>1, <1>2, <1>3, <1>4, <1>5, <1>6, <1>7, <1>8, <1>9, <1>10, <1>11, <1>12, <1>13, <1>14,
           <1>15, <1>16 DEF Next

LEMMA AccountInvariant == Spec => []IInv
BY AccountInit, NextKeeps, PTL DEF Spec

LEMMA InvariantCovers == IInv => WorkIsCovered
<1> SUFFICES ASSUME IInv, pc = "calling" PROVE TotalBefore(n) + records[n] <= reserve BY DEF WorkIsCovered
<1> DEFINE B == {j \in DOMAIN entries : j < n}
           D == DOMAIN records
           C == B \ Reconciled
           E == D \ {n}
<1>1. /\ n \in D /\ n \in DOMAIN entries /\ n \in Int /\ credit \in Nat
      /\ DOMAIN entries \subseteq 1 .. n /\ \A i \in D : records[i] \in Nat
  BY DEF IInv, Position, Types, TypeOK, Attempt
<1>2. /\ IsFiniteSet(D) /\ IsFiniteSet(DOMAIN entries)
      /\ \A i \in DOMAIN entries : Charge[i] = entries[i].charge /\ Charge[i] \in Nat
  BY AccountSums DEF IInv
<1>3. Reconciled \in SUBSET B
  <2> SUFFICES ASSUME NEW i \in Reconciled PROVE i \in B OBVIOUS
  <2>1. i \in DOMAIN entries /\ i # n BY <1>1 DEF Reconciled
  <2>2. i \in 1 .. n BY <1>1, <2>1
  <2> QED BY <1>1, <2>1, <2>2
<1>4. C \in SUBSET E BY <1>1 DEF Reconciled
<1>5. IsFiniteSet(B) /\ IsFiniteSet(C) /\ IsFiniteSet(E)
  <2>1. B \subseteq DOMAIN entries /\ C \subseteq DOMAIN entries /\ E \subseteq D OBVIOUS
  <2> QED BY <1>2, <2>1, FS_Subset
<1>6. SumFunctionOnSet(Charge, B) = SumFunctionOnSet(Charge, Reconciled) + SumFunctionOnSet(Charge, C)
      /\ SumFunctionOnSet(Charge, Reconciled) \in Nat
  <2>1. \A i \in B : Charge[i] \in Nat BY <1>2
  <2> QED BY <1>3, <1>5, <2>1, SumSplits
<1>7. /\ SumFunctionOnSet(Charge, C) <= SumFunctionOnSet(records, C)
      /\ SumFunctionOnSet(Charge, C) \in Nat /\ SumFunctionOnSet(records, C) \in Nat
  <2>1. \A i \in C : Charge[i] \in Nat /\ records[i] \in Nat /\ Charge[i] <= records[i]
    <3> SUFFICES ASSUME NEW i \in C PROVE Charge[i] \in Nat /\ records[i] \in Nat /\ Charge[i] <= records[i]
      OBVIOUS
    <3>1. i \in DOMAIN entries /\ i \in D /\ i < n BY <1>4
    <3>2. entries[i].charge <= records[i] BY <3>1 DEF IInv, Paid
    <3> QED BY <1>1, <1>2, <3>1, <3>2
  <2> HIDE DEF C
  <2> QED BY <1>5, <2>1, SumAtMost
<1>8. SumFunctionOnSet(records, E) = SumFunctionOnSet(records, C) + SumFunctionOnSet(records, E \ C)
      /\ SumFunctionOnSet(records, E) \in Nat /\ SumFunctionOnSet(records, E \ C) \in Nat
  <2>1. \A i \in E : records[i] \in Nat BY <1>1
  <2> HIDE DEF C, E
  <2> QED BY <1>4, <1>5, <2>1, SumSplits
<1>9. SumFunctionOnSet(records, D) = records[n] + SumFunctionOnSet(records, E)
  <2>1. \A i \in D : records[i] \in Int BY <1>1
  <2> QED BY <1>1, <1>2, <2>1, SumAdds
<1>10. reserve = credit + SumFunctionOnSet(records, D) + SumFunctionOnSet(Charge, Reconciled)
  BY DEF IInv, Balance, SumFunction
<1>11. TotalBefore(n) = SumFunctionOnSet(Charge, B) BY DEF TotalBefore
<1>12. records[n] \in Nat BY <1>1
<1> HIDE DEF B, C, D, E
<1> QED BY <1>1, <1>6, <1>7, <1>8, <1>9, <1>10, <1>11, <1>12

\* For every number of attempts and all estimates and reports, the account of a request
\* adds up at every step of policy/quota.go's callbacks, and the store holds what the
\* request knows it reserved plus what top-ups with a lost reply applied.
THEOREM ReserveOfEveryRequestIsHeld == Spec => []ReserveIsHeld
<1>1. IInv => ReserveIsHeld BY DEF IInv, Types, Balance, ReserveIsHeld, Reconciled
<1> QED BY <1>1, AccountInvariant, PTL

\* While a provider works for the request, its reserve covers that attempt's estimate and
\* every charge of the attempts before it, whatever was released, reconciled or retried.
THEOREM ProviderWorkIsCovered == Spec => []WorkIsCovered
BY InvariantCovers, AccountInvariant, PTL

\* settleReserved commits exactly what the attempts used, within the hold unless its last
\* top-up failed, and refunds only a request that used nothing; no stream completion that
\* comes after the settlement changes the total.
THEOREM SettlementChargesUsage == Spec => []SettlesWhatWasUsed
<1>1. IInv => SettlesWhatWasUsed
  <2> SUFFICES ASSUME IInv PROVE SettlesWhatWasUsed OBVIOUS
  <2>1. CASE store.state = "committed" BY <2>1 DEF IInv, Paid, SettlesWhatWasUsed
  <2>2. CASE store.state = "refunded" BY <2>2 DEF IInv, Paid, SettlesWhatWasUsed
  <2>3. CASE store.state \notin {"committed", "refunded"} BY <2>3 DEF SettlesWhatWasUsed
  <2> QED BY <2>1, <2>2, <2>3
<1> QED BY <1>1, AccountInvariant, PTL
===============================================================================
