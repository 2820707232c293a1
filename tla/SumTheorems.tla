----------------------------- MODULE SumTheorems -----------------------------
(***************************************************************************)
(* Sums over finite sets: SumFunctionOnSet takes its elements in an order  *)
(* it chooses, and the proofs need that no order matters.  The library's   *)
(* induction theorems take a predicate as parameter; here a set of sets    *)
(* stands for it.                                                          *)
(***************************************************************************)
EXTENDS Integers, FiniteSets, Functions, FiniteSetTheorems, TLAPS

\* Induction over the subsets of a finite set.
LEMMA SubsetInduction ==
  ASSUME NEW S, IsFiniteSet(S), NEW D,
         \A T \in SUBSET S : (\A U \in SUBSET T : U # T => U \in D) => T \in D
  PROVE  SUBSET S \subseteq D
<1> DEFINE Bad == (SUBSET S) \ D
           R == StrictSubsetOrdering(S)
<1>1. IsWellFoundedOn(R, SUBSET S)
  BY FS_StrictSubsetOrderingWellFounded, FS_FiniteSubsetsOfFinite
<1> SUFFICES ASSUME Bad # {} PROVE FALSE OBVIOUS
<1>2. PICK T \in Bad : \A U \in Bad : ~(<<U, T>> \in R)
  <2>1. Bad \subseteq SUBSET S OBVIOUS
  <2> HIDE DEF R, Bad
  <2> QED BY <1>1, <2>1, WFMin
<1>3. \A U \in SUBSET T : U # T => U \in D BY <1>2 DEF StrictSubsetOrdering
<1>4. T \in Bad BY <1>2
<1>5. T \in SUBSET S /\ T \notin D BY <1>4
<1>6. T \in D BY <1>3, <1>5
<1> QED BY <1>5, <1>6

\* Induction over the naturals.
LEMMA CountingInduction ==
  ASSUME NEW D, 0 \in D, \A k \in Nat : k \in D => k + 1 \in D
  PROVE  Nat \subseteq D
<1> DEFINE Bad == Nat \ D
           R == OpToRel(<, Nat)
<1> SUFFICES ASSUME Bad # {} PROVE FALSE OBVIOUS
<1>1. PICK m \in Bad : \A k \in Bad : ~(<<k, m>> \in R)
  <2>1. Bad \subseteq Nat OBVIOUS
  <2>2. IsWellFoundedOn(R, Nat) BY NatLessThanWellFounded
  <2> HIDE DEF R, Bad
  <2> QED BY <2>1, <2>2, WFMin
<1>2. \A k \in Nat : k < m => k \in D BY <1>1 DEF OpToRel
<1>3. m \in Nat /\ m \notin D BY <1>1
<1>4. m # 0 BY <1>3
<1>5. m - 1 \in Nat /\ m - 1 < m /\ (m - 1) + 1 = m BY <1>3, <1>4
<1>6. m - 1 \in D BY <1>2, <1>5
<1> QED BY <1>3, <1>5, <1>6

\* What a sum chooses first, and what it is built from.
First(s) == CHOOSE x \in s : TRUE
Sums(f, Q, g) == g = [s \in Q |-> IF s = {} THEN 0 ELSE f[First(s)] + g[s \ {First(s)}]]

LEMMA SumIsChosen ==
  ASSUME NEW f, NEW S
  PROVE  SumFunctionOnSet(f, S) = (CHOOSE g : Sums(f, SUBSET S, g))[S]
BY DEF SumFunctionOnSet, FoldFunctionOnSet, MapThenFoldSet, Sums, First

\* There is such a function for the subsets of a finite set: built by their size.
LEMMA SumExists ==
  ASSUME NEW S, IsFiniteSet(S), NEW f
  PROVE  \E g : Sums(f, SUBSET S, g)
<1> DEFINE Q(k) == {s \in SUBSET S : Cardinality(s) <= k}
           D == {k \in Nat : \E g : Sums(f, Q(k), g)}
<1>0. /\ Cardinality(S) \in Nat
      /\ \A s \in SUBSET S : IsFiniteSet(s) /\ Cardinality(s) \in Nat /\ Cardinality(s) <= Cardinality(S)
  BY FS_Subset, FS_CardinalityType
<1>1. \A s \in SUBSET S : s # {} =>
        /\ First(s) \in s /\ s \ {First(s)} \in SUBSET S
        /\ Cardinality(s \ {First(s)}) = Cardinality(s) - 1
  <2> SUFFICES ASSUME NEW s \in SUBSET S, s # {}
               PROVE  /\ First(s) \in s /\ s \ {First(s)} \in SUBSET S
                      /\ Cardinality(s \ {First(s)}) = Cardinality(s) - 1
    OBVIOUS
  <2>1. First(s) \in s BY DEF First
  <2>2. Cardinality(s \ {First(s)}) = Cardinality(s) - 1 BY <1>0, <2>1, FS_RemoveElement
  <2> QED BY <2>1, <2>2
<1>2. 0 \in D
  <2>1. \A s \in Q(0) : s = {} BY <1>0, FS_EmptySet
  <2>2. Sums(f, Q(0), [s \in Q(0) |-> 0]) BY <2>1 DEF Sums
  <2> QED BY <2>2
<1>3. ASSUME NEW k \in Nat, k \in D PROVE k + 1 \in D
  <2>1. PICK g : Sums(f, Q(k), g) BY <1>3
  <2> DEFINE Step(h, s) == IF s = {} THEN 0 ELSE f[First(s)] + h[s \ {First(s)}]
             h == [s \in Q(k + 1) |-> Step(g, s)]
  <2>2. \A s \in Q(k) : s \in Q(k + 1) BY <1>0
  <2>3. \A s \in Q(k) : g[s] = Step(g, s) BY <2>1 DEF Sums
  <2>4. \A s \in Q(k) : h[s] = g[s] BY <2>2, <2>3
  <2>5. \A s \in Q(k + 1) : s # {} => s \ {First(s)} \in Q(k) BY <1>0, <1>1
  <2>6. \A s \in Q(k + 1) : Step(h, s) = Step(g, s)
    <3> HIDE DEF h, Q
    <3>1. \A s \in Q(k + 1) : s # {} => h[s \ {First(s)}] = g[s \ {First(s)}] BY <2>4, <2>5
    <3> QED BY <3>1
  <2>7. h = [s \in Q(k + 1) |-> Step(h, s)] BY <2>6
  <2>8. Sums(f, Q(k + 1), h) BY <2>7 DEF Sums
  <2> HIDE DEF h, Q
  <2>9. \E e : Sums(f, Q(k + 1), e) BY <2>8
  <2> QED BY <2>9
<1>4. Cardinality(S) \in D
  <2> HIDE DEF D
  <2> QED BY <1>0, <1>2, <1>3, CountingInduction
<1>5. Q(Cardinality(S)) = SUBSET S BY <1>0
<1> QED BY <1>4, <1>5

\* A sum takes the first element and goes on with the rest.
LEMMA SumUnfolds ==
  ASSUME NEW S, IsFiniteSet(S), NEW f
  PROVE  SumFunctionOnSet(f, S) =
           IF S = {} THEN 0 ELSE f[First(S)] + SumFunctionOnSet(f, S \ {First(S)})
<1> DEFINE R == S \ {First(S)}
           g == CHOOSE e : Sums(f, SUBSET S, e)
           h == CHOOSE e : Sums(f, SUBSET R, e)
<1>1. IsFiniteSet(R) BY FS_Subset
<1>2. Sums(f, SUBSET S, g) BY SumExists
<1>3. Sums(f, SUBSET R, h) BY <1>1, SumExists
<1>4. SumFunctionOnSet(f, S) = g[S] /\ SumFunctionOnSet(f, R) = h[R] BY SumIsChosen
<1> HIDE DEF g, h
<1>5. \A s \in SUBSET S : g[s] = IF s = {} THEN 0 ELSE f[First(s)] + g[s \ {First(s)}] BY <1>2 DEF Sums
<1>6. \A s \in SUBSET R : h[s] = IF s = {} THEN 0 ELSE f[First(s)] + h[s \ {First(s)}] BY <1>3 DEF Sums
<1> DEFINE D == {s \in SUBSET R : g[s] = h[s]}
<1>7. ASSUME NEW T \in SUBSET R, \A U \in SUBSET T : U # T => U \in D
      PROVE  T \in D
  <2>0. T \in SUBSET S OBVIOUS
  <2>1. CASE T = {} BY <1>5, <1>6, <2>0, <2>1
  <2>2. CASE T # {}
    <3>1. First(T) \in T BY <2>2 DEF First
    <3>2. T \ {First(T)} \in D BY <1>7, <3>1
    <3>3. g[T \ {First(T)}] = h[T \ {First(T)}] BY <3>2
    <3>4. g[T] = h[T] BY <1>5, <1>6, <2>0, <2>2, <3>3
    <3> QED BY <3>4
  <2> QED BY <2>1, <2>2
<1>8. R \in D
  <2> HIDE DEF D, R
  <2>1. SUBSET R \subseteq D BY <1>1, <1>7, SubsetInduction
  <2> QED BY <2>1
<1>9. g[R] = h[R] BY <1>8
<1> QED BY <1>4, <1>5, <1>9

\* Another element adds its value, whatever order the sum is taken in.
LEMMA SumAdds ==
  ASSUME NEW S, IsFiniteSet(S), NEW f, \A i \in S : f[i] \in Int,
         NEW x \in S
  PROVE  /\ SumFunctionOnSet(f, S) = f[x] + SumFunctionOnSet(f, S \ {x})
         /\ SumFunctionOnSet(f, S) \in Int /\ SumFunctionOnSet(f, S \ {x}) \in Int
<1> DEFINE Sum(T) == SumFunctionOnSet(f, T)
           D == {T \in SUBSET S : Sum(T) \in Int /\ \A i \in T : Sum(T) = f[i] + Sum(T \ {i})}
<1>1. ASSUME NEW T \in SUBSET S PROVE IsFiniteSet(T) BY FS_Subset
<1>2. ASSUME NEW T \in SUBSET S, \A U \in SUBSET T : U # T => U \in D
      PROVE  T \in D
  <2>1. CASE T = {}
    <3>1. Sum(T) = 0 BY <1>1, <2>1, SumUnfolds
    <3> QED BY <2>1, <3>1
  <2>2. CASE T # {}
    <3> DEFINE c == First(T)
    <3>1. c \in T BY <2>2 DEF First
    <3>2. Sum(T) = f[c] + Sum(T \ {c}) BY <1>1, <2>2, SumUnfolds
    <3> HIDE DEF c, Sum
    <3>3. T \ {c} \in D BY <1>2, <3>1
    <3>4. Sum(T \ {c}) \in Int /\ f[c] \in Int BY <3>1, <3>3
    <3>5. Sum(T) \in Int BY <3>2, <3>4
    <3>6. ASSUME NEW i \in T, i # c PROVE Sum(T) = f[i] + Sum(T \ {i})
      <4>1. Sum(T \ {c}) = f[i] + Sum((T \ {c}) \ {i}) BY <3>3, <3>6
      <4>2. T \ {i} \in D /\ (T \ {c}) \ {i} \in D BY <1>2, <3>1, <3>6
      <4>3. Sum(T \ {i}) = f[c] + Sum((T \ {i}) \ {c}) BY <3>1, <3>6, <4>2
      <4>4. (T \ {c}) \ {i} = (T \ {i}) \ {c} OBVIOUS
      <4> DEFINE w == Sum((T \ {c}) \ {i})
                 u == f[i]
                 v == f[c]
      <4>5. u \in Int /\ v \in Int /\ w \in Int BY <3>4, <4>2
      <4>6. Sum(T) = v + (u + w) BY <3>2, <4>1
      <4>7. Sum(T \ {i}) = v + w BY <4>3, <4>4
      <4> HIDE DEF u, v, w
      <4>8. Sum(T) = u + Sum(T \ {i}) BY <4>5, <4>6, <4>7
      <4> QED BY <4>8 DEF u
    <3> QED BY <3>2, <3>5, <3>6
  <2> QED BY <2>1, <2>2
<1>3. SUBSET S \subseteq D
  <2> HIDE DEF D
  <2> QED BY <1>2, SubsetInduction
<1>4. S \in D /\ S \ {x} \in D BY <1>3
<1> HIDE DEF Sum
<1>5. /\ Sum(S) = f[x] + Sum(S \ {x}) /\ Sum(S) \in Int /\ Sum(S \ {x}) \in Int BY <1>4
<1> QED BY <1>5 DEF Sum

LEMMA SumEmpty == ASSUME NEW f PROVE SumFunctionOnSet(f, {}) = 0
BY SumUnfolds, FS_EmptySet

\* A sum looks at the values on its set only, and grows with them.
LEMMA SumAtMost ==
  ASSUME NEW S, IsFiniteSet(S), NEW f, NEW g,
         \A i \in S : f[i] \in Nat /\ g[i] \in Nat /\ f[i] <= g[i]
  PROVE  /\ SumFunctionOnSet(f, S) \in Nat /\ SumFunctionOnSet(g, S) \in Nat
         /\ SumFunctionOnSet(f, S) <= SumFunctionOnSet(g, S)
<1> DEFINE F(T) == SumFunctionOnSet(f, T)
           G(T) == SumFunctionOnSet(g, T)
           D == {T \in SUBSET S : F(T) \in Nat /\ G(T) \in Nat /\ F(T) <= G(T)}
<1>1. ASSUME NEW T \in SUBSET S, \A U \in SUBSET T : U # T => U \in D
      PROVE  T \in D
  <2>0. IsFiniteSet(T) BY FS_Subset
  <2>1. CASE T = {}
    <3>1. F(T) = 0 /\ G(T) = 0 BY <2>1, SumEmpty
    <3> QED BY <3>1
  <2>2. CASE T # {}
    <3> DEFINE c == First(T)
    <3>1. c \in T BY <2>2 DEF First
    <3>2. F(T) = f[c] + F(T \ {c}) /\ G(T) = g[c] + G(T \ {c}) BY <2>0, <2>2, SumUnfolds
    <3> HIDE DEF c, F, G
    <3>3. T \ {c} \in D BY <1>1, <3>1
    <3>4. f[c] \in Nat /\ g[c] \in Nat /\ f[c] <= g[c] BY <3>1
    <3>5. F(T) \in Nat /\ G(T) \in Nat /\ F(T) <= G(T) BY <3>2, <3>3, <3>4
    <3> QED BY <3>5
  <2> QED BY <2>1, <2>2
<1>2. SUBSET S \subseteq D
  <2> HIDE DEF D
  <2> QED BY <1>1, SubsetInduction
<1>3. S \in D BY <1>2
<1> QED BY <1>3

LEMMA SumSame ==
  ASSUME NEW S, IsFiniteSet(S), NEW f, NEW g, \A i \in S : f[i] \in Nat /\ f[i] = g[i]
  PROVE  SumFunctionOnSet(f, S) = SumFunctionOnSet(g, S) /\ SumFunctionOnSet(f, S) \in Nat
<1>1. /\ SumFunctionOnSet(f, S) \in Nat /\ SumFunctionOnSet(g, S) \in Nat
      /\ SumFunctionOnSet(f, S) <= SumFunctionOnSet(g, S)
  BY SumAtMost
<1>2. SumFunctionOnSet(g, S) <= SumFunctionOnSet(f, S) BY SumAtMost
<1> QED BY <1>1, <1>2

\* A sum is the sum over a part and over the rest.
LEMMA SumSplits ==
  ASSUME NEW S, IsFiniteSet(S), NEW f, \A i \in S : f[i] \in Nat, NEW A \in SUBSET S
  PROVE  /\ SumFunctionOnSet(f, S) = SumFunctionOnSet(f, A) + SumFunctionOnSet(f, S \ A)
         /\ SumFunctionOnSet(f, S) \in Nat /\ SumFunctionOnSet(f, A) \in Nat
         /\ SumFunctionOnSet(f, S \ A) \in Nat
<1> DEFINE Sum(T) == SumFunctionOnSet(f, T)
           D == {T \in SUBSET A : Sum(S) = Sum(T) + Sum(S \ T)}
<1>0. ASSUME NEW T \in SUBSET S PROVE Sum(T) \in Nat /\ IsFiniteSet(T)
  <2>1. IsFiniteSet(T) BY FS_Subset
  <2> QED BY <2>1, SumSame
<1>1. IsFiniteSet(A) BY <1>0
<1>2. ASSUME NEW T \in SUBSET A, \A U \in SUBSET T : U # T => U \in D
      PROVE  T \in D
  <2>1. CASE T = {}
    <3>1. Sum(T) = 0 /\ Sum(S) \in Nat /\ S \ T = S BY <1>0, <2>1, SumEmpty
    <3> QED BY <3>1
  <2>2. CASE T # {}
    <3> DEFINE c == First(T)
               U == T \ {c}
    <3>1. c \in T BY <2>2 DEF First
    <3>2. Sum(T) = f[c] + Sum(U) BY <1>0, <2>2, SumUnfolds
    <3>3. /\ c \in S \ U /\ U \in SUBSET S /\ S \ U \in SUBSET S /\ S \ T \in SUBSET S
          /\ (S \ U) \ {c} = S \ T
      BY <3>1
    <3>4. Sum(S \ U) = f[c] + Sum((S \ U) \ {c})
      <4> HIDE DEF U
      <4>1. IsFiniteSet(S \ U) /\ \A i \in S \ U : f[i] \in Int BY <1>0, <3>3
      <4> QED BY <3>3, <4>1, SumAdds
    <3>5. U \in D BY <1>2, <3>1
    <3>6. Sum(S) = Sum(U) + Sum(S \ U) BY <3>5
    <3>7. Sum(U) \in Nat /\ Sum(S \ T) \in Nat /\ f[c] \in Nat BY <1>0, <3>1, <3>3
    <3>8. Sum(S \ U) = f[c] + Sum(S \ T) BY <3>3, <3>4
    <3> HIDE DEF Sum, c, U
    <3>9. Sum(S) = Sum(T) + Sum(S \ T) BY <3>2, <3>6, <3>7, <3>8
    <3> QED BY <3>9
  <2> QED BY <2>1, <2>2
<1>3. SUBSET A \subseteq D
  <2> HIDE DEF D
  <2> QED BY <1>1, <1>2, SubsetInduction
<1>4. A \in D BY <1>3
<1>5. S \in SUBSET S /\ S \ A \in SUBSET S OBVIOUS
<1> QED BY <1>0, <1>4, <1>5

\* On A, g is f times c; elsewhere on S it is 0.
Scales(S, A, f, g, c) ==
  /\ \A i \in A : f[i] \in Nat /\ g[i] = f[i] * c
  /\ \A i \in S \ A : g[i] = 0

\* Where a function is another one times a constant, and 0 elsewhere, so is its sum.
LEMMA SumScales ==
  ASSUME NEW S, IsFiniteSet(S), NEW A \in SUBSET S, NEW c \in Nat, NEW f, NEW g, Scales(S, A, f, g, c)
  PROVE  SumFunctionOnSet(g, S) = SumFunctionOnSet(f, A) * c /\ SumFunctionOnSet(f, A) \in Nat
<1> DEFINE F(T) == SumFunctionOnSet(f, T)
           G(T) == SumFunctionOnSet(g, T)
           D == {T \in SUBSET S : F(T \cap A) \in Nat /\ G(T) = F(T \cap A) * c}
<1> USE DEF Scales
<1>1. ASSUME NEW T \in SUBSET S, \A U \in SUBSET T : U # T => U \in D
      PROVE  T \in D
  <2>0. IsFiniteSet(T) /\ IsFiniteSet(T \cap A) BY FS_Subset
  <2>1. CASE T = {}
    <3>1. F(T \cap A) = 0 /\ G(T) = 0 BY <2>1, SumEmpty
    <3>2. 0 * c = 0 OBVIOUS
    <3> QED BY <3>1, <3>2
  <2>2. CASE T # {}
    <3> DEFINE x == First(T)
               U == T \ {x}
    <3>1. x \in T BY <2>2 DEF First
    <3>2. G(T) = g[x] + G(U) BY <2>0, <2>2, SumUnfolds
    <3>3. U \in D BY <1>1, <3>1
    <3>4. CASE x \in A
      <4>1. U \cap A = (T \cap A) \ {x} /\ x \in T \cap A BY <3>1, <3>4
      <4>2. F(T \cap A) = f[x] + F(U \cap A)
        <5> HIDE DEF x, U
        <5>1. \A i \in T \cap A : f[i] \in Int OBVIOUS
        <5> QED BY <2>0, <4>1, <5>1, SumAdds
      <4>3. F(U \cap A) \in Nat /\ G(U) = F(U \cap A) * c BY <3>3
      <4>4. f[x] \in Nat /\ g[x] = f[x] * c BY <3>4
      <4> DEFINE m == f[x]
                 n == F(U \cap A)
      <4>5. m \in Nat /\ n \in Nat BY <4>3, <4>4
      <4>6. G(T) = m * c + n * c /\ F(T \cap A) = m + n BY <3>2, <4>2, <4>3, <4>4
      <4> HIDE DEF m, n, F, G
      <4>7. m * c + n * c = (m + n) * c BY <4>5
      <4>8. F(T \cap A) \in Nat /\ G(T) = F(T \cap A) * c BY <4>5, <4>6, <4>7
      <4> QED BY <4>8
    <3>5. CASE x \notin A
      <4>1. U \cap A = T \cap A BY <3>5
      <4>2. g[x] = 0 BY <3>1, <3>5
      <4>3. F(T \cap A) \in Nat /\ G(U) = F(T \cap A) * c BY <3>3, <4>1
      <4> HIDE DEF x, U, F, G
      <4>4. F(T \cap A) * c \in Int BY <4>3
      <4>5. G(T) = F(T \cap A) * c BY <3>2, <4>2, <4>3, <4>4
      <4> QED BY <4>3, <4>5
    <3> QED BY <3>4, <3>5
  <2> QED BY <2>1, <2>2
<1>2. SUBSET S \subseteq D
  <2> HIDE DEF D
  <2> QED BY <1>1, SubsetInduction
<1>3. S \in D /\ S \cap A = A BY <1>2
<1> QED BY <1>3
=============================================================================
