--------------------------- MODULE UpstreamProofs ---------------------------
(***************************************************************************)
(* What every policy's proofs share: sums of functions over finite sets,   *)
(* and the invariants of the servers that the connects, the closes and     *)
(* the health checker keep, whatever selection runs beside them.           *)
(***************************************************************************)
EXTENDS HealthCheck, FiniteSetTheorems, TLAPS

-----------------------------------------------------------------------------
(* Sums *)

\* The recursive function inside SumFunctionOnSet, and the equation it is chosen
\* to satisfy.
First(T) == CHOOSE x \in T : TRUE
Step(f, T, g) == IF T = {} THEN 0 ELSE f[First(T)] + g[T \ {First(T)}]
Rec(f, S, g) == g = [T \in SUBSET S |-> Step(f, T, g)]
Iter(f, S) == CHOOSE g : Rec(f, S, g)

\* The element a sum takes next is one of those left.
LEMMA FirstIn == ASSUME NEW T, T # {} PROVE First(T) \in T
BY DEF First

\* SumFunctionOnSet is the iteration named here.
LEMMA SumIter == ASSUME NEW f, NEW S PROVE SumFunctionOnSet(f, S) = Iter(f, S)[S]
BY DEF SumFunctionOnSet, FoldFunctionOnSet, MapThenFoldSet, Iter, Rec, Step, First

\* Every nonempty set of subsets of a finite set has a minimal member.
LEMMA MinimalSubset ==
    ASSUME NEW S, IsFiniteSet(S), NEW Bad, Bad \subseteq SUBSET S, Bad # {}
    PROVE  \E T \in Bad : \A U \in Bad : U \subseteq T => U = T
<1> DEFINE R == StrictSubsetOrdering(S)
<1>1. IsWellFoundedOn(R, SUBSET S)
  BY FS_FiniteSubsetsOfFinite, FS_StrictSubsetOrderingWellFounded, Zenon
<1>2. \E T \in Bad : \A U \in Bad : ~(<<U, T>> \in R)
  <2> HIDE DEF R
  <2> QED BY <1>1, WFMin
<1> QED BY <1>2 DEF StrictSubsetOrdering

\* Two solutions of the recursion agree on the finite sets where both are defined.
LEMMA RecUnique ==
    ASSUME NEW f, NEW S, NEW T, NEW g, NEW h, Rec(f, S, g), Rec(f, T, h),
           NEW V, V \subseteq S, V \subseteq T, IsFiniteSet(V)
    PROVE  g[V] = h[V]
<1> DEFINE Bad == {U \in SUBSET V : g[U] # h[U]}
<1>1. SUFFICES Bad = {} OBVIOUS
<1>2. SUFFICES ASSUME Bad # {} PROVE FALSE OBVIOUS
<1>3. PICK U \in Bad : \A X \in Bad : X \subseteq U => X = U
  <2>1. Bad \subseteq SUBSET V OBVIOUS
  <2> HIDE DEF Bad
  <2> QED BY <1>2, <2>1, MinimalSubset
<1>4. U \in SUBSET S /\ U \in SUBSET T OBVIOUS
<1>5. g[U] = Step(f, U, g) /\ h[U] = Step(f, U, h)
  BY <1>4 DEF Rec
<1>6. CASE U = {}
  BY <1>5, <1>6 DEF Step
<1>7. CASE U # {}
  <2>1. First(U) \in U BY <1>7, FirstIn
  <2>2. U \ {First(U)} \notin Bad BY <2>1, <1>3
  <2>3. U \ {First(U)} \in SUBSET V OBVIOUS
  <2>4. g[U \ {First(U)}] = h[U \ {First(U)}] BY <2>2, <2>3
  <2> QED BY <1>5, <1>7, <2>4 DEF Step
<1> QED BY <1>6, <1>7

\* The recursion has a solution on the subsets of a finite set.
LEMMA RecExists ==
    ASSUME NEW f, NEW S, IsFiniteSet(S)
    PROVE  Rec(f, S, Iter(f, S))
<1> DEFINE Bad == {T \in SUBSET S : ~ \E g : Rec(f, T, g)}
<1>1. Bad = {}
  <2>1. SUFFICES ASSUME Bad # {} PROVE FALSE OBVIOUS
  <2>2. PICK T \in Bad : \A U \in Bad : U \subseteq T => U = T
    <3>1. Bad \subseteq SUBSET S OBVIOUS
    <3> HIDE DEF Bad
    <3> QED BY <2>1, <3>1, MinimalSubset
  <2>3. \A U \in SUBSET T : U # T => Rec(f, U, Iter(f, U))
    BY <2>2 DEF Iter
  <2> DEFINE G == [U \in SUBSET T |-> IF U = {} THEN 0
                     ELSE f[First(U)] + Iter(f, U \ {First(U)})[U \ {First(U)}]]
  <2>4. ASSUME NEW U \in SUBSET T PROVE G[U] = Step(f, U, G)
    <3>1. CASE U = {} BY <3>1 DEF Step
    <3>2. CASE U # {}
      <4> DEFINE X == U \ {First(U)}
      <4>1. First(U) \in U BY <3>2, FirstIn
      <4>2. X \in SUBSET T /\ X # T BY <4>1
      <4>3. Rec(f, X, Iter(f, X)) BY <4>2, <2>3
      <4>4. Iter(f, X)[X] = Step(f, X, Iter(f, X)) BY <4>3 DEF Rec
      <4>5. G[X] = Iter(f, X)[X]
        <5>1. CASE X = {} BY <5>1, <4>4, <4>2 DEF Step
        <5>2. CASE X # {}
          <6> DEFINE Y == X \ {First(X)}
          <6>1. First(X) \in X BY <5>2, FirstIn
          <6>2. Y \in SUBSET T /\ Y # T BY <6>1
          <6>3. Rec(f, Y, Iter(f, Y)) BY <6>2, <2>3
          <6>4. IsFiniteSet(Y) BY FS_Subset
          <6>5. Iter(f, X)[Y] = Iter(f, Y)[Y]
            <7>1. Y \subseteq X /\ Y \subseteq Y OBVIOUS
            <7> HIDE DEF X, Y
            <7> QED BY <4>3, <6>3, <6>4, <7>1, RecUnique
          <6> QED BY <4>2, <4>4, <5>2, <6>5 DEF Step
        <5> QED BY <5>1, <5>2
      <4> QED BY <3>2, <4>5 DEF Step
    <3> QED BY <3>1, <3>2
  <2>5. Rec(f, T, G)
    <3>1. G = [U \in SUBSET T |-> G[U]] OBVIOUS
    <3> HIDE DEF G
    <3> QED BY <2>4, <3>1 DEF Rec
  <2> QED BY <2>5
<1>2. \E g : Rec(f, S, g) BY <1>1
<1> QED BY <1>2 DEF Iter

\* A sum of nothing, and a sum from which the chosen element is split off.
LEMMA SumUnfold ==
    ASSUME NEW f, NEW S, IsFiniteSet(S)
    PROVE  /\ S = {} => SumFunctionOnSet(f, S) = 0
           /\ S # {} => SumFunctionOnSet(f, S) = f[First(S)] + SumFunctionOnSet(f, S \ {First(S)})
<1> DEFINE X == S \ {First(S)}
<1>1. Rec(f, S, Iter(f, S)) BY RecExists
<1>2. SumFunctionOnSet(f, S) = Step(f, S, Iter(f, S)) BY <1>1, SumIter DEF Rec
<1>3. IsFiniteSet(X) BY FS_Subset
<1>4. Iter(f, S)[X] = Iter(f, X)[X]
  <2>1. X \subseteq S /\ X \subseteq X OBVIOUS
  <2>2. Rec(f, X, Iter(f, X)) BY <1>3, RecExists
  <2> HIDE DEF X
  <2> QED BY <1>1, <1>3, <2>1, <2>2, RecUnique
<1>5. SumFunctionOnSet(f, X) = Iter(f, X)[X] BY SumIter
<1> QED BY <1>2, <1>4, <1>5 DEF Step

\* The sum over nothing is 0.
LEMMA SumEmpty == \A f : SumFunctionOnSet(f, {}) = 0
BY FS_EmptySet, SumUnfold

\* A sum of integers is an integer.
LEMMA SumType ==
    ASSUME NEW S, IsFiniteSet(S), NEW f, \A x \in S : f[x] \in Int
    PROVE  SumFunctionOnSet(f, S) \in Int
<1> DEFINE Bad == {T \in SUBSET S : SumFunctionOnSet(f, T) \notin Int}
<1>1. SUFFICES ASSUME Bad # {} PROVE FALSE OBVIOUS
<1>2. PICK T \in Bad : \A U \in Bad : U \subseteq T => U = T
  <2>1. Bad \subseteq SUBSET S OBVIOUS
  <2> HIDE DEF Bad
  <2> QED BY <1>1, <2>1, MinimalSubset
<1>3. IsFiniteSet(T) BY FS_Subset
<1>4. T # {} BY SumEmpty
<1>5. First(T) \in T BY <1>4, FirstIn
<1>6. T \ {First(T)} \notin Bad BY <1>2, <1>5
<1>7. SumFunctionOnSet(f, T \ {First(T)}) \in Int BY <1>6
<1>8. SumFunctionOnSet(f, T) = f[First(T)] + SumFunctionOnSet(f, T \ {First(T)})
  BY <1>3, <1>4, SumUnfold
<1> QED BY <1>5, <1>7, <1>8

\* Any element can be split off, not only the one the fold chooses.
LEMMA SumRemove ==
    ASSUME NEW S, IsFiniteSet(S), NEW f, \A x \in S : f[x] \in Int, NEW e \in S
    PROVE  SumFunctionOnSet(f, S) = f[e] + SumFunctionOnSet(f, S \ {e})
<1> DEFINE Splits(T) == \A x \in T : SumFunctionOnSet(f, T) = f[x] + SumFunctionOnSet(f, T \ {x})
           Bad == {T \in SUBSET S : ~Splits(T)}
<1>1. SUFFICES ASSUME Bad # {} PROVE FALSE BY Zenon
<1>2. PICK T \in Bad : \A U \in Bad : U \subseteq T => U = T
  <2>1. Bad \subseteq SUBSET S OBVIOUS
  <2> HIDE DEF Bad
  <2> QED BY <1>1, <2>1, MinimalSubset
<1>3. PICK x \in T : SumFunctionOnSet(f, T) # f[x] + SumFunctionOnSet(f, T \ {x}) BY <1>2
<1> DEFINE y == First(T)
<1>4. \A U \in SUBSET S : IsFiniteSet(U) /\ SumFunctionOnSet(f, U) \in Int
  <2> SUFFICES ASSUME NEW U \in SUBSET S PROVE IsFiniteSet(U) /\ SumFunctionOnSet(f, U) \in Int
    OBVIOUS
  <2>1. IsFiniteSet(U) BY FS_Subset
  <2> QED BY <2>1, SumType
<1>5. y \in T BY <1>3, FirstIn
<1>6. SumFunctionOnSet(f, T) = f[y] + SumFunctionOnSet(f, T \ {y}) BY <1>3, <1>4, SumUnfold
<1>7. x # y BY <1>3, <1>6
<1>8. Splits(T \ {x}) /\ Splits(T \ {y}) BY <1>2, <1>3, <1>5
<1> HIDE DEF y
<1>9. SumFunctionOnSet(f, T \ {y}) = f[x] + SumFunctionOnSet(f, (T \ {y}) \ {x}) BY <1>3, <1>7, <1>8
<1>10. SumFunctionOnSet(f, T \ {x}) = f[y] + SumFunctionOnSet(f, (T \ {x}) \ {y}) BY <1>5, <1>7, <1>8
<1>11. (T \ {y}) \ {x} = (T \ {x}) \ {y} OBVIOUS
<1>12. SumFunctionOnSet(f, (T \ {x}) \ {y}) \in Int BY <1>4
<1>13. f[x] \in Int /\ f[y] \in Int BY <1>3, <1>5
<1> DEFINE rest == SumFunctionOnSet(f, (T \ {x}) \ {y})
<1>14. f[y] + (f[x] + rest) = f[x] + (f[y] + rest) BY <1>12, <1>13
<1> HIDE DEF Bad
<1> QED BY <1>3, <1>6, <1>9, <1>10, <1>11, <1>14

\* Functions that agree on S have the same sum over it.
LEMMA SumSame ==
    ASSUME NEW S, IsFiniteSet(S), NEW f, NEW g, \A x \in S : f[x] = g[x]
    PROVE  SumFunctionOnSet(f, S) = SumFunctionOnSet(g, S)
<1> DEFINE Bad == {T \in SUBSET S : SumFunctionOnSet(f, T) # SumFunctionOnSet(g, T)}
<1>1. SUFFICES ASSUME Bad # {} PROVE FALSE OBVIOUS
<1>2. PICK T \in Bad : \A U \in Bad : U \subseteq T => U = T
  <2>1. Bad \subseteq SUBSET S OBVIOUS
  <2> HIDE DEF Bad
  <2> QED BY <1>1, <2>1, MinimalSubset
<1>3. IsFiniteSet(T) BY FS_Subset
<1>4. T # {} BY SumEmpty
<1>5. First(T) \in T BY <1>4, FirstIn
<1>6. T \ {First(T)} \notin Bad BY <1>2, <1>5
<1>7. SumFunctionOnSet(f, T \ {First(T)}) = SumFunctionOnSet(g, T \ {First(T)}) BY <1>6
<1>8. /\ SumFunctionOnSet(f, T) = f[First(T)] + SumFunctionOnSet(f, T \ {First(T)})
      /\ SumFunctionOnSet(g, T) = g[First(T)] + SumFunctionOnSet(g, T \ {First(T)})
  BY <1>3, <1>4, SumUnfold
<1> QED BY <1>5, <1>7, <1>8

\* A change at one point changes the sum by as much.
LEMMA SumChange ==
    ASSUME NEW S, IsFiniteSet(S), NEW f, NEW g, NEW e \in S,
           \A x \in S : f[x] \in Int /\ g[x] \in Int,
           \A x \in S : x # e => f[x] = g[x]
    PROVE  SumFunctionOnSet(g, S) = SumFunctionOnSet(f, S) + g[e] - f[e]
<1> DEFINE T == S \ {e}
<1>1. IsFiniteSet(T) BY FS_Subset
<1>2. SumFunctionOnSet(f, T) = SumFunctionOnSet(g, T) BY <1>1, SumSame
<1>3. SumFunctionOnSet(f, T) \in Int BY <1>1, SumType
<1>4. /\ SumFunctionOnSet(f, S) = f[e] + SumFunctionOnSet(f, T)
      /\ SumFunctionOnSet(g, S) = g[e] + SumFunctionOnSet(g, T)
  BY SumRemove
<1> HIDE DEF T
<1> QED BY <1>2, <1>3, <1>4

\* Changing one summand changes the sum by the difference.
LEMMA SumExcept ==
    ASSUME NEW S, IsFiniteSet(S), NEW f \in [S -> Int], NEW e \in S, NEW n \in Int
    PROVE  /\ SumFunctionOnSet(f, S) \in Int
           /\ SumFunctionOnSet([f EXCEPT ![e] = n], S) = SumFunctionOnSet(f, S) + n - f[e]
<1> DEFINE g == [f EXCEPT ![e] = n]
<1>1. \A x \in S : f[x] \in Int /\ g[x] \in Int OBVIOUS
<1>2. \A x \in S : x # e => f[x] = g[x] OBVIOUS
<1>3. g[e] = n OBVIOUS
<1> HIDE DEF g
<1>4. SumFunctionOnSet(f, S) \in Int BY <1>1, SumType
<1>5. SumFunctionOnSet(g, S) = SumFunctionOnSet(f, S) + g[e] - f[e] BY <1>1, <1>2, SumChange
<1> QED BY <1>3, <1>4, <1>5 DEF g

\* The terms of a sum of naturals are at most the sum.
LEMMA SumNat ==
    ASSUME NEW S, IsFiniteSet(S), NEW f, \A x \in S : f[x] \in Nat
    PROVE  /\ SumFunctionOnSet(f, S) \in Nat
           /\ \A e \in S : f[e] <= SumFunctionOnSet(f, S)
<1> DEFINE Bad == {T \in SUBSET S : SumFunctionOnSet(f, T) \notin Nat}
<1>1. Bad = {}
  <2>1. SUFFICES ASSUME Bad # {} PROVE FALSE OBVIOUS
  <2>2. PICK T \in Bad : \A U \in Bad : U \subseteq T => U = T
    <3>1. Bad \subseteq SUBSET S OBVIOUS
    <3> HIDE DEF Bad
    <3> QED BY <2>1, <3>1, MinimalSubset
  <2>3. IsFiniteSet(T) BY FS_Subset
  <2>4. T # {} BY SumEmpty
  <2>5. First(T) \in T BY <2>4, FirstIn
  <2>6. T \ {First(T)} \notin Bad BY <2>2, <2>5
  <2>7. SumFunctionOnSet(f, T \ {First(T)}) \in Nat BY <2>6
  <2>8. SumFunctionOnSet(f, T) = f[First(T)] + SumFunctionOnSet(f, T \ {First(T)})
    BY <2>3, <2>4, SumUnfold
  <2> QED BY <2>5, <2>7, <2>8
<1>2. ASSUME NEW e \in S PROVE f[e] <= SumFunctionOnSet(f, S)
  <2>1. SumFunctionOnSet(f, S \ {e}) \in Nat BY <1>1
  <2>2. \A x \in S : f[x] \in Int OBVIOUS
  <2>3. SumFunctionOnSet(f, S) = f[e] + SumFunctionOnSet(f, S \ {e}) BY <2>2, SumRemove
  <2> QED BY <2>1, <2>3
<1> QED BY <1>1, <1>2

\* A sum of zeros.
LEMMA SumZero ==
    ASSUME NEW S, IsFiniteSet(S), NEW f, \A x \in S : f[x] = 0
    PROVE  SumFunctionOnSet(f, S) = 0
<1> DEFINE Bad == {T \in SUBSET S : SumFunctionOnSet(f, T) # 0}
<1>1. SUFFICES ASSUME Bad # {} PROVE FALSE OBVIOUS
<1>2. PICK T \in Bad : \A U \in Bad : U \subseteq T => U = T
  <2>1. Bad \subseteq SUBSET S OBVIOUS
  <2> HIDE DEF Bad
  <2> QED BY <1>1, <2>1, MinimalSubset
<1>3. IsFiniteSet(T) BY FS_Subset
<1>4. T # {} BY SumEmpty
<1>5. First(T) \in T BY <1>4, FirstIn
<1>6. SumFunctionOnSet(f, T \ {First(T)}) = 0 BY <1>2, <1>5
<1>7. SumFunctionOnSet(f, T) = f[First(T)] + SumFunctionOnSet(f, T \ {First(T)})
  BY <1>3, <1>4, SumUnfold
<1> QED BY <1>5, <1>6, <1>7

\* A function that is the difference of two on parts of S.
LEMMA SumDifference ==
    ASSUME NEW S, IsFiniteSet(S), NEW A, A \subseteq S, NEW B, B \subseteq S, NEW f, NEW g, NEW h,
           \A x \in A : g[x] \in Int, \A x \in B : h[x] \in Int,
           \A x \in S : f[x] = (IF x \in A THEN g[x] ELSE 0) - (IF x \in B THEN h[x] ELSE 0)
    PROVE  SumFunctionOnSet(f, S) = SumFunctionOnSet(g, A) - SumFunctionOnSet(h, B)
<1> DEFINE Bad == {T \in SUBSET S : SumFunctionOnSet(f, T)
                                      # SumFunctionOnSet(g, A \cap T) - SumFunctionOnSet(h, B \cap T)}
<1>1. SUFFICES Bad = {}
  <2>1. S \notin Bad /\ S \in SUBSET S BY <1>1
  <2>2. A \cap S = A /\ B \cap S = B OBVIOUS
  <2> QED BY <2>1, <2>2
<1>2. SUFFICES ASSUME Bad # {} PROVE FALSE OBVIOUS
<1>3. PICK T \in Bad : \A U \in Bad : U \subseteq T => U = T
  <2>1. Bad \subseteq SUBSET S OBVIOUS
  <2> HIDE DEF Bad
  <2> QED BY <1>2, <2>1, MinimalSubset
<1>4. T \subseteq S /\ IsFiniteSet(T) BY <1>3, FS_Subset
<1>5. T # {}
  <2> SUFFICES ASSUME T = {} PROVE FALSE OBVIOUS
  <2>1. A \cap T = {} /\ B \cap T = {} OBVIOUS
  <2>2. SumFunctionOnSet(f, T) = 0 /\ SumFunctionOnSet(g, A \cap T) = 0 /\ SumFunctionOnSet(h, B \cap T) = 0
    BY <2>1, SumEmpty
  <2> QED BY <1>3, <2>2
<1>6. PICK e : e \in T BY <1>5
<1> DEFINE U == T \ {e}
<1>7. SumFunctionOnSet(f, U) = SumFunctionOnSet(g, A \cap U) - SumFunctionOnSet(h, B \cap U)
  <2>1. U \subseteq T /\ U # T /\ U \in SUBSET S BY <1>4, <1>6
  <2>2. U \notin Bad
    <3> HIDE DEF Bad, U
    <3> QED BY <1>3, <2>1
  <2> QED BY <2>1, <2>2
<1>8. ASSUME NEW C, NEW k, \A x \in C : k[x] \in Int
      PROVE  /\ SumFunctionOnSet(k, C \cap U) \in Int
             /\ SumFunctionOnSet(k, C \cap T) = (IF e \in C THEN k[e] ELSE 0) + SumFunctionOnSet(k, C \cap U)
  <2>1. IsFiniteSet(C \cap T) /\ IsFiniteSet(C \cap U) BY <1>4, FS_Subset
  <2>2. \A x \in C \cap T : k[x] \in Int BY <1>8
  <2>3. SumFunctionOnSet(k, C \cap U) \in Int BY <2>1, <2>2, SumType
  <2>4. CASE e \in C
    <3>1. (C \cap T) \ {e} = C \cap U /\ e \in C \cap T BY <1>6, <2>4
    <3>3. k[e] \in Int BY <1>8, <2>4
    <3>2. SumFunctionOnSet(k, C \cap T) = k[e] + SumFunctionOnSet(k, (C \cap T) \ {e})
      BY <2>1, <2>2, <3>1, SumRemove
    <3> HIDE DEF U
    <3> QED BY <2>3, <2>4, <3>1, <3>2, <3>3
  <2>5. CASE e \notin C
    <3>1. C \cap T = C \cap U BY <2>5
    <3> HIDE DEF U
    <3>2. SumFunctionOnSet(k, C \cap T) = SumFunctionOnSet(k, C \cap U) BY <3>1
    <3>3. SumFunctionOnSet(k, C \cap T) = 0 + SumFunctionOnSet(k, C \cap U) BY <2>3, <3>2
    <3> QED BY <2>3, <2>5, <3>3
  <2> QED BY <2>4, <2>5
<1>9. /\ SumFunctionOnSet(g, A \cap U) \in Int
      /\ SumFunctionOnSet(g, A \cap T) = (IF e \in A THEN g[e] ELSE 0) + SumFunctionOnSet(g, A \cap U)
  BY <1>8
<1>10. /\ SumFunctionOnSet(h, B \cap U) \in Int
       /\ SumFunctionOnSet(h, B \cap T) = (IF e \in B THEN h[e] ELSE 0) + SumFunctionOnSet(h, B \cap U)
  BY <1>8
<1>11. \A x \in S : f[x] \in Int
  <2> SUFFICES ASSUME NEW x \in S PROVE f[x] \in Int OBVIOUS
  <2>1. (IF x \in A THEN g[x] ELSE 0) \in Int /\ (IF x \in B THEN h[x] ELSE 0) \in Int OBVIOUS
  <2> QED BY <2>1
<1>12. SumFunctionOnSet(f, T) = f[e] + SumFunctionOnSet(f, U)
  BY <1>4, <1>6, <1>11, SumRemove
<1>13. f[e] = (IF e \in A THEN g[e] ELSE 0) - (IF e \in B THEN h[e] ELSE 0) BY <1>4, <1>6
<1>14. (IF e \in A THEN g[e] ELSE 0) \in Int /\ (IF e \in B THEN h[e] ELSE 0) \in Int OBVIOUS
<1>15. SumFunctionOnSet(f, T) # SumFunctionOnSet(g, A \cap T) - SumFunctionOnSet(h, B \cap T) BY <1>3
<1> HIDE DEF U, Bad
<1> QED BY <1>7, <1>9, <1>10, <1>12, <1>13, <1>14, <1>15

-----------------------------------------------------------------------------
(* The invariants of the servers *)

\* Types, with the locations of the workers left to the policy.
Typed(Pcs) ==
    /\ UpstreamTypeOK
    /\ wpc \in [Workers -> Pcs]
    /\ check_fails \in [Servers -> Nat]
    /\ check_successes \in [Servers -> Nat]
    /\ cpc \in CheckerPc
    /\ csrv \in Servers
    /\ creg \in Int

\* Who is at a locked location holds the lock; so two never are, for one server.
LocksHeld ==
    /\ \A w \in Workers : wpc[w] \in LockedPc => lock[wsrv[w]] = w
    /\ cpc \in CheckedPc => lock[csrv] = Checker

\* What the loaded weights may be.  While the checker is about to bring up a
\* server it saw down, nothing raises the weight of that server above weight: one
\* that is still to be zeroed will be before the checker gets the lock.
LoadedWeights ==
    /\ \A w \in Workers :
         /\ wpc[w] = "decay" => /\ wreg[w] \in 0 .. Weight[wsrv[w]] + 1
                                /\ is_down[wsrv[w]] => wreg[w] <= 1
                                /\ cpc = "rise" /\ csrv = wsrv[w] => wreg[w] <= Weight[csrv]
         /\ wpc[w] = "grow" => wreg[w] >= 0 /\ ~is_down[wsrv[w]]
         /\ wpc[w] = "flagO2" => effective_weight[wsrv[w]] <= 1
    /\ cpc = "rise" => effective_weight[csrv] <= Weight[csrv] \/ Emptying(csrv)
    /\ cpc = "raise" => creg \in 0 .. Weight[csrv] /\ (is_down[csrv] => creg <= 1)
    /\ cpc = "down" => effective_weight[csrv] <= 1

WeightInv == EffectiveWeightBounds /\ LoadedWeights

\* Failures match the state but for a worker between the count and is_down.
MarkedPc == {"flag", "stampO2", "zeroO2", "flagO2"}

FailsInv ==
    /\ \A s \in Servers : At(MarkedPc, s) = {} =>
         /\ is_down[s] => fails[s] >= 1
         /\ ~is_down[s] => fails[s] = 0 \/ fails[s] < MaxFails[s]
    /\ \A w \in Workers : wpc[w] \in MarkedPc => fails[wsrv[w]] >= 1

-----------------------------------------------------------------------------
(* Types *)

\* What a failed connect takes off the weight.
LEMMA DecayNat ==
    \A s \in Servers : MaxFails[s] # 0 => Weight[s] \div MaxFails[s] \in Nat
<1> SUFFICES ASSUME NEW s \in Servers, MaxFails[s] # 0
             PROVE  Weight[s] \div MaxFails[s] \in Nat
  OBVIOUS
<1>1. Weight[s] \in Nat /\ MaxFails[s] \in Nat \ {0} BY UpstreamAssumption
<1> QED BY <1>1, SMT

\* Servers are numbered from 0, and there is one.
LEMMA ServersNat == 0 \in Servers /\ Servers \subseteq Nat /\ IsFiniteSet(Servers)
<1>1. N \in Nat \ {0} BY UpstreamAssumption
<1>2. IsFiniteSet(0 .. N-1) BY <1>1, FS_Interval
<1> QED BY <1>1, <1>2 DEF Servers

\* A step of a connect or a close keeps the types.
LEMMA ConnectTyped ==
    ASSUME NEW Pcs, ConnectPc \subseteq Pcs, Typed(Pcs), NEW w \in Workers,
           ConnectNext(w), UNCHANGED checkVars
    PROVE  Typed(Pcs)'
<1> USE DEF Typed, UpstreamTypeOK, checkVars, srvVars, Goto
<1>1. ConnectPc \subseteq Pcs /\ 0 \in Servers BY ServersNat
<1>2. /\ wsrv[w] \in Servers /\ wpc[w] \in Pcs /\ wreg[w] \in Int
      /\ open[w] \in [Servers -> Nat]
      /\ effective_weight[wsrv[w]] \in Int /\ connection_n[wsrv[w]] \in Int
  OBVIOUS
<1>3. CASE OpenClientfd(w)
  <2>1. open' \in [Workers -> [Servers -> Nat]]
    <3>1. CASE open' = [open EXCEPT ![w][wsrv[w]] = @ + 1]
      <4>1. open[w][wsrv[w]] + 1 \in Nat BY <1>2
      <4> QED BY <1>2, <3>1, <4>1
    <3> QED BY <1>3, <3>1 DEF OpenClientfd
  <2>2. wpc' \in [Workers -> Pcs] BY <1>1, <1>3 DEF OpenClientfd, ConnectPc
  <2> QED BY <1>3, <2>1, <2>2 DEF OpenClientfd
<1>4. CASE SrvLock(w) BY <1>1, <1>2, <1>4 DEF SrvLock, ConnectPc
<1>5. CASE Decay(w)
  <2>1. MaxFails[wsrv[w]] # 0 => Weight[wsrv[w]] \div MaxFails[wsrv[w]] \in Nat BY <1>2, DecayNat
  <2> QED BY <1>1, <1>2, <1>5, <2>1 DEF Decay, ConnectPc
<1>6. CASE Clamp(w) BY <1>1, <1>2, <1>6 DEF Clamp, ConnectPc
<1>7. CASE Mark(w)
  <2>1. Count(wsrv[w]) \in Nat
    BY <1>2, UpstreamAssumption DEF Count, Capped, FailsCap
  <2>2. /\ fails' \in [Servers -> Nat] /\ age' \in [Servers -> Nat]
        /\ effective_weight' = effective_weight
    BY <1>2, <1>7, <2>1 DEF Mark
  <2>3. /\ lock' \in [Servers -> Workers \cup {Checker, NoThread}]
        /\ wsrv' \in [Workers -> Servers] /\ wreg' \in [Workers -> Int]
        /\ wpc' \in [Workers -> Pcs]
    <3>1. CASE SrvUnlock(w) BY <1>1, <3>1 DEF SrvUnlock, ConnectPc
    <3>2. CASE (Goto(w, "flag") \/ Goto(w, "stampO2")) /\ UNCHANGED <<lock, wsrv, wreg>>
      BY <1>1, <3>2 DEF ConnectPc
    <3> QED BY <1>7, <3>1, <3>2 DEF Mark
  <2> QED BY <1>7, <2>2, <2>3 DEF Mark
<1>15. ASSUME \/ SrvUnlock(w)
              \/ Goto(w, "zero") /\ UNCHANGED <<lock, wsrv, wreg>>
              \/ Goto(w, "zeroO2") /\ UNCHANGED <<lock, wsrv, wreg>>
       PROVE  /\ lock' \in [Servers -> Workers \cup {Checker, NoThread}]
              /\ wsrv' \in [Workers -> Servers] /\ wreg' \in [Workers -> Int]
              /\ wpc' \in [Workers -> Pcs]
  <2>1. CASE SrvUnlock(w) BY <1>1, <2>1 DEF SrvUnlock, ConnectPc
  <2>2. CASE Goto(w, "zero") /\ UNCHANGED <<lock, wsrv, wreg>> BY <1>1, <2>2 DEF ConnectPc
  <2>3. CASE Goto(w, "zeroO2") /\ UNCHANGED <<lock, wsrv, wreg>> BY <1>1, <2>3 DEF ConnectPc
  <2> QED BY <1>15, <2>1, <2>2, <2>3
<1>8. CASE DownFlag(w)
  <2>1. is_down' \in [Servers -> BOOLEAN] BY <1>2, <1>8 DEF DownFlag
  <2>2. SrvUnlock(w) \/ (Goto(w, "zero") /\ UNCHANGED <<lock, wsrv, wreg>>) BY <1>8 DEF DownFlag
  <2> HIDE DEF Goto
  <2> QED BY <1>8, <1>15, <2>1, <2>2 DEF DownFlag
<1>13. CASE DownZero(w) BY <1>1, <1>2, <1>13 DEF DownZero, ConnectPc
<1>14. CASE DownStamp(w)
  <2>1. age' \in [Servers -> Nat] BY <1>2, <1>14 DEF DownStamp
  <2>2. SrvUnlock(w) \/ (Goto(w, "zeroO2") /\ UNCHANGED <<lock, wsrv, wreg>>) BY <1>14 DEF DownStamp
  <2> HIDE DEF Goto
  <2> QED BY <1>14, <1>15, <2>1, <2>2 DEF DownStamp
<1>9. CASE Revive(w) BY <1>1, <1>2, <1>9 DEF Revive, ConnectPc
<1>10. CASE Grow(w) BY <1>1, <1>2, <1>10 DEF Grow, SrvUnlock, ConnectPc
<1>11. CASE CloseProxy(w)
  <2>1. PICK s \in Servers : /\ open[w][s] > 0
                             /\ open' = [open EXCEPT ![w][s] = @ - 1]
                             /\ wsrv' = [wsrv EXCEPT ![w] = s]
    BY <1>11 DEF CloseProxy
  <2>2. open[w][s] - 1 \in Nat BY <2>1, <1>2
  <2> QED BY <1>1, <1>2, <1>11, <2>1, <2>2 DEF CloseProxy, ConnectPc
<1>12. CASE Drop(w) BY <1>1, <1>2, <1>12 DEF Drop, SrvUnlock, ConnectPc
<1> QED BY <1>3, <1>4, <1>5, <1>6, <1>7, <1>8, <1>9, <1>10, <1>11, <1>12, <1>13, <1>14 DEF ConnectNext

\* So does a step of the checker.
LEMMA CheckerTyped ==
    ASSUME NEW Pcs, Typed(Pcs), CheckerNext, UNCHANGED connVars
    PROVE  Typed(Pcs)'
<1> USE DEF Typed, UpstreamTypeOK, connVars, srvVars, CheckerPc
<1>1. 0 \in Servers BY ServersNat
<1>2. ASSUME NEW s \in Servers, CountSuccess(s), UNCHANGED srvVars PROVE Typed(Pcs)'
  <2>1. Capped(check_successes[s] + 1, CheckRise[s]) \in Nat BY HealthCheckAssumption DEF Capped
  <2> QED BY <1>1, <1>2, <2>1 DEF CountSuccess
<1>3. ASSUME NEW s \in Servers, CountFailure(s), UNCHANGED srvVars PROVE Typed(Pcs)'
  <2>1. Capped(check_fails[s] + 1, CheckFall[s]) \in Nat BY HealthCheckAssumption DEF Capped
  <2> QED BY <1>1, <1>3, <2>1 DEF CountFailure
<1>4. CASE \E s \in Servers : TimerConnected(s) \/ EventConnected(s)
  BY <1>2, <1>4 DEF TimerConnected, EventConnected
<1>5. CASE \E s \in Servers : TimerDisconnected(s) \/ EventFailed(s)
  BY <1>3, <1>5 DEF TimerDisconnected, EventFailed
<1>6. CASE \E s \in Servers : TimerConnecting(s) BY <1>6 DEF TimerConnecting
<1>7. CASE CheckLock BY <1>7 DEF CheckLock
<1>8. CASE CheckUp BY <1>1, <1>8 DEF CheckUp, CheckUnlock
<1>9. CASE CheckZero BY <1>9 DEF CheckZero
<1>10. CASE CheckDown BY <1>1, <1>10 DEF CheckDown, CheckUnlock
<1>11. CASE CheckRaise BY <1>11 DEF CheckRaise
<1> QED BY <1>4, <1>5, <1>6, <1>7, <1>8, <1>9, <1>10, <1>11 DEF CheckerNext

-----------------------------------------------------------------------------
(* Locks *)

\* A step of worker w leaves the other workers where they are.
OthersStay(w) ==
    \A v \in Workers \ {w} : wpc'[v] = wpc[v] /\ wsrv'[v] = wsrv[v] /\ wreg'[v] = wreg[v]

\* A worker's step leaves the locals of the other workers alone.
LEMMA ConnectOthersStay ==
    ASSUME NEW Pcs, Typed(Pcs), NEW w \in Workers, ConnectNext(w)
    PROVE  OthersStay(w)
<1> USE DEF Typed, UpstreamTypeOK, OthersStay, Goto
<1>1. CASE OpenClientfd(w) BY <1>1 DEF OpenClientfd
<1>2. CASE SrvLock(w) BY <1>2 DEF SrvLock
<1>3. CASE Decay(w) BY <1>3 DEF Decay
<1>4. CASE Clamp(w) BY <1>4 DEF Clamp
<1>5. CASE Mark(w)
  <2>1. CASE SrvUnlock(w) BY <2>1 DEF SrvUnlock
  <2>2. CASE (Goto(w, "flag") \/ Goto(w, "stampO2")) /\ UNCHANGED <<lock, wsrv, wreg>> BY <2>2
  <2> QED BY <1>5, <2>1, <2>2 DEF Mark
<1>6. CASE DownFlag(w) BY <1>6 DEF DownFlag, SrvUnlock
<1>11. CASE DownZero(w) BY <1>11 DEF DownZero
<1>12. CASE DownStamp(w) BY <1>12 DEF DownStamp, SrvUnlock
<1>7. CASE Revive(w) BY <1>7 DEF Revive
<1>8. CASE Grow(w) BY <1>8 DEF Grow, SrvUnlock
<1>9. CASE CloseProxy(w) BY <1>9 DEF CloseProxy
<1>10. CASE Drop(w) BY <1>10 DEF Drop, SrvUnlock
<1> QED BY <1>1, <1>2, <1>3, <1>4, <1>5, <1>6, <1>7, <1>8, <1>9, <1>10, <1>11, <1>12 DEF ConnectNext

\* uct_upstream_connect and the close hold srv->lock from its lock to its unlock.
LEMMA ConnectLocksHeld ==
    ASSUME NEW Pcs, Typed(Pcs), LocksHeld, NEW w \in Workers, ConnectNext(w), UNCHANGED checkVars
    PROVE  LocksHeld'
<1> USE DEF Typed, UpstreamTypeOK, Goto, LocksHeld, checkVars
<1>1. OthersStay(w) BY ConnectOthersStay
<1>2. ASSUME UNCHANGED lock,
             wpc'[w] \in LockedPc => wpc[w] \in LockedPc /\ wsrv'[w] = wsrv[w]
      PROVE  LocksHeld'
  BY <1>1, <1>2 DEF OthersStay
<1>3. ASSUME wpc[w] \in LockedPc, SrvUnlock(w)
      PROVE  LocksHeld'
  <2>1. lock[wsrv[w]] = w /\ Checker # w BY <1>3, UpstreamAssumption
  <2>2. \A s \in Servers : s # wsrv[w] => lock'[s] = lock[s] BY <1>3 DEF SrvUnlock
  <2>3. wpc'[w] \notin LockedPc BY <1>3 DEF SrvUnlock, LockedPc, DownPc
  <2> QED BY <1>1, <2>1, <2>2, <2>3 DEF OthersStay
<1>4. CASE OpenClientfd(w) BY <1>2, <1>4 DEF OpenClientfd, LockedPc, DownPc, srvVars
<1>5. CASE SrvLock(w)
  <2>1. /\ lock[wsrv[w]] = NoThread /\ lock' = [lock EXCEPT ![wsrv[w]] = w]
        /\ wsrv' = wsrv
    BY <1>5 DEF SrvLock
  <2>2. NoThread \notin Workers \cup {Checker} BY UpstreamAssumption
  <2> QED BY <1>1, <2>1, <2>2 DEF OthersStay
<1>6. CASE Decay(w) BY <1>2, <1>6 DEF Decay, LockedPc, DownPc
<1>7. CASE Clamp(w) BY <1>2, <1>7 DEF Clamp, LockedPc, DownPc
<1>8. CASE Mark(w)
  <2>1. wpc[w] \in LockedPc BY <1>8 DEF Mark, LockedPc, DownPc
  <2> QED BY <1>2, <1>3, <1>8, <2>1 DEF Mark
<1>9. CASE DownFlag(w) \/ DownStamp(w)
  <2>1. wpc[w] \in LockedPc BY <1>9 DEF DownFlag, DownStamp, LockedPc, DownPc
  <2>2. SrvUnlock(w) \/ UNCHANGED <<lock, wsrv, wreg>> BY <1>9, Zenon DEF DownFlag, DownStamp
  <2>3. CASE SrvUnlock(w) BY <1>3, <2>1, <2>3
  <2>4. CASE UNCHANGED <<lock, wsrv, wreg>> BY <1>2, <2>1, <2>4
  <2> QED BY <2>2, <2>3, <2>4, Zenon
<1>14. CASE DownZero(w) BY <1>2, <1>14 DEF DownZero, LockedPc, DownPc
<1>10. CASE Revive(w) BY <1>2, <1>10 DEF Revive, LockedPc, DownPc
<1>11. CASE Grow(w) BY <1>3, <1>11 DEF Grow, LockedPc, DownPc
<1>12. CASE CloseProxy(w) BY <1>2, <1>12 DEF CloseProxy, LockedPc, DownPc, srvVars
<1>13. CASE Drop(w) BY <1>3, <1>13 DEF Drop, LockedPc, DownPc
<1> QED BY <1>4, <1>5, <1>6, <1>7, <1>8, <1>9, <1>10, <1>11, <1>12, <1>13, <1>14 DEF ConnectNext

\* So does the checker where it changes a server.
LEMMA CheckerLocksHeld ==
    ASSUME NEW Pcs, Typed(Pcs), LocksHeld, CheckerNext, UNCHANGED connVars
    PROVE  LocksHeld'
<1> USE DEF Typed, UpstreamTypeOK, LocksHeld, connVars
<1>1. Checker \notin Workers /\ NoThread \notin Workers \cup {Checker} BY UpstreamAssumption
<1>2. CASE \E s \in Servers : \/ TimerConnected(s) \/ TimerDisconnected(s) \/ TimerConnecting(s)
                              \/ EventConnected(s) \/ EventFailed(s)
  <2>1. UNCHANGED lock /\ cpc' \in {"wait", "rise", "fall"}
    BY <1>2 DEF TimerConnected, TimerDisconnected, TimerConnecting, EventConnected, EventFailed,
                CountSuccess, CountFailure, srvVars
  <2> QED BY <2>1 DEF CheckedPc
<1>3. CASE CheckLock BY <1>1, <1>3 DEF CheckLock
<1>4. ASSUME cpc \in CheckedPc, CheckUnlock PROVE LocksHeld'
  BY <1>1, <1>4 DEF CheckUnlock, CheckedPc
<1>5. CASE CheckUp BY <1>4, <1>5 DEF CheckUp, CheckedPc
<1>6. CASE CheckZero BY <1>6 DEF CheckZero, CheckedPc
<1>7. CASE CheckDown BY <1>4, <1>7 DEF CheckDown, CheckedPc
<1>8. CASE CheckRaise BY <1>8 DEF CheckRaise, CheckedPc
<1> QED BY <1>2, <1>3, <1>5, <1>6, <1>7, <1>8 DEF CheckerNext

\* A worker that takes srv->lock is inside from there to its unlock: no return of
\* uct_upstream_connect or of the close keeps the lock.
LEMMA ConnectLockHolders ==
    ASSUME NEW Pcs, Typed(Pcs), LockHolders, NEW w \in Workers, ConnectNext(w), UNCHANGED checkVars
    PROVE  LockHolders'
<1> USE DEF Typed, UpstreamTypeOK, Goto, checkVars
<1>1. OthersStay(w) BY ConnectOthersStay
<1>2. w # NoThread /\ w # Checker /\ Checker # NoThread BY UpstreamAssumption
<1>3. wsrv[w] \in Servers OBVIOUS
<1>4. \A s \in Servers : lock[s] = w => wpc[w] \in LockedPc /\ s = wsrv[w]
  BY <1>2 DEF LockHolders
<1>5. ASSUME \A s \in Servers : \/ lock'[s] = NoThread
                                \/ lock'[s] = w /\ wsrv'[w] = s /\ wpc'[w] \in LockedPc
                                \/ lock'[s] = lock[s] /\ lock[s] # w
      PROVE  LockHolders'
  BY <1>1, <1>2, <1>5 DEF LockHolders, OthersStay
<1>6. ASSUME wpc[w] \in LockedPc => wpc'[w] \in LockedPc /\ wsrv'[w] = wsrv[w], UNCHANGED lock
      PROVE  LockHolders'
  <2>1. \A s \in Servers : lock[s] = w => wsrv'[w] = s /\ wpc'[w] \in LockedPc BY <1>4, <1>6
  <2> QED BY <1>5, <1>6, <2>1
<1>7. ASSUME SrvUnlock(w) PROVE LockHolders'
  <2>1. \A s \in Servers : lock'[s] = IF s = wsrv[w] THEN NoThread ELSE lock[s] BY <1>3, <1>7 DEF SrvUnlock
  <2> QED BY <1>4, <1>5, <2>1
<1>8. CASE OpenClientfd(w) BY <1>6, <1>8 DEF OpenClientfd, LockedPc, DownPc, srvVars
<1>9. CASE SrvLock(w)
  <2>1. wpc'[w] \in LockedPc /\ wsrv'[w] = wsrv[w] BY <1>9 DEF SrvLock, LockedPc, DownPc
  <2>2. wpc[w] \notin LockedPc BY <1>9 DEF SrvLock, LockedPc, DownPc
  <2>3. \A s \in Servers : lock'[s] = IF s = wsrv[w] THEN w ELSE lock[s] BY <1>3, <1>9 DEF SrvLock
  <2> QED BY <1>4, <1>5, <2>1, <2>2, <2>3
<1>10. CASE Decay(w) BY <1>6, <1>10 DEF Decay, LockedPc, DownPc
<1>11. CASE Clamp(w) BY <1>6, <1>11 DEF Clamp, LockedPc, DownPc
<1>12. CASE Mark(w) BY <1>6, <1>7, <1>12 DEF Mark, LockedPc, DownPc
<1>13. CASE DownFlag(w) \/ DownStamp(w) BY <1>6, <1>7, <1>13 DEF DownFlag, DownStamp, LockedPc, DownPc
<1>18. CASE DownZero(w) BY <1>6, <1>18 DEF DownZero, LockedPc, DownPc
<1>14. CASE Revive(w) BY <1>6, <1>14 DEF Revive, LockedPc, DownPc
<1>15. CASE Grow(w) BY <1>7, <1>15 DEF Grow
<1>16. CASE CloseProxy(w) BY <1>6, <1>16 DEF CloseProxy, LockedPc, DownPc, srvVars
<1>17. CASE Drop(w) BY <1>7, <1>17 DEF Drop
<1> QED BY <1>8, <1>9, <1>10, <1>11, <1>12, <1>13, <1>14, <1>15, <1>16, <1>17, <1>18
    DEF ConnectNext

\* So is the checker.
LEMMA CheckerLockHolders ==
    ASSUME NEW Pcs, Typed(Pcs), LockHolders, CheckerNext, UNCHANGED connVars
    PROVE  LockHolders'
<1> USE DEF Typed, UpstreamTypeOK, LockHolders, connVars
<1>1. Checker \notin Workers /\ NoThread \notin Workers \cup {Checker} BY UpstreamAssumption
<1>2. CASE \E s \in Servers : \/ TimerConnected(s) \/ TimerDisconnected(s) \/ TimerConnecting(s)
                              \/ EventConnected(s) \/ EventFailed(s)
  <2>1. UNCHANGED lock /\ cpc = "wait"
    BY <1>2 DEF TimerConnected, TimerDisconnected, TimerConnecting, EventConnected, EventFailed, srvVars
  <2> QED BY <1>1, <2>1 DEF CheckedPc
<1>3. CASE CheckLock BY <1>1, <1>3 DEF CheckLock, CheckedPc
<1>4. ASSUME CheckUnlock PROVE LockHolders' BY <1>1, <1>4 DEF CheckUnlock
<1>5. CASE CheckUp BY <1>4, <1>5 DEF CheckUp
<1>6. CASE CheckZero BY <1>6 DEF CheckZero, CheckedPc
<1>7. CASE CheckDown BY <1>4, <1>7 DEF CheckDown
<1>8. CASE CheckRaise BY <1>8 DEF CheckRaise, CheckedPc
<1> QED BY <1>2, <1>3, <1>5, <1>6, <1>7, <1>8 DEF CheckerNext

\* No one else is at a locked location of the server whose lock w, or the
\* checker, holds.
LEMMA Alone ==
    ASSUME LocksHeld
    PROVE  /\ \A v, w \in Workers : wpc[v] \in LockedPc /\ wpc[w] \in LockedPc /\ wsrv[v] = wsrv[w] => v = w
           /\ \A w \in Workers : ~(wpc[w] \in LockedPc /\ cpc \in CheckedPc /\ csrv = wsrv[w])
           /\ \A w \in Workers : wpc[w] \in LockedPc => lock[wsrv[w]] # NoThread
BY UpstreamAssumption DEF LocksHeld

-----------------------------------------------------------------------------
(* Weights *)

\* The weight of a server in the configuration is positive.
LEMMA WeightPos == \A s \in Servers : Weight[s] \in Nat /\ Weight[s] >= 1
BY UpstreamAssumption

\* A weight is negative only while its server is locked for the clamp.
LEMMA NotNegative ==
    ASSUME EffectiveWeightBounds, LocksHeld
    PROVE  /\ \A s \in Servers : lock[s] = NoThread => ~(effective_weight[s] < 0)
           /\ \A w \in Workers : wsrv[w] \in Servers /\ wpc[w] \in LockedPc \ {"clamp"} => ~(effective_weight[wsrv[w]] < 0)
           /\ csrv \in Servers /\ cpc \in CheckedPc => ~(effective_weight[csrv] < 0)
<1>1. \A w \in Workers : wpc[w] = "clamp" => wpc[w] \in LockedPc BY DEF LockedPc, DownPc
<1> QED BY <1>1, Alone DEF EffectiveWeightBounds, LocksHeld, At

\* No one is between the stores that settle a server whose lock is free, or which
\* w has locked for another purpose.
LEMMA StoresDone ==
    ASSUME LocksHeld
    PROVE  /\ \A s \in Servers : lock[s] = NoThread => ~Emptying(s) /\ ~Raised(s)
           /\ \A w \in Workers : wpc[w] \in LockedPc => ~Raised(wsrv[w])
           /\ \A w \in Workers : wpc[w] \in LockedPc \ {"zero"} => ~Emptying(wsrv[w])
           /\ cpc \in CheckedPc => ~Emptying(csrv)
<1>1. \A w \in Workers : wpc[w] = "zero" => wpc[w] \in LockedPc BY DEF LockedPc, DownPc
<1>2. cpc = "up" => cpc \in CheckedPc BY DEF CheckedPc
<1>3. Checker # NoThread BY UpstreamAssumption
<1> QED BY <1>1, <1>2, <1>3, Alone DEF Emptying, Raised, At, LocksHeld

\* Connects and closes keep effective_weight in its bounds outside srv->lock,
\* and the register and the pending clamp consistent with it inside.
LEMMA ConnectWeightInv ==
    ASSUME NEW Pcs, Typed(Pcs), LocksHeld, WeightInv, NEW w \in Workers, ConnectNext(w),
           UNCHANGED checkVars
    PROVE  WeightInv'
<1> DEFINE s == wsrv[w]
<1>1. OthersStay(w) BY ConnectOthersStay
<1>2. /\ s \in Servers /\ Weight[s] \in Nat /\ Weight[s] >= 1
      /\ wreg[w] \in Int /\ effective_weight \in [Servers -> Int]
      /\ wpc \in [Workers -> Pcs] /\ wsrv \in [Workers -> Servers] /\ wreg \in [Workers -> Int]
      /\ is_down \in [Servers -> BOOLEAN]
      /\ cpc' = cpc /\ csrv' = csrv /\ creg' = creg
      /\ csrv \in Servers
  BY WeightPos DEF Typed, UpstreamTypeOK, checkVars
<1>3. ASSUME NEW v \in Workers, v # w, wpc[v] \in LockedPc, wpc[w] \in LockedPc
      PROVE  wsrv[v] # s
  BY <1>3, Alone
<1>4. wpc[w] \in LockedPc /\ cpc \in CheckedPc => csrv # s BY Alone
\* What the step has to satisfy: the new weight of s, and what w may be left with.
<1>5. ASSUME \A t \in Servers : t # s => effective_weight'[t] = effective_weight[t] /\ is_down'[t] = is_down[t],
             effective_weight'[s] \in Int, wreg'[w] \in Int,
             (effective_weight'[s] = effective_weight[s] /\ is_down'[s] = is_down[s]) \/ wpc[w] \in LockedPc,
             effective_weight'[s] <= Weight[s] + 1,
             is_down'[s] => \/ effective_weight'[s] <= 1 \/ wpc'[w] = "zero"
                            \/ wpc[w] \notin LockedPc /\ (Emptying(s) \/ (Raised(s) /\ effective_weight'[s] <= 2)),
             effective_weight'[s] < 0 => wpc'[w] = "clamp" \/ (effective_weight[s] < 0 /\ wpc[w] # "clamp"),
             cpc = "rise" /\ csrv = s => \/ effective_weight'[s] <= Weight[s] \/ wpc'[w] = "zero"
                                         \/ wpc[w] \notin LockedPc /\ Emptying(s),
             wpc'[w] \in {"decay", "grow", "flagO2", "clamp", "zero"} => wsrv'[w] = s,
             wpc'[w] = "decay" => /\ wreg'[w] \in 0 .. Weight[s] + 1
                                  /\ is_down'[s] => wreg'[w] <= 1
                                  /\ cpc = "rise" /\ csrv = s => wreg'[w] <= Weight[s],
             wpc'[w] = "grow" => wreg'[w] >= 0 /\ ~is_down'[s],
             wpc'[w] = "flagO2" => effective_weight'[s] <= 1
      PROVE  WeightInv'
  <2>0. wpc[w] = "zero" => wpc[w] \in LockedPc BY DEF LockedPc, DownPc
  <2>1. \A t \in Servers : Raised(t)' <=> Raised(t) BY <1>2 DEF Raised
  <2>2. ASSUME NEW t \in Servers, Emptying(t), t # s \/ wpc[w] \notin LockedPc PROVE Emptying(t)'
    BY <1>1, <2>0, <2>2 DEF Emptying, At, OthersStay
  <2>3. ASSUME NEW t \in Servers, t = s, wpc'[w] = "zero" PROVE Emptying(t)'
    BY <1>5, <2>3 DEF Emptying, At
  <2>4. EffectiveWeightBounds'
    <3> SUFFICES ASSUME NEW t \in Servers
                 PROVE  /\ effective_weight'[t] <= Weight[t] + 1
                        /\ is_down'[t] /\ ~Emptying(t)' => effective_weight'[t] <= IF Raised(t)' THEN 2 ELSE 1
                        /\ effective_weight'[t] < 0 => \E v \in Workers : wpc'[v] = "clamp" /\ wsrv'[v] = t
      BY DEF EffectiveWeightBounds, At
    <3>1. CASE t = s
      <4>1. ASSUME effective_weight'[s] < 0, wpc'[w] # "clamp"
            PROVE  \E v \in Workers : wpc'[v] = "clamp" /\ wsrv'[v] = s
        <5>1. PICK v \in Workers : wpc[v] = "clamp" /\ wsrv[v] = s
          BY <1>2, <1>5, <4>1 DEF WeightInv, EffectiveWeightBounds, At
        <5>2. v # w BY <1>5, <4>1, <5>1
        <5> QED BY <1>1, <5>1, <5>2 DEF OthersStay
      <4>2. wpc'[w] = "clamp" => wsrv'[w] = s BY <1>5
      <4>3. is_down'[t] /\ ~Emptying(t)' => effective_weight'[t] <= IF Raised(t)' THEN 2 ELSE 1
        <5>1. CASE Raised(t) BY <1>2, <1>5, <2>1, <2>2, <2>3, <3>1, <5>1
        <5>2. CASE ~Raised(t) BY <1>2, <1>5, <2>1, <2>2, <2>3, <3>1, <5>2
        <5> QED BY <5>1, <5>2
      <4> QED BY <1>5, <3>1, <4>1, <4>2, <4>3
    <3>2. CASE t # s
      <4>1. ASSUME NEW v \in Workers, wpc[v] = "clamp", wsrv[v] = t PROVE wpc'[v] = "clamp" /\ wsrv'[v] = t
        BY <1>1, <3>2, <4>1 DEF OthersStay
      <4> QED BY <1>5, <2>1, <2>2, <3>2, <4>1 DEF WeightInv, EffectiveWeightBounds, At
    <3> QED BY <3>1, <3>2
  <2>5. ASSUME NEW v \in Workers
        PROVE  /\ wpc'[v] = "decay" => /\ wreg'[v] \in 0 .. Weight[wsrv'[v]] + 1
                                       /\ is_down'[wsrv'[v]] => wreg'[v] <= 1
                                       /\ cpc' = "rise" /\ csrv' = wsrv'[v] => wreg'[v] <= Weight[csrv']
               /\ wpc'[v] = "grow" => wreg'[v] >= 0 /\ ~is_down'[wsrv'[v]]
               /\ wpc'[v] = "flagO2" => effective_weight'[wsrv'[v]] <= 1
    <3>1. CASE v = w BY <1>2, <1>5, <3>1
    <3>2. CASE v # w
      <4>1. wpc'[v] = wpc[v] /\ wsrv'[v] = wsrv[v] /\ wreg'[v] = wreg[v] BY <1>1, <3>2 DEF OthersStay
      <4>2. wpc[v] \in LockedPc => /\ effective_weight'[wsrv[v]] = effective_weight[wsrv[v]]
                                   /\ is_down'[wsrv[v]] = is_down[wsrv[v]]
        BY <1>2, <1>3, <1>5, <3>2
      <4>3. wpc[v] \in {"decay", "grow", "flagO2"} => wpc[v] \in LockedPc BY DEF LockedPc, DownPc
      <4> QED BY <1>2, <4>1, <4>2, <4>3 DEF WeightInv, LoadedWeights
    <3> QED BY <3>1, <3>2
  <2>6. cpc' = "rise" => effective_weight'[csrv'] <= Weight[csrv'] \/ Emptying(csrv)'
    <3>1. CASE csrv = s BY <1>2, <1>5, <2>2, <2>3, <3>1
    <3>2. CASE csrv # s BY <1>2, <1>5, <2>2, <3>2 DEF WeightInv, LoadedWeights
    <3> QED BY <3>1, <3>2
  <2>7. /\ cpc' = "raise" => creg' \in 0 .. Weight[csrv'] /\ (is_down'[csrv'] => creg' <= 1)
        /\ cpc' = "down" => effective_weight'[csrv'] <= 1
    <3>1. cpc \in {"raise", "down"} => /\ effective_weight'[csrv] = effective_weight[csrv]
                                       /\ is_down'[csrv] = is_down[csrv]
      BY <1>2, <1>4, <1>5 DEF CheckedPc
    <3> QED BY <1>2, <1>5, <3>1 DEF WeightInv, LoadedWeights
  <2> QED BY <1>2, <2>4, <2>5, <2>6, <2>7 DEF WeightInv, LoadedWeights
<1>6. /\ effective_weight[s] <= Weight[s] + 1
      /\ is_down[s] => effective_weight[s] <= 1 \/ Emptying(s) \/ (Raised(s) /\ effective_weight[s] <= 2)
      /\ cpc = "rise" /\ csrv = s => effective_weight[s] <= Weight[s] \/ Emptying(s)
  BY <1>2 DEF WeightInv, EffectiveWeightBounds, LoadedWeights
<1>60. wpc[w] \in LockedPc \ {"zero"} => ~Emptying(s) /\ ~Raised(s) BY <1>2, StoresDone
<1>7. effective_weight[s] \in Int /\ s \in Servers BY <1>2
<1> HIDE DEF s
<1>8. CASE OpenClientfd(w)
  <2>1. /\ wpc[w] = "connect" /\ wpc'[w] \in {"opened", "refused"}
        /\ effective_weight' = effective_weight /\ is_down' = is_down /\ wreg' = wreg
    BY <1>2, <1>8 DEF OpenClientfd, srvVars, Goto
  <2>2. wpc[w] \notin LockedPc BY <2>1 DEF LockedPc, DownPc
  <2> QED BY <1>2, <1>5, <1>6, <1>7, <2>1, <2>2
<1>9. CASE SrvLock(w)
  <2>1. /\ wpc[w] \in {"opened", "refused", "closed"} /\ wpc'[w] \in {"revive", "decay", "drop"}
        /\ wpc'[w] = "decay" => wreg'[w] = effective_weight[s]
        /\ wreg'[w] \in Int
        /\ lock[s] = NoThread
        /\ effective_weight' = effective_weight /\ is_down' = is_down /\ wsrv' = wsrv
    BY <1>2, <1>7, <1>9 DEF SrvLock, Goto, s
  <2>2. effective_weight[s] >= 0 BY <1>7, <2>1, NotNegative DEF WeightInv
  <2>3. wsrv'[w] = s BY <2>1 DEF s
  <2>4. ~Emptying(s) /\ ~Raised(s) BY <1>7, <2>1, StoresDone
  <2> QED BY <1>2, <1>5, <1>6, <1>7, <2>1, <2>2, <2>3, <2>4
<1>10. CASE Decay(w)
  <2> DEFINE n == IF MaxFails[s] = 0 THEN wreg[w] ELSE wreg[w] - (Weight[s] \div MaxFails[s])
  <2>1. /\ wpc[w] = "decay" /\ wpc'[w] = IF n < 0 THEN "clamp" ELSE "mark"
        /\ effective_weight' = [effective_weight EXCEPT ![s] = IF MaxFails[s] = 0 THEN @ ELSE n]
        /\ wreg'[w] = 0
        /\ is_down' = is_down /\ wsrv' = wsrv
    BY <1>2, <1>10 DEF Decay, Goto, s
  <2>2. /\ wreg[w] \in 0 .. Weight[s] + 1
        /\ is_down[s] => wreg[w] <= 1
        /\ cpc = "rise" /\ csrv = s => wreg[w] <= Weight[s]
    BY <2>1 DEF WeightInv, LoadedWeights, s
  <2>3. MaxFails[s] # 0 => Weight[s] \div MaxFails[s] \in Nat BY <1>7, DecayNat
  <2>4. n \in Int /\ n <= wreg[w] BY <1>2, <2>2, <2>3
  <2>5. effective_weight'[s] = IF MaxFails[s] = 0 THEN effective_weight[s] ELSE n BY <1>2, <1>7, <2>1
  <2>6. wpc[w] \in LockedPc \ {"clamp", "zero"} BY <2>1 DEF LockedPc, DownPc
  <2>7. effective_weight[s] >= 0 BY <1>7, <2>6, NotNegative DEF WeightInv, s
  <2>8. \A t \in Servers : t # s => effective_weight'[t] = effective_weight[t] BY <1>2, <2>1
  <2>9. wsrv'[w] = s BY <2>1 DEF s
  <2>10. wpc[w] \in LockedPc \ {"zero"} BY <2>6
  <2> HIDE DEF n
  <2> QED BY <1>2, <1>5, <1>60, <1>6, <1>7, <2>1, <2>2, <2>4, <2>5, <2>7, <2>8, <2>9, <2>10
<1>11. CASE Clamp(w)
  <2>1. /\ wpc[w] = "clamp" /\ wpc'[w] = "mark"
        /\ effective_weight' = [effective_weight EXCEPT ![s] = 0]
        /\ is_down' = is_down /\ wreg' = wreg
    BY <1>2, <1>11 DEF Clamp, Goto, s
  <2>2. wpc[w] \in LockedPc BY <2>1 DEF LockedPc, DownPc
  <2>3. effective_weight'[s] = 0 /\ \A t \in Servers : t # s => effective_weight'[t] = effective_weight[t]
    BY <1>2, <1>7, <2>1
  <2> QED BY <1>2, <1>5, <2>1, <2>2, <2>3
<1>12. CASE Mark(w)
  <2>1. wpc[w] = "mark" /\ effective_weight' = effective_weight /\ is_down' = is_down
    BY <1>12 DEF Mark, s
  <2>2. \/ wpc'[w] \in {"flag", "stampO2"} /\ wsrv'[w] = s /\ wreg'[w] = wreg[w]
        \/ wpc'[w] = "idle" /\ wreg'[w] = 0
    BY <1>2, <1>12 DEF Mark, SrvUnlock, Goto, s
  <2>3. wpc[w] \in LockedPc \ {"zero"} BY <2>1 DEF LockedPc, DownPc
  <2>4. effective_weight[s] >= 0
    <3>1. wpc[w] \in LockedPc \ {"clamp"} BY <2>1 DEF LockedPc, DownPc
    <3> QED BY <1>7, <3>1, NotNegative DEF WeightInv, s
  <2> QED BY <1>2, <1>5, <1>60, <1>6, <1>7, <2>1, <2>2, <2>3, <2>4
<1>13. CASE DownFlag(w)
  <2>1. /\ is_down' = [is_down EXCEPT ![s] = TRUE] /\ effective_weight' = effective_weight
        /\ \/ wpc[w] = "flag" /\ wpc'[w] = "zero" /\ wreg' = wreg /\ wsrv'[w] = s
           \/ wpc[w] = "flagO2" /\ wpc'[w] = "idle" /\ wreg'[w] = 0
    BY <1>2, <1>13 DEF DownFlag, SrvUnlock, Goto, s
  <2>2. wpc[w] = "flagO2" => effective_weight[s] <= 1 BY DEF WeightInv, LoadedWeights, s
  <2>3. wpc[w] \in LockedPc \ {"zero", "clamp"} BY <2>1 DEF LockedPc, DownPc
  <2>4. \A t \in Servers : t # s => is_down'[t] = is_down[t] BY <1>2, <2>1
  <2>5. effective_weight[s] >= 0 BY <1>7, <2>3, NotNegative DEF WeightInv, s
  <2> QED BY <1>2, <1>5, <1>60, <1>6, <1>7, <2>1, <2>2, <2>3, <2>4, <2>5
<1>18. CASE DownZero(w)
  <2>1. /\ effective_weight' = [effective_weight EXCEPT ![s] = 0] /\ is_down' = is_down
        /\ wpc[w] \in {"zero", "zeroO2"} /\ wpc'[w] \in {"stamp", "flagO2"}
        /\ wreg' = wreg /\ wsrv'[w] = s
    BY <1>2, <1>18 DEF DownZero, Goto, s
  <2>2. wpc[w] \in LockedPc BY <2>1 DEF LockedPc, DownPc
  <2>3. effective_weight'[s] = 0 /\ \A t \in Servers : t # s => effective_weight'[t] = effective_weight[t]
    BY <1>2, <1>7, <2>1
  <2> QED BY <1>2, <1>5, <2>1, <2>2, <2>3
<1>19. CASE DownStamp(w)
  <2>1. /\ effective_weight' = effective_weight /\ is_down' = is_down
        /\ wpc[w] \in {"stamp", "stampO2"} /\ wpc'[w] \in {"idle", "zeroO2"} /\ wreg'[w] \in Int
    BY <1>2, <1>19 DEF DownStamp, SrvUnlock, Goto, s
  <2>2. wpc[w] \in LockedPc \ {"zero", "clamp"} BY <2>1 DEF LockedPc, DownPc
  <2>3. effective_weight[s] >= 0 BY <1>7, <2>2, NotNegative DEF WeightInv, s
  <2> QED BY <1>2, <1>5, <1>60, <1>6, <1>7, <2>1, <2>2, <2>3
<1>14. CASE Revive(w)
  <2>1. /\ wpc[w] = "revive" /\ wpc'[w] = "grow" /\ wreg'[w] = effective_weight[s]
        /\ is_down' = [is_down EXCEPT ![s] = FALSE]
        /\ effective_weight' = effective_weight /\ wsrv' = wsrv
    BY <1>2, <1>14 DEF Revive, Goto, s
  <2>2. wpc[w] \in LockedPc \ {"clamp", "zero"} BY <2>1 DEF LockedPc, DownPc
  <2>3. effective_weight[s] >= 0 BY <1>7, <2>2, NotNegative DEF WeightInv, s
  <2>4. ~is_down'[s] /\ \A t \in Servers : t # s => is_down'[t] = is_down[t] BY <1>2, <1>7, <2>1
  <2>5. wsrv'[w] = s BY <2>1 DEF s
  <2> QED BY <1>2, <1>5, <1>60, <1>6, <1>7, <2>1, <2>2, <2>3, <2>4, <2>5
<1>15. CASE Grow(w)
  <2>1. /\ wpc[w] = "grow" /\ wpc'[w] = "idle" /\ wreg'[w] = 0
        /\ effective_weight' = [effective_weight EXCEPT ![s] = IF wreg[w] < Weight[s] THEN wreg[w] + 1 ELSE @]
        /\ is_down' = is_down
    BY <1>2, <1>15 DEF Grow, SrvUnlock, Goto, s
  <2>2. wreg[w] >= 0 /\ ~is_down[s] BY <2>1 DEF WeightInv, LoadedWeights, s
  <2>3. wpc[w] \in LockedPc \ {"clamp", "zero"} BY <2>1 DEF LockedPc, DownPc
  <2>4. effective_weight[s] >= 0 BY <1>7, <2>3, NotNegative DEF WeightInv, s
  <2>5. /\ effective_weight'[s] = IF wreg[w] < Weight[s] THEN wreg[w] + 1 ELSE effective_weight[s]
        /\ \A t \in Servers : t # s => effective_weight'[t] = effective_weight[t]
    BY <1>2, <1>7, <2>1
  <2> QED BY <1>2, <1>5, <1>60, <1>6, <1>7, <2>1, <2>2, <2>3, <2>4, <2>5
<1>16. CASE CloseProxy(w)
  <2>1. /\ wpc[w] = "idle" /\ wpc'[w] = "closed" /\ wreg'[w] \in Int
        /\ effective_weight' = effective_weight /\ is_down' = is_down
    BY <1>2, <1>16 DEF CloseProxy, Goto, srvVars
  <2>2. wpc[w] \notin LockedPc BY <2>1 DEF LockedPc, DownPc
  <2> QED BY <1>2, <1>5, <1>6, <1>7, <2>1, <2>2
<1>17. CASE Drop(w)
  <2>1. /\ wpc[w] = "drop" /\ wpc'[w] = "idle" /\ wreg'[w] \in Int
        /\ effective_weight' = effective_weight /\ is_down' = is_down
    BY <1>2, <1>17 DEF Drop, SrvUnlock, Goto
  <2>2. wpc[w] \in LockedPc \ {"zero"} BY <2>1 DEF LockedPc, DownPc
  <2> QED BY <1>2, <1>5, <1>60, <1>6, <1>7, <2>1, <2>2
<1> QED BY <1>8, <1>9, <1>10, <1>11, <1>12, <1>13, <1>14, <1>15, <1>16, <1>17, <1>18, <1>19 DEF ConnectNext

\* The checker keeps them too.
LEMMA CheckerWeightInv ==
    ASSUME NEW Pcs, Typed(Pcs), LocksHeld, WeightInv, CheckerNext, UNCHANGED connVars
    PROVE  WeightInv'
<1>1. /\ csrv \in Servers /\ Weight[csrv] \in Nat /\ Weight[csrv] >= 1 /\ creg \in Int
      /\ effective_weight \in [Servers -> Int] /\ is_down \in [Servers -> BOOLEAN]
      /\ wsrv \in [Workers -> Servers] /\ wreg \in [Workers -> Int]
      /\ wpc' = wpc /\ wsrv' = wsrv /\ wreg' = wreg
  BY WeightPos DEF Typed, UpstreamTypeOK, connVars
<1>0. \A pcs, s : At(pcs, s)' = At(pcs, s) BY <1>1 DEF At
<1>10. \A s : Emptying(s)' <=> Emptying(s) BY <1>0 DEF Emptying
<1>2. CASE \E s \in Servers : \/ TimerConnected(s) \/ TimerDisconnected(s) \/ TimerConnecting(s)
                              \/ EventConnected(s) \/ EventFailed(s)
  <2>1. /\ effective_weight' = effective_weight /\ is_down' = is_down
        /\ cpc = "wait" /\ cpc' \in {"wait", "rise", "fall"}
        /\ cpc' = "rise" => csrv' \in Servers /\ is_down[csrv']
    BY <1>2 DEF TimerConnected, TimerDisconnected, TimerConnecting, EventConnected, EventFailed,
                CountSuccess, CountFailure, srvVars
  <2>0. \A s \in Servers : ~Raised(s) /\ ~Raised(s)' BY <2>1 DEF Raised
  <2>2. cpc' = "rise" => (effective_weight[csrv'] <= Weight[csrv'] \/ Emptying(csrv')) /\ Weight[csrv'] >= 1
    BY <1>1, <2>0, <2>1, WeightPos DEF WeightInv, EffectiveWeightBounds
  <2>3. EffectiveWeightBounds' BY <1>0, <1>10, <2>0, <2>1 DEF WeightInv, EffectiveWeightBounds
  <2>4. LoadedWeights' BY <1>1, <1>10, <2>1, <2>2, WeightPos DEF WeightInv, LoadedWeights
  <2> QED BY <2>3, <2>4 DEF WeightInv
<1>3. CASE CheckLock
  <2>1. /\ cpc \in {"rise", "fall"} /\ cpc' = IF cpc = "rise" THEN "raise" ELSE "zero"
        /\ creg' = IF cpc = "rise" THEN effective_weight[csrv] ELSE 0
        /\ effective_weight' = effective_weight /\ is_down' = is_down /\ csrv' = csrv
        /\ lock[csrv] = NoThread
    BY <1>3 DEF CheckLock
  <2>0. \A s \in Servers : ~Raised(s) /\ ~Raised(s)' BY <2>1 DEF Raised
  <2>2. ~(effective_weight[csrv] < 0) BY <1>1, <2>1, NotNegative DEF WeightInv
  <2>5. ~Emptying(csrv) BY <1>1, <2>1, StoresDone
  <2>6. is_down[csrv] => effective_weight[csrv] <= 1
    BY <1>1, <2>0, <2>5 DEF WeightInv, EffectiveWeightBounds
  <2>3. EffectiveWeightBounds' BY <1>0, <1>10, <2>0, <2>1 DEF WeightInv, EffectiveWeightBounds
  <2>4. LoadedWeights' BY <1>1, <2>1, <2>2, <2>5, <2>6 DEF WeightInv, LoadedWeights
  <2> QED BY <2>3, <2>4 DEF WeightInv
\* The other steps hold the lock: no worker is at a locked location of csrv.
<1>4. ASSUME cpc \in CheckedPc,
             cpc' \in {"wait", "up", "down"}, cpc' = "down" => csrv' = csrv /\ effective_weight'[csrv] <= 1,
             \A t \in Servers : t # csrv => effective_weight'[t] = effective_weight[t] /\ is_down'[t] = is_down[t],
             effective_weight'[csrv] \in 0 .. Weight[csrv] + 1,
             is_down'[csrv] => \/ effective_weight'[csrv] <= 1
                               \/ cpc' = "up" /\ csrv' = csrv /\ effective_weight'[csrv] <= 2
      PROVE  WeightInv'
  <2>1. \A w \in Workers : wpc[w] \in LockedPc => wsrv[w] # csrv BY <1>4, Alone
  <2>2. \A t \in Servers : t # csrv => ~Raised(t) BY DEF Raised
  <2>3. \A t : Raised(t)' <=> (cpc' = "up" /\ csrv' = t) BY DEF Raised
  <2>4. EffectiveWeightBounds'
    <3> SUFFICES ASSUME NEW t \in Servers
                 PROVE  /\ effective_weight'[t] <= Weight[t] + 1
                        /\ is_down'[t] /\ ~Emptying(t) => effective_weight'[t] <= IF Raised(t)' THEN 2 ELSE 1
                        /\ effective_weight'[t] < 0 => At({"clamp"}, t) # {}
      BY <1>0, <1>10 DEF EffectiveWeightBounds
    <3>1. CASE t = csrv BY <1>1, <1>4, <2>3, <3>1
    <3>2. CASE t # csrv BY <1>1, <1>4, <2>2, <3>2 DEF WeightInv, EffectiveWeightBounds
    <3> QED BY <3>1, <3>2
  <2>5. \A w \in Workers : wpc[w] \in {"decay", "grow", "flagO2"} =>
          /\ effective_weight'[wsrv[w]] = effective_weight[wsrv[w]]
          /\ is_down'[wsrv[w]] = is_down[wsrv[w]]
    BY <1>1, <1>4, <2>1 DEF LockedPc, DownPc
  <2>6. LoadedWeights' BY <1>1, <1>4, <2>5 DEF WeightInv, LoadedWeights
  <2> QED BY <2>4, <2>6 DEF WeightInv
<1>8. CASE CheckRaise
  <2>1. /\ cpc = "raise" /\ cpc' = "up" /\ effective_weight'[csrv] = creg + 1 /\ csrv' = csrv
        /\ is_down' = is_down
        /\ \A t \in Servers : t # csrv => effective_weight'[t] = effective_weight[t]
    BY <1>1, <1>8 DEF CheckRaise
  <2>2. cpc \in CheckedPc BY <2>1 DEF CheckedPc
  <2>3. creg \in 0 .. Weight[csrv] /\ (is_down[csrv] => creg <= 1) BY <2>1 DEF WeightInv, LoadedWeights
  <2> QED BY <1>1, <1>4, <2>1, <2>2, <2>3
<1>5. CASE CheckUp
  <2>1. /\ cpc = "up" /\ cpc' = "wait" /\ is_down'[csrv] = FALSE /\ effective_weight' = effective_weight
        /\ \A t \in Servers : t # csrv => is_down'[t] = is_down[t]
    BY <1>1, <1>5 DEF CheckUp, CheckUnlock
  <2>2. cpc \in CheckedPc BY <2>1 DEF CheckedPc
  <2>3. ~(effective_weight[csrv] < 0) BY <1>1, <2>2, NotNegative DEF WeightInv
  <2>4. effective_weight[csrv] <= Weight[csrv] + 1 BY <1>1 DEF WeightInv, EffectiveWeightBounds
  <2> QED BY <1>1, <1>4, <2>1, <2>2, <2>3, <2>4
<1>6. CASE CheckZero
  <2>1. /\ cpc = "zero" /\ cpc' = "down" /\ effective_weight'[csrv] = 0 /\ csrv' = csrv
        /\ is_down' = is_down
        /\ \A t \in Servers : t # csrv => effective_weight'[t] = effective_weight[t]
    BY <1>1, <1>6 DEF CheckZero
  <2>2. cpc \in CheckedPc BY <2>1 DEF CheckedPc
  <2> QED BY <1>1, <1>4, <2>1, <2>2
<1>7. CASE CheckDown
  <2>1. /\ cpc = "down" /\ cpc' = "wait" /\ effective_weight' = effective_weight
        /\ \A t \in Servers : t # csrv => is_down'[t] = is_down[t]
    BY <1>1, <1>7 DEF CheckDown, CheckUnlock
  <2>2. cpc \in CheckedPc BY <2>1 DEF CheckedPc
  <2>3. ~(effective_weight[csrv] < 0) BY <1>1, <2>2, NotNegative DEF WeightInv
  <2>4. effective_weight[csrv] <= 1 BY <2>1 DEF WeightInv, LoadedWeights
  <2> QED BY <1>1, <1>4, <2>1, <2>2, <2>3, <2>4
<1> QED BY <1>2, <1>3, <1>5, <1>6, <1>7, <1>8 DEF CheckerNext

-----------------------------------------------------------------------------
(* Failures *)

\* Connects and closes keep fails, is_down and the weight in agreement.
LEMMA ConnectFailsInv ==
    ASSUME NEW Pcs, Typed(Pcs), LocksHeld, FailsInv, NEW w \in Workers, ConnectNext(w)
    PROVE  FailsInv'
<1>0. PICK s \in Servers : s = wsrv[w] BY DEF Typed, UpstreamTypeOK
<1> DEFINE Match(t) == /\ is_down[t] => fails[t] >= 1
                       /\ ~is_down[t] => fails[t] = 0 \/ fails[t] < MaxFails[t]
<1>1. OthersStay(w) BY ConnectOthersStay
<1>2. /\ s \in Servers /\ MaxFails[s] \in Nat
      /\ fails \in [Servers -> Nat] /\ is_down \in [Servers -> BOOLEAN]
      /\ wpc \in [Workers -> Pcs] /\ wsrv \in [Workers -> Servers]
  BY <1>0, UpstreamAssumption DEF Typed, UpstreamTypeOK
<1>3. \A v \in Workers : v # w /\ wpc[v] \in MarkedPc /\ wpc[w] \in LockedPc => wsrv[v] # s
  BY <1>0, Alone DEF LockedPc, DownPc, MarkedPc
<1>4. wpc[w] \in LockedPc \ MarkedPc => Match(s)
  BY <1>0, <1>2, <1>3 DEF FailsInv, At
<1>5. ASSUME wpc[w] \in LockedPc \/ (fails' = fails /\ is_down' = is_down),
             \A t \in Servers : t # s => fails'[t] = fails[t] /\ is_down'[t] = is_down[t],
             wpc'[w] \in MarkedPc => wsrv'[w] = s /\ fails'[s] >= 1,
             wpc[w] \in LockedPc => wpc'[w] \in MarkedPc \/ Match(s)',
             wpc[w] \notin LockedPc => wpc'[w] \notin MarkedPc
      PROVE  FailsInv'
  <2>1. ASSUME NEW v \in Workers, wpc'[v] \in MarkedPc PROVE fails'[wsrv'[v]] >= 1
    <3>1. CASE v = w BY <1>0, <1>5, <2>1, <3>1
    <3>2. CASE v # w BY <1>0, <1>1, <1>2, <1>3, <1>5, <2>1, <3>2 DEF FailsInv, OthersStay
    <3> QED BY <3>1, <3>2
  <2>2. ASSUME NEW t \in Servers, At(MarkedPc, t)' = {} PROVE Match(t)'
    <3>1. CASE t = s /\ wpc[w] \in LockedPc BY <1>0, <1>5, <2>2, <3>1 DEF At
    <3>2. CASE t # s \/ wpc[w] \notin LockedPc
      <4>1. fails'[t] = fails[t] /\ is_down'[t] = is_down[t] BY <1>0, <1>5, <3>2
      <4>2. At(MarkedPc, t) = {}
        BY <1>0, <1>1, <2>2, <3>2 DEF At, OthersStay, LockedPc, DownPc, MarkedPc
      <4> QED BY <1>0, <4>1, <4>2 DEF FailsInv
    <3> QED BY <3>1, <3>2
  <2> QED BY <2>1, <2>2 DEF FailsInv
<1>6. CASE OpenClientfd(w) \/ SrvLock(w) \/ CloseProxy(w)
  <2>1. /\ fails' = fails /\ is_down' = is_down /\ wpc[w] \notin LockedPc
        /\ wpc'[w] \notin MarkedPc
    BY <1>0, <1>2, <1>6 DEF OpenClientfd, SrvLock, CloseProxy, srvVars, Goto, LockedPc, DownPc, MarkedPc
  <2> QED BY <1>0, <1>5, <2>1
<1>7. CASE Decay(w) \/ Clamp(w) \/ Drop(w)
  <2>1. /\ fails' = fails /\ is_down' = is_down /\ wpc[w] \in LockedPc \ MarkedPc
        /\ wpc'[w] \notin MarkedPc
    BY <1>0, <1>2, <1>7 DEF Decay, Clamp, Drop, SrvUnlock, Goto, LockedPc, DownPc, MarkedPc
  <2> QED BY <1>0, <1>4, <1>5, <2>1
<1>8. CASE Mark(w)
  <2>1. /\ wpc[w] \in LockedPc \ MarkedPc
        /\ fails' = [fails EXCEPT ![s] = Count(s)] /\ is_down' = is_down
    BY <1>0, <1>8 DEF Mark, LockedPc, DownPc, MarkedPc
  <2>2. \/ GoesDown(s) /\ wpc'[w] \in MarkedPc /\ wsrv'[w] = s
        \/ ~GoesDown(s) /\ wpc'[w] \notin MarkedPc
    BY <1>0, <1>2, <1>8 DEF Mark, SrvUnlock, Goto, MarkedPc
  <2>3. Count(s) \in Nat /\ Count(s) >= 1 BY <1>0, <1>2 DEF Count, Capped, FailsCap
  <2>4. fails'[s] = Count(s) /\ \A t \in Servers : t # s => fails'[t] = fails[t] BY <1>0, <1>2, <2>1
  <2> QED BY <1>0, <1>2, <1>5, <2>1, <2>2, <2>3, <2>4 DEF GoesDown
<1>9. CASE DownFlag(w)
  <2>1. /\ wpc[w] \in {"flag", "flagO2"} /\ wpc'[w] \in {"zero", "idle"} /\ fails' = fails
        /\ is_down' = [is_down EXCEPT ![s] = TRUE]
    BY <1>0, <1>2, <1>9 DEF DownFlag, SrvUnlock, Goto
  <2>2. wpc[w] \in MarkedPc /\ wpc[w] \in LockedPc /\ wpc'[w] \notin MarkedPc
    BY <2>1 DEF MarkedPc, LockedPc, DownPc
  <2>3. fails[s] >= 1 BY <1>0, <2>2 DEF FailsInv
  <2> QED BY <1>0, <1>2, <1>5, <2>1, <2>2, <2>3
<1>12. CASE DownZero(w) \/ DownStamp(w)
  <2>1. /\ fails' = fails /\ is_down' = is_down
        /\ \/ wpc[w] = "zero" /\ wpc'[w] = "stamp"
           \/ wpc[w] = "stamp" /\ wpc'[w] = "idle"
           \/ wpc[w] = "stampO2" /\ wpc'[w] = "zeroO2" /\ wsrv'[w] = s
           \/ wpc[w] = "zeroO2" /\ wpc'[w] = "flagO2" /\ wsrv'[w] = s
    BY <1>0, <1>2, <1>12 DEF DownZero, DownStamp, SrvUnlock, Goto
  <2>2. \/ wpc[w] \in LockedPc \ MarkedPc /\ wpc'[w] \notin MarkedPc
        \/ wpc[w] \in LockedPc \cap MarkedPc /\ wpc'[w] \in MarkedPc /\ wsrv'[w] = s
    BY <2>1 DEF MarkedPc, LockedPc, DownPc
  <2>3. wpc[w] \in MarkedPc => fails[s] >= 1 BY <1>0 DEF FailsInv
  <2> QED BY <1>0, <1>2, <1>4, <1>5, <2>1, <2>2, <2>3
<1>10. CASE Revive(w)
  <2>1. /\ wpc[w] = "revive" /\ wpc'[w] = "grow"
        /\ is_down' = [is_down EXCEPT ![s] = FALSE]
        /\ fails' = [fails EXCEPT ![s] = IF is_down[s] THEN 0 ELSE @]
    BY <1>0, <1>2, <1>10 DEF Revive, Goto
  <2>2. wpc[w] \in LockedPc \ MarkedPc BY <1>0, <2>1 DEF LockedPc, DownPc, MarkedPc
  <2>3. /\ fails'[s] = IF is_down[s] THEN 0 ELSE fails[s]
        /\ ~is_down'[s]
        /\ \A t \in Servers : t # s => fails'[t] = fails[t] /\ is_down'[t] = is_down[t]
    BY <1>0, <1>2, <2>1
  <2>4. wpc'[w] \notin MarkedPc BY <2>1 DEF MarkedPc
  <2> QED BY <1>0, <1>2, <1>4, <1>5, <2>1, <2>2, <2>3, <2>4
<1>11. CASE Grow(w)
  <2>1. /\ wpc[w] = "grow" /\ wpc'[w] = "idle" /\ fails' = fails /\ is_down' = is_down
    BY <1>0, <1>2, <1>11 DEF Grow, SrvUnlock, Goto
  <2> QED BY <1>0, <1>4, <1>5, <2>1 DEF LockedPc, DownPc, MarkedPc
<1> QED BY <1>6, <1>7, <1>8, <1>9, <1>10, <1>11, <1>12 DEF ConnectNext

\* The checker keeps them too, though it tests is_down before it locks.
LEMMA CheckerFailsInv ==
    ASSUME NEW Pcs, Typed(Pcs), LocksHeld, FailsInv, CheckerNext, UNCHANGED connVars
    PROVE  FailsInv'
<1>1. /\ fails \in [Servers -> Nat] /\ is_down \in [Servers -> BOOLEAN] /\ csrv \in Servers
      /\ wpc' = wpc /\ wsrv' = wsrv /\ wsrv \in [Workers -> Servers]
  BY DEF Typed, UpstreamTypeOK, connVars
<1>2. CASE \/ \E s \in Servers : \/ TimerConnected(s) \/ TimerDisconnected(s) \/ TimerConnecting(s)
                                 \/ EventConnected(s) \/ EventFailed(s)
           \/ CheckLock \/ CheckRaise \/ CheckZero
  <2>1. fails' = fails /\ is_down' = is_down
    BY <1>2 DEF TimerConnected, TimerDisconnected, TimerConnecting, EventConnected, EventFailed,
                CheckLock, CheckRaise, CheckZero, srvVars
  <2> QED BY <1>1, <2>1 DEF FailsInv, At
<1>3. CASE CheckUp \/ CheckDown
  <2>1. /\ cpc \in CheckedPc
        /\ \/ is_down' = [is_down EXCEPT ![csrv] = FALSE] /\ fails' = [fails EXCEPT ![csrv] = 0]
           \/ is_down' = [is_down EXCEPT ![csrv] = TRUE] /\ fails' = [fails EXCEPT ![csrv] = 1]
    BY <1>3 DEF CheckUp, CheckDown, CheckedPc
  <2>2. \A w \in Workers : wpc[w] \in MarkedPc => wsrv[w] # csrv BY <2>1, Alone DEF LockedPc, DownPc, MarkedPc
  <2> QED BY <1>1, <2>1, <2>2 DEF FailsInv, At
<1> QED BY <1>2, <1>3 DEF CheckerNext

\* The invariant about failures implies what the runs check.
LEMMA FailsInvMatch ==
    ASSUME FailsInv, LocksHeld
    PROVE  FailsMatchState
<1>1. \A s \in Servers : lock[s] = NoThread => At(MarkedPc, s) = {}
  BY Alone DEF At, LockedPc, DownPc, MarkedPc
<1> QED BY <1>1 DEF FailsInv, FailsMatchState

-----------------------------------------------------------------------------
(* The start, and the steps of a policy *)

\* The servers as the configuration leaves them satisfy all of this.
LEMMA InitServers ==
    ASSUME NEW Pcs, ConnectPc \subseteq Pcs, InitUpstream, InitCheck
    PROVE  Typed(Pcs) /\ LocksHeld /\ WeightInv /\ FailsInv
<1>1. 0 \in Servers BY ServersNat
<1>2. Typed(Pcs)
  BY <1>1, UpstreamAssumption
  DEF InitUpstream, InitCheck, Typed, UpstreamTypeOK, AgeCap, ConnectPc, CheckerPc
<1>3. LocksHeld BY DEF InitUpstream, InitCheck, LocksHeld, LockedPc, DownPc, CheckedPc
<1>4. EffectiveWeightBounds BY WeightPos DEF InitUpstream, EffectiveWeightBounds
<1>5. LoadedWeights BY DEF InitUpstream, InitCheck, LoadedWeights
<1>6. FailsInv BY UpstreamAssumption DEF InitUpstream, FailsInv, At, MarkedPc
<1> QED BY <1>2, <1>3, <1>4, <1>5, <1>6 DEF WeightInv

\* At the start every lock is free.
LEMMA InitLockHolders == InitUpstream => LockHolders
BY DEF InitUpstream, LockHolders

\* What a selection, the traffic statistics or the clock may do: a worker moves
\* only outside the connects and closes, and of the fields of the servers that
\* the invariants are about only a weight changes, to the unit of a probe.
BusyPc == LockedPc \cup {"opened", "refused", "closed"}

Outside ==
    /\ \A v \in Workers : \/ wpc'[v] = wpc[v] /\ wsrv'[v] = wsrv[v] /\ wreg'[v] = wreg[v]
                          \/ wpc[v] \notin BusyPc /\ wpc'[v] \notin BusyPc
    /\ UNCHANGED <<fails, is_down, lock, cpc, csrv, creg>>
    /\ \/ UNCHANGED effective_weight
       \/ \E s \in Servers : effective_weight' = [effective_weight EXCEPT ![s] = 1]

\* Such a step neither takes nor leaves the lock of a server.
LEMMA OutsideLockHolders == LockHolders /\ Outside => LockHolders'
BY DEF LockHolders, Outside, BusyPc

\* Such a step keeps the invariants of the servers.
LEMMA OutsideServers ==
    ASSUME NEW Pcs, Typed(Pcs), LocksHeld, WeightInv, FailsInv, Outside
    PROVE  LocksHeld' /\ WeightInv' /\ FailsInv'
<1>1. \A v \in Workers : wpc[v] \in LockedPc \/ wpc'[v] \in LockedPc =>
        wpc'[v] = wpc[v] /\ wsrv'[v] = wsrv[v] /\ wreg'[v] = wreg[v]
  BY DEF Outside, BusyPc
<1>2. \A v \in Workers : wpc[v] \in {"clamp", "decay", "grow", "zero"} \cup MarkedPc => wpc[v] \in LockedPc
  BY DEF LockedPc, DownPc, MarkedPc
<1>3. \A v \in Workers : wpc'[v] \in {"clamp", "decay", "grow", "zero"} \cup MarkedPc => wpc'[v] \in LockedPc
  BY DEF LockedPc, DownPc, MarkedPc
<1>11. \A s : At({"clamp"}, s)' = At({"clamp"}, s) BY <1>1, <1>2, <1>3 DEF At
<1>12. \A s : At({"zero"}, s)' = At({"zero"}, s) BY <1>1, <1>2, <1>3 DEF At
<1>13. \A s : At(MarkedPc, s)' = At(MarkedPc, s) BY <1>1, <1>2, <1>3 DEF At
<1>4. fails' = fails /\ is_down' = is_down /\ lock' = lock /\ cpc' = cpc /\ csrv' = csrv /\ creg' = creg
  BY DEF Outside
<1>5. csrv \in Servers /\ wsrv \in [Workers -> Servers] /\ effective_weight \in [Servers -> Int]
  BY DEF Typed, UpstreamTypeOK
<1>6. \A s \in Servers : effective_weight'[s] = effective_weight[s] \/ effective_weight'[s] = 1
  BY <1>5 DEF Outside
<1>7. LocksHeld' BY <1>1, <1>4 DEF LocksHeld
<1>8. EffectiveWeightBounds'
  <2> SUFFICES ASSUME NEW s \in Servers
               PROVE  /\ effective_weight'[s] <= Weight[s] + 1
                      /\ is_down'[s] /\ ~Emptying(s) => effective_weight'[s] <= IF Raised(s) THEN 2 ELSE 1
                      /\ effective_weight'[s] < 0 => At({"clamp"}, s) # {}
    BY <1>4, <1>11, <1>12 DEF EffectiveWeightBounds, Emptying, Raised
  <2>1. CASE effective_weight'[s] = 1 BY <2>1, WeightPos
  <2>2. CASE effective_weight'[s] = effective_weight[s]
    BY <1>4, <2>2 DEF WeightInv, EffectiveWeightBounds
  <2> QED BY <1>6, <2>1, <2>2
<1>9. LoadedWeights'
  <2>1. ASSUME NEW v \in Workers
        PROVE  /\ wpc'[v] = "decay" => /\ wreg'[v] \in 0 .. Weight[wsrv'[v]] + 1
                                       /\ is_down'[wsrv'[v]] => wreg'[v] <= 1
                                       /\ cpc' = "rise" /\ csrv' = wsrv'[v] => wreg'[v] <= Weight[csrv']
               /\ wpc'[v] = "grow" => wreg'[v] >= 0 /\ ~is_down'[wsrv'[v]]
               /\ wpc'[v] = "flagO2" => effective_weight'[wsrv'[v]] <= 1
    BY <1>1, <1>3, <1>4, <1>5, <1>6 DEF WeightInv, LoadedWeights, MarkedPc
  <2>2. /\ cpc' = "rise" => effective_weight'[csrv'] <= Weight[csrv'] \/ Emptying(csrv)'
        /\ cpc' = "raise" => creg' \in 0 .. Weight[csrv'] /\ (is_down'[csrv'] => creg' <= 1)
        /\ cpc' = "down" => effective_weight'[csrv'] <= 1
    BY <1>4, <1>5, <1>6, <1>12, WeightPos DEF WeightInv, LoadedWeights, Emptying
  <2> QED BY <1>4, <2>1, <2>2 DEF LoadedWeights
<1>10. FailsInv' BY <1>1, <1>3, <1>4, <1>13 DEF FailsInv
<1> QED BY <1>7, <1>8, <1>9, <1>10 DEF WeightInv

-----------------------------------------------------------------------------
(* Connection counts *)

\* How worker w counts among the workers at pcs, for server s.
Here(w, pcs, s) == IF wpc[w] \in pcs /\ wsrv[w] = s THEN 1 ELSE 0

\* A worker's step moves only itself in or out of a set of locations.
LEMMA AtStep ==
    ASSUME NEW w \in Workers, OthersStay(w), NEW pcs, NEW s
    PROVE  /\ Cardinality(At(pcs, s)) \in Nat
           /\ Cardinality(At(pcs, s)') = Cardinality(At(pcs, s)) + Here(w, pcs, s)' - Here(w, pcs, s)
<1> DEFINE A == At(pcs, s)
           B == At(pcs, s)'
           C == At(pcs, s) \ {w}
<1>1. IsFiniteSet(Workers) BY UpstreamAssumption
<1>2. IsFiniteSet(A) /\ IsFiniteSet(C) BY <1>1, FS_Subset DEF At
<1>3. Cardinality(A) \in Nat /\ Cardinality(C) \in Nat BY <1>2, FS_CardinalityType
<1>4. B \ {w} = C BY DEF At, OthersStay
<1>5. w \notin C OBVIOUS
<1>6. Cardinality(A) = Cardinality(C) + Here(w, pcs, s)
  <2>1. CASE w \in A
    <3>1. Cardinality(C) = Cardinality(A) - 1 BY <1>2, <2>1, FS_RemoveElement
    <3> QED BY <1>3, <2>1, <3>1 DEF At, Here
  <2>2. CASE w \notin A
    <3>1. C = A BY <2>2
    <3>2. Here(w, pcs, s) = 0 BY <2>2 DEF At, Here
    <3> QED BY <1>3, <3>1, <3>2
  <2> QED BY <2>1, <2>2
<1>7. Cardinality(B) = Cardinality(C) + Here(w, pcs, s)'
  <2>1. CASE w \in B
    <3>1. B = C \cup {w} BY <1>4, <2>1
    <3>2. Cardinality(C \cup {w}) = Cardinality(C) + 1 BY <1>2, <1>5, FS_AddElement
    <3>3. Here(w, pcs, s)' = 1 BY <2>1 DEF At, Here
    <3> QED BY <3>1, <3>2, <3>3
  <2>2. CASE w \notin B
    <3>1. B = C BY <1>4, <2>2
    <3>2. Here(w, pcs, s)' = 0 BY <2>2 DEF At, Here
    <3> QED BY <1>3, <3>1, <3>2
  <2> QED BY <2>1, <2>2
<1>8. Here(w, pcs, s) \in Nat /\ Here(w, pcs, s)' \in Nat BY DEF Here
<1> HIDE DEF A, B, C
<1>9. Cardinality(B) = Cardinality(A) + Here(w, pcs, s)' - Here(w, pcs, s) BY <1>3, <1>6, <1>7, <1>8
<1> QED BY <1>3, <1>9 DEF A, B

\* A worker's step changes the connections open to a server by its own.
LEMMA OpenToStep ==
    ASSUME NEW Pcs, Typed(Pcs), Typed(Pcs)', NEW w \in Workers, NEW s \in Servers,
           \A v \in Workers \ {w} : open'[v] = open[v]
    PROVE  OpenTo(s) \in Int /\ OpenTo(s)' = OpenTo(s) + open'[w][s] - open[w][s]
<1> DEFINE f == [v \in Workers |-> open[v][s]]
           g == [v \in Workers |-> open'[v][s]]
<1>1. IsFiniteSet(Workers) BY UpstreamAssumption
<1>2. \A v \in Workers : f[v] \in Int /\ g[v] \in Int BY DEF Typed, UpstreamTypeOK
<1>3. \A v \in Workers : v # w => f[v] = g[v] OBVIOUS
<1>4. OpenTo(s) = SumFunctionOnSet(f, Workers) /\ OpenTo(s)' = SumFunctionOnSet(g, Workers) BY DEF OpenTo
<1>5. f[w] = open[w][s] /\ g[w] = open'[w][s] OBVIOUS
<1> HIDE DEF f, g
<1>6. SumFunctionOnSet(f, Workers) \in Int BY <1>1, <1>2, SumType
<1>7. SumFunctionOnSet(g, Workers) = SumFunctionOnSet(f, Workers) + g[w] - f[w] BY <1>1, <1>2, <1>3, SumChange
<1> QED BY <1>4, <1>5, <1>6, <1>7

Opened == {"opened", "revive", "grow"}
Closed == {"closed", "drop"}

\* Connects and closes keep connection_n equal to the number of open connections.
LEMMA ConnectCounted ==
    ASSUME NEW Pcs, Typed(Pcs), Typed(Pcs)', NEW s \in Servers, Counted(s),
           NEW w \in Workers, ConnectNext(w)
    PROVE  Counted(s)'
<1>1. OthersStay(w) BY ConnectOthersStay
<1>2. /\ wsrv[w] \in Servers /\ wsrv \in [Workers -> Servers] /\ wpc \in [Workers -> Pcs]
      /\ connection_n \in [Servers -> Int] /\ open \in [Workers -> [Servers -> Nat]]
      /\ open[w][s] \in Nat
  BY DEF Typed, UpstreamTypeOK
<1>3. \A v \in Workers \ {w} : open'[v] = open[v]
  BY <1>2 DEF ConnectNext, OpenClientfd, SrvLock, Decay, Clamp, Mark, DownFlag, DownZero, DownStamp,
               Revive, Grow, CloseProxy, Drop
\* The balance that the step has to keep.
<1>4. SUFFICES connection_n'[s] - connection_n[s] + Here(w, Opened, s)' - Here(w, Opened, s)
                 = open'[w][s] - open[w][s] + Here(w, Closed, s)' - Here(w, Closed, s)
  <2> DEFINE a == Cardinality(At(Opened, s))
             b == Cardinality(At(Closed, s))
             o == OpenTo(s)
  <2>1. a \in Nat /\ Cardinality(At(Opened, s)') = a + Here(w, Opened, s)' - Here(w, Opened, s)
    BY <1>1, AtStep
  <2>2. b \in Nat /\ Cardinality(At(Closed, s)') = b + Here(w, Closed, s)' - Here(w, Closed, s)
    BY <1>1, AtStep
  <2>3. o \in Int /\ OpenTo(s)' = o + open'[w][s] - open[w][s] BY <1>3, OpenToStep
  <2>4. connection_n[s] + a = o + b BY DEF Counted, Opened, Closed
  <2>5. connection_n'[s] \in Int /\ connection_n[s] \in Int /\ open'[w][s] \in Int /\ open[w][s] \in Int
    BY DEF Typed, UpstreamTypeOK
  <2>6. Counted(s)' <=> connection_n'[s] + Cardinality(At(Opened, s)') = OpenTo(s)' + Cardinality(At(Closed, s)')
    BY DEF Counted, Opened, Closed
  <2>7. /\ Here(w, Opened, s) \in Int /\ Here(w, Opened, s)' \in Int
        /\ Here(w, Closed, s) \in Int /\ Here(w, Closed, s)' \in Int
    BY DEF Here
  <2> HIDE DEF a, b, o
  <2> QED BY <1>4, <2>1, <2>2, <2>3, <2>4, <2>5, <2>6, <2>7
<1> USE DEF Here, Opened, Closed, Goto
<1>5. CASE OpenClientfd(w)
  BY <1>2, <1>5 DEF OpenClientfd, srvVars
<1>6. CASE SrvLock(w) BY <1>2, <1>6 DEF SrvLock
<1>7. CASE Decay(w) BY <1>2, <1>7 DEF Decay
<1>8. CASE Clamp(w) BY <1>2, <1>8 DEF Clamp
<1>9. CASE Mark(w)
  <2>1. wpc'[w] \in {"idle", "flag", "stampO2"} BY <1>2, <1>9 DEF Mark, SrvUnlock
  <2> QED BY <1>2, <1>9, <2>1 DEF Mark
<1>10. CASE DownFlag(w) BY <1>2, <1>10 DEF DownFlag, SrvUnlock
<1>15. CASE DownZero(w) BY <1>2, <1>15 DEF DownZero
<1>16. CASE DownStamp(w) BY <1>2, <1>16 DEF DownStamp, SrvUnlock
<1>11. CASE Revive(w) BY <1>2, <1>11 DEF Revive
<1>12. CASE Grow(w) BY <1>2, <1>12 DEF Grow, SrvUnlock
<1>13. CASE CloseProxy(w)
  <2>1. PICK t \in Servers : /\ open[w][t] > 0
                             /\ open' = [open EXCEPT ![w][t] = @ - 1]
                             /\ wsrv' = [wsrv EXCEPT ![w] = t]
    BY <1>13 DEF CloseProxy
  <2>2. wpc[w] = "idle" /\ wpc'[w] = "closed" /\ wsrv'[w] = t /\ connection_n' = connection_n
    BY <1>2, <1>13, <2>1 DEF CloseProxy, srvVars
  <2>3. open'[w][s] = IF s = t THEN open[w][s] - 1 ELSE open[w][s] BY <1>2, <2>1
  <2> QED BY <1>2, <2>2, <2>3
<1>14. CASE Drop(w) BY <1>2, <1>14 DEF Drop, SrvUnlock
<1> QED BY <1>5, <1>6, <1>7, <1>8, <1>9, <1>10, <1>11, <1>12, <1>13, <1>14, <1>15, <1>16 DEF ConnectNext

\* A step that leaves the count and the sockets alone keeps the balance.
LEMMA OutsideCounted ==
    ASSUME NEW s, Counted(s), UNCHANGED <<connection_n, open>>,
           \A v \in Workers : \/ wpc'[v] = wpc[v] /\ wsrv'[v] = wsrv[v]
                              \/ wpc[v] \notin BusyPc /\ wpc'[v] \notin BusyPc
    PROVE  Counted(s)'
<1>1. At(Opened, s)' = At(Opened, s) BY DEF At, Opened, BusyPc, LockedPc, DownPc
<1>2. At(Closed, s)' = At(Closed, s) BY DEF At, Closed, BusyPc, LockedPc, DownPc
<1>3. OpenTo(s)' = OpenTo(s) BY DEF OpenTo
<1> QED BY <1>1, <1>2, <1>3 DEF Counted, Opened, Closed

\* At the start there are none.
LEMMA InitCounted ==
    ASSUME InitUpstream, NEW s \in Servers
    PROVE  Counted(s)
<1> DEFINE f == [w \in Workers |-> open[w][s]]
<1>1. At({"opened", "revive", "grow"}, s) = {} /\ At({"closed", "drop"}, s) = {}
  BY DEF InitUpstream, At
<1>2. SumFunctionOnSet(f, Workers) = 0
  <2>1. IsFiniteSet(Workers) BY UpstreamAssumption
  <2>2. \A w \in Workers : f[w] = 0 BY DEF InitUpstream
  <2> HIDE DEF f
  <2> QED BY <2>1, <2>2, SumZero
<1>3. connection_n[s] = 0 BY DEF InitUpstream
<1> QED BY <1>1, <1>2, <1>3, FS_EmptySet DEF Counted, OpenTo

-----------------------------------------------------------------------------
(* Checks in flight *)

\* Every nonempty set of naturals has a least member.
LEMMA LeastNat ==
    ASSUME NEW Bad, Bad \subseteq Nat, Bad # {}
    PROVE  \E n \in Bad : \A m \in Bad : n <= m
<1> DEFINE R == {p \in Nat \X Nat : p[1] < p[2]}
<1>1. IsWellFoundedOn(R, Nat) BY NatLessThanWellFounded DEF OpToRel
<1>2. \E n \in Bad : \A m \in Bad : ~(<<m, n>> \in R)
  <2> HIDE DEF R
  <2> QED BY <1>1, WFMin
<1>3. PICK n \in Bad : \A m \in Bad : ~(<<m, n>> \in R) BY <1>2
<1>4. \A m \in Bad : ~(m < n) BY <1>3
<1>5. \A m \in Bad : n <= m BY <1>4
<1> QED BY <1>5

\* A sum over 0..n is that over 0..n-1 and the last summand.
LEMMA SumInterval ==
    ASSUME NEW n \in Nat, NEW f, \A e \in 0..n : f[e] \in Int
    PROVE  /\ SumFunctionOnSet(f, 0..n) = f[n] + SumFunctionOnSet(f, 0..n-1)
           /\ SumFunctionOnSet(f, 0..n-1) \in Int
<1>1. IsFiniteSet(0..n) /\ IsFiniteSet(0..n-1) BY FS_Interval
<1>2. (0..n) \ {n} = 0..n-1 /\ n \in 0..n OBVIOUS
<1>3. SumFunctionOnSet(f, 0..n) = f[n] + SumFunctionOnSet(f, (0..n) \ {n}) BY <1>1, <1>2, SumRemove
<1>4. SumFunctionOnSet(f, 0..n-1) \in Int
  <2>1. \A e \in 0..n-1 : f[e] \in Int OBVIOUS
  <2> QED BY <1>1, <2>1, SumType
<1> QED BY <1>2, <1>3, <1>4

\* The clock moves every check to the next age and loses none: the ones that
\* reach the timeout gather there.
LEMMA SumAged ==
    ASSUME NEW T \in Nat, NEW f \in [0..T -> Nat], NEW g,
           \A e \in 0..T : g[e] = (IF e = 0 THEN 0 ELSE f[e-1]) + (IF e = T THEN f[e] ELSE 0)
    PROVE  SumFunctionOnSet(g, 0..T) = SumFunctionOnSet(f, 0..T)
<1> DEFINE S(h, n) == SumFunctionOnSet(h, 0..n)
<1>1. \A n \in 0..T : /\ S(f, n) = f[n] + S(f, n-1) /\ S(f, n-1) \in Int
                      /\ S(g, n) = g[n] + S(g, n-1) /\ S(g, n-1) \in Int
  <2> SUFFICES ASSUME NEW n \in 0..T
               PROVE  /\ S(f, n) = f[n] + S(f, n-1) /\ S(f, n-1) \in Int
                      /\ S(g, n) = g[n] + S(g, n-1) /\ S(g, n-1) \in Int
    OBVIOUS
  <2>1. n \in Nat /\ \A e \in 0..n : f[e] \in Int OBVIOUS
  <2>2. \A e \in 0..n : g[e] \in Int
    <3> SUFFICES ASSUME NEW e \in 0..n PROVE g[e] \in Int OBVIOUS
    <3>1. e \in 0..T /\ f[e] \in Int OBVIOUS
    <3>2. e # 0 => e-1 \in 0..T OBVIOUS
    <3>3. e # 0 => f[e-1] \in Int BY <3>2
    <3> QED BY <3>1, <3>3
  <2> QED BY <2>1, <2>2, SumInterval
<1>2. 0..0-1 = {} OBVIOUS
<1>3. S(f, 0-1) = 0 /\ S(g, 0-1) = 0 BY <1>2, SumEmpty
<1> HIDE DEF S
<1>4. \A n \in 0..T-1 : S(g, n) = S(f, n-1)
  <2> DEFINE Bad == {n \in 0..T-1 : S(g, n) # S(f, n-1)}
  <2>1. SUFFICES ASSUME Bad # {} PROVE FALSE OBVIOUS
  <2>2. PICK n \in Bad : \A m \in Bad : n <= m
    <3>1. Bad \subseteq Nat OBVIOUS
    <3> HIDE DEF Bad
    <3> QED BY <2>1, <3>1, LeastNat
  <2>3. CASE n = 0 BY <1>1, <1>3, <2>2, <2>3
  <2>4. CASE n # 0
    <3>1. n-1 \in 0..T-1 /\ n \in 0..T-1 BY <2>2, <2>4
    <3>2. S(g, n-1) = S(f, n-1-1) BY <2>2, <3>1
    <3>3. S(g, n) = f[n-1] + S(g, n-1) BY <1>1, <2>4, <3>1
    <3>4. S(f, n-1) = f[n-1] + S(f, n-1-1) BY <1>1, <3>1
    <3> QED BY <2>2, <3>2, <3>3, <3>4
  <2> QED BY <2>3, <2>4
<1>5. CASE T = 0 BY <1>1, <1>3, <1>5 DEF S
<1>6. CASE T # 0
  <2>1. T \in 0..T /\ T-1 \in 0..T /\ T-1 \in 0..T-1 BY <1>6
  <2>2. S(g, T) = f[T-1] + f[T] + S(g, T-1) BY <1>1, <1>6, <2>1
  <2>3. S(g, T-1) = S(f, T-1-1) BY <1>4, <2>1
  <2>4. S(f, T) = f[T] + S(f, T-1) /\ S(f, T-1) = f[T-1] + S(f, T-1-1) /\ S(f, T-1-1) \in Int BY <1>1, <2>1
  <2>5. f[T] \in Int /\ f[T-1] \in Int BY <2>1
  <2>6. S(g, T) = S(f, T) BY <2>2, <2>3, <2>4, <2>5
  <2> QED BY <2>6 DEF S
<1> QED BY <1>5, <1>6

\* The bound on the checks in flight.
PendingInv ==
    /\ DOMAIN pending = Servers
    /\ \A s \in Servers : /\ pending[s] \in [0..CheckTimeout[s] -> Nat]
                          /\ InFlight(s) <= MaxPending

\* The ages of a check in flight are finitely many.
LEMMA AgesFinite == \A s \in Servers : CheckTimeout[s] \in Nat /\ IsFiniteSet(0..CheckTimeout[s])
<1> SUFFICES ASSUME NEW s \in Servers PROVE CheckTimeout[s] \in Nat /\ IsFiniteSet(0..CheckTimeout[s]) OBVIOUS
<1>1. CheckTimeout[s] \in Nat BY HealthCheckAssumption
<1> QED BY <1>1, FS_Interval

\* No check is in flight at the start.
LEMMA InitPending == InitCheck => PendingInv
<1> SUFFICES ASSUME InitCheck, NEW s \in Servers
             PROVE  DOMAIN pending = Servers /\ pending[s] \in [0..CheckTimeout[s] -> Nat] /\ InFlight(s) <= MaxPending
  BY ServersNat DEF PendingInv
<1>1. pending[s] = [e \in 0..CheckTimeout[s] |-> 0] /\ DOMAIN pending = Servers BY DEF InitCheck
<1>2. CheckTimeout[s] \in Nat /\ MaxPending \in Nat BY HealthCheckAssumption
<1>3. IsFiniteSet(0..CheckTimeout[s]) BY <1>2, FS_Interval
<1>4. \A e \in 0..CheckTimeout[s] : pending[s][e] = 0 BY <1>1
<1>5. InFlight(s) = 0 BY <1>3, <1>4, SumZero DEF InFlight
<1> QED BY <1>1, <1>2, <1>5

\* One check more, or one less.
LEMMA PendingChange ==
    ASSUME PendingInv, NEW s \in Servers, NEW e \in 0..CheckTimeout[s], NEW n \in Nat,
           pending' = [pending EXCEPT ![s][e] = n],
           InFlight(s) + n - pending[s][e] <= MaxPending
    PROVE  PendingInv'
<1>2. IsFiniteSet(0..CheckTimeout[s]) BY AgesFinite
<1>3. pending[s] \in [0..CheckTimeout[s] -> Nat] /\ DOMAIN pending = Servers BY DEF PendingInv
<1>4. pending'[s] = [pending[s] EXCEPT ![e] = n] BY <1>3
<1>5. \A t \in Servers : t # s => pending'[t] = pending[t] BY <1>3
<1> DEFINE f == pending[s]
           g == pending'[s]
<1>6. g \in [0..CheckTimeout[s] -> Nat] /\ g[e] = n BY <1>3, <1>4
<1>7. InFlight(s)' = InFlight(s) + n - f[e]
  <2>1. InFlight(s)' = SumFunctionOnSet([f EXCEPT ![e] = n], 0..CheckTimeout[s]) BY <1>4 DEF InFlight
  <2>2. f \in [0..CheckTimeout[s] -> Int] /\ n \in Int BY <1>3
  <2> HIDE DEF f
  <2> QED BY <1>2, <2>1, <2>2, SumExcept DEF InFlight, f
<1>8. \A t \in Servers : t # s => InFlight(t)' = InFlight(t) BY <1>5 DEF InFlight
<1>9. DOMAIN pending' = Servers BY <1>3
<1> QED BY <1>5, <1>6, <1>7, <1>8, <1>9 DEF PendingInv

\* Starting and ending a check keep the number in flight in its bounds.
LEMMA CheckerPending == PendingInv /\ CheckerNext => PendingInv'
<1> SUFFICES ASSUME PendingInv, CheckerNext PROVE PendingInv' OBVIOUS
<1>1. ASSUME UNCHANGED pending PROVE PendingInv' BY <1>1 DEF PendingInv, InFlight
<1>2. MaxPending \in Nat /\ \A s \in Servers : CheckTimeout[s] \in Nat BY HealthCheckAssumption
<1>3. \A s \in Servers : InFlight(s) \in Nat
  <2> SUFFICES ASSUME NEW s \in Servers PROVE InFlight(s) \in Nat OBVIOUS
  <2>1. IsFiniteSet(0..CheckTimeout[s]) BY <1>2, FS_Interval
  <2>2. \A e \in 0..CheckTimeout[s] : pending[s][e] \in Nat BY DEF PendingInv
  <2> QED BY <2>1, <2>2, SumNat DEF InFlight
<1>4. ASSUME NEW s \in Servers, TimerConnecting(s) PROVE PendingInv'
  <2>1. 0 \in 0..CheckTimeout[s] BY <1>2
  <2>2. pending[s] \in [0..CheckTimeout[s] -> Nat] BY DEF PendingInv
  <2>3. pending[s][0] + 1 \in Nat BY <1>2, <2>1, <2>2
  <2>4. pending' = [pending EXCEPT ![s][0] = pending[s][0] + 1] BY <1>4 DEF TimerConnecting
  <2>5. InFlight(s) + (pending[s][0] + 1) - pending[s][0] <= MaxPending
    BY <1>2, <1>3, <1>4, <2>3, <2>1, <2>2 DEF TimerConnecting
  <2> QED BY <2>1, <2>3, <2>4, <2>5, PendingChange
<1>5. ASSUME NEW s \in Servers, NEW e \in 0..CheckTimeout[s], pending[s][e] > 0,
             pending' = [pending EXCEPT ![s][e] = @ - 1]
      PROVE  PendingInv'
  <2>1. pending[s] \in [0..CheckTimeout[s] -> Nat] BY DEF PendingInv
  <2>2. pending[s][e] \in Nat /\ pending[s][e] - 1 \in Nat BY <1>2, <1>5, <2>1
  <2>3. pending' = [pending EXCEPT ![s][e] = pending[s][e] - 1] BY <1>5
  <2>4. InFlight(s) <= MaxPending BY DEF PendingInv
  <2>5. InFlight(s) + (pending[s][e] - 1) - pending[s][e] <= MaxPending BY <1>2, <1>3, <2>2, <2>4
  <2> QED BY <2>2, <2>3, <2>5, PendingChange
<1>6. ASSUME NEW s \in Servers, EventConnected(s) \/ EventFailed(s) PROVE PendingInv'
  <2>1. \E e \in 0..CheckTimeout[s] : pending[s][e] > 0 /\ pending' = [pending EXCEPT ![s][e] = @ - 1]
    <3>1. 0..CheckTimeout[s]-1 \subseteq 0..CheckTimeout[s] BY <1>2
    <3> QED BY <1>6, <3>1 DEF EventConnected, EventFailed
  <2> QED BY <1>2, <1>5, <2>1
<1> QED BY <1>1, <1>4, <1>6 DEF CheckerNext, TimerConnected, TimerDisconnected, CheckLock, CheckRaise, CheckUp,
                                CheckZero, CheckDown, CheckUnlock

\* Time passing makes the checks in flight older and keeps their number.
LEMMA AgedPending == PendingInv /\ AgePending => PendingInv'
<1> SUFFICES ASSUME PendingInv, AgePending, NEW s \in Servers
             PROVE  /\ DOMAIN pending' = Servers /\ pending'[s] \in [0..CheckTimeout[s] -> Nat]
                    /\ InFlight(s)' <= MaxPending
  BY ServersNat DEF PendingInv
<1> DEFINE T == CheckTimeout[s]
           f == pending[s]
           g == pending'[s]
<1>1. T \in Nat BY HealthCheckAssumption
<1>2. f \in [0..T -> Nat] /\ InFlight(s) <= MaxPending BY DEF PendingInv
<1>3. g = [e \in 0..T |-> (IF e = 0 THEN 0 ELSE f[e-1]) + (IF e = T THEN f[e] ELSE 0)]
  BY DEF AgePending
<1>4. g \in [0..T -> Nat]
  <2>1. \A e \in 0..T : e # 0 => e-1 \in 0..T BY <1>1
  <2> HIDE DEF T, f, g
  <2> QED BY <1>1, <1>2, <1>3, <2>1
<1>5. SumFunctionOnSet(g, 0..T) = SumFunctionOnSet(f, 0..T)
  <2>1. \A e \in 0..T : g[e] = (IF e = 0 THEN 0 ELSE f[e-1]) + (IF e = T THEN f[e] ELSE 0) BY <1>3
  <2> HIDE DEF T, f, g
  <2> QED BY <1>1, <1>2, <2>1, SumAged
<1>6. InFlight(s)' = InFlight(s) BY <1>5 DEF InFlight
<1>7. DOMAIN pending' = Servers BY DEF AgePending
<1> QED BY <1>2, <1>4, <1>6, <1>7

\* With the bound, the type that the health check declares.
LEMMA CheckTyped ==
    ASSUME NEW Pcs, Typed(Pcs), PendingInv
    PROVE  CheckTypeOK
<1>1. ASSUME NEW s \in Servers PROVE pending[s] \in [0..CheckTimeout[s] -> 0..MaxPending]
  <2>1. CheckTimeout[s] \in Nat /\ MaxPending \in Nat BY HealthCheckAssumption
  <2>2. IsFiniteSet(0..CheckTimeout[s]) BY <2>1, FS_Interval
  <2>3. pending[s] \in [0..CheckTimeout[s] -> Nat] /\ InFlight(s) <= MaxPending BY DEF PendingInv
  <2>4. \A e \in 0..CheckTimeout[s] : pending[s][e] \in Nat BY <2>3
  <2>5. InFlight(s) \in Nat /\ \A e \in 0..CheckTimeout[s] : pending[s][e] <= InFlight(s)
    BY <2>2, <2>4, SumNat DEF InFlight
  <2>6. \A e \in 0..CheckTimeout[s] : pending[s][e] \in 0..MaxPending BY <2>1, <2>3, <2>4, <2>5
  <2> QED BY <2>3, <2>6
<1> QED BY <1>1 DEF Typed, PendingInv, CheckTypeOK
=============================================================================
