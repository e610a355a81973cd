------------------------------ MODULE FiniteSums ------------------------------
(***************************************************************************)
(* Sums over finite sets, as MapThenSumSet computes them: commission       *)
(* totals do not depend on the order in which ledger lines are added up,   *)
(* grow with the lines, and agree when lines and sales correspond.         *)
(***************************************************************************)
EXTENDS Integers, FiniteSetsExt, FiniteSetTheorems, TLAPS

Pick(T) == CHOOSE x \in T : TRUE

\* g adds up the values v of every subset of S, taking one element at a time.
Adds(g, v, S) ==
  g = [T \in SUBSET S |-> IF T = {} THEN 0 ELSE v[Pick(T)] + g[T \ {Pick(T)}]]

\* The sum of the values v[x] of the elements of S.
SumOf(v, S) == (CHOOSE g : Adds(g, v, S))[S]

-------------------------------------------------------------------------------
(* Induction over the subsets of a finite set, as a smallest counterexample *)

LEMMA PickIn ==
  ASSUME NEW T, T # {}
  PROVE  Pick(T) \in T
  BY DEF Pick

LEMMA Smallest ==
  ASSUME NEW S, IsFiniteSet(S), NEW Bad, Bad \subseteq SUBSET S, Bad # {}
  PROVE  \E T \in Bad : \A U \in SUBSET T : U # T => U \notin Bad
<1>1. IsWellFoundedOn(StrictSubsetOrdering(S), SUBSET S)
  BY FS_StrictSubsetOrderingWellFounded, FS_FiniteSubsetsOfFinite
<1>2. PICK T \in Bad : \A U \in Bad : ~(<<U, T>> \in StrictSubsetOrdering(S))
  BY <1>1, WFMin
<1>3. \A U \in SUBSET T : U # T => U \notin Bad
  BY <1>2 DEF StrictSubsetOrdering
<1> QED BY <1>3

-------------------------------------------------------------------------------
(* The recursion has one solution *)

LEMMA AddsUnfold ==
  ASSUME NEW g, NEW v, NEW S, Adds(g, v, S), NEW T \in SUBSET S
  PROVE  /\ T = {} => g[T] = 0
         /\ T # {} => g[T] = v[Pick(T)] + g[T \ {Pick(T)}]
  BY DEF Adds

LEMMA AddsUnique ==
  ASSUME NEW v, NEW S, IsFiniteSet(S), NEW R, NEW g, NEW h,
         Adds(g, v, S), Adds(h, v, R)
  PROVE  \A T \in SUBSET (S \intersect R) : g[T] = h[T]
<1> DEFINE Bad == {T \in SUBSET (S \intersect R) : g[T] # h[T]}
<1>1. SUFFICES ASSUME Bad # {} PROVE FALSE
  OBVIOUS
<1>2. Bad \subseteq SUBSET S
  OBVIOUS
<1>3. PICK T \in Bad : \A U \in SUBSET T : U # T => U \notin Bad
  <2> HIDE DEF Bad
  <2> QED BY <1>1, <1>2, Smallest
<1>4. T # {}
  BY <1>3, AddsUnfold
<1>5. Pick(T) \in T
  BY <1>4, PickIn
<1>6. g[T \ {Pick(T)}] = h[T \ {Pick(T)}]
  BY <1>3, <1>5
<1> QED BY <1>3, <1>4, <1>6, AddsUnfold

LEMMA AddsExists ==
  ASSUME NEW v, NEW S, IsFiniteSet(S)
  PROVE  \E g : Adds(g, v, S)
<1> DEFINE Bad == {T \in SUBSET S : ~\E g : Adds(g, v, T)}
<1>1. SUFFICES ASSUME Bad # {} PROVE FALSE
  BY DEF Adds
<1>2. Bad \subseteq SUBSET S
  OBVIOUS
<1>3. PICK T \in Bad : \A U \in SUBSET T : U # T => U \notin Bad
  <2> HIDE DEF Bad
  <2> QED BY <1>1, <1>2, Smallest
<1> DEFINE of(U) == CHOOSE g : Adds(g, v, U)
           rest(U) == U \ {Pick(U)}
           h == [U \in SUBSET T |-> IF U = {} THEN 0 ELSE v[Pick(U)] + of(rest(U))[rest(U)]]
<1>4. \A U \in SUBSET T : U # T => Adds(of(U), v, U)
  BY <1>3
<1>5. ASSUME NEW U \in SUBSET T, U # {}, U # T
      PROVE  h[U] = of(U)[U]
  <2>1. Pick(U) \in U /\ rest(U) \subseteq U /\ rest(U) # T /\ IsFiniteSet(U)
    BY <1>3, <1>5, PickIn, FS_Subset
  <2>2. Adds(of(U), v, U) /\ Adds(of(rest(U)), v, rest(U))
    BY <1>4, <1>5, <2>1
  <2>3. of(U)[U] = v[Pick(U)] + of(U)[rest(U)]
    BY <1>5, <2>2, AddsUnfold
  <2>4. of(U)[rest(U)] = of(rest(U))[rest(U)]
    BY <2>1, <2>2, AddsUnique
  <2> QED BY <1>5, <2>3, <2>4
<1>6. ASSUME NEW U \in SUBSET T, U # {} PROVE h[rest(U)] = of(rest(U))[rest(U)]
  <2>1. Pick(U) \in U /\ rest(U) \subseteq T /\ rest(U) # T
    BY <1>6, PickIn
  <2>2. CASE rest(U) = {}
    <3>1. of(rest(U))[rest(U)] = 0
      BY <1>4, <2>1, <2>2, AddsUnfold
    <3> QED BY <2>2, <3>1
  <2>3. CASE rest(U) # {}
    BY <1>5, <2>1, <2>3
  <2> QED BY <2>2, <2>3
<1>7. ASSUME NEW U \in SUBSET T
      PROVE  h[U] = IF U = {} THEN 0 ELSE v[Pick(U)] + h[U \ {Pick(U)}]
  <2>1. CASE U = {}
    BY <2>1
  <2>2. CASE U # {}
    <3>1. h[U] = v[Pick(U)] + of(rest(U))[rest(U)]
      BY <2>2
    <3>2. h[rest(U)] = of(rest(U))[rest(U)]
      BY <1>6, <2>2
    <3> HIDE DEF of, h
    <3> QED BY <2>2, <3>1, <3>2
  <2> QED BY <2>1, <2>2
<1>8. Adds(h, v, T)
  <2> HIDE DEF of
  <2> QED BY <1>7 DEF Adds
<1> QED BY <1>3, <1>8

LEMMA SumAdds ==
  ASSUME NEW v, NEW S, IsFiniteSet(S)
  PROVE  \A g : Adds(g, v, S) => \A T \in SUBSET S : SumOf(v, T) = g[T]
<1> SUFFICES ASSUME NEW g, Adds(g, v, S), NEW T \in SUBSET S PROVE SumOf(v, T) = g[T]
  OBVIOUS
<1> DEFINE h == CHOOSE f : Adds(f, v, T)
<1>1. IsFiniteSet(T)
  BY FS_Subset
<1>2. Adds(h, v, T)
  BY <1>1, AddsExists
<1>3. SumOf(v, T) = h[T]
  BY DEF SumOf
<1> HIDE DEF h
<1>4. h[T] = g[T]
  BY <1>1, <1>2, AddsUnique
<1> QED BY <1>3, <1>4

-------------------------------------------------------------------------------
(* Laws of sums *)

\* One element and the rest; the element is the one CHOOSE takes.
LEMMA SumUnfold ==
  ASSUME NEW v, NEW S, IsFiniteSet(S)
  PROVE  /\ S = {} => SumOf(v, S) = 0
         /\ S # {} => SumOf(v, S) = v[Pick(S)] + SumOf(v, S \ {Pick(S)})
<1>1. PICK g : Adds(g, v, S)
  BY AddsExists
<1>2. SumOf(v, S) = g[S] /\ SumOf(v, S \ {Pick(S)}) = g[S \ {Pick(S)}]
  BY <1>1, SumAdds
<1> QED BY <1>1, <1>2, AddsUnfold

\* A sum of natural numbers is one.
LEMMA SumType ==
  ASSUME NEW v, NEW S, IsFiniteSet(S), \A x \in S : v[x] \in Nat
  PROVE  SumOf(v, S) \in Nat
<1> DEFINE Bad == {T \in SUBSET S : SumOf(v, T) \notin Nat}
<1>1. SUFFICES ASSUME Bad # {} PROVE FALSE
  OBVIOUS
<1>2. PICK T \in Bad : \A U \in SUBSET T : U # T => U \notin Bad
  <2>1. Bad \subseteq SUBSET S
    OBVIOUS
  <2> HIDE DEF Bad
  <2> QED BY <1>1, <2>1, Smallest
<1>3. IsFiniteSet(T) /\ T \subseteq S
  BY <1>2, FS_Subset
<1>4. T # {}
  <2>1. SumOf(v, {}) = 0
    BY FS_EmptySet, SumUnfold
  <2>2. SumOf(v, T) \notin Nat
    BY <1>2
  <2> QED BY <2>1, <2>2
<1>5. Pick(T) \in T /\ T \ {Pick(T)} \notin Bad
  BY <1>2, <1>4, PickIn
<1>6. SumOf(v, T) = v[Pick(T)] + SumOf(v, T \ {Pick(T)})
  BY <1>3, <1>4, SumUnfold
<1>7. v[Pick(T)] \in Nat /\ SumOf(v, T \ {Pick(T)}) \in Nat
  BY <1>3, <1>5
<1> HIDE DEF Bad
<1>8. SumOf(v, T) \in Nat
  BY <1>6, <1>7
<1> QED BY <1>2, <1>8 DEF Bad

\* The order does not matter: any element may be taken out.
LEMMA SumRemove ==
  ASSUME NEW v, NEW S, IsFiniteSet(S), \A x \in S : v[x] \in Nat, NEW x \in S
  PROVE  SumOf(v, S) = v[x] + SumOf(v, S \ {x})
<1> DEFINE Bad == {T \in SUBSET S : \E y \in T : SumOf(v, T) # v[y] + SumOf(v, T \ {y})}
<1>1. SUFFICES ASSUME Bad # {} PROVE FALSE
  OBVIOUS
<1>2. PICK T \in Bad : \A U \in SUBSET T : U # T => U \notin Bad
  <2>1. Bad \subseteq SUBSET S
    OBVIOUS
  <2> HIDE DEF Bad
  <2> QED BY <1>1, <2>1, Smallest
<1>3. T \subseteq S /\ T # {} /\ IsFiniteSet(T)
  BY <1>2, FS_Subset
<1>4. PICK y \in T : SumOf(v, T) # v[y] + SumOf(v, T \ {y})
  BY <1>2
<1> DEFINE p == Pick(T)
           R == (T \ {p}) \ {y}
<1>5. p \in T
  BY <1>3, PickIn
<1> HIDE DEF p
<1>6. SumOf(v, T) = v[p] + SumOf(v, T \ {p})
  BY <1>3, SumUnfold DEF p
<1>7. y # p
  BY <1>4, <1>6
<1>8. SumOf(v, T \ {p}) = v[y] + SumOf(v, R)
  BY <1>2, <1>5, <1>7
<1>9. SumOf(v, T \ {y}) = v[p] + SumOf(v, R)
  <2>1. R = (T \ {y}) \ {p}
    OBVIOUS
  <2>2. T \ {y} \notin Bad /\ p \in T \ {y}
    BY <1>2, <1>5, <1>7
  <2>3. SumOf(v, T \ {y}) = v[p] + SumOf(v, (T \ {y}) \ {p})
    BY <1>3, <2>2
  <2> QED BY <2>1, <2>3
<1>10. v[p] \in Nat /\ v[y] \in Nat /\ SumOf(v, R) \in Nat
  <2>1. IsFiniteSet(R) /\ \A z \in R : v[z] \in Nat
    BY <1>3, FS_Subset
  <2> HIDE DEF R
  <2> QED BY <1>3, <1>5, <2>1, SumType
<1> QED BY <1>4, <1>6, <1>8, <1>9, <1>10

\* More elements never make the sum smaller.
LEMMA SumMonotone ==
  ASSUME NEW v, NEW S, IsFiniteSet(S), \A x \in S : v[x] \in Nat, NEW R \in SUBSET S
  PROVE  SumOf(v, R) <= SumOf(v, S)
<1> DEFINE Bad == {T \in SUBSET S : \E U \in SUBSET T : ~(SumOf(v, U) <= SumOf(v, T))}
<1>1. SUFFICES ASSUME Bad # {} PROVE FALSE
  OBVIOUS
<1>2. PICK T \in Bad : \A U \in SUBSET T : U # T => U \notin Bad
  <2>1. Bad \subseteq SUBSET S
    OBVIOUS
  <2> HIDE DEF Bad
  <2> QED BY <1>1, <2>1, Smallest
<1>3. /\ T \subseteq S /\ IsFiniteSet(T)
      /\ \A U \in SUBSET T : SumOf(v, U) \in Nat
  BY <1>2, FS_Subset, SumType
<1>4. PICK U \in SUBSET T : ~(SumOf(v, U) <= SumOf(v, T))
  BY <1>2
<1>5. PICK x \in T : x \notin U
  BY <1>3, <1>4
<1>6. SumOf(v, U) <= SumOf(v, T \ {x})
  BY <1>2, <1>4, <1>5
<1>7. SumOf(v, T) = v[x] + SumOf(v, T \ {x})
  BY <1>3, <1>5, SumRemove
<1>8. v[x] \in Nat /\ SumOf(v, T \ {x}) \in Nat /\ SumOf(v, U) \in Nat
  BY <1>3, <1>4, <1>5
<1> QED BY <1>4, <1>6, <1>7, <1>8

\* Two sets whose elements correspond one to one, with equal values, have one sum.
LEMMA SumCorresponds ==
  ASSUME NEW v, NEW S, IsFiniteSet(S), NEW w, NEW R, IsFiniteSet(R),
         \A y \in R : w[y] \in Nat,
         NEW f \in [S -> R],
         \A x, y \in S : f[x] = f[y] => x = y,
         \A x \in S : v[x] = w[f[x]]
  PROVE  SumOf(v, S) = SumOf(w, {f[x] : x \in S})
<1> DEFINE image(T) == {f[x] : x \in T}
           Bad == {T \in SUBSET S : SumOf(v, T) # SumOf(w, image(T))}
<1>1. SUFFICES ASSUME Bad # {} PROVE FALSE
  OBVIOUS
<1>2. PICK T \in Bad : \A U \in SUBSET T : U # T => U \notin Bad
  <2>1. Bad \subseteq SUBSET S
    OBVIOUS
  <2> HIDE DEF Bad
  <2> QED BY <1>1, <2>1, Smallest
<1>3. /\ T \subseteq S /\ IsFiniteSet(T)
      /\ image(T) \subseteq R /\ IsFiniteSet(image(T))
  <2>1. image(T) \in SUBSET R
    BY <1>2
  <2> HIDE DEF image
  <2> QED BY <1>2, <2>1, FS_Subset
<1>4. SumOf(w, {}) = 0 /\ SumOf(v, {}) = 0
  BY FS_EmptySet, SumUnfold
<1>5. T # {}
  <2>1. image({}) = {}
    OBVIOUS
  <2> QED BY <1>2, <1>4, <2>1
<1> DEFINE p == Pick(T)
<1>6. p \in T /\ SumOf(v, T) = v[p] + SumOf(v, T \ {p})
  BY <1>3, <1>5, PickIn, SumUnfold
<1> HIDE DEF p
<1>7. image(T \ {p}) = image(T) \ {f[p]} /\ f[p] \in image(T)
  BY <1>3, <1>6
<1>8. SumOf(v, T \ {p}) = SumOf(w, image(T \ {p}))
  BY <1>2, <1>6
<1>9. SumOf(w, image(T)) = w[f[p]] + SumOf(w, image(T) \ {f[p]})
  <2> HIDE DEF image
  <2> QED BY <1>3, <1>7, SumRemove
<1> QED BY <1>2, <1>3, <1>6, <1>7, <1>8, <1>9
===============================================================================
