--------------------------- MODULE SqlTools_proofs ---------------------------
(***************************************************************************)
(* Proofs about the tools of sql_tools.py, for any calls, statements,      *)
(* limits, and lengths of days and windows.                                *)
(***************************************************************************)
EXTENDS SqlTools, FiniteSetTheorems, WellFoundedInduction, TLAPS

-----------------------------------------------------------------------------
(* Sums.                                                                   *)

\* A collection of subsets of a finite set, not empty, has a member that no
\* other member is part of.  (Induction over finite sets in first-order form:
\* take the collection of those that a claim fails for.)
LEMMA MinimalSet ==
    ASSUME NEW U, IsFiniteSet(U), NEW F, F \subseteq SUBSET U, F # {}
    PROVE  \E S \in F : \A T \in F : T \subseteq S => T = S
<1> DEFINE R == StrictSubsetOrdering(U)
<1>1. F \subseteq FiniteSubsetsOf(U)
  BY FS_Subset DEF FiniteSubsetsOf
<1>2. IsWellFoundedOn(R, FiniteSubsetsOf(U))
  BY FS_StrictSubsetOrderingWellFounded
<1> HIDE DEF R
<1>3. PICK S \in F : \A T \in F : ~ (<<T, S>> \in R)
  BY <1>1, <1>2, WFMin
<1>4. \A T \in F : T \subseteq S => T = S
  BY <1>3 DEF R, StrictSubsetOrdering
<1> QED
  BY <1>3, <1>4

Some(s) == CHOOSE x \in s : TRUE
\* g computes the sums of f over the subsets of S, as SumFunctionOnSet does.
SumStep(f, g, s) == IF s = {} THEN 0 ELSE f[Some(s)] + g[s \ {Some(s)}]
IsSums(g, f, S) == g = [s \in SUBSET S |-> SumStep(f, g, s)]
Sums(f, S) == CHOOSE g : IsSums(g, f, S)

LEMMA SumIsSums == \A f, S : SumFunctionOnSet(f, S) = Sums(f, S)[S]
BY DEF SumFunctionOnSet, FoldFunctionOnSet, MapThenFoldSet, Sums, IsSums, SumStep, Some

LEMMA SomeIn == \A s : s # {} => Some(s) \in s
BY DEF Some

LEMMA SumsAgree ==
    ASSUME NEW f, NEW S, IsFiniteSet(S), NEW g, IsSums(g, f, S),
           NEW T, T \subseteq S, NEW h, IsSums(h, f, T)
    PROVE  g[T] = h[T]
<1> DEFINE F == {s \in SUBSET T : g[s] # h[s]}
<1>1. SUFFICES ASSUME F # {} PROVE FALSE
  OBVIOUS
<1>2. PICK s \in F : \A t \in F : t \subseteq s => t = s
  <2>1. IsFiniteSet(T)
    BY FS_Subset
  <2>2. F \subseteq SUBSET T
    OBVIOUS
  <2> HIDE DEF F
  <2> QED
    BY <1>1, <2>1, <2>2, MinimalSet
<1>3. g[s] = SumStep(f, g, s) /\ h[s] = SumStep(f, h, s)
  BY <1>2 DEF IsSums
<1>4. s # {}
  BY <1>2, <1>3 DEF SumStep
<1>5. s \ {Some(s)} \notin F /\ s \ {Some(s)} \in SUBSET T
  BY <1>2, <1>4, SomeIn
<1>6. g[s \ {Some(s)}] = h[s \ {Some(s)}]
  BY <1>5
<1> QED
  BY <1>2, <1>3, <1>6 DEF SumStep

LEMMA SumsExist ==
    ASSUME NEW f, NEW U, IsFiniteSet(U)
    PROVE  IsSums(Sums(f, U), f, U)
<1> DEFINE F == {S \in SUBSET U : ~IsSums(Sums(f, S), f, S)}
<1>1. SUFFICES ASSUME F # {} PROVE FALSE
  OBVIOUS
<1>2. PICK S \in F : \A T \in F : T \subseteq S => T = S
  <2>1. F \subseteq SUBSET U
    OBVIOUS
  <2> HIDE DEF F
  <2> QED
    BY <1>1, <2>1, MinimalSet
<1>3. \A t : t \subseteq S /\ t # S => IsSums(Sums(f, t), f, t) /\ IsFiniteSet(t)
  BY <1>2, FS_Subset
<1> DEFINE V(t) == Sums(f, t)[t]
           g == [s \in SUBSET S |-> IF s = {} THEN 0 ELSE f[Some(s)] + V(s \ {Some(s)})]
<1>4. ASSUME NEW t, t \subseteq S, t # S
      PROVE  g[t] = V(t)
  <2>1. V(t) = SumStep(f, Sums(f, t), t)
    BY <1>3, <1>4 DEF IsSums
  <2>2. CASE t = {}
    BY <2>1, <2>2 DEF SumStep
  <2>3. CASE t # {}
    <3> DEFINE u == t \ {Some(t)}
    <3>1. u \subseteq t /\ u \subseteq S /\ u # S
      BY <1>4, <2>3, SomeIn
    <3>2. Sums(f, t)[u] = V(u)
      <4> HIDE DEF u
      <4> QED
        BY <1>3, <1>4, <3>1, SumsAgree
    <3>3. g[t] = f[Some(t)] + V(u)
      BY <1>4, <2>3
    <3> QED
      BY <2>1, <2>3, <3>2, <3>3 DEF SumStep
  <2> QED
    BY <2>2, <2>3
<1>5. IsSums(g, f, S)
  <2>1. ASSUME NEW s \in SUBSET S, s # {}
        PROVE  V(s \ {Some(s)}) = g[s \ {Some(s)}]
    <3>1. s \ {Some(s)} \subseteq S /\ s \ {Some(s)} # S
      BY <2>1, SomeIn
    <3> HIDE DEF g, V
    <3> QED
      BY <1>4, <3>1
  <2>2. ASSUME NEW s \in SUBSET S
        PROVE  (IF s = {} THEN 0 ELSE f[Some(s)] + V(s \ {Some(s)})) = SumStep(f, g, s)
    <3> HIDE DEF g, V
    <3> QED
      BY <2>1 DEF SumStep
  <2> QED
    BY <2>2 DEF IsSums
<1>6. IsSums(Sums(f, S), f, S)
  <2> HIDE DEF g
  <2> QED
    BY <1>5 DEF Sums
<1> QED
  BY <1>2, <1>6

LEMMA SumUnfolds ==
    ASSUME NEW f, NEW S, IsFiniteSet(S)
    PROVE  /\ SumFunctionOnSet(f, {}) = 0
           /\ S # {} => SumFunctionOnSet(f, S)
                            = f[Some(S)] + SumFunctionOnSet(f, S \ {Some(S)})
<1>1. ASSUME NEW T, IsFiniteSet(T)
      PROVE  SumFunctionOnSet(f, T) = SumStep(f, Sums(f, T), T)
  <2>1. IsSums(Sums(f, T), f, T)
    BY <1>1, SumsExist
  <2>2. Sums(f, T)[T] = SumStep(f, Sums(f, T), T)
    BY <2>1 DEF IsSums
  <2> QED
    BY <2>2, SumIsSums
<1>2. SumFunctionOnSet(f, {}) = 0
  BY <1>1, FS_EmptySet DEF SumStep
<1>3. ASSUME S # {}
      PROVE  SumFunctionOnSet(f, S) = f[Some(S)] + SumFunctionOnSet(f, S \ {Some(S)})
  <2> DEFINE T == S \ {Some(S)}
  <2>1. T \subseteq S /\ IsFiniteSet(T)
    BY FS_Subset
  <2>2. Sums(f, S)[T] = SumFunctionOnSet(f, T)
    <3> HIDE DEF T
    <3> QED
      BY <2>1, SumsAgree, SumsExist, SumIsSums
  <2> QED
    BY <1>1, <1>3, <2>2 DEF SumStep
<1> QED
  BY <1>2, <1>3

\* The order of summation does not matter.
LEMMA SumTakesOut ==
    ASSUME NEW f, NEW U, IsFiniteSet(U), \A x \in U : f[x] \in Int
    PROVE  /\ SumFunctionOnSet(f, U) \in Int
           /\ \A x \in U : SumFunctionOnSet(f, U) = f[x] + SumFunctionOnSet(f, U \ {x})
<1> DEFINE Sum(S) == SumFunctionOnSet(f, S)
           Fine(S) == Sum(S) \in Int /\ \A x \in S : Sum(S) = f[x] + Sum(S \ {x})
           F == {S \in SUBSET U : ~Fine(S)}
<1>1. SUFFICES ASSUME F # {} PROVE FALSE
  OBVIOUS
<1>2. PICK S \in F : \A T \in F : T \subseteq S => T = S
  <2>1. F \subseteq SUBSET U
    OBVIOUS
  <2> HIDE DEF F
  <2> QED
    BY <1>1, <2>1, MinimalSet
<1> HIDE DEF Sum
<1>3. \A T : T \subseteq S /\ T # S => Fine(T)
  BY <1>2
<1>4. IsFiniteSet(S) /\ S \subseteq U
  BY <1>2, FS_Subset
<1>5. Sum({}) = 0 /\ \A T \in SUBSET S : T # {} => Sum(T) = f[Some(T)] + Sum(T \ {Some(T)})
  BY <1>4, SumUnfolds, FS_Subset DEF Sum
<1>6. S # {}
  <2>1. Fine({})
    BY <1>5
  <2> QED
    BY <1>2, <2>1
<1> DEFINE a == Some(S)
<1>7. a \in S /\ f[a] \in Int /\ Fine(S \ {a}) /\ Sum(S) = f[a] + Sum(S \ {a})
  BY <1>3, <1>4, <1>5, <1>6, SomeIn
<1>8. Sum(S) \in Int
  BY <1>7
<1> HIDE DEF a
<1>9. ASSUME NEW x \in S, x # a
      PROVE  Sum(S) = f[x] + Sum(S \ {x})
  <2>1. Fine(S \ {x}) /\ x \in S \ {a} /\ a \in S \ {x}
    BY <1>3, <1>7, <1>9
  <2>2. Fine((S \ {x}) \ {a})
    BY <1>3, <1>7
  <2>3. (S \ {x}) \ {a} = (S \ {a}) \ {x}
    OBVIOUS
  <2>4. Sum(S \ {a}) = f[x] + Sum((S \ {x}) \ {a})
    BY <1>7, <2>1, <2>3
  <2>5. Sum(S \ {x}) = f[a] + Sum((S \ {x}) \ {a})
    BY <2>1
  <2>6. f[x] \in Int /\ Sum((S \ {x}) \ {a}) \in Int
    BY <1>4, <2>2
  <2> QED
    BY <1>7, <2>4, <2>5, <2>6
<1>10. Fine(S)
  BY <1>7, <1>8, <1>9
<1> QED
  BY <1>2, <1>10

LEMMA SumSplits ==
    ASSUME NEW f, NEW U, IsFiniteSet(U), \A x \in U : f[x] \in Int,
           NEW W, W \subseteq U
    PROVE  SumFunctionOnSet(f, U) = SumFunctionOnSet(f, W) + SumFunctionOnSet(f, U \ W)
<1> DEFINE Sum(S) == SumFunctionOnSet(f, S)
           F == {S \in SUBSET U : Sum(U) # Sum(S) + Sum(U \ S)}
<1>1. SUFFICES ASSUME F # {} PROVE FALSE
  OBVIOUS
<1>2. PICK S \in F : \A T \in F : T \subseteq S => T = S
  <2>1. F \subseteq SUBSET U
    OBVIOUS
  <2> HIDE DEF F
  <2> QED
    BY <1>1, <2>1, MinimalSet
<1> HIDE DEF Sum
<1>3. ASSUME NEW T \in SUBSET U
      PROVE  Sum(T) \in Int /\ \A x \in T : f[x] \in Int /\ Sum(T) = f[x] + Sum(T \ {x})
  <2>1. IsFiniteSet(T) /\ \A x \in T : f[x] \in Int
    BY FS_Subset
  <2> QED
    BY <2>1, SumTakesOut DEF Sum
<1>4. Sum({}) = 0
  BY SumUnfolds DEF Sum
<1>5. S # {}
  <2>1. U \ {} = U /\ Sum(U) \in Int
    BY <1>3
  <2>2. Sum(U) = Sum({}) + Sum(U \ {})
    BY <1>4, <2>1
  <2>3. Sum(U) # Sum(S) + Sum(U \ S)
    BY <1>2
  <2> QED
    BY <2>2, <2>3
<1>6. PICK x : x \in S
  BY <1>5
<1> DEFINE R == S \ {x}
<1>7. Sum(U) = Sum(R) + Sum(U \ R)
  <2>1. R \subseteq S /\ R # S /\ R \in SUBSET U
    BY <1>2, <1>6
  <2> HIDE DEF R
  <2> QED
    BY <1>2, <2>1
<1>8. Sum(S) = f[x] + Sum(R)
  BY <1>2, <1>3, <1>6
<1>9. Sum(U \ R) = f[x] + Sum(U \ S)
  <2>1. x \in U \ R /\ (U \ R) \ {x} = U \ S /\ U \ R \in SUBSET U
    BY <1>2, <1>6
  <2> HIDE DEF R
  <2> QED
    BY <1>3, <2>1
<1>10. f[x] \in Int /\ Sum(R) \in Int /\ Sum(U \ S) \in Int
  <2>1. R \in SUBSET U /\ U \ S \in SUBSET U /\ x \in U
    BY <1>2, <1>6
  <2> HIDE DEF R
  <2> QED
    BY <1>3, <2>1
<1> HIDE DEF R
<1>11. Sum(U) = Sum(S) + Sum(U \ S)
  BY <1>7, <1>8, <1>9, <1>10
<1> QED
  BY <1>2, <1>11

\* Terms that differ by a, b and c make sums that do.
LEMMA SumOfDifferences ==
    ASSUME NEW a, NEW b, NEW c, NEW U, IsFiniteSet(U),
           \A x \in U : a[x] \in Int /\ b[x] \in Int /\ c[x] = a[x] - b[x]
    PROVE  SumFunctionOnSet(c, U) = SumFunctionOnSet(a, U) - SumFunctionOnSet(b, U)
<1> DEFINE Sum(f, S) == SumFunctionOnSet(f, S)
           F == {S \in SUBSET U : Sum(c, S) # Sum(a, S) - Sum(b, S)}
<1>1. SUFFICES ASSUME F # {} PROVE FALSE
  OBVIOUS
<1>2. PICK S \in F : \A T \in F : T \subseteq S => T = S
  <2>1. F \subseteq SUBSET U
    OBVIOUS
  <2> HIDE DEF F
  <2> QED
    BY <1>1, <2>1, MinimalSet
<1> HIDE DEF Sum
<1>3. ASSUME NEW T \in SUBSET U, NEW f, f \in {a, b, c}
      PROVE  Sum(f, T) \in Int /\ \A x \in T : f[x] \in Int /\ Sum(f, T) = f[x] + Sum(f, T \ {x})
  <2>1. IsFiniteSet(T) /\ \A x \in T : f[x] \in Int
    BY <1>3, FS_Subset
  <2> QED
    BY <2>1, SumTakesOut DEF Sum
<1>4. \A f : Sum(f, {}) = 0
  BY SumUnfolds DEF Sum
<1>5. PICK x : x \in S
  <2>1. Sum(c, {}) = Sum(a, {}) - Sum(b, {})
    BY <1>4
  <2>2. Sum(c, S) # Sum(a, S) - Sum(b, S)
    BY <1>2
  <2> QED
    BY <2>1, <2>2
<1> DEFINE R == S \ {x}
<1>6. Sum(c, R) = Sum(a, R) - Sum(b, R)
  <2>1. R \subseteq S /\ R # S /\ R \in SUBSET U
    BY <1>2, <1>5
  <2> HIDE DEF R
  <2> QED
    BY <1>2, <2>1
<1>7. \A f \in {a, b, c} : Sum(f, S) = f[x] + Sum(f, R) /\ f[x] \in Int /\ Sum(f, R) \in Int
  BY <1>2, <1>3, <1>5
<1>8. c[x] = a[x] - b[x]
  BY <1>2, <1>5
<1> HIDE DEF R
<1>9. Sum(c, S) = Sum(a, S) - Sum(b, S)
  BY <1>6, <1>7, <1>8
<1> QED
  BY <1>2, <1>9

LEMMA SumOfZeros ==
    ASSUME NEW f, NEW U, IsFiniteSet(U), \A x \in U : f[x] = 0
    PROVE  SumFunctionOnSet(f, U) = 0
<1>1. SumFunctionOnSet(f, U) = SumFunctionOnSet(f, U) - SumFunctionOnSet(f, U)
  BY SumOfDifferences
<1>2. SumFunctionOnSet(f, U) \in Int
  BY SumTakesOut
<1> QED
  BY <1>1, <1>2

\* Rounding errors add up, at most.
LEMMA SumOfRounded ==
    ASSUME NEW c, NEW e, NEW U, IsFiniteSet(U),
           \A x \in U : c[x] \in Int /\ e[x] \in Int /\ 10 * c[x] - e[x] \in -5..5
    PROVE  10 * SumFunctionOnSet(c, U) - SumFunctionOnSet(e, U)
              \in (-5 * Cardinality(U))..(5 * Cardinality(U))
<1> DEFINE Sum(f, S) == SumFunctionOnSet(f, S)
           Close(S) == 10 * Sum(c, S) - Sum(e, S) \in (-5 * Cardinality(S))..(5 * Cardinality(S))
           F == {S \in SUBSET U : ~Close(S)}
<1>1. SUFFICES ASSUME F # {} PROVE FALSE
  OBVIOUS
<1>2. PICK S \in F : \A T \in F : T \subseteq S => T = S
  <2>1. F \subseteq SUBSET U
    OBVIOUS
  <2> HIDE DEF F
  <2> QED
    BY <1>1, <2>1, MinimalSet
<1> HIDE DEF Sum
<1>3. ASSUME NEW T \in SUBSET U, NEW f, f \in {c, e}
      PROVE  Sum(f, T) \in Int /\ \A x \in T : f[x] \in Int /\ Sum(f, T) = f[x] + Sum(f, T \ {x})
  <2>1. IsFiniteSet(T) /\ \A x \in T : f[x] \in Int
    BY <1>3, FS_Subset
  <2> QED
    BY <2>1, SumTakesOut DEF Sum
<1>4. Close({})
  <2>1. \A f : Sum(f, {}) = 0
    BY SumUnfolds DEF Sum
  <2> QED
    BY <2>1, FS_EmptySet
<1>5. PICK x : x \in S
  BY <1>2, <1>4
<1> DEFINE R == S \ {x}
<1>6. Close(R)
  <2>1. R \subseteq S /\ R # S /\ R \in SUBSET U
    BY <1>2, <1>5
  <2> HIDE DEF R
  <2> QED
    BY <1>2, <2>1
<1>7. \A f \in {c, e} : Sum(f, S) = f[x] + Sum(f, R) /\ f[x] \in Int /\ Sum(f, R) \in Int
  <2>1. R \in SUBSET U /\ S \in SUBSET U
    BY <1>2
  <2> QED
    BY <1>3, <1>5, <2>1
<1>8. 10 * c[x] - e[x] \in -5..5
  BY <1>2, <1>5
<1>9. Cardinality(R) \in Nat /\ Cardinality(S) = Cardinality(R) + 1
  <2>1. IsFiniteSet(S)
    BY <1>2, FS_Subset
  <2>2. IsFiniteSet(R) /\ Cardinality(R) = Cardinality(S) - 1 /\ Cardinality(S) \in Nat
    BY <1>5, <2>1, FS_RemoveElement, FS_CardinalityType
  <2> QED
    BY <2>2, FS_CardinalityType
<1> HIDE DEF R
<1>10. Close(S)
  BY <1>6, <1>7, <1>8, <1>9
<1> QED
  BY <1>2, <1>10
-----------------------------------------------------------------------------
(* Clamping, and the first elements of a set.                              *)

LEMMA MinOfTwo ==
    ASSUME NEW a \in Int, NEW b \in Int
    PROVE  Min({a, b}) = IF a <= b THEN a ELSE b
<1> DEFINE m == IF a <= b THEN a ELSE b
<1>1. m \in {a, b} /\ \A y \in {a, b} : m <= y
  OBVIOUS
<1>2. \A x \in {a, b} : (\A y \in {a, b} : x <= y) => x = m
  OBVIOUS
<1> QED
  BY <1>1, <1>2 DEF Min

LEMMA MaxOfTwo ==
    ASSUME NEW a \in Int, NEW b \in Int
    PROVE  Max({a, b}) = IF a >= b THEN a ELSE b
<1> DEFINE m == IF a >= b THEN a ELSE b
<1>1. m \in {a, b} /\ \A y \in {a, b} : m >= y
  OBVIOUS
<1>2. \A x \in {a, b} : (\A y \in {a, b} : x >= y) => x = m
  OBVIOUS
<1> QED
  BY <1>1, <1>2 DEF Max

LEMMA MinOfThree ==
    ASSUME NEW a \in Int, NEW b \in Int, NEW c \in Int
    PROVE  Min({a, b, c}) = Min({Min({a, b}), c})
<1> DEFINE n == IF a <= b THEN a ELSE b
           m == IF n <= c THEN n ELSE c
<1>1. m \in {a, b, c} /\ \A y \in {a, b, c} : m <= y
  OBVIOUS
<1>2. \A x \in {a, b, c} : (\A y \in {a, b, c} : x <= y) => x = m
  OBVIOUS
<1>3. Min({a, b, c}) = m
  BY <1>1, <1>2 DEF Min
<1>4. Min({a, b}) = n /\ n \in Int
  BY MinOfTwo
<1>5. Min({n, c}) = m
  BY <1>4, MinOfTwo
<1> QED
  BY <1>3, <1>4, <1>5

LEMMA ClampedInRange ==
    ASSUME NEW n \in Int, NEW lo \in Int, NEW hi \in Int, lo <= hi
    PROVE  /\ Clamped(n, lo, hi) \in lo..hi
           /\ n >= lo => Clamped(n, lo, hi) = Min({hi, n})
<1> DEFINE m == IF hi <= n THEN hi ELSE n
<1>1. Min({hi, n}) = m /\ m \in Int
  BY MinOfTwo
<1>2. Max({lo, m}) = IF lo >= m THEN lo ELSE m
  BY <1>1, MaxOfTwo
<1> QED
  BY <1>1, <1>2 DEF Clamped

\* The row limit is between one and the ceiling.
LEMMA RowLimits ==
    ASSUME NEW n \in Int \cup {Omitted}
    PROVE  RowLimit(n) \in Nat /\ RowLimit(n) <= HardRowLimit
<1> DEFINE k == IF n = Omitted THEN DefaultRowLimit ELSE n
<1>1. k \in Int /\ HardRowLimit \in Nat /\ 1 <= HardRowLimit
  BY ScaleAssumption
<1>2. RowLimit(n) = Clamped(k, 1, HardRowLimit)
  BY DEF RowLimit
<1> HIDE DEF k
<1>3. Clamped(k, 1, HardRowLimit) \in 1..HardRowLimit
  <2>1. 1 \in Int /\ HardRowLimit \in Int
    BY <1>1
  <2> QED
    BY <1>1, <2>1, ClampedInRange
<1> QED
  BY <1>1, <1>2, <1>3

\* The size of what comes first, whatever the order.
LEMMA FirstIsShort ==
    ASSUME NEW S, IsFiniteSet(S), NEW k \in Nat, NEW T \in SUBSET S,
           Cardinality(T) = Min({k, Cardinality(S)})
    PROVE  /\ IsFiniteSet(T) /\ Cardinality(T) \in Nat
           /\ Cardinality(T) <= k /\ Cardinality(T) <= Cardinality(S)
<1>1. Cardinality(S) \in Nat /\ IsFiniteSet(T) /\ Cardinality(T) \in Nat
  BY FS_CardinalityType, FS_Subset
<1>2. Min({k, Cardinality(S)}) = IF k <= Cardinality(S) THEN k ELSE Cardinality(S)
  BY <1>1, MinOfTwo
<1> QED
  BY <1>1, <1>2

\* T is one of the sets that First(S, k, Itself) has.
Foremost(T, S, k) ==
    /\ T \subseteq S /\ Cardinality(T) = Min({k, Cardinality(S)})
    /\ \A a \in T, b \in S \ T : a >= b

\* The first k of the first n are the first min(k, n).
LEMMA FirstOfFirst ==
    ASSUME NEW S \in SUBSET Int, IsFiniteSet(S), NEW n \in Nat, NEW k \in Nat,
           NEW M, Foremost(M, S, n), NEW T, Foremost(T, M, k)
    PROVE  /\ T \subseteq S
           /\ Cardinality(T) = Min({k, n, Cardinality(S)})
           /\ \A b \in S \ T, a \in T : b < a
<1>1. Cardinality(S) \in Nat
  BY FS_CardinalityType
<1>2. Cardinality(T) = Min({k, n, Cardinality(S)})
  <2> DEFINE s == Cardinality(S)
             m == IF n <= s THEN n ELSE s
  <2>1. s \in Int /\ m \in Int
    BY <1>1
  <2> HIDE DEF s
  <2>2. Min({n, s}) = m
    BY <2>1, MinOfTwo
  <2>3. Min({k, m}) = IF k <= m THEN k ELSE m
    BY <2>1, MinOfTwo
  <2>4. Min({k, n}) = IF k <= n THEN k ELSE n
    BY MinOfTwo
  <2>5. Min({k, n, s}) = Min({Min({k, n}), s}) /\ Min({k, n}) \in Int
    BY <2>1, <2>4, MinOfThree
  <2>6. Min({Min({k, n}), s}) = IF Min({k, n}) <= s THEN Min({k, n}) ELSE s
    BY <2>1, <2>5, MinOfTwo
  <2>7. Cardinality(T) = Min({k, m})
    BY <2>2 DEF Foremost, s
  <2> QED
    BY <2>1, <2>3, <2>4, <2>5, <2>6, <2>7 DEF s
<1>3. ASSUME NEW b \in S \ T, NEW a \in T PROVE b < a
  <2>1. a \in Int /\ b \in Int /\ a # b /\ a \in M
    BY DEF Foremost
  <2>2. a >= b
    BY <2>1 DEF Foremost
  <2> QED
    BY <2>1, <2>2
<1> QED
  BY <1>2, <1>3 DEF Foremost

-----------------------------------------------------------------------------
(* Whole days of partitions.                                               *)

LEMMA Products ==
    ASSUME NEW x \in Int, NEW y \in Int, NEW h \in Nat \ {0}, x * h > y * h
    PROVE  x > y
<1>1. CASE x <= y
  <2>1. y - x \in Nat
    BY <1>1
  <2>2. (y - x) * h >= 0
    BY <2>1
  <2>3. (y - x) * h = y * h - x * h
    OBVIOUS
  <2> QED
    BY <2>2, <2>3
<1> QED
  BY <1>1

LEMMA Division ==
    ASSUME NEW x \in Nat, NEW h \in Nat \ {0}
    PROVE  /\ x \div h \in Nat
           /\ (x \div h) * h <= x /\ x < (x \div h) * h + h
<1> QED
  OBVIOUS

\* An hour of the window is in one of the partitions read.
LEMMA NoHourIsPruned ==
    ASSUME NEW t \in Nat, NEW n \in Nat, NEW h \in Nat \ {0}, t > n - h
    PROVE  t \div HoursPerDay >= n \div HoursPerDay - PartitionDays(h)
<1> DEFINE H == HoursPerDay
           q == (h + H - 1) \div H
           a == n \div H
           c == t \div H
<1>1. H \in Nat \ {0}
  BY ScaleAssumption
<1>2. /\ a \in Nat /\ a * H <= n
      /\ c \in Nat /\ t < c * H + H
  BY <1>1, Division
<1>3. h + H - 1 \in Nat
  BY <1>1
<1>4. q \in Nat /\ h + H - 1 < q * H + H
  BY <1>1, <1>3, Division
<1>5. PartitionDays(h) \in Int /\ PartitionDays(h) >= q
  <2>1. Max({1, q}) = IF 1 >= q THEN 1 ELSE q
    BY <1>4, MaxOfTwo
  <2>2. PartitionDays(h) = Max({1, q})
    BY DEF PartitionDays
  <2> HIDE DEF q
  <2> QED
    BY <1>4, <2>1, <2>2
<1> HIDE DEF H, q, a, c
<1>6. c + 1 > a - q
  <2>1. a * H \in Int /\ q * H \in Int /\ c * H \in Int
    BY <1>1, <1>2, <1>4
  <2>2. c * H + H > a * H - q * H
    BY <1>1, <1>2, <1>4, <2>1
  <2>3. (c + 1) * H = c * H + H /\ (a - q) * H = a * H - q * H
    BY <1>1, <1>2, <1>4
  <2>4. (c + 1) * H > (a - q) * H
    BY <2>2, <2>3
  <2>5. c + 1 \in Int /\ a - q \in Int
    BY <1>2, <1>4
  <2> QED
    BY <1>1, <2>4, <2>5, Products
<1>7. c >= a - PartitionDays(h)
  BY <1>2, <1>4, <1>5, <1>6
<1> QED
  BY <1>7 DEF H, a, c

-----------------------------------------------------------------------------
(* The invariant, step by step.                                            *)

Recents == {"recent_audit_events", "recent_query_history"}

LEMMA Scale ==
    /\ HoursPerDay \in Nat \ {0} /\ HardRowLimit \in Nat \ {0}
    /\ Days \in Nat /\ Days > 1 /\ MaxChanges \in Nat
    /\ MaxHours \in Nat \ {0} /\ MaxLimit \in Nat \ {0}
    /\ BillingRowLimit \in Int /\ ListRowLimit \in Int
BY ScaleAssumption

\* The arguments of the recent_ tools, once they are clamped.
LEMMA RecentArguments ==
    ASSUME request \in Requests, request.tool \in Recents, ~Unusable
    PROVE  /\ Hours \in Nat \ {0} /\ Limit \in Nat \ {0}
           /\ RowLimit(Limit) = Min({HardRowLimit, Limit})
<1> DEFINE s == request.since
           l == request.limit
<1>1. s \in Int /\ l \in Int
  BY RequestsAssumption DEF Recents, Unusable
<1>2. Hours = Clamped(s, 1, MaxHours) /\ Limit = Clamped(l, 1, MaxLimit)
  BY DEF Hours, Limit
<1> HIDE DEF s, l
<1>3. 1 \in Int /\ MaxHours \in Int /\ MaxLimit \in Int /\ 1 <= MaxHours /\ 1 <= MaxLimit
  BY Scale
<1>4. Hours \in 1..MaxHours /\ Limit \in 1..MaxLimit
  BY <1>1, <1>2, <1>3, ClampedInRange
<1>5. Hours \in Nat \ {0} /\ Limit \in Nat \ {0}
  BY <1>3, <1>4
<1>6. RowLimit(Limit) = Clamped(Limit, 1, HardRowLimit)
  BY <1>5, MarksAssumption DEF RowLimit
<1>7. Limit \in Int /\ Limit >= 1 /\ HardRowLimit \in Int /\ 1 <= HardRowLimit
  BY <1>5, Scale
<1>8. Clamped(Limit, 1, HardRowLimit) = Min({HardRowLimit, Limit})
  BY <1>3, <1>7, ClampedInRange
<1> QED
  BY <1>5, <1>6, <1>8

\* A statement has been read.
LEMMA ReadIInv ==
    ASSUME IInv, pc = "submitted", pc' = "read", asked' = Append(asked, now),
           UNCHANGED <<now, usage, card, changes, request, current, result>>,
           disturbed' \in BOOLEAN, fetched'.kind = "rows",
           Cardinality(DOMAIN fetched'.rows) <= HardRowLimit,
           request.tool \in Recents => Newest(DOMAIN fetched'.rows, now)
    PROVE  IInv'
<1>1. TypeOK /\ StageInv /\ result = Nothing
  BY DEF IInv, TypeOK
<1>2. now \in 0..now /\ asked \in Seq(0..now)
  BY <1>1, Scale DEF StageInv, TypeOK
<1>3. /\ asked' \in Seq(0..now) /\ Len(asked') = Len(asked) + 1 /\ asked' # <<>>
      /\ asked = <<>> => asked'[1] = now
  BY <1>2
<1>4. Len(asked) \in Nat /\ Len(asked) + 1 <= IF current = Nothing THEN 1 ELSE 2
  BY <1>1, <1>2 DEF StageInv
<1>5. result.kind # "rows" /\ result.kind # "error"
  BY <1>1 DEF Nothing
<1>6. TypeOK'
  BY <1>1, <1>3, <1>4 DEF TypeOK, Nothing
<1>7. StageInv'
  BY <1>1, <1>3, <1>4, <1>5 DEF StageInv, Unusable
<1>8. WindowInv'
  <2>1. request.tool \in Recents => asked = <<>>
    BY <1>1, <1>2, <1>4 DEF StageInv, Recents
  <2> QED
    BY <1>3, <2>1 DEF WindowInv, Newest, Hours, Limit, Recents
<1>9. WindowComplete'
  BY <1>5 DEF WindowComplete
<1> QED
  BY <1>6, <1>7, <1>8, <1>9 DEF IInv

\* What has been read of S: rows for the elements of T.
LEMMA RowsRead ==
    ASSUME NEW S, IsFiniteSet(S), NEW k \in Nat, k <= HardRowLimit, NEW T \in SUBSET S,
           Cardinality(T) = Min({k, Cardinality(S)}), NEW f, DOMAIN f = T,
           fetched' = Payload(f, T # S)
    PROVE  /\ fetched'.kind = "rows" /\ DOMAIN fetched'.rows = T
           /\ Cardinality(DOMAIN fetched'.rows) <= HardRowLimit
<1>1. fetched'.kind = "rows" /\ fetched'.rows = f
  BY DEF Payload
<1>2. Cardinality(T) \in Nat /\ Cardinality(T) <= k
  BY FirstIsShort
<1> QED
  BY <1>1, <1>2, Scale

\* The newest rows of what the statement selects are the newest of the window.
LEMMA RecentIInv ==
    ASSUME IInv, pc = "submitted", request.tool \in Recents, UNCHANGED disturbed,
           NEW matched \in First(Recent, Limit, Itself),
           Snapshot(matched, RowLimit(Limit), Itself, Itself)
    PROVE  IInv'
<1>1. TypeOK /\ ~Unusable
  BY DEF IInv, StageInv
<1>2. /\ Hours \in Nat \ {0} /\ Limit \in Nat \ {0}
      /\ RowLimit(Limit) = Min({HardRowLimit, Limit})
      /\ RowLimit(Limit) \in Nat /\ RowLimit(Limit) <= HardRowLimit
  BY <1>1, RecentArguments, RowLimits DEF TypeOK
<1>3. now \in Nat
  BY <1>1, Scale DEF TypeOK
<1>4. Recent \in SUBSET Int /\ IsFiniteSet(Recent)
  <2>1. \A t \in Recent : t \in Nat /\ t <= now
    BY <1>3 DEF Recent
  <2> QED
    BY <1>3, <2>1, FS_BoundedSetOfNaturals
<1>5. PICK T \in First(matched, RowLimit(Limit), Itself) :
         /\ fetched' = Payload([x \in T |-> x], T # matched)
         /\ pc' = "read" /\ asked' = Append(asked, now)
         /\ UNCHANGED <<now, usage, card, changes, request, current, result>>
  BY DEF Snapshot, Itself
<1>6. /\ Foremost(matched, Recent, Limit) /\ Foremost(T, matched, RowLimit(Limit))
      /\ IsFiniteSet(matched)
  BY <1>4, FS_Subset DEF First, Itself, Foremost
<1>7. /\ fetched'.kind = "rows" /\ DOMAIN fetched'.rows = T
      /\ Cardinality(DOMAIN fetched'.rows) <= HardRowLimit
  BY <1>2, <1>5, <1>6, RowsRead DEF Foremost
<1>8. Newest(T, now)
  <2> DEFINE s == Cardinality(Recent)
             l == Limit
             r == RowLimit(Limit)
  <2>1. /\ T \subseteq Recent /\ Cardinality(T) = Min({r, l, s})
        /\ \A b \in Recent \ T, a \in T : b < a
    BY <1>2, <1>4, <1>6, FirstOfFirst
  <2>2. s \in Int /\ l \in Int /\ r \in Int /\ HardRowLimit \in Int /\ r = Min({HardRowLimit, l})
    BY <1>2, <1>4, Scale, FS_CardinalityType
  <2>3. Recent = {t \in 0..now : t > now - Hours}
    BY DEF Recent
  <2> HIDE DEF s, l, r
  <2>4. Min({r, l}) = r
    BY <2>2, MinOfTwo
  <2>5. Min({r, l, s}) = Min({Min({r, l}), s})
    BY <2>2, MinOfThree
  <2>8. Min({l, HardRowLimit, s}) = Min({Min({l, HardRowLimit}), s})
    BY <2>2, MinOfThree
  <2>6. Min({l, HardRowLimit}) = r
    <3>1. {l, HardRowLimit} = {HardRowLimit, l}
      OBVIOUS
    <3> QED
      BY <2>2, <3>1
  <2>7. Cardinality(T) = Min({Limit, HardRowLimit, Cardinality(Recent)})
    BY <2>1, <2>4, <2>5, <2>6, <2>8 DEF s, l
  <2> QED
    BY <2>1, <2>3, <2>7 DEF Newest
<1>9. Newest(DOMAIN fetched'.rows, now)
  BY <1>7, <1>8
<1>10. disturbed' \in BOOLEAN
  BY <1>1 DEF TypeOK
<1> QED
  BY <1>5, <1>7, <1>9, <1>10, ReadIInv

LEMMA ReadHistoryIInv == ASSUME IInv, ReadHistory PROVE IInv'
<1>1. /\ pc = "submitted" /\ request.tool \in Recents /\ UNCHANGED disturbed
      /\ \E matched \in First(Recent, Limit, Itself) :
            Snapshot(matched, RowLimit(Limit), Itself, Itself)
  BY DEF ReadHistory, Recents
<1> QED
  BY <1>1, RecentIInv

\* The partitions hold every hour of the window.
LEMMA ReadAuditIInv == ASSUME IInv, ReadAudit PROVE IInv'
<1>1. pc = "submitted" /\ request.tool \in Recents /\ UNCHANGED disturbed
  BY DEF ReadAudit, Recents
<1>2. TypeOK /\ ~Unusable /\ Hours \in Nat \ {0}
  BY <1>1, RecentArguments DEF IInv, StageInv, TypeOK
<1>3. Pruned = Recent
  <2>1. ASSUME NEW t \in Recent PROVE t \div HoursPerDay >= Today - PartitionDays(Hours)
    <3>1. now \in Nat
      BY <1>2, Scale DEF TypeOK
    <3>2. t \in Nat /\ t > now - Hours
      BY <3>1 DEF Recent
    <3> QED
      BY <1>2, <3>1, <3>2, NoHourIsPruned DEF Today
  <2> QED
    BY <2>1 DEF Pruned
<1>4. PICK matched \in First(Pruned, Limit, Itself) :
         Snapshot(matched, RowLimit(Limit), Itself, Itself)
  BY DEF ReadAudit
<1>5. matched \in First(Recent, Limit, Itself)
  BY <1>3, <1>4 DEF First, Itself
<1> QED
  BY <1>1, <1>4, <1>5, RecentIInv

LEMMA ReadOtherIInv == ASSUME IInv, ReadOther PROVE IInv'
<1> DEFINE n == IF request.tool = "execute_sql_safe" THEN request.limit ELSE ListRowLimit
<1>1. /\ pc = "submitted" /\ request.tool \in {"execute_sql_safe", "list_system_tables"}
      /\ UNCHANGED disturbed /\ TypeOK
  BY DEF ReadOther, IInv
<1>2. n \in Int \cup {Omitted}
  BY <1>1, Scale, RequestsAssumption DEF TypeOK
<1>3. PICK m \in 0..(HardRowLimit + 1) : \E T \in First(1..m, RowLimit(n), Itself) :
         /\ fetched' = Payload([x \in T |-> x], T # 1..m)
         /\ pc' = "read" /\ asked' = Append(asked, now)
         /\ UNCHANGED <<now, usage, card, changes, request, current, result>>
  BY DEF ReadOther, Snapshot, Itself
<1>4. PICK T \in First(1..m, RowLimit(n), Itself) :
         /\ fetched' = Payload([x \in T |-> x], T # 1..m)
         /\ pc' = "read" /\ asked' = Append(asked, now)
         /\ UNCHANGED <<now, usage, card, changes, request, current, result>>
  BY <1>3
<1>5. IsFiniteSet(1..m)
  <2>1. 1 \in Int /\ m \in Int
    BY Scale
  <2> QED
    BY <2>1, FS_Interval
<1> DEFINE S == 1..m
           k == RowLimit(n)
           f == [x \in T |-> x]
<1>6. k \in Nat /\ k <= HardRowLimit
  <2> HIDE DEF n
  <2> QED
    BY <1>2, RowLimits
<1>7. T \in SUBSET S /\ Cardinality(T) = Min({k, Cardinality(S)})
  BY <1>4 DEF First
<1>8. DOMAIN f = T /\ fetched' = Payload(f, T # S)
  BY <1>4
<1>9. /\ fetched'.kind = "rows"
      /\ Cardinality(DOMAIN fetched'.rows) <= HardRowLimit
  <2> HIDE DEF S, k, f
  <2> QED
    BY <1>5, <1>6, <1>7, <1>8, RowsRead DEF S
<1>10. request.tool \notin Recents /\ disturbed' \in BOOLEAN
  BY <1>1 DEF Recents, TypeOK
<1> QED
  BY <1>1, <1>4, <1>9, <1>10, ReadIInv

LEMMA ReadBillingIInv == ASSUME IInv, ReadBilling PROVE IInv'
<1> DEFINE d == Since(BillingDays)
           S == Billed(d)
           k == RowLimit(BillingRowLimit)
<1>1. /\ pc = "submitted" /\ request.tool \in {"billing_summary", "billing_report"}
      /\ disturbed' = IF current.kind = "none" THEN FALSE ELSE disturbed
      /\ TypeOK
  BY DEF ReadBilling, IInv
<1>2. PICK T \in SUBSET S :
         /\ Cardinality(T) = Min({k, Cardinality(S)})
         /\ fetched' = Payload([x \in T |-> Units(x, d)], T # S)
         /\ pc' = "read" /\ asked' = Append(asked, now)
         /\ UNCHANGED <<now, usage, card, changes, request, current, result>>
  BY DEF ReadBilling, Snapshot, First
<1> DEFINE f == [x \in T |-> Units(x, d)]
<1>3. DOMAIN f = T /\ fetched' = Payload(f, T # S)
  BY <1>2
<1>4. k \in Nat /\ k <= HardRowLimit
  BY Scale, RowLimits
<1>5. IsFiniteSet(S)
  <2>1. S \in SUBSET Groups
    BY DEF Billed
  <2> QED
    BY <2>1, UsageAssumption, FS_Subset
<1>6. /\ fetched'.kind = "rows"
      /\ Cardinality(DOMAIN fetched'.rows) <= HardRowLimit
  <2> HIDE DEF S, k, f
  <2> QED
    BY <1>2, <1>3, <1>4, <1>5, RowsRead
<1>7. request.tool \notin Recents /\ disturbed' \in BOOLEAN
  BY <1>1 DEF Recents, TypeOK
<1> QED
  BY <1>1, <1>2, <1>6, <1>7, ReadIInv

\* A call returns.
LEMMA ReturnIInv ==
    ASSUME IInv, NEW r, Return(r), r.kind \in {"error", "rows", "summary", "report"},
           r.kind = "rows" => pc = "read" /\ r = fetched
    PROVE  IInv'
<1>1. TypeOK /\ StageInv /\ WindowInv
  BY DEF IInv
<1>2. /\ result' = r /\ pc' = "done"
      /\ UNCHANGED <<now, usage, card, changes, disturbed, request, fetched, current, asked>>
  BY DEF Return, world
<1>3. r # Nothing
  BY DEF Nothing
<1>4. TypeOK'
  BY <1>1, <1>2, <1>3 DEF TypeOK
<1>5. StageInv'
  <2>1. Len(asked) \in Nat
    BY <1>1 DEF StageInv
  <2> QED
    BY <1>1, <1>2, <2>1 DEF StageInv
<1>6. WindowInv'
  BY <1>2 DEF WindowInv
<1>7. WindowComplete'
  BY <1>1, <1>2 DEF WindowInv, WindowComplete, Newest, Hours, Limit
<1> QED
  BY <1>4, <1>5, <1>6, <1>7 DEF IInv

LEMMA FailuresIInv ==
    ASSUME IInv, BadArgument \/ Refused \/ ReadFails
    PROVE  IInv'
<1>1. PICK type : Return(Error(type))
  BY DEF BadArgument, Refused, ReadFails
<1>2. Error(type).kind = "error"
  BY DEF Error
<1> QED
  BY <1>1, <1>2, ReturnIInv

LEMMA AnswersIInv ==
    ASSUME IInv, AnswerRows \/ AnswerSummary \/ AnswerReport
    PROVE  IInv'
<1>1. CASE AnswerRows
  <2>1. pc = "read" /\ Return(fetched) /\ fetched.kind = "rows"
    BY <1>1 DEF AnswerRows, IInv, StageInv
  <2> QED
    BY <2>1, ReturnIInv
<1>2. CASE AnswerSummary
  <2>1. PICK s \in Summaries : Return(s)
    BY <1>2 DEF AnswerSummary
  <2>2. s.kind = "summary"
    BY DEF Summaries
  <2> QED
    BY <2>1, <2>2, ReturnIInv
<1>3. CASE AnswerReport
  <2>1. PICK wider \in Summaries : Return(Report(current, wider))
    BY <1>3 DEF AnswerReport
  <2>2. Report(current, wider).kind = "report"
    BY DEF Report
  <2> QED
    BY <2>1, <2>2, ReturnIInv
<1> QED
  BY <1>1, <1>2, <1>3

LEMMA SubmitIInv == ASSUME IInv, Submit PROVE IInv'
<1>1. /\ pc = "called" /\ ~Unusable /\ pc' = "submitted"
      /\ UNCHANGED <<now, usage, card, changes, disturbed, request, fetched, current, result, asked>>
  BY DEF Submit, world
<1>2. TypeOK' /\ result = Nothing
  BY <1>1 DEF IInv, TypeOK
<1>3. StageInv'
  BY <1>1, <1>2 DEF IInv, StageInv, Unusable, Nothing
<1>4. WindowInv' /\ WindowComplete'
  BY <1>1, <1>2 DEF IInv, WindowInv, WindowComplete, Nothing
<1> QED
  BY <1>2, <1>3, <1>4 DEF IInv

LEMMA AskAgainIInv == ASSUME IInv, AskAgain PROVE IInv'
<1>1. /\ pc = "read" /\ request.tool = "billing_report" /\ current = Nothing /\ pc' = "submitted"
      /\ UNCHANGED <<now, usage, card, changes, disturbed, request, fetched, result, asked>>
  BY DEF AskAgain, world
<1>2. current'.kind = "summary" /\ current' # Nothing
  BY DEF AskAgain, Summaries, Nothing
<1>3. TypeOK' /\ result = Nothing
  BY <1>1, <1>2 DEF IInv, TypeOK
<1>4. StageInv'
  <2>1. Len(asked) \in Nat
    BY DEF IInv, StageInv
  <2> QED
    BY <1>1, <1>2, <1>3, <2>1 DEF IInv, StageInv, Unusable, Nothing
<1>5. WindowInv' /\ WindowComplete'
  BY <1>1, <1>3 DEF WindowInv, WindowComplete, Nothing
<1> QED
  BY <1>3, <1>4, <1>5 DEF IInv

\* The world goes on.
LEMMA ChangedIInv ==
    ASSUME IInv, Changed, now' \in now..(HoursPerDay * Days - 1), card' \in Cards,
           usage' \in [Groups -> [0..(Days - 1) -> Int \cup {NoRecord, NotANumber}]]
    PROVE  IInv'
<1>1. /\ pc \in {"submitted", "read"} /\ changes < MaxChanges
      /\ changes' = changes + 1 /\ disturbed' = TRUE
      /\ UNCHANGED <<request, pc, fetched, current, result, asked>>
  BY DEF Changed
<1>2. TypeOK /\ StageInv /\ result = Nothing /\ now \in Nat
  BY <1>1, Scale DEF IInv, TypeOK
<1>3. TypeOK'
  <2>1. now' \in 0..(HoursPerDay * Days - 1)
    BY <1>2, Scale
  <2>2. changes' \in 0..MaxChanges
    BY <1>1, <1>2, Scale DEF TypeOK
  <2> QED
    BY <1>1, <1>2, <2>1, <2>2 DEF TypeOK
<1>4. StageInv'
  <2>1. 0..now \subseteq 0..now'
    BY <1>2
  <2>2. asked \in Seq(0..now')
    BY <1>2, <2>1 DEF StageInv
  <2> QED
    BY <1>1, <1>2, <2>2 DEF StageInv, Unusable
<1>5. WindowComplete'
  BY <1>1, <1>2 DEF WindowComplete, Nothing
<1>6. WindowInv'
  BY <1>1 DEF IInv, WindowInv, Newest, Hours, Limit
<1> QED
  BY <1>3, <1>4, <1>5, <1>6 DEF IInv

LEMMA WorldIInv ==
    ASSUME IInv,
           \/ \E g \in Groups, d \in 0..(Days - 1), q \in Posts : Post(g, d, q)
           \/ \E c \in Cards : SetRateCard(c)
           \/ Hour
    PROVE  IInv'
<1>1. /\ now \in 0..(HoursPerDay * Days - 1) /\ card \in Cards
      /\ usage \in [Groups -> [0..(Days - 1) -> Int \cup {NoRecord, NotANumber}]]
  BY DEF IInv, TypeOK
<1>2. HoursPerDay * Days - 1 \in Int
  BY Scale
<1>3. now \in now..(HoursPerDay * Days - 1)
  BY <1>1, <1>2
<1>4. ASSUME NEW g \in Groups, NEW d \in 0..(Days - 1), NEW q \in Posts, Post(g, d, q)
      PROVE  IInv'
  <2> DEFINE u == usage[g][d]
             v == IF u \in {NoRecord, NotANumber} THEN q ELSE u + q
  <2>1. u \in Int \cup {NoRecord, NotANumber} /\ q \in Int
    BY <1>1, UsageAssumption
  <2>2. v \in Int
    BY <2>1
  <2>3. usage' = [usage EXCEPT ![g] = [usage[g] EXCEPT ![d] = v]]
    BY <1>4 DEF Post
  <2> HIDE DEF u, v
  <2>4. usage' \in [Groups -> [0..(Days - 1) -> Int \cup {NoRecord, NotANumber}]]
    BY <1>1, <2>2, <2>3
  <2> QED
    BY <1>1, <1>3, <1>4, <2>4, ChangedIInv DEF Post
<1>5. ASSUME NEW c \in Cards, SetRateCard(c) PROVE IInv'
  BY <1>1, <1>3, <1>5, ChangedIInv DEF SetRateCard
<1>6. ASSUME Hour PROVE IInv'
  <2>1. now' \in now..(HoursPerDay * Days - 1)
    BY <1>1, <1>2, <1>6 DEF Hour
  <2> QED
    BY <1>1, <1>6, <2>1, ChangedIInv DEF Hour
<1> QED
  BY <1>4, <1>5, <1>6

LEMMA InitIInv == Init => IInv
<1> SUFFICES ASSUME Init PROVE IInv
  OBVIOUS
<1>1. now \in 0..(HoursPerDay * Days - 1)
  <2> DEFINE h == HoursPerDay
             e == Days - 1
  <2>1. h \in Nat /\ e \in Nat /\ h >= 1 /\ e >= 1 /\ Days = e + 1
    BY Scale
  <2>2. now \in {h * e - 1, h * e}
    BY DEF Init
  <2> HIDE DEF h, e
  <2>3. h * e \in Nat /\ h * e >= 1
    <3>1. h - 1 \in Nat /\ (h - 1) * e \in Nat /\ h * e = (h - 1) * e + e
      BY <2>1
    <3> QED
      BY <2>1, <3>1
  <2>4. h * Days = h * e + h
    BY <2>1
  <2>5. now \in 0..(h * Days - 1)
    BY <2>1, <2>2, <2>3, <2>4
  <2> QED
    BY <2>5 DEF h
<1>2. TypeOK
  <2>1. usage \in [Groups -> [0..(Days - 1) -> Int \cup {NoRecord, NotANumber}]]
    BY UsageAssumption DEF Init
  <2>2. changes \in 0..MaxChanges
    BY Scale DEF Init
  <2>3. /\ fetched.kind = "none" /\ current.kind = "none" /\ result.kind = "none"
        /\ result = Nothing /\ pc = "called" /\ disturbed \in BOOLEAN
    BY DEF Init, Nothing
  <2>4. Len(asked) <= 2
    BY DEF Init
  <2>5. card \in Cards /\ request \in Requests
    BY DEF Init
  <2> QED
    BY <1>1, <2>1, <2>2, <2>3, <2>4, <2>5 DEF TypeOK
<1>3. StageInv
  BY DEF Init, StageInv, Nothing
<1>4. WindowInv /\ WindowComplete
  BY DEF Init, WindowInv, WindowComplete, Nothing
<1> QED
  BY <1>2, <1>3, <1>4 DEF IInv

LEMMA NextIInv == IInv /\ [Next]_vars => IInv'
<1> SUFFICES ASSUME IInv, [Next]_vars PROVE IInv'
  OBVIOUS
<1>1. ASSUME Serve PROVE IInv'
  BY <1>1, SubmitIInv, FailuresIInv, ReadAuditIInv, ReadHistoryIInv, ReadOtherIInv,
     ReadBillingIInv, AnswersIInv, AskAgainIInv DEF Serve
<1>2. CASE UNCHANGED vars
  <2>1. UNCHANGED <<now, usage, card, changes, disturbed, request, pc, fetched, current,
                    result, asked>>
    BY <1>2 DEF vars, world
  <2>2. TypeOK' /\ StageInv'
    BY <2>1 DEF IInv, TypeOK, StageInv, Unusable
  <2>3. WindowInv' /\ WindowComplete'
    BY <2>1 DEF IInv, WindowInv, WindowComplete, Newest, Hours, Limit
  <2> QED
    BY <2>2, <2>3 DEF IInv
<1> QED
  BY <1>1, <1>2, WorldIInv DEF Next, Over

LEMMA Invariance == Spec => []IInv
BY InitIInv, NextIInv, PTL DEF Spec

-----------------------------------------------------------------------------

\* The clock, the records and what a call has fetched keep their types, and no
\* call fetches more rows than the ceiling allows.
THEOREM TypeCorrect == Spec => []TypeOK
<1>1. IInv => TypeOK
  BY DEF IInv
<1> QED
  BY <1>1, Invariance, PTL

\* The two recent_ tools answer with the newest events of their window, for any
\* window, limit and length of a day, and whatever the hour: pruning to whole
\* days of partitions loses none.
THEOREM WindowCorrect == Spec => []WindowComplete
<1>1. IInv => WindowComplete
  BY DEF IInv
<1> QED
  BY <1>1, Invariance, PTL

-----------------------------------------------------------------------------
(* The billing report.                                                     *)

\* What a summary of the rows just read looks like.
LEMMA SummaryOfRead ==
    ASSUME NEW s \in Summaries, NEW d, DOMAIN fetched.rows \subseteq Groups,
           \A g \in DOMAIN fetched.rows : fetched.rows[g] = Units(g, d),
           fetched.truncated \/ DOMAIN fetched.rows = Billed(d)
    PROVE  /\ IsSummary(s, d)
           /\ DOMAIN s.cost = DOMAIN fetched.rows /\ s.truncated = fetched.truncated
<1> DEFINE rows == fetched.rows
           choices == UNION {Costs(rows, g) : g \in DOMAIN rows}
           all == [x \in Groups |-> Units(x, d)]
<1>1. PICK cost \in [DOMAIN rows -> choices] :
         /\ \A g \in DOMAIN rows : cost[g] \in Costs(rows, g)
         /\ s = [kind |-> "summary", cost |-> cost, truncated |-> fetched.truncated,
                 applied |-> RateCard # <<>>, total |-> Total(cost)]
  BY DEF Summaries
<1>2. s.kind = "summary" /\ s.cost = cost /\ s.total = Total(cost) /\ s.truncated = fetched.truncated
  BY <1>1
<1>3. DOMAIN cost = DOMAIN rows
  BY <1>1
<1>4. ASSUME NEW g \in DOMAIN rows PROVE Costs(rows, g) = Costs(all, g)
  <2>1. rows[g] = all[g]
    BY <1>4
  <2> HIDE DEF all
  <2> QED
    BY <2>1 DEF Costs, Priced
<1> HIDE DEF choices, all
<1>5. \A g \in DOMAIN s.cost : s.cost[g] \in Costs(all, g)
  BY <1>1, <1>2, <1>3, <1>4
<1> QED
  BY <1>2, <1>3, <1>5 DEF IsSummary, all

\* What a report is about does not change when the world does not.
LEMMA SameWorld ==
    ASSUME UNCHANGED <<now, usage, card, request>>
    PROVE  /\ Unusable' = Unusable /\ CurrentDays' = CurrentDays
           /\ \A s, d : IsSummary(s, d)' = IsSummary(s, d)
           /\ \A d : Since(d)' = Since(d) /\ Billed(d)' = Billed(d)
           /\ \A g, d : Units(g, d)' = Units(g, d)
           /\ current' = current => BillingDays' = BillingDays
           /\ fetched' = fetched => Summaries' = Summaries
<1>1. Unusable' = Unusable
  BY DEF Unusable
<1>2. CurrentDays' = CurrentDays /\ (current' = current => BillingDays' = BillingDays)
  BY DEF CurrentDays, WiderDays, Weeks, Window, BillingDays
<1>3. \A g, d : Known(g, d)' = Known(g, d) /\ Records(g, d)' = Records(g, d)
  BY DEF Known, Records
<1>4. \A g, d : Units(g, d)' = Units(g, d)
  BY <1>3 DEF Units
<1>5. \A d : Since(d)' = Since(d) /\ Billed(d)' = Billed(d)
  BY <1>3 DEF Since, Today, Billed
<1>6. \A sku : Rate(sku)' = Rate(sku)
  BY DEF Rate, RateCard
<1>7. \A rows, g : Costs(rows, g)' = Costs(rows, g)
  BY <1>6 DEF Costs, Priced
<1>8. \A s, d : IsSummary(s, d)' = IsSummary(s, d)
  <2>1. \A d : [x \in Groups |-> Units(x, d)'] = [x \in Groups |-> Units(x, d)]
    BY <1>4
  <2> QED
    BY <1>5, <1>7, <2>1 DEF IsSummary
<1>9. fetched' = fetched => Summaries' = Summaries
  BY <1>7 DEF Summaries, RateCard
<1> QED
  BY <1>1, <1>2, <1>4, <1>5, <1>8, <1>9

\* Nothing about the report changes in a step that leaves its halves alone.
LEMMA ReportKept ==
    ASSUME ReportInv, UNCHANGED <<now, usage, card, request, fetched, current>>,
           disturbed' = disturbed,
           result'.kind = "report" \/ pc' = "read" =>
               pc = "read" \/ (result.kind = "report" /\ result' = result),
           result'.kind = "report" =>
               /\ request.tool = "billing_report" /\ ~Unusable /\ current # Nothing
               /\ \E wider \in Summaries : result' = Report(current, wider)
    PROVE  ReportInv'
<1>1. /\ Unusable' = Unusable /\ CurrentDays' = CurrentDays
      /\ \A s, d : IsSummary(s, d)' = IsSummary(s, d)
      /\ \A d : Since(d)' = Since(d) /\ Billed(d)' = Billed(d)
      /\ \A g, d : Units(g, d)' = Units(g, d)
      /\ BillingDays' = BillingDays /\ Summaries' = Summaries
  BY SameWorld
<1>2. \A a, b : Report(a, b)' = Report(a, b)
  BY DEF Report
<1>3. (result.kind = "report" => request.tool = "billing_report" /\ ~Unusable /\ current # Nothing
            /\ \E wider \in Summaries : result = Report(current, wider))'
  BY <1>1, <1>2
<1>4. (current # Nothing => IsSummary(current, Since(CurrentDays)))'
         = (current # Nothing => IsSummary(current, Since(CurrentDays)))
  BY <1>1 DEF Nothing
<1> DEFINE Reread ==
             /\ DOMAIN fetched.rows \subseteq Groups
             /\ \A g \in DOMAIN fetched.rows : fetched.rows[g] = Units(g, Since(BillingDays))
             /\ fetched.truncated \/ DOMAIN fetched.rows = Billed(Since(BillingDays))
<1>5. Reread' = Reread
  BY <1>1
<1>6. (current = Nothing \/ current.kind = "summary")'
  BY DEF ReportInv, Nothing
<1>7. (request.tool = "billing_report" /\ ~disturbed =>
          /\ current # Nothing => IsSummary(current, Since(CurrentDays))
          /\ pc = "read" \/ result.kind = "report" => Reread)'
  <2>1. request.tool = "billing_report" /\ ~disturbed =>
          /\ current # Nothing => IsSummary(current, Since(CurrentDays))
          /\ pc = "read" \/ result.kind = "report" => Reread
    BY DEF ReportInv
  <2> HIDE DEF Reread
  <2> QED
    BY <1>4, <1>5, <2>1
<1> QED
  BY <1>3, <1>6, <1>7 DEF ReportInv

\* While a call is served it has no result.
LEMMA NoReportYet ==
    ASSUME IInv, pc # "done" PROVE result = Nothing /\ result.kind = "none"
BY DEF IInv, TypeOK, Nothing

LEMMA AnswersReport ==
    ASSUME IInv, ReportInv,
           BadArgument \/ Refused \/ ReadFails \/ AnswerRows \/ AnswerSummary \/ AnswerReport
    PROVE  ReportInv'
<1>1. ASSUME NEW r, Return(r), r.kind # "report" PROVE ReportInv'
  <2>1. /\ UNCHANGED <<now, usage, card, request, fetched, current>> /\ disturbed' = disturbed
        /\ pc' = "done" /\ result' = r
    BY <1>1 DEF Return, world
  <2> QED
    BY <1>1, <2>1, ReportKept
<1>2. CASE BadArgument \/ Refused \/ ReadFails
  BY <1>1, <1>2 DEF BadArgument, Refused, ReadFails, Error
<1>3. CASE AnswerRows
  <2>1. Return(fetched) /\ fetched.kind = "rows"
    BY <1>3 DEF AnswerRows, IInv, StageInv
  <2> QED
    BY <1>1, <2>1
<1>4. CASE AnswerSummary
  BY <1>1, <1>4 DEF AnswerSummary, Summaries
<1>5. CASE AnswerReport
  <2>1. PICK wider \in Summaries : Return(Report(current, wider))
    BY <1>5 DEF AnswerReport
  <2>2. /\ UNCHANGED <<now, usage, card, request, fetched, current>> /\ disturbed' = disturbed
        /\ pc = "read" /\ pc' = "done" /\ result' = Report(current, wider)
    BY <1>5, <2>1 DEF AnswerReport, Return, world
  <2>3. request.tool = "billing_report" /\ ~Unusable /\ current # Nothing
    BY <1>5, <2>2 DEF AnswerReport, IInv, StageInv
  <2> QED
    BY <2>2, <2>3, ReportKept
<1> QED
  BY <1>2, <1>3, <1>4, <1>5

LEMMA ReadsReport ==
    ASSUME IInv, ReportInv, ReadAudit \/ ReadHistory \/ ReadOther
    PROVE  ReportInv'
<1>1. /\ pc = "submitted" /\ request.tool # "billing_report"
      /\ UNCHANGED <<request, current, result>>
  BY DEF ReadAudit, ReadHistory, ReadOther, Snapshot
<1>2. result'.kind = "none"
  BY <1>1, NoReportYet
<1>3. (current = Nothing \/ current.kind = "summary")'
  BY <1>1 DEF ReportInv, Nothing
<1> QED
  BY <1>1, <1>2, <1>3 DEF ReportInv

LEMMA BillingReport ==
    ASSUME IInv, ReportInv, ReadBilling
    PROVE  ReportInv'
<1> DEFINE d == Since(BillingDays)
           S == Billed(d)
<1>1. PICK T \in SUBSET S :
         /\ fetched' = Payload([x \in T |-> Units(x, d)], T # S)
         /\ UNCHANGED <<now, usage, card, request, current, result>>
  BY DEF ReadBilling, Snapshot, First
<1>2. pc = "submitted" /\ disturbed' = IF current.kind = "none" THEN FALSE ELSE disturbed
  BY DEF ReadBilling
<1>3. /\ fetched'.rows = [x \in T |-> Units(x, d)]
      /\ fetched'.truncated = (T # S) /\ T \subseteq Groups
  BY <1>1 DEF Payload, Billed
<1>4. /\ CurrentDays' = CurrentDays /\ BillingDays' = BillingDays
      /\ \A s, e : IsSummary(s, e)' = IsSummary(s, e)
      /\ \A e : Since(e)' = Since(e) /\ Billed(e)' = Billed(e)
      /\ \A g, e : Units(g, e)' = Units(g, e)
  BY <1>1, SameWorld
<1>5. result'.kind = "none"
  BY <1>1, <1>2, NoReportYet
<1>6. (/\ DOMAIN fetched.rows \subseteq Groups
       /\ \A g \in DOMAIN fetched.rows : fetched.rows[g] = Units(g, Since(BillingDays))
       /\ fetched.truncated \/ DOMAIN fetched.rows = Billed(Since(BillingDays)))'
  <2>1. d' = d /\ S' = S
    BY <1>4
  <2>2. DOMAIN fetched'.rows = T /\ \A g \in T : fetched'.rows[g] = Units(g, d)
    BY <1>3
  <2> HIDE DEF d, S
  <2>3. \A g \in DOMAIN fetched'.rows : fetched'.rows[g] = Units(g, d)'
    BY <1>4, <2>1, <2>2
  <2>4. fetched'.truncated \/ DOMAIN fetched'.rows = S'
    BY <1>3, <2>1, <2>2
  <2> QED
    BY <1>3, <2>2, <2>3, <2>4 DEF d, S
<1>7. (request.tool = "billing_report" /\ ~disturbed /\ current # Nothing =>
            IsSummary(current, Since(CurrentDays)))'
  <2>1. (current # Nothing)' = (current # Nothing)
    BY <1>1 DEF Nothing
  <2>2. current # Nothing => current.kind = "summary"
    BY DEF ReportInv
  <2>3. IsSummary(current, Since(CurrentDays))' = IsSummary(current, Since(CurrentDays))
    BY <1>1, <1>4
  <2> QED
    BY <1>1, <1>2, <2>1, <2>2, <2>3 DEF ReportInv
<1>8. (current = Nothing \/ current.kind = "summary")'
  BY <1>1 DEF ReportInv, Nothing
<1> QED
  BY <1>5, <1>6, <1>7, <1>8 DEF ReportInv

LEMMA AgainReport ==
    ASSUME IInv, ReportInv, AskAgain
    PROVE  ReportInv'
<1>1. /\ pc = "read" /\ request.tool = "billing_report" /\ current = Nothing
      /\ current' \in Summaries /\ pc' = "submitted"
      /\ UNCHANGED <<now, usage, card, disturbed, request, fetched, result>>
  BY DEF AskAgain, world
<1>2. result'.kind = "none"
  BY <1>1, NoReportYet
<1>3. current'.kind = "summary"
  BY <1>1 DEF Summaries
<1>4. BillingDays = CurrentDays
  BY <1>1 DEF BillingDays, Nothing
<1>5. ~disturbed => IsSummary(current', Since(CurrentDays))
  BY <1>1, <1>4, SummaryOfRead DEF ReportInv
<1>6. (~disturbed => IsSummary(current, Since(CurrentDays)))'
  <2>1. /\ CurrentDays' = CurrentDays /\ \A s, e : IsSummary(s, e)' = IsSummary(s, e)
        /\ \A e : Since(e)' = Since(e)
    BY <1>1, SameWorld
  <2> QED
    BY <1>1, <1>5, <2>1
<1> QED
  BY <1>1, <1>2, <1>3, <1>6 DEF ReportInv

LEMMA NextReport == IInv /\ ReportInv /\ [Next]_vars => ReportInv'
<1> SUFFICES ASSUME IInv, ReportInv, [Next]_vars PROVE ReportInv'
  OBVIOUS
<1>1. CASE Submit
  <2>1. /\ pc = "called" /\ pc' = "submitted" /\ disturbed' = disturbed /\ result' = result
        /\ UNCHANGED <<now, usage, card, request, fetched, current>>
    BY <1>1 DEF Submit, world
  <2> QED
    BY <2>1, NoReportYet, ReportKept
<1>2. CASE Serve /\ ~Submit
  BY <1>2, AnswersReport, ReadsReport, BillingReport, AgainReport DEF Serve
<1>3. CASE Changed
  <2>1. /\ disturbed' = TRUE /\ UNCHANGED <<current, result>> /\ pc # "done"
    BY <1>3 DEF Changed
  <2>2. result'.kind = "none"
    BY <2>1, NoReportYet
  <2>3. (current = Nothing \/ current.kind = "summary")'
    BY <2>1 DEF ReportInv, Nothing
  <2> QED
    BY <2>1, <2>2, <2>3 DEF ReportInv
<1>4. CASE UNCHANGED vars
  <2>1. /\ UNCHANGED <<now, usage, card, request, fetched, current>> /\ disturbed' = disturbed
        /\ pc' = pc /\ result' = result
    BY <1>4 DEF vars, world
  <2> QED
    BY <2>1, ReportKept DEF ReportInv
<1> QED
  BY <1>1, <1>2, <1>3, <1>4 DEF Next, Over, Post, SetRateCard, Hour

LEMMA InitReport == Init => ReportInv
BY DEF Init, ReportInv, Nothing

LEMMA ReportInvariance == Spec => [](IInv /\ ReportInv)
<1>1. Init => IInv /\ ReportInv
  BY InitIInv, InitReport
<1>2. IInv /\ ReportInv /\ [Next]_vars => (IInv /\ ReportInv)'
  BY NextIInv, NextReport
<1> QED
  BY <1>1, <1>2, PTL DEF Spec

-----------------------------------------------------------------------------
(* What the two halves of a report cost.                                   *)

LEMMA Marks == {NoRecord, NotANumber} \cap Int = {}
BY MarksAssumption

\* The records of a group, and how many units they are.
LEMMA UnitsOf ==
    ASSUME IInv, NEW g \in Groups, NEW d \in Int
    PROVE  /\ Known(g, d) \subseteq 0..(Days - 1) /\ IsFiniteSet(Known(g, d))
           /\ \A x \in Known(g, d) : usage[g][x] \in Int
           /\ SumFunctionOnSet(usage[g], Known(g, d)) \in Int
           /\ Known(g, d) # {} => Units(g, d) = SumFunctionOnSet(usage[g], Known(g, d))
           /\ Units(g, d) = NotANumber => SumFunctionOnSet(usage[g], Known(g, d)) = 0
<1>1. Known(g, d) \subseteq 0..(Days - 1)
  BY DEF Known, Records
<1>2. IsFiniteSet(Known(g, d))
  <2>1. IsFiniteSet(0..(Days - 1))
    BY Scale, FS_Interval
  <2> QED
    BY <1>1, <2>1, FS_Subset
<1>3. ASSUME NEW x \in Known(g, d) PROVE usage[g][x] \in Int
  <2>1. usage[g][x] \in Int \cup {NoRecord, NotANumber}
    BY <1>1 DEF IInv, TypeOK
  <2> QED
    BY <2>1 DEF Known, Records
<1>4. SumFunctionOnSet(usage[g], Known(g, d)) \in Int
  BY <1>2, <1>3, SumTakesOut
<1>5. Known(g, d) # {} => Units(g, d) = SumFunctionOnSet(usage[g], Known(g, d))
  BY DEF Units
<1>6. Units(g, d) = NotANumber => SumFunctionOnSet(usage[g], Known(g, d)) = 0
  <2>1. SumFunctionOnSet(usage[g], {}) = 0
    BY FS_EmptySet, SumUnfolds
  <2> QED
    BY <1>4, <1>5, <2>1, Marks
<1> QED
  BY <1>1, <1>2, <1>3, <1>4, <1>5, <1>6

\* There is at most one rate, a number.
LEMMA Rates ==
    ASSUME IInv, NEW g
    PROVE  /\ Price(g) \in Int
           /\ Rate(g[1]) # {} => Rate(g[1]) = {Price(g)}
<1>1. ASSUME NEW k \in DOMAIN RateCard PROVE RateCard[k] \in Int
  <2>1. card # Malformed
    BY <1>1 DEF RateCard
  <2>2. RateCard = [x \in {k2 \in DOMAIN card : card[k2] # NotANumber} |-> card[x]]
    BY <2>1 DEF RateCard, Restrict
  <2>3. k \in DOMAIN card /\ card[k] # NotANumber /\ RateCard[k] = card[k]
    BY <1>1, <2>2
  <2> QED
    BY <2>1, <2>3, CardsAssumption DEF IInv, TypeOK
<1>2. Rate(g[1]) = {} \/ \E r \in Int : Rate(g[1]) = {r}
  BY <1>1 DEF Rate
<1> QED
  BY <1>2 DEF Price

\* What the usage after d costs, exactly and group by group.
Exact(d) == [g \in Groups |-> Price(g) * SumFunctionOnSet(usage[g], Known(g, d))]

LEMMA ExactType ==
    ASSUME IInv, NEW d \in Int
    PROVE  /\ \A g \in Groups : Exact(d)[g] \in Int
           /\ SumFunctionOnSet(Exact(d), Groups) \in Int
<1>1. \A g \in Groups : Exact(d)[g] \in Int
  BY UnitsOf, Rates DEF Exact
<1> QED
  BY <1>1, SumTakesOut, UsageAssumption

\* A row's cost is what its usage costs, rounded; a row without one costs nothing.
LEMMA RowCosts ==
    ASSUME IInv, NEW d \in Int, NEW g \in Groups,
           NEW c \in Costs([x \in Groups |-> Units(x, d)], g)
    PROVE  /\ c # NotANumber => c \in Int /\ 10 * c - Exact(d)[g] \in -5..5
           /\ c = NotANumber => Exact(d)[g] = 0
<1> DEFINE sum == SumFunctionOnSet(usage[g], Known(g, d))
           row == [x \in Groups |-> Units(x, d)]
<1>1. /\ sum \in Int /\ Price(g) \in Int /\ Exact(d)[g] = Price(g) * sum
      /\ row[g] = Units(g, d)
  BY UnitsOf, Rates DEF Exact
<1>2. CASE Priced(row, g)
  <2>1. Rate(g[1]) = {Price(g)} /\ Units(g, d) # NotANumber
    BY <1>1, <1>2, Rates DEF Priced
  <2>2. Units(g, d) = sum
    BY <2>1, UnitsOf DEF Units
  <2>3. Costs(row, g) = Rounded(row[g] * Price(g))
    <3> HIDE DEF row
    <3> QED
      BY <1>2, <2>1 DEF Costs
  <2>4. c \in Rounded(sum * Price(g))
    BY <1>1, <2>2, <2>3
  <2> HIDE DEF sum
  <2>5. sum * Price(g) = Exact(d)[g] /\ sum * Price(g) \in Int
    BY <1>1
  <2>6. c \in Int /\ 10 * c - Exact(d)[g] \in -5..5
    BY <2>4, <2>5 DEF Rounded
  <2> QED
    BY <2>6, Marks
<1>3. CASE ~Priced(row, g)
  <2>1. c = NotANumber
    <3> HIDE DEF row
    <3> QED
      BY <1>3 DEF Costs, row
  <2>2. CASE Rate(g[1]) = {}
    BY <1>1, <2>1, <2>2 DEF Price
  <2>3. CASE Rate(g[1]) # {}
    <3>1. sum = 0
      BY <1>1, <1>3, <2>3, UnitsOf DEF Priced
    <3> QED
      BY <1>1, <2>1, <3>1
  <2> QED
    BY <2>2, <2>3
<1> QED
  BY <1>2, <1>3

\* A summary that was not cut is right to within half a cent for each row.
LEMMA SummaryCosts ==
    ASSUME IInv, NEW d \in Int, NEW s, IsSummary(s, d), ~s.truncated
    PROVE  /\ OrZero(s.total) \in Int /\ Cardinality(DOMAIN s.cost) \in Nat
           /\ 10 * OrZero(s.total) - SumFunctionOnSet(Exact(d), Groups)
                 \in (-5 * Cardinality(DOMAIN s.cost))..(5 * Cardinality(DOMAIN s.cost))
<1> DEFINE cost == s.cost
           D == DOMAIN cost
           P == {g \in D : cost[g] # NotANumber}
           e == Exact(d)
<1>1. D = Billed(d) /\ D \subseteq Groups /\ P \subseteq D
  BY DEF IsSummary
<1>2. IsFiniteSet(Groups) /\ IsFiniteSet(D) /\ IsFiniteSet(P)
  BY <1>1, UsageAssumption, FS_Subset
<1>3. ASSUME NEW g \in D
      PROVE  /\ cost[g] # NotANumber => cost[g] \in Int /\ 10 * cost[g] - e[g] \in -5..5
             /\ cost[g] = NotANumber => e[g] = 0
  <2>1. cost[g] \in Costs([x \in Groups |-> Units(x, d)], g) /\ g \in Groups
    BY <1>1 DEF IsSummary
  <2> HIDE DEF cost, e
  <2> QED
    BY <2>1, RowCosts DEF e
<1>4. ASSUME NEW g \in Groups \ D PROVE e[g] = 0
  <2>1. Known(g, d) = {}
    BY <1>1, <1>4 DEF Billed, Known
  <2>2. SumFunctionOnSet(usage[g], Known(g, d)) = 0
    BY <2>1, FS_EmptySet, SumUnfolds
  <2>3. e[g] = Price(g) * 0
    BY <2>2 DEF Exact
  <2> QED
    BY <2>3, Rates
<1>5. \A g \in Groups : e[g] \in Int
  BY ExactType
<1> HIDE DEF e
<1>6. SumFunctionOnSet(e, Groups) = SumFunctionOnSet(e, P)
  <2>1. P \subseteq Groups /\ IsFiniteSet(Groups \ P)
    BY <1>1, <1>2, FS_Subset
  <2>2. SumFunctionOnSet(e, Groups) = SumFunctionOnSet(e, P) + SumFunctionOnSet(e, Groups \ P)
    <3> HIDE DEF P
    <3> QED
      BY <1>2, <1>5, <2>1, SumSplits
  <2>3. \A g \in Groups \ P : e[g] = 0
    BY <1>3, <1>4
  <2>4. SumFunctionOnSet(e, Groups \ P) = 0
    <3> HIDE DEF P
    <3> QED
      BY <2>1, <2>3, SumOfZeros
  <2>5. SumFunctionOnSet(e, P) \in Int
    <3> HIDE DEF P
    <3> QED
      BY <1>2, <1>5, <2>1, SumTakesOut
  <2> QED
    BY <2>2, <2>4, <2>5
<1>7. SumFunctionOnSet(cost, P) \in Int /\ OrZero(s.total) = SumFunctionOnSet(cost, P)
  <2>1. \A g \in P : cost[g] \in Int
    BY <1>3
  <2>2. SumFunctionOnSet(cost, P) \in Int
    <3> HIDE DEF P, cost
    <3> QED
      BY <1>2, <2>1, SumTakesOut
  <2>3. SumFunctionOnSet(cost, {}) = 0
    BY FS_EmptySet, SumUnfolds
  <2>4. s.total = IF P = {} THEN NotANumber ELSE SumFunctionOnSet(cost, P)
    BY DEF IsSummary, Total
  <2> HIDE DEF P, cost
  <2> QED
    BY <2>2, <2>3, <2>4, Marks DEF OrZero
<1>8. \A g \in P : cost[g] \in Int /\ e[g] \in Int /\ 10 * cost[g] - e[g] \in -5..5
  BY <1>1, <1>3, <1>5
<1>9. Cardinality(P) \in Nat /\ Cardinality(D) \in Nat /\ Cardinality(P) <= Cardinality(D)
  <2> HIDE DEF P, D
  <2> QED
    BY <1>1, <1>2, FS_Subset, FS_CardinalityType
<1> HIDE DEF P, cost
<1>10. 10 * SumFunctionOnSet(cost, P) - SumFunctionOnSet(e, P)
          \in (-5 * Cardinality(P))..(5 * Cardinality(P))
  BY <1>2, <1>8, SumOfRounded
<1>11. SumFunctionOnSet(e, P) \in Int
  BY <1>2, <1>8, SumTakesOut
<1>12. D = DOMAIN s.cost /\ SumFunctionOnSet(Exact(d), Groups) = SumFunctionOnSet(e, P)
  BY <1>6 DEF cost, e
<1> HIDE DEF D
<1> QED
  BY <1>7, <1>9, <1>10, <1>11, <1>12

\* The days of the wider window less those of the current one are the prior
\* period's.
LEMMA PriorIsADifference ==
    ASSUME IInv, NEW near \in Int, NEW far \in Int, far <= near,
           near = Today - Weeks * DaysPerWeek, far = Today - 2 * Weeks * DaysPerWeek
    PROVE  PriorExact = SumFunctionOnSet(Exact(far), Groups) - SumFunctionOnSet(Exact(near), Groups)
<1> DEFINE days(g) == {d \in Records(g, far) \ Records(g, near) : usage[g][d] # NotANumber}
           prior == [g \in Groups |-> Price(g) * SumFunctionOnSet(usage[g], days(g))]
<1>1. PriorExact = SumFunctionOnSet(prior, Groups)
  BY DEF PriorExact, SumFunction
<1>2. ASSUME NEW g \in Groups
      PROVE  prior[g] = Exact(far)[g] - Exact(near)[g]
  <2> DEFINE Sum(S) == SumFunctionOnSet(usage[g], S)
  <2>1. Known(g, near) \subseteq Known(g, far) /\ days(g) = Known(g, far) \ Known(g, near)
    BY DEF Known, Records
  <2>2. Sum(Known(g, far)) = Sum(Known(g, near)) + Sum(days(g))
    <3>1. IsFiniteSet(Known(g, far)) /\ \A x \in Known(g, far) : usage[g][x] \in Int
      BY UnitsOf
    <3> HIDE DEF days
    <3> QED
      BY <2>1, <3>1, SumSplits
  <2>3. Sum(days(g)) \in Int
    <3>1. IsFiniteSet(days(g)) /\ \A x \in days(g) : usage[g][x] \in Int
      BY <2>1, UnitsOf, FS_Subset
    <3> HIDE DEF days
    <3> QED
      BY <3>1, SumTakesOut
  <2>4. Sum(Known(g, near)) \in Int /\ Sum(Known(g, far)) \in Int /\ Price(g) \in Int
    BY UnitsOf, Rates
  <2>5. /\ prior[g] = Price(g) * Sum(days(g))
        /\ Exact(far)[g] = Price(g) * Sum(Known(g, far))
        /\ Exact(near)[g] = Price(g) * Sum(Known(g, near))
    BY DEF Exact
  <2> HIDE DEF Sum, days, prior
  <2>6. Price(g) * (Sum(Known(g, near)) + Sum(days(g)))
           = Price(g) * Sum(Known(g, near)) + Price(g) * Sum(days(g))
    BY <2>3, <2>4
  <2>7. Price(g) * Sum(Known(g, near)) \in Int /\ Price(g) * Sum(days(g)) \in Int
    BY <2>3, <2>4
  <2> QED
    BY <2>2, <2>5, <2>6, <2>7
<1>3. \A g \in Groups : Exact(far)[g] \in Int /\ Exact(near)[g] \in Int
  BY ExactType
<1> HIDE DEF prior
<1> QED
  BY <1>1, <1>2, <1>3, SumOfDifferences, UsageAssumption

\* The windows of a report that fit are the ones asked for.
LEMMA ReportWindows ==
    ASSUME IInv, request.tool = "billing_report", ~Unusable, WiderFits
    PROVE  /\ Since(CurrentDays) \in Int /\ Since(WiderDays) \in Int
           /\ Since(WiderDays) <= Since(CurrentDays)
           /\ Since(CurrentDays) = Today - Weeks * DaysPerWeek
           /\ Since(WiderDays) = Today - 2 * Weeks * DaysPerWeek
<1>1. DaysPerWeek \in Nat \ {0} /\ MaxDays \in Nat \ {0} /\ MaxWeeks \in Nat \ {0}
  BY ScaleAssumption
<1>2. request.since \in Int
  <2>1. request \in Requests
    BY DEF IInv, TypeOK
  <2> QED
    BY <2>1, RequestsAssumption DEF Unusable
<1>3. Weeks \in 1..MaxWeeks
  <2>1. 1 \in Int /\ MaxWeeks \in Int /\ 1 <= MaxWeeks
    BY <1>1
  <2>2. Clamped(request.since, 1, MaxWeeks) \in 1..MaxWeeks
    BY <1>2, <2>1, ClampedInRange
  <2> QED
    BY <2>2 DEF Weeks
<1> DEFINE n == Weeks * DaysPerWeek
<1>4. n \in Nat /\ n >= 1 /\ 2 * Weeks * DaysPerWeek = 2 * n /\ Weeks * 2 * DaysPerWeek = 2 * n
  <2>1. Weeks \in Int /\ Weeks >= 1
    BY <1>1, <1>3
  <2>2. (Weeks - 1) \in Nat /\ (Weeks - 1) * DaysPerWeek \in Nat
    BY <1>1, <2>1
  <2>3. n = (Weeks - 1) * DaysPerWeek + DaysPerWeek
    BY <1>1, <2>1
  <2>4. n \in Nat /\ n >= 1
    BY <1>1, <2>2, <2>3
  <2> HIDE DEF n
  <2> QED
    BY <1>1, <2>1, <2>4 DEF n
<1>5. 2 * n <= MaxDays
  BY <1>4 DEF WiderFits
<1>6. Today \in Int
  <2>1. now \in Nat /\ HoursPerDay \in Nat \ {0}
    BY Scale DEF IInv, TypeOK
  <2> QED
    BY <2>1, Division DEF Today
<1> HIDE DEF n
<1>7. ASSUME NEW m \in Nat, m >= 1, m <= MaxDays
      PROVE  Clamped(m, 1, MaxDays) = m
  <2>1. 1 \in Int /\ MaxDays \in Int /\ 1 <= MaxDays /\ m \in Int
    BY <1>1
  <2>2. Clamped(m, 1, MaxDays) = Min({MaxDays, m})
    BY <1>7, <2>1, ClampedInRange
  <2>3. Min({MaxDays, m}) = IF MaxDays <= m THEN MaxDays ELSE m
    BY <2>1, MinOfTwo
  <2> QED
    BY <1>7, <2>1, <2>2, <2>3
<1>8. Clamped(n, 1, MaxDays) = n /\ Clamped(2 * n, 1, MaxDays) = 2 * n
  BY <1>1, <1>4, <1>5, <1>7
<1> QED
  BY <1>4, <1>6, <1>8 DEF Since, CurrentDays, WiderDays, n

LEMMA ReportIsRight == IInv /\ ReportInv => PriorPeriodIsTrue
<1> SUFFICES ASSUME IInv, ReportInv, HasPrior, ~disturbed, WiderFits PROVE PriorIsRight
  BY DEF PriorPeriodIsTrue
<1>1. /\ result.kind = "report" /\ result.dollars
      /\ ~current.truncated /\ ~fetched.truncated
  BY DEF HasPrior
<1>2. PICK wider \in Summaries : result = Report(current, wider)
  BY <1>1 DEF ReportInv
<1>3. request.tool = "billing_report" /\ ~Unusable /\ current # Nothing
  BY <1>1 DEF ReportInv
<1> DEFINE near == Since(CurrentDays)
           far == Since(WiderDays)
<1>4. BillingDays = WiderDays
  BY <1>3 DEF BillingDays, ReportInv
<1>5. /\ near \in Int /\ far \in Int /\ far <= near
      /\ near = Today - Weeks * DaysPerWeek /\ far = Today - 2 * Weeks * DaysPerWeek
  BY <1>3, ReportWindows
<1>6. IsSummary(current, near)
  BY <1>3 DEF ReportInv
<1>7. IsSummary(wider, far) /\ DOMAIN wider.cost = DOMAIN fetched.rows /\ ~wider.truncated
  BY <1>1, <1>2, <1>3, <1>4, SummaryOfRead DEF ReportInv
<1> HIDE DEF near, far
<1>8. result.prior = OrZero(wider.total) - OrZero(current.total)
  <2>1. current.applied
    BY <1>1, <1>2 DEF Report
  <2> QED
    BY <1>2, <2>1 DEF Report, PriorTotal
<1>9. PriorExact = SumFunctionOnSet(Exact(far), Groups) - SumFunctionOnSet(Exact(near), Groups)
  BY <1>5, PriorIsADifference
<1>10. /\ SumFunctionOnSet(Exact(far), Groups) \in Int
       /\ SumFunctionOnSet(Exact(near), Groups) \in Int
  BY <1>5, ExactType
<1> DEFINE i == Cardinality(DOMAIN current.cost)
           j == Cardinality(DOMAIN fetched.rows)
<1>11. /\ OrZero(current.total) \in Int /\ i \in Nat
       /\ 10 * OrZero(current.total) - SumFunctionOnSet(Exact(near), Groups) \in (-5 * i)..(5 * i)
  BY <1>1, <1>5, <1>6, SummaryCosts
<1>12. /\ OrZero(wider.total) \in Int /\ j \in Nat
       /\ 10 * OrZero(wider.total) - SumFunctionOnSet(Exact(far), Groups) \in (-5 * j)..(5 * j)
  BY <1>5, <1>7, SummaryCosts
<1> HIDE DEF i, j
<1>13. 10 * result.prior - PriorExact \in (-5 * (i + j))..(5 * (i + j))
  BY <1>8, <1>9, <1>10, <1>11, <1>12
<1> QED
  BY <1>13 DEF PriorIsRight, i, j

\* The report's prior period is what the usage of that period costs, to within
\* half a cent per row, for any usage, corrections and rates, any number of
\* groups and any lengths of weeks and windows, whenever nothing changed between
\* its two reads, neither was cut and the wider window fits: the difference of
\* two windows, clamped, read, priced and rounded separately, is the window between.
THEOREM PriorCorrect == Spec => []PriorPeriodIsTrue
BY ReportIsRight, ReportInvariance, PTL
=============================================================================
