-------------------------- MODULE RateLimiter_proofs --------------------------
(***************************************************************************)
(* Proofs about the rate limiter, for every set of tools and callers,      *)
(* every configuration text with integer limits and every bound.           *)
(***************************************************************************)
EXTENDS RateLimiter, FiniteSetTheorems, SequenceTheorems, WellFoundedInduction, TLAPS

-----------------------------------------------------------------------------
(* The limits in force.                                                    *)

\* A collection of subsets of a finite set, not empty, has a member that no
\* other member is part of.  (Induction over finite sets in first-order form:
\* take the collection of those that a claim fails for.)
LEMMA MinimalSet ==
    ASSUME NEW U, IsFiniteSet(U), NEW F, F \subseteq SUBSET U, F # {}
    PROVE  \E S \in F : \A T \in F : T \subseteq S => T = S
<1> DEFINE R == StrictSubsetOrdering(U)
<1>1. F \subseteq FiniteSubsetsOf(U)
  BY FS_Subset DEF FiniteSubsetsOf
<1>2. IsWellFoundedOn(R, FiniteSubsetsOf(U))
  BY FS_StrictSubsetOrderingWellFounded
<1> HIDE DEF R
<1>3. PICK S \in F : \A T \in F : ~ (<<T, S>> \in R)
  BY <1>1, <1>2, WFMin
<1>4. \A T \in F : T \subseteq S => T = S
  BY <1>3 DEF R, StrictSubsetOrdering
<1> QED
  BY <1>3, <1>4

\* Finitely many places in the text.
Places(U) == IsFiniteSet(U) /\ U \subseteq Nat

LEMMA MaxIsLast ==
    ASSUME NEW U, Places(U)
    PROVE  \A S \in SUBSET U : S # {} => Max(S) \in S /\ \A y \in S : y <= Max(S)
<1> DEFINE HasMax(S) == \E x \in S : \A y \in S : x >= y
           F == {S \in SUBSET U : S # {} /\ ~HasMax(S)}
<1>1. F = {}
  <2>0. SUFFICES ASSUME F # {} PROVE FALSE
    OBVIOUS
  <2>1. PICK S \in F : \A T \in F : T \subseteq S => T = S
    <3>1. F \subseteq SUBSET U /\ IsFiniteSet(U)
      BY DEF Places
    <3> HIDE DEF F
    <3> QED
      BY <2>0, <3>1, MinimalSet
  <2>2. PICK x : x \in S
    BY <2>1
  <2>3. S \ {x} \notin F /\ S \ {x} \in SUBSET U
    BY <2>1, <2>2
  <2>4. CASE S \ {x} = {}
    BY <2>1, <2>2, <2>4 DEF Places
  <2>5. CASE S \ {x} # {}
    <3>1. PICK z \in S \ {x} : \A y \in S \ {x} : z >= y
      BY <2>3, <2>5
    <3>2. x \in Nat /\ z \in Nat /\ \A y \in S : y \in Nat
      BY <2>1, <2>2, <3>1 DEF Places
    <3>3. HasMax(S)
      <4>1. CASE x >= z
        BY <2>2, <3>1, <3>2, <4>1
      <4>2. CASE z >= x
        BY <3>1, <3>2, <4>2
      <4> QED
        BY <3>2, <4>1, <4>2
    <3> QED
      BY <2>1, <3>3
  <2> QED
    BY <2>4, <2>5
<1>2. ASSUME NEW S \in SUBSET U, S # {}
      PROVE  Max(S) \in S /\ \A y \in S : y <= Max(S)
  <2>1. HasMax(S)
    BY <1>1, <1>2
  <2>2. Max(S) \in S /\ \A y \in S : Max(S) >= y
    BY <2>1 DEF Max
  <2> QED
    BY <2>2
<1> QED
  BY <1>2

\* What the chunks numbered in s give: the last one for each name.
Parsed(s) == {i \in s : Chunks[i] # Malformed}
LastFor(s, name) == Max({i \in Parsed(s) : Chunks[i].key = name})
Table(s) == [name \in {Chunks[i].key : i \in Parsed(s)} |-> Chunks[LastFor(s, name)].limit]

\* One turn of _parse_overrides' loop.
Taken(i, out) ==
    IF Chunks[i] = Malformed THEN out ELSE Put(out, Chunks[i].key, Chunks[i].limit)

LEMMA TableStep ==
    ASSUME NEW U, Places(U), NEW s \in SUBSET U
    PROVE  Table(s) = IF s = {} THEN <<>> ELSE Taken(Max(s), Table(s \ {Max(s)}))
<1>1. CASE s = {}
  <2>1. DOMAIN Table(s) = {}
    BY <1>1 DEF Table, Parsed
  <2> QED
    BY <1>1, <2>1 DEF Table, Parsed
<1>2. CASE s # {}
  <2> DEFINE m == Max(s)
             r == s \ {m}
  <2>1. m \in s /\ \A y \in s : y <= m
    BY <1>2, MaxIsLast
  <2>2. r \in SUBSET U
    OBVIOUS
  <2> HIDE DEF m
  <2>3. CASE Chunks[m] = Malformed
    <3>1. Parsed(s) = Parsed(r)
      BY <2>3 DEF Parsed
    <3> QED
      BY <1>2, <2>3, <3>1 DEF Table, LastFor, Taken, m
  <2>4. CASE Chunks[m] # Malformed
    <3>1. Parsed(s) = Parsed(r) \cup {m} /\ m \notin Parsed(r)
      BY <2>1, <2>4 DEF Parsed
    <3> DEFINE own == Chunks[m].key
    <3>2. ASSUME NEW name, name # own
          PROVE  LastFor(s, name) = LastFor(r, name)
      <4>1. {i \in Parsed(s) : Chunks[i].key = name} = {i \in Parsed(r) : Chunks[i].key = name}
        BY <3>1, <3>2
      <4> QED
        BY <4>1 DEF LastFor
    <3>3. LastFor(s, own) = m
      <4> DEFINE S == {i \in Parsed(s) : Chunks[i].key = own}
      <4>1. m \in S /\ S \in SUBSET U /\ S \subseteq s
        BY <2>1, <3>1 DEF Parsed
      <4>2. Max(S) \in S /\ m <= Max(S)
        <5> HIDE DEF S
        <5> QED
          BY <4>1, MaxIsLast
      <4>3. Max(S) <= m /\ Max(S) \in Nat /\ m \in Nat
        BY <2>1, <4>1, <4>2 DEF Places
      <4> HIDE DEF S
      <4> QED
        BY <4>2, <4>3 DEF LastFor, S
    <3>4. Taken(m, Table(r)) = Put(Table(r), own, Chunks[m].limit)
      BY <2>4 DEF Taken
    <3>5. DOMAIN Table(s) = {own} \cup DOMAIN Table(r)
      BY <3>1 DEF Table
    <3>6. ASSUME NEW name \in DOMAIN Table(s)
          PROVE  Table(s)[name] = IF name = own THEN Chunks[m].limit ELSE Table(r)[name]
      BY <3>2, <3>3, <3>5 DEF Table
    <3>7. Table(s) = [name \in {own} \cup DOMAIN Table(r) |->
                         IF name = own THEN Chunks[m].limit ELSE Table(r)[name]]
      <4>1. Table(s) = [name \in DOMAIN Table(s) |-> Table(s)[name]]
        BY DEF Table
      <4> HIDE DEF own
      <4> QED
        BY <3>5, <3>6, <4>1
    <3>8. Put(Table(r), own, Chunks[m].limit)
             = [name \in {own} \cup DOMAIN Table(r) |->
                   IF name = own THEN Chunks[m].limit ELSE Table(r)[name]]
      <4> HIDE DEF own, r
      <4>1. {own} \cup DOMAIN Table(r) = DOMAIN Table(r) \cup {own}
        OBVIOUS
      <4> QED
        BY <4>1 DEF Put
    <3> QED
      BY <1>2, <3>4, <3>7, <3>8 DEF m
  <2> QED
    BY <2>3, <2>4
<1> QED
  BY <1>1, <1>2

\* g folds over the subsets of S as FoldLeft does.
IsFold(g, S) ==
    g = [s \in SUBSET S |-> IF s = {} THEN <<>> ELSE Taken(Max(s), g[s \ {Max(s)}])]

LEMMA OverridesFold == Overrides = (CHOOSE g : IsFold(g, DOMAIN Chunks))[DOMAIN Chunks]
BY DEF Overrides, FoldLeft, MapThenFoldSet, IsFold, Taken

\* The loop leaves the last limit given for each name.
LEMMA OverridesAreLast == Overrides = Table(DOMAIN Chunks)
<1> DEFINE D == DOMAIN Chunks
           t == [s \in SUBSET D |-> Table(s)]
           g == CHOOSE h : IsFold(h, D)
<1>1. Places(D)
  <2>1. D = 1..Len(Chunks) /\ Len(Chunks) \in Nat
    BY LimitsAssumption, LenProperties
  <2> QED
    BY <2>1, FS_Interval DEF Places
<1>2. ASSUME NEW s \in SUBSET D, s # {}
      PROVE  Max(s) \in s /\ s \ {Max(s)} \in SUBSET D /\ s \ {Max(s)} # s
  BY <1>1, <1>2, MaxIsLast
<1>3. IsFold(t, D)
  <2>1. ASSUME NEW s \in SUBSET D
        PROVE  Table(s) = IF s = {} THEN <<>> ELSE Taken(Max(s), t[s \ {Max(s)}])
    <3>1. s # {} => t[s \ {Max(s)}] = Table(s \ {Max(s)})
      BY <1>2
    <3> HIDE DEF t
    <3> QED
      BY <1>1, <3>1, TableStep
  <2> QED
    BY <2>1 DEF IsFold
<1>4. IsFold(g, D)
  <2> HIDE DEF t
  <2> QED
    BY <1>3
<1> HIDE DEF g, D, t
<1> DEFINE F == {s \in SUBSET D : g[s] # Table(s)}
<1>5. F = {}
  <2>0. SUFFICES ASSUME F # {} PROVE FALSE
    OBVIOUS
  <2>1. PICK s \in F : \A r \in F : r \subseteq s => r = s
    <3>1. F \subseteq SUBSET D /\ IsFiniteSet(D)
      BY <1>1 DEF Places
    <3> HIDE DEF F
    <3> QED
      BY <2>0, <3>1, MinimalSet
  <2>2. g[s] = IF s = {} THEN <<>> ELSE Taken(Max(s), g[s \ {Max(s)}])
    BY <1>4, <2>1 DEF IsFold
  <2>3. Table(s) = IF s = {} THEN <<>> ELSE Taken(Max(s), Table(s \ {Max(s)}))
    BY <1>1, <2>1, TableStep
  <2>4. s # {} => g[s \ {Max(s)}] = Table(s \ {Max(s)})
    BY <1>2, <2>1
  <2>5. g[s] # Table(s)
    BY <2>1
  <2> HIDE DEF F
  <2> QED
    BY <2>2, <2>3, <2>4, <2>5
<1> QED
  BY <1>5, OverridesFold DEF g, D

\* _limit_for finds the limit that is written down, and it is a pair of integers.
LEMMA LimitIsWritten == \A tool : LimitFor(tool) = Written(tool)
<1> DEFINE D == DOMAIN Chunks
<1>1. \A name : Given(name) = {i \in Parsed(D) : Chunks[i].key = name}
  BY DEF Given, Parsed
<1>2. \A name : name \in DOMAIN Overrides <=> Given(name) # {}
  BY <1>1, OverridesAreLast DEF Table
<1>3. \A name \in DOMAIN Overrides : Overrides[name] = Chunks[Max(Given(name))].limit
  BY <1>1, OverridesAreLast DEF Table, LastFor
<1> QED
  BY <1>2, <1>3 DEF LimitFor, Written

LEMMA WrittenType == \A tool : Written(tool) \in Limit
<1> DEFINE D == DOMAIN Chunks
<1>1. Places(D)
  <2>1. D = 1..Len(Chunks) /\ Len(Chunks) \in Nat
    BY LimitsAssumption, LenProperties
  <2> QED
    BY <2>1, FS_Interval DEF Places
<1>2. ASSUME NEW name, Given(name) # {}
      PROVE  Chunks[Max(Given(name))].limit \in Limit
  <2>1. Given(name) \in SUBSET D
    BY DEF Given
  <2>2. Max(Given(name)) \in Given(name)
    BY <1>1, <1>2, <2>1, MaxIsLast
  <2>3. Max(Given(name)) \in D /\ Chunks[Max(Given(name))] # Malformed
    BY <2>2 DEF Given
  <2>4. Chunks[Max(Given(name))] \in Range(Chunks)
    BY <2>3 DEF Range
  <2> QED
    BY <2>3, <2>4, LimitsAssumption
<1> QED
  BY <1>2, LimitsAssumption DEF Written

\* The limit of a key is a pair of integers.
LEMMA LimitsType ==
    \A k \in Keys : Limits[k].count \in Int /\ Limits[k].window \in Int
BY LimitIsWritten, WrittenType DEF Limits, Limit

-----------------------------------------------------------------------------
(* One key: its history of admissions and its deque.                       *)

\* The elements of a sequence of times, and of one with a time appended.
LEMMA Times ==
    ASSUME NEW s \in Seq(Nat), NEW t \in Nat
    PROVE  /\ Len(s) \in Nat /\ \A i \in 1..Len(s) : s[i] \in Nat
           /\ Append(s, t) \in Seq(Nat) /\ Len(Append(s, t)) = Len(s) + 1
           /\ Append(s, t)[Len(s) + 1] = t
           /\ \A i \in 1..Len(s) : Append(s, t)[i] = s[i]
BY AppendProperties, LenProperties, ElementOfSeq

\* What is left of a deque after d entries were dropped at its old end.
LEMMA LeftOver ==
    ASSUME NEW b \in Seq(Nat), NEW d \in 0..Len(b)
    PROVE  /\ SubSeq(b, d + 1, Len(b)) \in Seq(Nat)
           /\ Len(SubSeq(b, d + 1, Len(b))) = Len(b) - d
           /\ \A i \in 1..(Len(b) - d) : SubSeq(b, d + 1, Len(b))[i] = b[d + i]
<1>1. Len(b) \in Nat /\ d + 1 \in 1..(Len(b) + 1)
  BY LenProperties
<1>2. \A i \in (d + 1)..Len(b) : b[i] \in Nat
  BY <1>1, ElementOfSeq
<1>3. /\ SubSeq(b, d + 1, Len(b)) \in Seq(Nat)
      /\ Len(SubSeq(b, d + 1, Len(b))) = IF d + 1 <= Len(b) THEN Len(b) - (d + 1) + 1 ELSE 0
      /\ \A i \in 1..(Len(b) - (d + 1) + 1) : SubSeq(b, d + 1, Len(b))[i] = b[d + 1 + i - 1]
  BY <1>1, <1>2, SubSeqProperties
<1>4. Len(SubSeq(b, d + 1, Len(b))) = Len(b) - d
  BY <1>1, <1>3
<1>5. ASSUME NEW i \in 1..(Len(b) - d)
      PROVE  SubSeq(b, d + 1, Len(b))[i] = b[d + i]
  <2>1. i \in 1..(Len(b) - (d + 1) + 1) /\ d + 1 + i - 1 = d + i
    BY <1>1
  <2>2. SubSeq(b, d + 1, Len(b))[i] = b[d + 1 + i - 1]
    BY <1>3, <2>1
  <2> QED
    BY <2>1, <2>2
<1> QED
  BY <1>3, <1>4, <1>5

\* Evicting what is older than the cutoff keeps the recent end, and what is
\* left begins at the cutoff.
LEMMA EvictRecentEnd ==
    ASSUME NEW a \in Seq(Nat), NEW b \in Seq(Nat), NEW x \in Int,
           RecentEnd(b, a, x), NEW d \in 0..Len(b), Evicts(b, x, d)
    PROVE  RecentEnd(SubSeq(b, d + 1, Len(b)), a, x)
<1> DEFINE left == SubSeq(b, d + 1, Len(b))
<1>1. Len(a) \in Nat /\ Len(b) \in Nat
  BY LenProperties
<1>2. Len(left) = Len(b) - d /\ \A i \in 1..(Len(b) - d) : left[i] = b[d + i]
  BY LeftOver
<1> HIDE DEF left
<1>3. Len(left) <= Len(a)
  BY <1>1, <1>2 DEF RecentEnd
<1>4. ASSUME NEW i \in 1..Len(left)
      PROVE  left[i] = a[Len(a) - Len(left) + i]
  <2>1. d + i \in 1..Len(b) /\ Len(a) - Len(b) + (d + i) = Len(a) - Len(left) + i
    BY <1>1, <1>2
  <2>2. b[d + i] = a[Len(a) - Len(b) + (d + i)]
    BY <2>1 DEF RecentEnd
  <2> QED
    BY <1>2, <2>1, <2>2
<1>5. ASSUME NEW i \in 1..(Len(a) - Len(left))
      PROVE  a[i] < x
  <2>1. CASE i <= Len(a) - Len(b)
    <3>1. i \in 1..(Len(a) - Len(b))
      BY <1>1, <2>1
    <3> QED
      BY <3>1 DEF RecentEnd
  <2>2. CASE i > Len(a) - Len(b)
    <3> DEFINE e == i - (Len(a) - Len(b))
    <3>1. e \in 1..d /\ e \in 1..Len(b) /\ Len(a) - Len(b) + e = i
      BY <1>1, <1>2, <2>2
    <3>2. b[e] < x /\ b[e] = a[Len(a) - Len(b) + e]
      BY <3>1 DEF Evicts, RecentEnd
    <3> QED
      BY <3>1, <3>2
  <2> QED
    BY <1>1, <1>2, <2>1, <2>2
<1> QED
  BY <1>3, <1>4, <1>5 DEF RecentEnd, left

\* Recording an admission in both keeps the deque the recent end.
LEMMA AppendRecentEnd ==
    ASSUME NEW a \in Seq(Nat), NEW b \in Seq(Nat), NEW x \in Int, NEW t \in Nat,
           RecentEnd(b, a, x)
    PROVE  RecentEnd(Append(b, t), Append(a, t), x)
<1> DEFINE A == Append(a, t)
           B == Append(b, t)
<1>1. /\ Len(a) \in Nat /\ Len(A) = Len(a) + 1 /\ A[Len(a) + 1] = t
      /\ \A i \in 1..Len(a) : A[i] = a[i]
  BY Times
<1>2. /\ Len(b) \in Nat /\ Len(B) = Len(b) + 1 /\ B[Len(b) + 1] = t
      /\ \A i \in 1..Len(b) : B[i] = b[i]
  BY Times
<1>3. /\ Len(b) <= Len(a)
      /\ \A i \in 1..Len(b) : b[i] = a[Len(a) - Len(b) + i]
      /\ \A i \in 1..(Len(a) - Len(b)) : a[i] < x
  BY DEF RecentEnd
<1> HIDE DEF A, B
<1>4. Len(A) - Len(B) = Len(a) - Len(b) /\ Len(B) <= Len(A)
  BY <1>1, <1>2, <1>3
<1>5. ASSUME NEW i \in 1..Len(B) PROVE B[i] = A[Len(A) - Len(B) + i]
  <2>1. CASE i = Len(b) + 1
    BY <1>1, <1>2, <1>4, <2>1
  <2>2. CASE i # Len(b) + 1
    <3>1. i \in 1..Len(b) /\ Len(a) - Len(b) + i \in 1..Len(a)
      BY <1>1, <1>2, <1>3, <2>2
    <3> QED
      BY <1>1, <1>2, <1>3, <1>4, <3>1
  <2> QED
    BY <2>1, <2>2
<1>6. ASSUME NEW i \in 1..(Len(A) - Len(B)) PROVE A[i] < x
  <2>1. i \in 1..(Len(a) - Len(b)) /\ i \in 1..Len(a)
    BY <1>1, <1>2, <1>4
  <2> QED
    BY <1>1, <1>3, <2>1
<1> QED
  BY <1>4, <1>5, <1>6 DEF RecentEnd, A, B

\* An admission at t keeps the history in order.
LEMMA AppendInOrder ==
    ASSUME NEW a \in Seq(Nat), NEW t \in Nat, NEW c \in Int, c > 0, InOrder(a, t, c)
    PROVE  InOrder(Append(a, t), t, c)
<1> DEFINE A == Append(a, t)
<1>1. /\ Len(a) \in Nat /\ Len(A) = Len(a) + 1 /\ A[Len(a) + 1] = t
      /\ \A i \in 1..Len(a) : A[i] = a[i] /\ a[i] \in Nat
  BY Times
<1> HIDE DEF A
<1>2. \A i \in 1..Len(A) : i = Len(A) \/ i \in 1..Len(a)
  BY <1>1
<1>3. \A i \in 1..Len(A) : A[i] <= t
  BY <1>1, <1>2 DEF InOrder
<1>4. ASSUME NEW i \in 1..Len(A), NEW j \in 1..Len(A), i <= j PROVE A[i] <= A[j]
  <2>1. CASE j = Len(A)
    BY <1>1, <1>3, <2>1
  <2>2. CASE j # Len(A)
    <3>1. i \in 1..Len(a) /\ j \in 1..Len(a)
      BY <1>1, <1>4, <2>2
    <3> QED
      BY <1>1, <1>4, <3>1 DEF InOrder
  <2> QED
    BY <2>1, <2>2
<1> QED
  BY <1>3, <1>4 DEF InOrder, A

\* Admitting when fewer than count entries are left keeps the admissions
\* spread: the one count places back is among those already dropped.
LEMMA AppendSpread ==
    ASSUME NEW a \in Seq(Nat), NEW b \in Seq(Nat), NEW t \in Nat,
           NEW c \in Int, NEW w \in Int,
           RecentEnd(b, a, t - w), Spread(a, c, w), Len(b) < c
    PROVE  Spread(Append(a, t), c, w)
<1> DEFINE A == Append(a, t)
<1>1. /\ Len(a) \in Nat /\ Len(b) \in Nat /\ Len(A) = Len(a) + 1 /\ A[Len(a) + 1] = t
      /\ \A i \in 1..Len(a) : A[i] = a[i] /\ a[i] \in Nat
  BY Times
<1> HIDE DEF A
<1> SUFFICES ASSUME NEW i \in 1..(Len(a) + 1), NEW j \in 1..(Len(a) + 1), i + c <= j
             PROVE  A[j] - A[i] > w
  BY <1>1 DEF Spread, A
<1>2. c > 0
  BY <1>1
<1>3. CASE j = Len(a) + 1
  <2>1. i \in 1..(Len(a) - Len(b)) /\ i \in 1..Len(a)
    BY <1>1, <1>3
  <2>2. a[i] < t - w
    BY <2>1 DEF RecentEnd
  <2>3. A[i] = a[i] /\ A[j] = t /\ a[i] \in Nat
    BY <1>1, <1>3, <2>1
  <2>4. t - a[i] > w
    BY <2>2, <2>3
  <2> QED
    BY <2>3, <2>4
<1>4. CASE j <= Len(a)
  <2>1. i \in 1..Len(a) /\ j \in 1..Len(a)
    BY <1>1, <1>2, <1>4
  <2> QED
    BY <1>1, <2>1 DEF Spread
<1>5. Len(a) \in Nat
  BY <1>1
<1>6. j = Len(a) + 1 \/ j <= Len(a)
  BY <1>5
<1> QED
  BY <1>3, <1>4, <1>6

-----------------------------------------------------------------------------
(* The invariant.                                                          *)

\* The invariant holds at the start: no admissions, empty deques.
LEMMA InitIInv == Init => IInv
<1> SUFFICES ASSUME Init PROVE IInv
  OBVIOUS
<1>1. TypeOK
  BY DEF Init, TypeOK
<1>2. BucketIsRecentHistory
  BY DEF Init, BucketIsRecentHistory, RecentEnd
<1>3. HistoryInOrder
  BY DEF Init, HistoryInOrder, InOrder
<1>4. QuotaHolds
  BY DEF Init, QuotaHolds, Spread
<1> QED
  BY <1>1, <1>2, <1>3, <1>4 DEF IInv

\* One call of check on key k preserves the invariant.
LEMMA CheckIInv ==
    ASSUME IInv, NEW k \in Keys, check(k)
    PROVE  IInv'
<1> DEFINE c == Limits[k].count
           w == Limits[k].window
           a == admitted[k]
           b == buckets[k]
<1>1. PICK d \in 0..Len(b) :
        LET bucket == SubSeq(b, d + 1, Len(b)) IN
          /\ Evicts(b, now - w, d)
          /\ \/ /\ Len(bucket) >= c
                /\ buckets' = [buckets EXCEPT ![k] = bucket]
                /\ refused' = [refused EXCEPT ![k] = @ + 1]
                /\ UNCHANGED admitted
             \/ /\ Len(bucket) < c
                /\ buckets' = [buckets EXCEPT ![k] = Append(bucket, now)]
                /\ admitted' = [admitted EXCEPT ![k] = Append(@, now)]
                /\ UNCHANGED refused
  BY DEF check
<1> DEFINE left == SubSeq(b, d + 1, Len(b))
<1>2. now' = now /\ now \in Nat
  BY DEF check, IInv, TypeOK
<1>3. c \in Int /\ w \in Int /\ now - w \in Int
  BY <1>2, LimitsType
<1>4. a \in Seq(Nat) /\ b \in Seq(Nat) /\ left \in Seq(Nat)
  BY LeftOver DEF IInv, TypeOK
<1>5. /\ RecentEnd(b, a, now - w) /\ InOrder(a, now, c) /\ Spread(a, c, w)
  BY DEF IInv, BucketIsRecentHistory, HistoryInOrder, QuotaHolds
<1>6. RecentEnd(left, a, now - w)
  BY <1>1, <1>3, <1>4, <1>5, EvictRecentEnd
<1> HIDE DEF left
<1>7. CASE /\ buckets' = [buckets EXCEPT ![k] = left]
           /\ refused' = [refused EXCEPT ![k] = @ + 1]
           /\ UNCHANGED admitted
  <2>1. TypeOK'
    BY <1>2, <1>4, <1>7 DEF IInv, TypeOK
  <2>2. \A q \in Keys : buckets'[q] = IF q = k THEN left ELSE buckets[q]
    BY <1>7 DEF IInv, TypeOK
  <2>3. BucketIsRecentHistory'
    BY <1>2, <1>6, <1>7, <2>2 DEF IInv, BucketIsRecentHistory
  <2>4. HistoryInOrder' /\ QuotaHolds'
    BY <1>2, <1>7 DEF IInv, HistoryInOrder, QuotaHolds
  <2> QED
    BY <2>1, <2>3, <2>4 DEF IInv
<1>8. CASE /\ Len(left) < c
           /\ buckets' = [buckets EXCEPT ![k] = Append(left, now)]
           /\ admitted' = [admitted EXCEPT ![k] = Append(a, now)]
           /\ UNCHANGED refused
  <2>1. Append(left, now) \in Seq(Nat) /\ Append(a, now) \in Seq(Nat) /\ Len(left) \in Nat
    BY <1>2, <1>4, Times
  <2>2. TypeOK'
    BY <1>2, <1>8, <2>1 DEF IInv, TypeOK
  <2>3. \A q \in Keys :
          /\ buckets'[q] = IF q = k THEN Append(left, now) ELSE buckets[q]
          /\ admitted'[q] = IF q = k THEN Append(a, now) ELSE admitted[q]
    BY <1>8 DEF IInv, TypeOK
  <2>4. RecentEnd(Append(left, now), Append(a, now), now - w)
    BY <1>2, <1>3, <1>4, <1>6, AppendRecentEnd
  <2>5. InOrder(Append(a, now), now, c)
    BY <1>2, <1>3, <1>4, <1>5, <1>8, <2>1, AppendInOrder
  <2>6. Spread(Append(a, now), c, w)
    BY <1>2, <1>3, <1>4, <1>5, <1>6, <1>8, AppendSpread
  <2>7. BucketIsRecentHistory'
    BY <1>2, <2>3, <2>4 DEF IInv, BucketIsRecentHistory
  <2>8. HistoryInOrder'
    BY <1>2, <2>3, <2>5 DEF IInv, HistoryInOrder
  <2>9. QuotaHolds'
    BY <2>3, <2>6 DEF IInv, QuotaHolds
  <2> QED
    BY <2>2, <2>7, <2>8, <2>9 DEF IInv
<1> QED
  BY <1>1, <1>7, <1>8 DEF left

\* Time only makes what was dropped older.
LEMMA TickIInv ==
    ASSUME IInv, Tick
    PROVE  IInv'
<1>1. now \in Nat /\ now' = now + 1 /\ UNCHANGED <<buckets, admitted, refused>>
  BY DEF IInv, TypeOK, Tick
<1>2. TypeOK'
  BY <1>1 DEF IInv, TypeOK
<1>3. \A k \in Keys :
        /\ Len(admitted[k]) \in Nat /\ Len(buckets[k]) \in Nat
        /\ \A i \in 1..Len(admitted[k]) : admitted[k][i] \in Nat
  BY Times DEF IInv, TypeOK
<1>4. BucketIsRecentHistory'
  <2> SUFFICES ASSUME NEW k \in Keys
               PROVE  RecentEnd(buckets[k], admitted[k], now' - Limits[k].window)
    BY <1>1 DEF BucketIsRecentHistory
  <2>1. RecentEnd(buckets[k], admitted[k], now - Limits[k].window)
    BY DEF IInv, BucketIsRecentHistory
  <2>2. \A i \in 1..(Len(admitted[k]) - Len(buckets[k])) :
           admitted[k][i] \in Nat /\ admitted[k][i] < now - Limits[k].window
    BY <1>3, <2>1 DEF RecentEnd
  <2>3. Limits[k].window \in Int
    BY LimitsType
  <2>4. \A i \in 1..(Len(admitted[k]) - Len(buckets[k])) :
           admitted[k][i] < now' - Limits[k].window
    BY <1>1, <2>2, <2>3
  <2> QED
    BY <2>1, <2>4 DEF RecentEnd
<1>5. HistoryInOrder'
  BY <1>1, <1>3 DEF IInv, HistoryInOrder, InOrder
<1>6. QuotaHolds'
  BY <1>1 DEF IInv, QuotaHolds
<1> QED
  BY <1>2, <1>4, <1>5, <1>6 DEF IInv

\* Every step of the limiter preserves the invariant.
LEMMA NextIInv == IInv /\ [Next]_vars => IInv'
<1> SUFFICES ASSUME IInv, [Next]_vars PROVE IInv'
  OBVIOUS
<1>1. ASSUME NEW k \in Keys, check(k) PROVE IInv'
  BY <1>1, CheckIInv
<1>2. CASE Tick
  BY <1>2, TickIInv
<1>3. CASE UNCHANGED vars
  BY <1>3 DEF vars, IInv, TypeOK, BucketIsRecentHistory, HistoryInOrder, QuotaHolds
<1> QED
  BY <1>1, <1>2, <1>3 DEF Next, Over

\* The inductive invariant holds throughout.
LEMMA Invariance == Spec => []IInv
BY InitIInv, NextIInv, PTL DEF Spec

\* The clock, the deques and the histories keep their types.
THEOREM TypeCorrect == Spec => []TypeOK
<1>1. IInv => TypeOK
  BY DEF IInv
<1> QED
  BY <1>1, Invariance, PTL

\* Whatever the limits, however calls and time interleave: no stretch of window
\* seconds holds more than count admissions of one tool to one caller.
THEOREM QuotaCorrect == Spec => []QuotaHolds
<1>1. IInv => QuotaHolds
  BY DEF IInv
<1> QED
  BY <1>1, Invariance, PTL

\* Whatever the limits: dropping entries from the left end of the deque only
\* when its key is used loses no admission that still counts.
THEOREM BucketCorrect == Spec => []BucketIsRecentHistory
<1>1. IInv => BucketIsRecentHistory
  BY DEF IInv
<1> QED
  BY <1>1, Invariance, PTL

-----------------------------------------------------------------------------
(* The limits the operator has written down are the ones callers meet.     *)

\* A refusal happens on a full deque, and the deque is part of the history.
LEMMA RefusedStep == IInv /\ RefusedInv /\ [Next]_vars => RefusedInv'
<1> SUFFICES ASSUME IInv, RefusedInv, [Next]_vars, NEW q \in Keys, refused'[q] > 0
             PROVE  Len(admitted'[q]) >= Limits[q].count
  BY DEF RefusedInv
<1> DEFINE a == admitted[q]
           b == buckets[q]
           c == Limits[q].count
<1>1. /\ a \in Seq(Nat) /\ b \in Seq(Nat) /\ Len(a) \in Nat /\ Len(b) \in Nat
      /\ refused[q] \in Nat /\ now \in Nat /\ c \in Int
  BY LimitsType, LenProperties DEF IInv, TypeOK
<1>2. Len(b) <= Len(a)
  BY DEF IInv, BucketIsRecentHistory, RecentEnd
<1>3. refused[q] > 0 => Len(a) >= c
  BY DEF RefusedInv
<1>4. ASSUME NEW k \in Keys, check(k) PROVE Len(admitted'[q]) >= c
  <2>1. CASE k # q
    <3>1. admitted'[q] = a /\ refused'[q] = refused[q]
      BY <1>4, <2>1 DEF check, IInv, TypeOK
    <3> QED
      BY <1>3, <3>1
  <2>2. CASE k = q
    <3>1. PICK d \in 0..Len(b) :
             \/ /\ Len(SubSeq(b, d + 1, Len(b))) >= c
                /\ UNCHANGED admitted
             \/ /\ admitted' = [admitted EXCEPT ![q] = Append(@, now)]
                /\ UNCHANGED refused
      BY <1>4, <2>2 DEF check
    <3>2. CASE Len(SubSeq(b, d + 1, Len(b))) >= c /\ UNCHANGED admitted
      <4>1. Len(SubSeq(b, d + 1, Len(b))) = Len(b) - d
        BY <1>1, LeftOver
      <4> QED
        BY <1>1, <1>2, <3>2, <4>1
    <3>3. CASE admitted' = [admitted EXCEPT ![q] = Append(@, now)] /\ UNCHANGED refused
      <4>1. Len(admitted'[q]) = Len(a) + 1
        BY <1>1, <3>3, Times DEF IInv, TypeOK
      <4> QED
        BY <1>1, <1>3, <3>3, <4>1
    <3> QED
      BY <3>1, <3>2, <3>3
  <2> QED
    BY <2>1, <2>2
<1>5. CASE Tick
  BY <1>3, <1>5 DEF Tick
<1>6. CASE UNCHANGED vars
  BY <1>3, <1>6 DEF vars
<1> QED
  BY <1>4, <1>5, <1>6 DEF Next, Over

\* Callers are held to the limits the operator has written down, and are not
\* refused before they have used them, whatever else the text of
\* MCP_RATE_LIMIT holds: any number of chunks, repeated, malformed, for any
\* tool or for all.
THEOREM OverridesCorrect == Spec => []OverridesInForce
<1>1. Init => RefusedInv
  BY DEF Init, RefusedInv
<1>2. IInv /\ RefusedInv => OverridesInForce
  <2>1. \A k \in Keys : Limits[k] = Written(k[1])
    BY LimitIsWritten DEF Limits
  <2> QED
    BY <2>1 DEF IInv, QuotaHolds, RefusedInv, OverridesInForce
<1> QED
  BY <1>1, <1>2, RefusedStep, Invariance, PTL DEF Spec

-----------------------------------------------------------------------------
(* Exactness: the limiter implements the sliding window.                   *)

\* What eviction leaves begins no earlier than the cutoff, so the admissions
\* that still count are as many as the entries left.
LEMMA RecentCount ==
    ASSUME NEW a \in Seq(Nat), NEW l \in Seq(Nat), NEW x \in Int, NEW t \in Nat, NEW c \in Int,
           RecentEnd(l, a, x), InOrder(a, t, c), Len(l) > 0 => l[1] >= x
    PROVE  Cardinality({i \in DOMAIN a : a[i] >= x}) = Len(l)
<1> DEFINE n == Len(a)
           m == Len(l)
<1>1. /\ n \in Nat /\ m \in Nat /\ m <= n /\ DOMAIN a = 1..n
      /\ \A i \in 1..n : a[i] \in Nat
  BY Times, LenProperties DEF RecentEnd
<1>2. \A i \in 1..(n - m) : a[i] < x
  BY DEF RecentEnd
<1>3. m > 0 => a[n - m + 1] >= x
  BY <1>1 DEF RecentEnd
<1> HIDE DEF n, m
<1>4. ASSUME NEW i \in (n - m + 1)..n PROVE i \in 1..n /\ a[i] >= x
  <2>1. i \in 1..n /\ n - m + 1 \in 1..n /\ n - m + 1 <= i /\ m > 0
    BY <1>1
  <2>2. a[n - m + 1] <= a[i]
    BY <2>1 DEF InOrder, n
  <2>3. a[i] \in Nat /\ a[n - m + 1] \in Nat /\ a[n - m + 1] >= x
    BY <1>1, <1>3, <2>1
  <2> QED
    BY <2>1, <2>2, <2>3
<1>5. ASSUME NEW i \in 1..n, a[i] >= x PROVE i \in (n - m + 1)..n
  <2>1. a[i] \in Nat
    BY <1>1
  <2>2. i \notin 1..(n - m)
    BY <1>2, <1>5, <2>1
  <2> QED
    BY <1>1, <2>2
<1>6. {i \in DOMAIN a : a[i] >= x} = (n - m + 1)..n
  BY <1>1, <1>4, <1>5
<1>7. Cardinality((n - m + 1)..n) = m
  <2>1. n - m + 1 \in Int /\ n \in Int
    BY <1>1
  <2>2. Cardinality((n - m + 1)..n) = IF n - m + 1 > n THEN 0 ELSE n - (n - m + 1) + 1
    BY <2>1, FS_Interval
  <2> QED
    BY <1>1, <2>2
<1> QED
  BY <1>6, <1>7 DEF m

\* The abstract module counts with the same Cardinality.
LEMMA SameCardinality == \A S : Abstract!Cardinality(S) = Cardinality(S)
BY DEF Cardinality, Abstract!Cardinality

\* A call of check is an admission or a refusal of the sliding window.
LEMMA CheckImplements ==
    ASSUME IInv, NEW k \in Keys, check(k)
    PROVE  Abstract!Next
<1> DEFINE c == Limits[k].count
           w == Limits[k].window
           a == admitted[k]
           b == buckets[k]
<1>1. PICK d \in 0..Len(b) :
        LET bucket == SubSeq(b, d + 1, Len(b)) IN
          /\ Evicts(b, now - w, d)
          /\ \/ /\ Len(bucket) >= c
                /\ refused' = [refused EXCEPT ![k] = @ + 1]
                /\ UNCHANGED admitted
             \/ /\ Len(bucket) < c
                /\ admitted' = [admitted EXCEPT ![k] = Append(@, now)]
                /\ UNCHANGED refused
  BY DEF check
<1> DEFINE left == SubSeq(b, d + 1, Len(b))
<1>2. now' = now /\ now \in Nat /\ Len(a) + refused[k] < MaxCalls
  BY DEF check, IInv, TypeOK
<1>3. c \in Int /\ w \in Int /\ now - w \in Int
  BY <1>2, LimitsType
<1>4. a \in Seq(Nat) /\ b \in Seq(Nat) /\ Len(b) \in Nat
  BY LenProperties DEF IInv, TypeOK
<1>5. /\ left \in Seq(Nat) /\ Len(left) = Len(b) - d
      /\ \A i \in 1..(Len(b) - d) : left[i] = b[d + i]
  BY <1>4, LeftOver
<1>6. RecentEnd(left, a, now - w)
  BY <1>1, <1>3, <1>4, EvictRecentEnd DEF IInv, BucketIsRecentHistory
<1>7. Len(left) > 0 => left[1] >= now - w
  BY <1>1, <1>4, <1>5 DEF Evicts
<1>8. InOrder(a, now, c)
  BY DEF IInv, HistoryInOrder
<1> HIDE DEF left
<1>9. Cardinality(Abstract!Recent(k)) = Len(left)
  BY <1>2, <1>3, <1>4, <1>5, <1>6, <1>7, <1>8, RecentCount DEF Abstract!Recent
<1>10. Abstract!Admit(k) \/ Abstract!Refuse(k)
  <2>1. CASE Len(left) >= c /\ refused' = [refused EXCEPT ![k] = @ + 1] /\ UNCHANGED admitted
    BY <1>2, <1>9, <2>1, SameCardinality DEF Abstract!Refuse
  <2>2. CASE /\ Len(left) < c
             /\ admitted' = [admitted EXCEPT ![k] = Append(@, now)]
             /\ UNCHANGED refused
    BY <1>2, <1>9, <2>2, SameCardinality DEF Abstract!Admit
  <2> QED
    BY <1>1, <2>1, <2>2 DEF left
<1>11. Abstract!Answered(k) < MaxCalls
  BY <1>2 DEF Abstract!Answered
<1> QED
  BY <1>10, <1>11 DEF Abstract!Next

\* The limiter admits a call exactly when fewer than count calls were admitted
\* in the last window seconds, for every table of limits.
THEOREM ExactlyTheSlidingWindow == Spec => ImplementsSlidingWindow
<1>1. Init => Abstract!Init
  BY DEF Init, Abstract!Init
<1>2. IInv /\ [Next]_vars => [Abstract!Next]_(Abstract!vars)
  <2> SUFFICES ASSUME IInv, [Next]_vars PROVE [Abstract!Next]_(Abstract!vars)
    OBVIOUS
  <2>1. ASSUME NEW k \in Keys, check(k) PROVE Abstract!Next
    BY <2>1, CheckImplements
  <2>2. CASE Tick
    BY <2>2 DEF Tick, Abstract!Next, Abstract!Tick
  <2>3. CASE UNCHANGED vars
    BY <2>3 DEF vars, Abstract!vars
  <2> QED
    BY <2>1, <2>2, <2>3 DEF Next, Over
<1> QED
  BY <1>1, <1>2, Invariance, PTL DEF Spec, Abstract!Spec, ImplementsSlidingWindow
=============================================================================
