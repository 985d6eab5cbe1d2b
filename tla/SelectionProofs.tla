-------------------------- MODULE SelectionProofs ---------------------------
(***************************************************************************)
(* What proofs about sequences need: induction, folds, selections.         *)
(*                                                                         *)
(* Induction is made of the least element of a set of numbers, which the   *)
(* well-founded relations of the library provide, and is stated for a set  *)
(* in the place of a predicate: see Least and Induction.                   *)
(***************************************************************************)
EXTENDS Selection, FiniteSetsExt, SequencesExt, FiniteSetTheorems, SequenceTheorems,
        WellFoundedInduction, TLAPS

\* Every set of numbers that is not empty has a least one.
LEMMA Least ==
    ASSUME NEW S, S \subseteq Nat, S # {}
    PROVE  \E m \in S : \A k \in S : m <= k
<1>. DEFINE R == OpToRel(<, Nat)
<1>1. IsWellFoundedOn(R, Nat)
  BY NatLessThanWellFounded
<1>2. R = {x \in Nat \X Nat : x[1] < x[2]}
  BY DEF OpToRel
<1>. HIDE DEF R
<1>3. PICK m \in S : \A k \in S : ~(<<k, m>> \in R)
  BY <1>1, WFMin
<1>4. \A k, n \in Nat : k < n => <<k, n>> \in R
  BY <1>2
<1>5. \A k \in S : k \in Nat /\ m \in Nat /\ ~(k < m)
  BY <1>3, <1>4
<1>. QED
  BY <1>5

\* Induction, for a set of numbers in the place of a predicate.
LEMMA Induction ==
    ASSUME NEW n \in Nat, NEW S, 0 \in S, \A k \in 0..(n - 1) : k \in S => k + 1 \in S
    PROVE  \A k \in 0..n : k \in S
<1>. DEFINE Not == {k \in 0..n : k \notin S}
<1>. SUFFICES ASSUME Not # {} PROVE FALSE
  OBVIOUS
<1>1. Not \subseteq Nat
  OBVIOUS
<1>2. PICK m \in Not : \A k \in Not : m <= k
  <2>. HIDE DEF Not
  <2>. QED
    BY <1>1, Least
<1>3. m # 0 /\ m - 1 \in 0..n /\ m - 1 \in 0..(n - 1) /\ m - 1 \in Nat
  BY <1>2
<1>4. m - 1 \in S
  BY <1>2, <1>3
<1>5. m - 1 + 1 = m
  BY <1>3
<1>. QED
  BY <1>2, <1>3, <1>4, <1>5

\* The greatest number of a set that has a bound.
LEMMA Greatest ==
    ASSUME NEW S, S \subseteq Nat, S # {}, NEW n \in Nat, \A k \in S : k <= n
    PROVE  Max(S) \in S /\ \A k \in S : k <= Max(S)
<1>. DEFINE Bounds == {m \in Nat : \A k \in S : k <= m}
<1>1. Bounds \subseteq Nat /\ n \in Bounds
  OBVIOUS
<1>2. PICK m \in Bounds : \A k \in Bounds : m <= k
  <2>. HIDE DEF Bounds
  <2>. QED
    BY <1>1, Least
<1>3. m \in S
  <2>. SUFFICES ASSUME m \notin S PROVE FALSE
    OBVIOUS
  <2>1. \A k \in S : k \in Nat /\ k <= m /\ k # m
    BY <1>2
  <2>0. PICK k \in S : TRUE
    OBVIOUS
  <2>2. m # 0 /\ m - 1 \in Nat
    BY <1>2, <2>0, <2>1
  <2>3. m - 1 \in Bounds
    BY <1>2, <2>1, <2>2
  <2>. QED
    BY <1>2, <2>2, <2>3
<1>4. \A k \in S : k <= m
  BY <1>2
<1>5. \E x \in S : \A y \in S : x >= y
  <2>. HIDE DEF Bounds
  <2>. QED
    BY <1>1, <1>2, <1>3, <1>4
<1>. QED
  BY <1>5 DEF Max

\* The greatest of some of the numbers from 1 to n is one of them.
LEMMA GreatestOfPart ==
    ASSUME NEW n \in Nat, NEW t \in SUBSET (1..n), t # {}
    PROVE  Max(t) \in 1..n /\ t \ {Max(t)} \in SUBSET (1..n)
<1>1. t \subseteq Nat /\ \A k \in t : k <= n
  OBVIOUS
<1>. QED
  BY <1>1, Greatest

\* What a fold over a sequence of length n is made of: a function of the subsets of 1..n
\* that is defined by recursion, by their greatest numbers.
FoldedBy(h, n, base, step) ==
    \A t \in SUBSET (1..n) : h[t] = IF t = {} THEN base ELSE step[<<h[t \ {Max(t)}], Max(t)>>]

\* There is such a function, whatever the step is.
LEMMA FoldExists ==
    ASSUME NEW n \in Nat, NEW T, NEW base \in T, NEW step \in [T \X (1..n) -> T]
    PROVE  \E h \in [SUBSET (1..n) -> T] : FoldedBy(h, n, base, step)
<1>. DEFINE Partial(k, h) == \A t \in SUBSET (1..k) : h[t] = IF t = {} THEN base ELSE step[<<h[t \ {Max(t)}], Max(t)>>]
            S == {k \in 0..n : \E h \in [SUBSET (1..k) -> T] : Partial(k, h)}
<1>1. 0 \in S
  <2>. DEFINE h == [t \in SUBSET (1..0) |-> base]
  <2>1. SUBSET (1..0) = {{}}
    <3>1. 1..0 = {}
      OBVIOUS
    <3>. QED
      BY <3>1
  <2>2. \A t \in SUBSET (1..0) : t = {} /\ h[t] = base
    BY <2>1
  <2>3. h \in [SUBSET (1..0) -> T]
    OBVIOUS
  <2>. HIDE DEF h
  <2>4. Partial(0, h)
    BY <2>2
  <2>. HIDE DEF Partial
  <2>5. \E g \in [SUBSET (1..0) -> T] : Partial(0, g)
    BY <2>3, <2>4
  <2>6. 0 \in 0..n
    OBVIOUS
  <2>. QED
    BY <2>5, <2>6
<1>2. ASSUME NEW k \in 0..(n - 1), k \in S PROVE k + 1 \in S
  <2>1. PICK g \in [SUBSET (1..k) -> T] : Partial(k, g)
    BY <1>2
  <2>. DEFINE h == [t \in SUBSET (1..(k + 1)) |-> IF k + 1 \in t THEN step[<<g[t \ {k + 1}], k + 1>>] ELSE g[t]]
  <2>2. k \in Nat /\ k + 1 \in 1..n /\ k + 1 \in 0..n
    OBVIOUS
  <2>3. ASSUME NEW t \in SUBSET (1..(k + 1)), k + 1 \in t
        PROVE  /\ Max(t) = k + 1 /\ t \ {k + 1} \in SUBSET (1..k)
    <3>1. \A x \in t : x <= k + 1 /\ x \in Nat
      OBVIOUS
    <3>2. Max(t) = k + 1
      <4>1. \A y \in t : (\A x \in t : y >= x) <=> y = k + 1
        BY <2>2, <2>3, <3>1
      <4>. QED
        BY <2>3, <4>1 DEF Max
    <3>. QED
      BY <2>2, <3>2
  <2>4. ASSUME NEW t \in SUBSET (1..(k + 1)), k + 1 \notin t
        PROVE  t \in SUBSET (1..k)
    BY <2>2, <2>4
  <2>5. h \in [SUBSET (1..(k + 1)) -> T]
    <3>1. ASSUME NEW t \in SUBSET (1..(k + 1)) PROVE (IF k + 1 \in t THEN step[<<g[t \ {k + 1}], k + 1>>] ELSE g[t]) \in T
      BY <2>2, <2>3, <2>4
    <3>. QED
      BY <3>1
  <2>6. \A t \in SUBSET (1..k) : t \in SUBSET (1..(k + 1)) /\ k + 1 \notin t /\ h[t] = g[t]
    <3>1. \A x \in 1..k : x \in 1..(k + 1) /\ x # k + 1
      BY <2>2
    <3>. QED
      BY <3>1
  <2>7. ASSUME NEW t \in SUBSET (1..(k + 1))
        PROVE  h[t] = IF t = {} THEN base ELSE step[<<h[t \ {Max(t)}], Max(t)>>]
    <3>. HIDE DEF h
    <3>1. CASE k + 1 \in t
      <4>1. h[t] = step[<<g[t \ {k + 1}], k + 1>>]
        BY <3>1 DEF h
      <4>2. h[t \ {k + 1}] = g[t \ {k + 1}]
        BY <2>3, <2>6, <3>1
      <4>. QED
        BY <2>3, <3>1, <4>1, <4>2
    <3>2. CASE k + 1 \notin t
      <4>1. t \in SUBSET (1..k) /\ h[t] = g[t]
        BY <2>4, <2>6, <3>2
      <4>2. g[t] = IF t = {} THEN base ELSE step[<<g[t \ {Max(t)}], Max(t)>>]
        BY <2>1, <4>1
      <4>3. t \ {Max(t)} \in SUBSET (1..k)
        BY <4>1
      <4>. QED
        BY <2>6, <4>1, <4>2, <4>3
    <3>. QED
      BY <3>1, <3>2
  <2>8. Partial(k + 1, h)
    BY <2>7
  <2>. HIDE DEF h
  <2>. QED
    BY <2>2, <2>5, <2>8
<1>3. \A k \in 0..n : k \in S
  <2>. HIDE DEF S
  <2>. QED
    BY <1>1, <1>2, Induction
<1>4. n \in S
  <2>. HIDE DEF S
  <2>. QED
    BY <1>3
<1>. QED
  BY <1>4 DEF FoldedBy
-----------------------------------------------------------------------------
\* Elements that are ordered by what is below them have ranks from 1 to their number.
Orders(low, S) ==
    /\ low \in [S -> SUBSET S] /\ \A x \in S : x \in low[x]
    /\ \A x, y \in S : x = y \/ (low[x] \subseteq low[y] /\ y \notin low[x]) \/ (low[y] \subseteq low[x] /\ x \notin low[y])
RanksOf(low, S) == {Cardinality(low[x]) : x \in S}

LEMMA Ranks ==
    ASSUME NEW S, IsFiniteSet(S), NEW low, Orders(low, S)
    PROVE  /\ Cardinality(S) \in Nat
           /\ \A x \in S : Cardinality(low[x]) \in 1..Cardinality(S)
           /\ \A x, y \in S : Cardinality(low[x]) = Cardinality(low[y]) => x = y
           /\ RanksOf(low, S) = 1..Cardinality(S)
<1>0. /\ low \in [S -> SUBSET S] /\ \A x \in S : x \in low[x]
      /\ \A x, y \in S : x = y \/ (low[x] \subseteq low[y] /\ y \notin low[x]) \/ (low[y] \subseteq low[x] /\ x \notin low[y])
  BY DEF Orders
<1>. DEFINE Rank == [x \in S |-> Cardinality(low[x])]
            All == {Rank[x] : x \in S}
<1>1. Cardinality(S) \in Nat
  BY FS_CardinalityType
<1>2. \A x \in S : IsFiniteSet(low[x]) /\ Cardinality(low[x]) \in 1..Cardinality(S)
  <2>1. \A x \in S : IsFiniteSet(low[x]) /\ Cardinality(low[x]) \in Nat /\ Cardinality(low[x]) <= Cardinality(S)
    BY <1>0, FS_Subset, FS_CardinalityType
  <2>2. \A x \in S : low[x] # {}
    BY <1>0
  <2>3. \A x \in S : Cardinality(low[x]) # 0
    BY <2>1, <2>2, FS_EmptySet
  <2>. QED
    BY <1>1, <2>1, <2>3
<1>3. \A x, y \in S : Cardinality(low[x]) = Cardinality(low[y]) => x = y
  <2>. SUFFICES ASSUME NEW x \in S, NEW y \in S, Cardinality(low[x]) = Cardinality(low[y]), x # y
                PROVE  FALSE
    OBVIOUS
  <2>1. CASE low[x] \subseteq low[y] /\ y \notin low[x]
    <3>1. low[x] # low[y] /\ IsFiniteSet(low[y]) /\ low[x] \in SUBSET low[y]
      BY <1>0, <1>2, <2>1
    <3>. QED
      BY <3>1, FS_Subset
  <2>2. CASE low[y] \subseteq low[x] /\ x \notin low[y]
    <3>1. low[x] # low[y] /\ IsFiniteSet(low[x]) /\ low[y] \in SUBSET low[x]
      BY <1>0, <1>2, <2>2
    <3>. QED
      BY <3>1, FS_Subset
  <2>. QED
    BY <1>0, <2>1, <2>2
<1>4. Rank \in [S -> All] /\ Rank \in [S -> 1..Cardinality(S)]
  BY <1>2
<1>5. Cardinality(All) = Cardinality(S)
  <2>1. Rank \in Bijection(S, All)
    <3>1. \A r \in All : \E x \in S : Rank[x] = r
      OBVIOUS
    <3>2. \A x, y \in S : Rank[x] = Rank[y] => x = y
      BY <1>3
    <3>. HIDE DEF Rank, All
    <3>. QED
      BY <1>4, <3>1, <3>2 DEF Bijection, Injection, Surjection, IsInjective
  <2>. QED
    BY <2>1, FS_Bijection, Zenon DEF ExistsBijection
<1>6. All = 1..Cardinality(S)
  <2>1. All \subseteq 1..Cardinality(S)
    BY <1>4
  <2>2. IsFiniteSet(1..Cardinality(S)) /\ Cardinality(1..Cardinality(S)) = Cardinality(S)
    BY <1>1, FS_Interval
  <2>. HIDE DEF All
  <2>. QED
    BY <1>1, <1>5, <2>1, <2>2, FS_Subset
<1>7. All = RanksOf(low, S)
  BY DEF RanksOf
<1>. HIDE DEF All
<1>. QED
  BY <1>1, <1>2, <1>3, <1>6, <1>7

\* The numbers of a set in their order are the numbers of the set, and as many.
LEMMA InOrderOfSet ==
    ASSUME NEW S, S \subseteq Nat, IsFiniteSet(S)
    PROVE  /\ InOrder(S) \in Seq(S)
           /\ Len(InOrder(S)) = Cardinality(S)
           /\ ToSet(InOrder(S)) = S
<1>. DEFINE low == [n \in S |-> {m \in S : m <= n}]
<1>1. low \in [S -> SUBSET S] /\ \A n \in S : n \in low[n]
  OBVIOUS
<1>2. \A x, y \in S : x = y \/ (low[x] \subseteq low[y] /\ y \notin low[x]) \/ (low[y] \subseteq low[x] /\ x \notin low[y])
  <2>1. ASSUME NEW x \in S, NEW y \in S, x < y PROVE low[x] \subseteq low[y] /\ y \notin low[x]
    <3>1. \A m \in S : m <= x => m <= y
      <4>1. \A m \in S : m \in Nat
        OBVIOUS
      <4>. QED
        BY <2>1, <4>1
    <3>2. ~(y <= x)
      BY <2>1
    <3>. QED
      BY <3>1, <3>2
  <2>2. \A x, y \in S : x = y \/ x < y \/ y < x
    OBVIOUS
  <2>. HIDE DEF low
  <2>. QED
    BY <2>1, <2>2
<1>3. \A n \in S : low[n] = {m \in S : m <= n}
  OBVIOUS
<1>. HIDE DEF low
<1>4. /\ Cardinality(S) \in Nat
      /\ \A x \in S : Cardinality(low[x]) \in 1..Cardinality(S)
      /\ \A x, y \in S : Cardinality(low[x]) = Cardinality(low[y]) => x = y
      /\ \A k \in 1..Cardinality(S) : \E x \in S : Cardinality(low[x]) = k
  <2>1. Orders(low, S)
    BY <1>1, <1>2 DEF Orders
  <2>2. /\ Cardinality(S) \in Nat
        /\ \A x \in S : Cardinality(low[x]) \in 1..Cardinality(S)
        /\ \A x, y \in S : Cardinality(low[x]) = Cardinality(low[y]) => x = y
        /\ RanksOf(low, S) = 1..Cardinality(S)
    BY <2>1, Ranks
  <2>. QED
    BY <2>2 DEF RanksOf
<1>5. \A k \in 1..Cardinality(S) : InOrder(S)[k] \in S
  BY <1>3, <1>4 DEF InOrder
<1>6. InOrder(S) = [k \in 1..Cardinality(S) |-> InOrder(S)[k]] /\ DOMAIN InOrder(S) = 1..Cardinality(S)
  BY DEF InOrder
<1>7. ASSUME NEW n \in S PROVE \E k \in 1..Cardinality(S) : InOrder(S)[k] = n
  <2>. DEFINE k == Cardinality(low[n])
  <2>1. k \in 1..Cardinality(S) /\ k = Cardinality({i \in S : i <= n})
    BY <1>3, <1>4
  <2>2. \A m \in S : Cardinality({i \in S : i <= m}) = k => m = n
    <3>1. \A m \in S : Cardinality({i \in S : i <= m}) = Cardinality(low[m])
      BY <1>3
    <3>. QED
      BY <1>4, <3>1
  <2>3. InOrder(S)[k] = CHOOSE m \in S : Cardinality({i \in S : i <= m}) = k
    BY <2>1 DEF InOrder
  <2>. HIDE DEF k
  <2>. QED
    BY <2>1, <2>2, <2>3
<1>8. ToSet(InOrder(S)) = S
  BY <1>5, <1>6, <1>7 DEF ToSet
<1>. QED
  BY <1>4, <1>5, <1>6, <1>8

\* The numbers from 1 to n are in their order as they are.
LEMMA InOrderOfInterval ==
    ASSUME NEW n \in Nat
    PROVE  InOrder(1..n) = [k \in 1..n |-> k]
<1>1. Cardinality(1..n) = n
  BY FS_Interval
<1>2. \A x \in 1..n : Cardinality({m \in 1..n : m <= x}) = x
  <2>. SUFFICES ASSUME NEW x \in 1..n PROVE Cardinality({m \in 1..n : m <= x}) = x
    OBVIOUS
  <2>1. {m \in 1..n : m <= x} = 1..x
    OBVIOUS
  <2>2. Cardinality(1..x) = x
    BY FS_Interval
  <2>. QED
    BY <2>1, <2>2
<1>3. ASSUME NEW k \in 1..n PROVE (CHOOSE x \in 1..n : Cardinality({m \in 1..n : m <= x}) = k) = k
  BY <1>2
<1>. QED
  BY <1>1, <1>3 DEF InOrder

\* Nothing is kept of a sequence when nothing is asked of it.
LEMMA KeptOfNone ==
    ASSUME NEW s
    PROVE  Kept(s, {}) = <<>>
<1>1. {i \in 1..Len(s) : s[i] \in {}} = {}
  OBVIOUS
<1>2. InOrder({}) = <<>>
  <2>1. Cardinality({}) = 0
    BY FS_EmptySet
  <2>2. 1..0 = {}
    OBVIOUS
  <2>. QED
    BY <2>1, <2>2 DEF InOrder
<1>. QED
  BY <1>1, <1>2 DEF Kept

\* The components of a pair and of a triple.
LEMMA PairAt ==
    ASSUME NEW p, NEW a, NEW b, p = <<a, b>>
    PROVE  p[1] = a /\ p[2] = b
OBVIOUS

LEMMA TripleAt ==
    ASSUME NEW p, NEW a, NEW b, NEW c, p = <<a, b, c>>
    PROVE  p[1] = a /\ p[2] = b /\ p[3] = c
OBVIOUS

\* The elements of two sequences, one after the other.
LEMMA Joined ==
    ASSUME NEW T, NEW s \in Seq(T), NEW t \in Seq(T)
    PROVE  ToSet(s \o t) = ToSet(s) \cup ToSet(t)
<1>1. /\ DOMAIN s = 1..Len(s) /\ DOMAIN t = 1..Len(t) /\ Len(s) \in Nat /\ Len(t) \in Nat
      /\ DOMAIN (s \o t) = 1..(Len(s) + Len(t))
  OBVIOUS
<1>2. \A i \in 1..Len(s) : i \in 1..(Len(s) + Len(t)) /\ (s \o t)[i] = s[i]
  BY <1>1
<1>3. \A i \in 1..Len(t) : Len(s) + i \in 1..(Len(s) + Len(t)) /\ (s \o t)[Len(s) + i] = t[i]
  BY <1>1
<1>4. ASSUME NEW i \in 1..(Len(s) + Len(t)) PROVE (s \o t)[i] \in ToSet(s) \cup ToSet(t)
  <2>1. CASE i \in 1..Len(s)
    BY <1>1, <1>2, <2>1 DEF ToSet
  <2>2. CASE i \notin 1..Len(s)
    <3>1. i - Len(s) \in 1..Len(t) /\ Len(s) + (i - Len(s)) = i
      BY <1>1, <2>2
    <3>. QED
      BY <1>1, <1>3, <3>1 DEF ToSet
  <2>. QED
    BY <2>1, <2>2
<1>5. ASSUME NEW x \in ToSet(s) PROVE x \in ToSet(s \o t)
  <2>1. PICK i \in 1..Len(s) : x = s[i]
    BY <1>1 DEF ToSet
  <2>. QED
    BY <1>1, <1>2, <2>1 DEF ToSet
<1>6. ASSUME NEW x \in ToSet(t) PROVE x \in ToSet(s \o t)
  <2>1. PICK i \in 1..Len(t) : x = t[i]
    BY <1>1 DEF ToSet
  <2>. QED
    BY <1>1, <1>3, <2>1 DEF ToSet
<1>7. ASSUME NEW x \in ToSet(s \o t) PROVE x \in ToSet(s) \cup ToSet(t)
  <2>1. PICK i \in 1..(Len(s) + Len(t)) : x = (s \o t)[i]
    BY <1>1 DEF ToSet
  <2>. QED
    BY <1>4, <2>1
<1>. QED
  BY <1>5, <1>6, <1>7

LEMMA ElementOfOne ==
    ASSUME NEW x
    PROVE  ToSet(<<x>>) = {x}
<1>1. DOMAIN <<x>> = {1} /\ <<x>>[1] = x
  OBVIOUS
<1>. QED
  BY <1>1, Zenon DEF ToSet

LEMMA AppendedElement ==
    ASSUME NEW T, NEW s \in Seq(T), NEW x \in T
    PROVE  Append(s, x) \in Seq(T) /\ ToSet(Append(s, x)) = ToSet(s) \cup {x}
<1>1. <<x>> \in Seq(T)
  OBVIOUS
<1>2. Append(s, x) = s \o <<x>>
  BY AppendIsConcat
<1>3. Append(s, x) \in Seq(T)
  BY AppendProperties
<1>4. ToSet(s \o <<x>>) = ToSet(s) \cup ToSet(<<x>>)
  BY ZenonT(20), <1>1, Joined
<1>. QED
  BY <1>2, <1>3, <1>4, ElementOfOne, Zenon

\* The greater of two numbers.
LEMMA MaxOfTwo ==
    ASSUME NEW a \in Int, NEW b \in Int
    PROVE  Max({a, b}) = IF a < b THEN b ELSE a
<1>1. \A y \in {a, b} : (\A x \in {a, b} : y >= x) <=> y = IF a < b THEN b ELSE a
  OBVIOUS
<1>. QED
  BY <1>1 DEF Max

\* What is kept of a sequence are its elements that are in the set.
LEMMA KeptElements ==
    ASSUME NEW T, NEW s \in Seq(T), NEW S
    PROVE  /\ Kept(s, S) \in Seq(T)
           /\ ToSet(Kept(s, S)) = {x \in ToSet(s) : x \in S}
<1>. DEFINE I == {i \in 1..Len(s) : s[i] \in S}
            at == InOrder(I)
<1>1. Len(s) \in Nat /\ DOMAIN s = 1..Len(s) /\ \A i \in 1..Len(s) : s[i] \in T
  OBVIOUS
<1>2. I \subseteq Nat /\ IsFiniteSet(I)
  <2>1. IsFiniteSet(1..Len(s))
    BY <1>1, FS_Interval
  <2>2. I \subseteq 1..Len(s)
    OBVIOUS
  <2>3. IsFiniteSet(I)
    BY <2>1, <2>2, FS_Subset
  <2>. QED
    BY <1>1, <2>2, <2>3
<1>3. at \in Seq(I) /\ ToSet(at) = I
  <2>. HIDE DEF I
  <2>. QED
    BY <1>2, InOrderOfSet
<1>4. Kept(s, S) = [k \in DOMAIN at |-> s[at[k]]]
  BY DEF Kept
<1>. HIDE DEF at
<1>5. DOMAIN at = 1..Len(at) /\ Len(at) \in Nat /\ \A k \in 1..Len(at) : at[k] \in I
  BY <1>3
<1>6. Kept(s, S) \in Seq(T)
  BY <1>1, <1>4, <1>5
<1>7. DOMAIN Kept(s, S) = DOMAIN at
  BY <1>4
<1>8. ASSUME NEW i \in I PROVE s[i] \in ToSet(Kept(s, S))
  <2>1. PICK k \in DOMAIN at : at[k] = i
    BY <1>3, <1>8 DEF ToSet
  <2>. QED
    BY <1>4, <1>7, <2>1 DEF ToSet
<1>9. ASSUME NEW x \in ToSet(Kept(s, S)) PROVE \E i \in I : x = s[i]
  BY <1>4, <1>5, <1>7 DEF ToSet
<1>10. \A x : x \in ToSet(s) <=> \E i \in 1..Len(s) : x = s[i]
  BY <1>1 DEF ToSet
<1>. QED
  BY <1>6, <1>8, <1>9, <1>10

\* A recursion over the subsets of 1..n goes through the states 0 to n, from the base by one
\* step after the other, if all that they are made of is in T.
Runs(states, n, base, step, end) ==
    /\ states[0] = base /\ states[n] = end
    /\ \A k \in 1..n : states[k] = step[<<states[k - 1], k>>]

LEMMA FoldRuns ==
    ASSUME NEW n \in Nat, NEW T, NEW base \in T, NEW step \in [T \X (1..n) -> T], NEW f,
           f[{}] = base,
           \A t \in SUBSET (1..n) : t # {} /\ f[t \ {Max(t)}] \in T => f[t] = step[<<f[t \ {Max(t)}], Max(t)>>]
    PROVE  \E states \in [0..n -> T] : Runs(states, n, base, step, f[1..n])
<1>. DEFINE S == {k \in 0..n : f[1..k] \in T}
            states == [k \in 0..n |-> f[1..k]]
<1>1. 1..0 = {} /\ 0 \in 0..n /\ n \in 0..n
  OBVIOUS
<1>2. 0 \in S
  BY <1>1
<1>3. ASSUME NEW k \in 0..(n - 1), f[1..k] \in T PROVE f[1..(k + 1)] = step[<<f[1..k], k + 1>>] /\ f[1..(k + 1)] \in T
  <2>1. k \in Nat /\ k + 1 \in 1..n /\ 1..(k + 1) # {}
    <3>1. k \in Nat /\ k + 1 \in 1..n /\ 1 \in 1..(k + 1)
      OBVIOUS
    <3>. QED
      BY <3>1
  <2>2. 1..(k + 1) \in SUBSET (1..n)
    BY <2>1
  <2>3. Max(1..(k + 1)) = k + 1
    <3>1. \A y \in 1..(k + 1) : (\A x \in 1..(k + 1) : y >= x) <=> y = k + 1
      BY <2>1
    <3>. QED
      BY <2>1, <3>1 DEF Max
  <2>4. (1..(k + 1)) \ {k + 1} = 1..k
    BY <2>1
  <2>5. f[1..(k + 1)] = step[<<f[1..k], k + 1>>]
    BY <1>3, <2>1, <2>2, <2>3, <2>4
  <2>. QED
    BY <1>3, <2>1, <2>5
<1>4. ASSUME NEW k \in 0..(n - 1), k \in S PROVE k + 1 \in S
  <2>1. k + 1 \in 0..n
    OBVIOUS
  <2>. QED
    BY <1>3, <1>4, <2>1
<1>5. \A k \in 0..n : k \in S
  <2>. HIDE DEF S
  <2>. QED
    BY <1>2, <1>4, Induction
<1>6. states \in [0..n -> T]
  BY <1>5
<1>7. states[0] = base /\ states[n] = f[1..n]
  BY <1>1
<1>8. ASSUME NEW k \in 1..n PROVE states[k] = step[<<states[k - 1], k>>]
  <2>1. k - 1 \in 0..(n - 1) /\ k - 1 \in 0..n /\ (k - 1) + 1 = k /\ k \in 0..n
    OBVIOUS
  <2>2. f[1..(k - 1)] \in T
    BY <1>5, <2>1
  <2>3. f[1..((k - 1) + 1)] = step[<<f[1..(k - 1)], (k - 1) + 1>>]
    BY <1>3, <2>1, <2>2
  <2>. QED
    BY <2>1, <2>3
<1>. HIDE DEF states
<1>9. Runs(states, n, base, step, f[1..n])
  BY <1>7, <1>8 DEF Runs
<1>. QED
  BY <1>6, <1>9

\* A list of lists, one after the other: the elements of the i-th begin behind ends[i - 1].
LEMMA Flattened ==
    ASSUME NEW T, NEW q \in Seq(Seq(T))
    PROVE  \E ends \in [0..Len(q) -> Nat] :
               /\ ends[0] = 0 /\ \A i \in 1..Len(q) : ends[i] = ends[i - 1] + Len(q[i])
               /\ FlattenSeq(q) \in Seq(T) /\ Len(FlattenSeq(q)) = ends[Len(q)]
               /\ \A i \in 1..Len(q) : \A j \in 1..Len(q[i]) :
                     ends[i - 1] + j \in 1..ends[Len(q)] /\ FlattenSeq(q)[ends[i - 1] + j] = q[i][j]
<1>. DEFINE n == Len(q)
            Flat(f, k) == \A i \in 1..k : f[i] = IF i = 1 THEN q[i] ELSE f[i - 1] \o q[i]
            S == {k \in 0..n : \E f \in [1..n -> Seq(T)] : Flat(f, k)}
<1>1. n \in Nat /\ \A i \in 1..n : q[i] \in Seq(T) /\ Len(q[i]) \in Nat
  OBVIOUS
<1>2. CASE n = 0
  <2>1. FlattenSeq(q) = <<>>
    BY <1>2 DEF FlattenSeq
  <2>. DEFINE ends == [i \in 0..n |-> 0]
  <2>2. ends \in [0..n -> Nat] /\ ends[0] = 0 /\ ends[n] = 0 /\ 1..n = {}
    BY <1>2
  <2>3. FlattenSeq(q) \in Seq(T) /\ Len(FlattenSeq(q)) = 0
    BY <2>1
  <2>. HIDE DEF ends
  <2>. QED
    BY <2>2, <2>3
<1>3. CASE n # 0
  <2>1. 0 \in S
    <3>1. [i \in 1..n |-> q[i]] \in [1..n -> Seq(T)] /\ 1..0 = {} /\ 0 \in 0..n
      BY <1>1
    <3>. QED
      BY <3>1
  <2>2. ASSUME NEW k \in 0..(n - 1), k \in S PROVE k + 1 \in S
    <3>1. PICK f \in [1..n -> Seq(T)] : Flat(f, k)
      BY <2>2
    <3>2. k + 1 \in 1..n /\ k \in Nat /\ k + 1 \in 0..n /\ (k + 1) - 1 = k /\ (k + 1 # 1 => k \in 1..n)
      BY <1>1
    <3>. DEFINE new == IF k + 1 = 1 THEN q[1] ELSE f[k] \o q[k + 1]
                g == [f EXCEPT ![k + 1] = new]
    <3>3. new \in Seq(T)
      <4>1. q[k + 1] \in Seq(T) /\ (k + 1 # 1 => f[k] \in Seq(T))
        <5>. HIDE DEF n, Flat, S
        <5>. QED
          BY <1>1, <3>2
      <4>2. \A s, t \in Seq(T) : s \o t \in Seq(T)
        OBVIOUS
      <4>3. CASE k + 1 = 1
        BY <4>1, <4>3
      <4>4. CASE k + 1 # 1
        BY <4>1, <4>2, <4>4
      <4>. QED
        BY <4>3, <4>4
    <3>. HIDE DEF new
    <3>4. g \in [1..n -> Seq(T)] /\ g[k + 1] = new /\ \A i \in 1..n : i # k + 1 => g[i] = f[i]
      BY <3>2, <3>3
    <3>. HIDE DEF g
    <3>5. ASSUME NEW i \in 1..(k + 1) PROVE g[i] = IF i = 1 THEN q[i] ELSE g[i - 1] \o q[i]
      <4>1. CASE i = k + 1
        <5>1. k + 1 # 1 => g[k] = f[k]
          BY <3>2, <3>4
        <5>. QED
          BY <3>2, <3>4, <4>1, <5>1 DEF new
      <4>2. CASE i # k + 1
        <5>1. i \in 1..k /\ i \in 1..n /\ (i # 1 => i - 1 \in 1..n /\ i - 1 # k + 1)
          BY <1>1, <3>2, <4>2
        <5>2. g[i] = f[i] /\ (i # 1 => g[i - 1] = f[i - 1])
          BY <3>4, <4>2, <5>1
        <5>3. f[i] = IF i = 1 THEN q[i] ELSE f[i - 1] \o q[i]
          BY <3>1, <5>1
        <5>. HIDE DEF Flat, n
        <5>. QED
          BY <5>2, <5>3, Zenon
      <4>. QED
        BY <4>1, <4>2
    <3>. QED
      BY <3>2, <3>4, <3>5
  <2>3. n \in S
    <3>1. \A k \in 0..n : k \in S
      <4>. HIDE DEF S, n
      <4>. QED
        BY <1>1, <2>1, <2>2, Induction
    <3>2. n \in 0..n
      BY <1>1
    <3>. QED
      BY <3>1, <3>2
  <2>. DEFINE Recursion(f) == f = [i \in 1..n |-> IF i = 1 THEN q[i] ELSE f[i - 1] \o q[i]]
              f == CHOOSE g : Recursion(g)
  <2>4. \E g : Recursion(g)
    <3>1. PICK g \in [1..n -> Seq(T)] : Flat(g, n)
      BY <2>3
    <3>2. g = [i \in 1..n |-> g[i]]
      OBVIOUS
    <3>. QED
      BY ZenonT(20), <3>1, <3>2
  <2>5. Recursion(f)
    BY <2>4, Zenon
  <2>6. FlattenSeq(q) = f[n]
    BY <1>3 DEF FlattenSeq
  <2>. HIDE DEF f
  <2>7. \A i \in 1..n : f[i] = IF i = 1 THEN q[i] ELSE f[i - 1] \o q[i]
    BY <2>5
  <2>. DEFINE ends == [k \in 0..n |-> IF k = 0 THEN 0 ELSE Len(f[k])]
              flat == [k \in 0..n |-> IF k = 0 THEN <<>> ELSE f[k]]
              Placed(k) == /\ flat[k] \in Seq(T) /\ ends[k] = Len(flat[k])
                           /\ \A i \in 0..k : ends[i] \in 0..ends[k]
                           /\ \A i \in 1..k : \A j \in 1..Len(q[i]) :
                                 ends[i - 1] + j \in 1..ends[k] /\ flat[k][ends[i - 1] + j] = q[i][j]
              P == {k \in 0..n : Placed(k) /\ (k # 0 => ends[k] = ends[k - 1] + Len(q[k]))}
  <2>8. flat[0] = <<>> /\ ends[0] = 0 /\ 0 \in 0..n /\ 1..0 = {} /\ 0..0 = {0}
    BY <1>1
  <2>9. \A k \in 0..(n - 1) : flat[k + 1] = flat[k] \o q[k + 1] /\ ends[k + 1] = Len(flat[k + 1])
    <3>. SUFFICES ASSUME NEW k \in 0..(n - 1)
                  PROVE  flat[k + 1] = flat[k] \o q[k + 1] /\ ends[k + 1] = Len(flat[k + 1])
      OBVIOUS
    <3>1. k + 1 \in 1..n /\ k \in Nat /\ k + 1 \in 0..n /\ k \in 0..n /\ (k + 1) - 1 = k /\ (k # 0 => k + 1 # 1)
      BY <1>1
    <3>2. flat[k + 1] = f[k + 1] /\ ends[k + 1] = Len(f[k + 1])
      BY <3>1
    <3>3. CASE k = 0
      <4>1. <<>> \o q[1] = q[1]
        BY <1>1, <1>3
      <4>2. f[k + 1] = q[1] /\ flat[k] = <<>> /\ q[k + 1] = q[1]
        <5>1. k + 1 = 1
          BY <3>3
        <5>. HIDE DEF n, flat, ends
        <5>. QED
          BY <2>7, <2>8, <3>1, <3>3, <5>1
      <4>. HIDE DEF n, flat, ends
      <4>. QED
        BY <3>2, <4>1, <4>2
    <3>4. CASE k # 0
      <4>1. flat[k] = f[k]
        BY <3>1, <3>4
      <4>. HIDE DEF n
      <4>. QED
        BY <2>7, <3>1, <3>2, <3>4, <4>1
    <3>. QED
      BY <3>3, <3>4
  <2>10. 0 \in P
    <3>1. <<>> \in Seq(T) /\ Len(<<>>) = 0
      OBVIOUS
    <3>. HIDE DEF flat, ends, n
    <3>. QED
      BY <2>8, <3>1
  <2>11. ends[n] = Len(flat[n]) /\ flat[n] = f[n] /\ n \in 0..n
    BY <1>1, <1>3
  <2>. HIDE DEF flat, ends, n
  <2>12. ASSUME NEW k \in 0..(n - 1), k \in P PROVE k + 1 \in P
    <3>1. k + 1 \in 1..n /\ k \in Nat /\ k + 1 \in 0..n /\ k \in 0..n /\ (k + 1) - 1 = k
      BY <1>1
    <3>. DEFINE old == flat[k]
                new == q[k + 1]
    <3>2. old \in Seq(T) /\ new \in Seq(T) /\ flat[k + 1] = old \o new /\ ends[k] = Len(old)
      BY <1>1, <2>9, <2>12, <3>1
    <3>3. /\ flat[k + 1] \in Seq(T) /\ Len(flat[k + 1]) = ends[k] + Len(new) /\ ends[k] \in Nat /\ Len(new) \in Nat
          /\ \A i \in 1..ends[k] : flat[k + 1][i] = old[i]
          /\ \A i \in 1..Len(new) : flat[k + 1][ends[k] + i] = new[i]
      <4>. HIDE DEF old, new
      <4>. QED
        BY <3>2
    <3>4. ends[k + 1] = ends[k] + Len(new)
      BY <2>9, <3>1, <3>3
    <3>5. \A i \in 0..(k + 1) : ends[i] \in 0..ends[k + 1]
      <4>1. \A i \in 0..(k + 1) : i \in 0..k \/ i = k + 1
        BY <3>1
      <4>2. \A i \in 0..k : ends[i] \in 0..ends[k]
        BY <2>12
      <4>. HIDE DEF new, P
      <4>. QED
        BY SMTT(20), <3>3, <3>4, <4>1, <4>2
    <3>6. ASSUME NEW i \in 1..(k + 1), NEW j \in 1..Len(q[i])
          PROVE  ends[i - 1] + j \in 1..ends[k + 1] /\ flat[k + 1][ends[i - 1] + j] = q[i][j]
      <4>1. CASE i = k + 1
        <5>1. ends[i - 1] = ends[k] /\ q[i] = new /\ j \in 1..Len(new)
          BY <3>1, <3>6, <4>1
        <5>2. flat[k + 1][ends[k] + j] = new[j] /\ ends[k] + j \in 1..ends[k + 1]
          <6>. HIDE DEF new, P
          <6>. QED
            BY SMTT(20), <3>3, <3>4, <5>1
        <5>. HIDE DEF new, P
        <5>. QED
          BY <5>1, <5>2
      <4>2. CASE i # k + 1
        <5>1. i \in 1..k
          BY <3>1, <4>2
        <5>2. ends[i - 1] + j \in 1..ends[k] /\ old[ends[i - 1] + j] = q[i][j]
          BY <2>12, <5>1
        <5>. DEFINE at == ends[i - 1] + j
        <5>3. at \in 1..ends[k + 1] /\ flat[k + 1][at] = old[at]
          <6>. HIDE DEF new, P, old, at
          <6>1. at \in 1..ends[k]
            BY <5>2 DEF at
          <6>. QED
            BY <3>3, <3>4, <6>1
        <5>. HIDE DEF new, P, old
        <5>. QED
          BY <5>2, <5>3
      <4>. QED
        BY <4>1, <4>2
    <3>. QED
      BY <2>9, <3>1, <3>3, <3>4, <3>5, <3>6
  <2>13. \A k \in 0..n : k \in P
    <3>. HIDE DEF P
    <3>. QED
      BY <1>1, <2>10, <2>12, Induction
  <2>14. /\ FlattenSeq(q) = flat[n] /\ flat[n] \in Seq(T) /\ ends[n] = Len(flat[n])
         /\ \A i \in 1..n : \A j \in 1..Len(q[i]) : ends[i - 1] + j \in 1..ends[n] /\ flat[n][ends[i - 1] + j] = q[i][j]
    <3>1. Placed(n)
      BY <2>11, <2>13
    <3>. QED
      BY <2>6, <2>11, <3>1
  <2>15. ends \in [0..n -> Nat]
    <3>1. \A k \in 0..n : ends[k] \in 0..ends[n]
      BY <2>11, <2>13
    <3>2. ends[n] \in Nat
      BY <2>14
    <3>. QED
      BY <3>1, <3>2 DEF ends
  <2>16. \A i \in 1..n : ends[i] = ends[i - 1] + Len(q[i])
    <3>1. \A i \in 1..n : i \in 0..n /\ i # 0
      BY <1>1
    <3>. QED
      BY <2>13, <3>1
  <2>17. Len(FlattenSeq(q)) = ends[n] /\ FlattenSeq(q) \in Seq(T)
    BY <2>14
  <2>18. \A i \in 1..n : \A j \in 1..Len(q[i]) :
            ends[i - 1] + j \in 1..ends[n] /\ FlattenSeq(q)[ends[i - 1] + j] = q[i][j]
    BY <2>14
  <2>19. ends \in [0..Len(q) -> Nat]
    BY <2>15 DEF n
  <2>. USE <2>19
  <2>. WITNESS ends \in [0..Len(q) -> Nat]
  <2>. QED
    BY <2>8, <2>16, <2>17, <2>18 DEF n
<1>. QED
  BY <1>2, <1>3

\* Where lists lie that follow each other: every place is in one of them, and the ends grow.
LEMMA Places ==
    ASSUME NEW n \in Nat, NEW ends \in [0..n -> Nat], ends[0] = 0, NEW size \in [1..n -> Nat],
           \A i \in 1..n : ends[i] = ends[i - 1] + size[i]
    PROVE  /\ \A p \in 1..ends[n] : \E i \in 1..n : p - ends[i - 1] \in 1..size[i]
           /\ \A i, j \in 0..n : i <= j => ends[i] <= ends[j]
<1>. DEFINE S == {k \in 0..n : \A i \in 0..k : ends[i] <= ends[k]}
<1>1. 0 \in S
  <2>1. 0..0 = {0} /\ 0 \in 0..n
    OBVIOUS
  <2>. QED
    BY <2>1
<1>2. ASSUME NEW k \in 0..(n - 1), k \in S PROVE k + 1 \in S
  <2>1. k + 1 \in 1..n /\ k + 1 \in 0..n /\ (k + 1) - 1 = k /\ k \in 0..n
    OBVIOUS
  <2>2. ends[k] <= ends[k + 1] /\ ends[k] \in Nat /\ ends[k + 1] \in Nat
    <3>1. ends[k + 1] = ends[k] + size[k + 1] /\ size[k + 1] \in Nat
      BY <2>1
    <3>. QED
      BY <2>1, <3>1
  <2>3. ASSUME NEW i \in 0..(k + 1) PROVE ends[i] <= ends[k + 1]
    <3>1. CASE i = k + 1
      BY <2>2, <3>1
    <3>2. CASE i # k + 1
      <4>1. i \in 0..k /\ i \in 0..n
        BY <3>2
      <4>2. ends[i] <= ends[k] /\ ends[i] \in Nat
        BY <1>2, <4>1
      <4>. QED
        BY SMTT(20), <2>2, <4>2
    <3>. QED
      BY <3>1, <3>2
  <2>. QED
    BY <2>1, <2>3
<1>3. \A k \in 0..n : k \in S
  <2>. HIDE DEF S
  <2>. QED
    BY <1>1, <1>2, Induction
<1>4. ASSUME NEW p \in 1..ends[n] PROVE \E i \in 1..n : p - ends[i - 1] \in 1..size[i]
  <2>. DEFINE B == {i \in 0..n : p <= ends[i]}
  <2>1. n \in 0..n /\ n \in B /\ B \subseteq Nat
    OBVIOUS
  <2>2. PICK i \in B : \A k \in B : i <= k
    <3>. HIDE DEF B
    <3>. QED
      BY <2>1, Least
  <2>3. i \in 0..n /\ p <= ends[i] /\ i # 0
    BY <2>2
  <2>4. i \in 1..n /\ i - 1 \in 0..n /\ ~(i <= i - 1)
    BY <2>3
  <2>5. ~(p <= ends[i - 1])
    BY <2>2, <2>4
  <2>6. ends[i] = ends[i - 1] + size[i] /\ ends[i - 1] \in Nat /\ size[i] \in Nat
    BY <2>4
  <2>7. p \in Nat /\ ends[i] \in Nat
    <3>1. ends[n] \in Nat
      OBVIOUS
    <3>. QED
      BY <2>3, <3>1
  <2>8. p - ends[i - 1] \in 1..size[i]
    <3>. HIDE DEF B
    <3>. QED
      BY SMTT(20), <2>3, <2>5, <2>6, <2>7
  <2>. QED
    BY <2>4, <2>8
<1>. QED
  BY <1>3, <1>4

\* The elements of a list of lists are those of its lists.
LEMMA FlattenedElements ==
    ASSUME NEW T, NEW q \in Seq(Seq(T))
    PROVE  /\ FlattenSeq(q) \in Seq(T)
           /\ ToSet(FlattenSeq(q)) = UNION {ToSet(q[i]) : i \in 1..Len(q)}
<1>. DEFINE n == Len(q)
            size == [i \in 1..n |-> Len(q[i])]
            flat == FlattenSeq(q)
<1>1. n \in Nat /\ size \in [1..n -> Nat] /\ \A i \in 1..n : q[i] \in Seq(T) /\ DOMAIN q[i] = 1..Len(q[i])
  OBVIOUS
<1>2. PICK ends \in [0..n -> Nat] :
         /\ ends[0] = 0 /\ \A i \in 1..n : ends[i] = ends[i - 1] + Len(q[i])
         /\ flat \in Seq(T) /\ Len(flat) = ends[n]
         /\ \A i \in 1..n : \A j \in 1..Len(q[i]) : ends[i - 1] + j \in 1..ends[n] /\ flat[ends[i - 1] + j] = q[i][j]
  BY Flattened
<1>. HIDE DEF flat, n
<1>3. \A i \in 1..n : ends[i] = ends[i - 1] + size[i]
  BY <1>2
<1>4. \A p \in 1..ends[n] : \E i \in 1..n : p - ends[i - 1] \in 1..size[i]
  <2>. HIDE DEF size
  <2>. QED
    BY <1>1, <1>2, <1>3, Places
<1>5. DOMAIN flat = 1..ends[n]
  BY <1>2
<1>6. ASSUME NEW p \in 1..ends[n] PROVE \E i \in 1..n : flat[p] \in ToSet(q[i])
  <2>1. PICK i \in 1..n : p - ends[i - 1] \in 1..size[i]
    BY <1>4
  <2>2. i - 1 \in 0..n /\ ends[i - 1] \in Nat /\ p \in Int
    BY <1>1
  <2>3. p - ends[i - 1] \in 1..Len(q[i]) /\ ends[i - 1] + (p - ends[i - 1]) = p
    BY <2>1, <2>2
  <2>4. flat[p] = q[i][p - ends[i - 1]]
    BY <1>2, <2>3
  <2>. QED
    BY <1>1, <2>3, <2>4 DEF ToSet
<1>7. ASSUME NEW i \in 1..n, NEW x \in ToSet(q[i]) PROVE x \in ToSet(flat)
  <2>1. PICK j \in 1..Len(q[i]) : x = q[i][j]
    BY <1>1, <1>7 DEF ToSet
  <2>. QED
    BY <1>2, <1>5, <2>1 DEF ToSet
<1>8. \A x \in ToSet(flat) : \E p \in 1..ends[n] : x = flat[p]
  BY <1>5 DEF ToSet
<1>9. ToSet(flat) = UNION {ToSet(q[i]) : i \in 1..n}
  BY <1>6, <1>7, <1>8
<1>. QED
  BY <1>2, <1>9 DEF flat, n

\* The first one of some of the numbers from 1 to n, or 0 if there is none.
LEMMA FirstOrNone ==
    ASSUME NEW n \in Nat, NEW I \in SUBSET (1..n)
    PROVE  (I # {} => Min(I) \in I) /\ (IF I # {} THEN Min(I) ELSE 0) \in 0..n
<1>1. CASE I # {}
  <2>1. I \subseteq Nat
    OBVIOUS
  <2>2. \E x \in I : \A y \in I : x <= y
    BY <1>1, <2>1, Least
  <2>3. Min(I) \in I
    BY <2>2 DEF Min
  <2>4. Min(I) \in 1..n
    BY <2>3
  <2>5. Min(I) \in 0..n
    BY <2>4
  <2>. QED
    BY <1>1, <2>3, <2>5
<1>. QED
  BY <1>1
=============================================================================
