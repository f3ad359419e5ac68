--------------------------- MODULE NaturalLemmas ---------------------------
(***************************************************************************)
(* Least and greatest elements of sets of naturals, for the proofs about   *)
(* tables, windows and lists.  They rest on the well-foundedness of strict *)
(* inclusion among finite sets: n is least in S when 0..n is least.        *)
(***************************************************************************)
EXTENDS Integers, Sequences, FiniteSets, FiniteSetTheorems, TLAPS

\* A family of finite sets has a member that strictly includes no other.
LEMMA LeastSet ==
    ASSUME NEW T, T # {}, T \subseteq FiniteSubsetsOf(Nat)
    PROVE  \E X \in T : \A Y \in T : ~(Y \subseteq X /\ Y # X)
<1>1. PICK X \in T : \A Y \in T : ~(<<Y, X>> \in StrictSubsetOrdering(Nat))
    BY FS_StrictSubsetOrderingWellFounded, WFMin
<1>2. \A Y \in T : Y \in SUBSET Nat
    BY DEF FiniteSubsetsOf
<1> QED
    BY <1>1, <1>2 DEF StrictSubsetOrdering

\* A set of naturals that is not empty has a least element.
LEMMA LeastNatural ==
    ASSUME NEW S \in SUBSET Nat, S # {}
    PROVE  \E n \in S : \A m \in S : n <= m
<1> DEFINE T == {0..n : n \in S}
<1>1. \A n \in S : IsFiniteSet(0..n) /\ 0..n \subseteq Nat
    BY FS_Interval
<1>2. T # {} /\ T \subseteq FiniteSubsetsOf(Nat)
    BY <1>1 DEF FiniteSubsetsOf
<1>3. PICK X \in T : \A Y \in T : ~(Y \subseteq X /\ Y # X)
    <2> HIDE DEF T
    <2> QED
        BY <1>2, LeastSet
<1>4. PICK n \in S : X = 0..n
    OBVIOUS
<1>5. ASSUME NEW m \in S, m < n PROVE FALSE
    <2>1. 0..m \in T
        OBVIOUS
    <2>2. 0..m \subseteq 0..n /\ n \in 0..n /\ n \notin 0..m
        BY <1>5
    <2> QED
        BY <1>3, <1>4, <2>1, <2>2
<1> QED
    BY <1>5

\* One that has a bound has a greatest element.
LEMMA GreatestNatural ==
    ASSUME NEW b \in Nat, NEW S \in SUBSET (0..b), S # {}
    PROVE  \E n \in S : \A m \in S : m <= n
<1> DEFINE T == {n..b : n \in S}
<1>1. \A n \in S : IsFiniteSet(n..b) /\ n..b \subseteq Nat
    BY FS_Interval
<1>2. T # {} /\ T \subseteq FiniteSubsetsOf(Nat)
    BY <1>1 DEF FiniteSubsetsOf
<1>3. PICK X \in T : \A Y \in T : ~(Y \subseteq X /\ Y # X)
    <2> HIDE DEF T
    <2> QED
        BY <1>2, LeastSet
<1>4. PICK n \in S : X = n..b
    OBVIOUS
<1>5. ASSUME NEW m \in S, n < m PROVE FALSE
    <2>1. m..b \in T
        OBVIOUS
    <2>2. m..b \subseteq n..b /\ n \in n..b /\ n \notin m..b
        BY <1>5
    <2> QED
        BY <1>3, <1>4, <2>1, <2>2
<1> QED
    BY <1>5

\* A finite set of naturals has a greatest element: the one above which the
\* rest of the set is least.
LEMMA GreatestOfFinite ==
    ASSUME NEW S \in SUBSET Nat, IsFiniteSet(S), S # {}
    PROVE  \E n \in S : \A m \in S : m <= n
<1> DEFINE above(n) == {k \in S : n <= k}
           T == {above(n) : n \in S}
<1>1. \A n \in S : above(n) \in FiniteSubsetsOf(Nat)
    BY FS_Subset DEF FiniteSubsetsOf
<1>2. T # {} /\ T \subseteq FiniteSubsetsOf(Nat)
    BY <1>1
<1>3. PICK X \in T : \A Y \in T : ~(Y \subseteq X /\ Y # X)
    <2> HIDE DEF T
    <2> QED
        BY <1>2, LeastSet
<1>4. PICK n \in S : X = above(n)
    OBVIOUS
<1>5. ASSUME NEW m \in S, n < m PROVE FALSE
    <2>1. above(m) \in T
        OBVIOUS
    <2>2. n \in Nat /\ m \in Nat /\ \A k \in S : k \in Nat
        OBVIOUS
    <2>3. above(m) \subseteq above(n)
        <3>1. \A k \in S : m <= k => n <= k
            BY <1>5, <2>2
        <3> QED
            BY <3>1
    <2>4. n \in above(n) /\ n \notin above(m)
        BY <1>5, <2>2
    <2> QED
        BY <1>3, <1>4, <2>1, <2>3, <2>4
<1> QED
    BY <1>5

\* No more than n elements have less than n above them.
LEMMA FewAreNewest ==
    ASSUME NEW S \in SUBSET Nat, IsFiniteSet(S), NEW n \in Nat
    PROVE  Cardinality({k \in S : Cardinality({m \in S : m > k}) < n}) <= n
<1> DEFINE N == {k \in S : Cardinality({m \in S : m > k}) < n}
<1>1. N \subseteq S
    OBVIOUS
<1>2. IsFiniteSet(N)
    BY <1>1, FS_Subset
<1>3. CASE N = {}
    <2>1. Cardinality(N) = 0
        BY <1>3, FS_EmptySet
    <2> QED
        BY <2>1
<1>4. CASE N # {}
    <2>1. N \in SUBSET Nat
        BY <1>1
    <2>2. PICK least \in N : \A k \in N : least <= k
        <3> HIDE DEF N
        <3> QED
            BY <1>4, <2>1, LeastNatural
    <2> DEFINE newer == {k \in S : k > least}
    <2>3. Cardinality(newer) < n
        OBVIOUS
    <2>4. N \ {least} \subseteq newer
        <3>1. \A k \in N : k \in S /\ k \in Nat /\ least <= k /\ least \in Nat
            BY <2>1, <2>2
        <3> HIDE DEF N
        <3> QED
            BY <3>1
    <2>5. IsFiniteSet(newer)
        BY FS_Subset
    <2> HIDE DEF N, newer
    <2>6. Cardinality(N \ {least}) <= Cardinality(newer)
        BY <2>4, <2>5, FS_Subset
    <2>7. Cardinality(N \ {least}) = Cardinality(N) - 1
        BY <1>2, <2>2, FS_RemoveElement
    <2>8. Cardinality(N) \in Nat /\ Cardinality(newer) \in Nat
        BY <1>2, <2>5, FS_CardinalityType
    <2>9. Cardinality(N) <= n
        BY <2>3, <2>6, <2>7, <2>8
    <2> QED
        BY <2>9 DEF N
<1> QED
    BY <1>3, <1>4

\* ahead[k]: the members of S that come before k in an order of them all.
IsOrder(S, ahead) ==
    /\ \A k \in S : ahead[k] \subseteq S /\ k \notin ahead[k]
    /\ \A k, m \in S : m \in ahead[k] => ahead[m] \subseteq ahead[k]
    /\ \A k, m \in S : k = m \/ k \in ahead[m] \/ m \in ahead[k]

\* The number of members ahead numbers the members of a finite set from 0, in
\* their order.
LEMMA RanksAre ==
    ASSUME NEW S, IsFiniteSet(S), NEW ahead, IsOrder(S, ahead)
    PROVE  /\ Cardinality(S) \in Nat
           /\ \A k \in S : Cardinality(ahead[k]) \in 0..(Cardinality(S) - 1)
           /\ \A k, m \in S : m \in ahead[k] <=> Cardinality(ahead[m]) < Cardinality(ahead[k])
           /\ \A k, m \in S : Cardinality(ahead[m]) = Cardinality(ahead[k]) => k = m
           /\ \A i \in 0..(Cardinality(S) - 1) : \E k \in S : Cardinality(ahead[k]) = i
<1> DEFINE rank == [k \in S |-> Cardinality(ahead[k])]
           n == Cardinality(S)
<1>1. \A T \in SUBSET S : IsFiniteSet(T) /\ Cardinality(T) \in Nat
    BY FS_Subset, FS_CardinalityType
<1>2. n \in Nat
    BY FS_CardinalityType
<1>3. ASSUME NEW k \in S PROVE ahead[k] \in SUBSET S /\ k \notin ahead[k]
    BY DEF IsOrder
<1>4. \A k \in S : rank[k] = Cardinality(ahead[k]) /\ rank[k] \in Nat
    BY <1>1, <1>3
<1>5. ASSUME NEW k \in S, NEW m \in ahead[k] PROVE rank[m] < rank[k]
    <2>1. m \in S /\ ahead[m] \subseteq ahead[k] \ {m}
        BY <1>3 DEF IsOrder
    <2>2. IsFiniteSet(ahead[k]) /\ IsFiniteSet(ahead[k] \ {m})
        BY <1>1, <1>3
    <2>3. Cardinality(ahead[k] \ {m}) = Cardinality(ahead[k]) - 1
        BY <2>2, FS_RemoveElement
    <2>4. Cardinality(ahead[m]) <= Cardinality(ahead[k] \ {m})
        BY <2>1, <2>2, FS_Subset
    <2> QED
        BY <1>4, <2>1, <2>3, <2>4
<1>6. ASSUME NEW k \in S PROVE rank[k] \in 0..(n - 1)
    <2>1. ahead[k] \in SUBSET (S \ {k}) /\ IsFiniteSet(S \ {k})
        BY <1>1, <1>3
    <2>2. Cardinality(S \ {k}) = n - 1
        BY FS_RemoveElement
    <2>3. Cardinality(ahead[k]) <= n - 1
        BY <2>1, <2>2, FS_Subset
    <2> QED
        BY <1>2, <1>4, <2>3
<1> HIDE DEF rank
<1>7. \A k, m \in S : m \in ahead[k] \/ k \in ahead[m] \/ k = m
    BY DEF IsOrder
<1>8. \A k, m \in S : rank[m] = rank[k] => k = m
    BY <1>4, <1>5, <1>7
<1>9. \A k, m \in S : m \in ahead[k] <=> rank[m] < rank[k]
    <2> SUFFICES ASSUME NEW k \in S, NEW m \in S, rank[m] < rank[k] PROVE m \in ahead[k]
        BY <1>5
    <2>1. ~(rank[k] < rank[m]) /\ rank[k] # rank[m]
        BY <1>4
    <2> QED
        BY <1>5, <1>7, <2>1
<1>10. ASSUME NEW i \in 0..(n - 1) PROVE \E k \in S : rank[k] = i
    <2>1. rank \in [S -> 0..(n - 1)]
        BY <1>6 DEF rank
    <2>2. rank \in Injection(S, 0..(n - 1))
        BY <1>8, <2>1 DEF Injection, IsInjective
    <2>3. IsFiniteSet(0..(n - 1)) /\ Cardinality(0..(n - 1)) = n
        <3>1. n - 1 \in Int /\ (0 <= n - 1 => (n - 1) - 0 + 1 = n)
            BY <1>2
        <3>2. 0 > n - 1 => n = 0
            BY <1>2
        <3> QED
            BY <1>2, <3>1, <3>2, FS_Interval
    <2>4. rank \in Surjection(S, 0..(n - 1))
        BY <2>2, <2>3, FS_Injection
    <2> QED
        BY <2>4 DEF Surjection
<1> QED
    BY <1>2, <1>4, <1>6, <1>8, <1>9, <1>10

\* The first members by rank are as many as asked for, or all.
LEMMA FirstByRank ==
    ASSUME NEW S, IsFiniteSet(S), NEW ahead, IsOrder(S, ahead), NEW n \in Nat
    PROVE  LET first == {k \in S : Cardinality(ahead[k]) < n}
           IN  /\ IsFiniteSet(first)
               /\ Cardinality(first) = IF n <= Cardinality(S) THEN n ELSE Cardinality(S)
<1> DEFINE first == {k \in S : Cardinality(ahead[k]) < n}
           l == IF n <= Cardinality(S) THEN n ELSE Cardinality(S)
           rank == [k \in first |-> Cardinality(ahead[k])]
<1>1. /\ Cardinality(S) \in Nat
      /\ \A k \in S : Cardinality(ahead[k]) \in 0..(Cardinality(S) - 1)
      /\ \A k, m \in S : Cardinality(ahead[m]) = Cardinality(ahead[k]) => k = m
      /\ \A i \in 0..(Cardinality(S) - 1) : \E k \in S : Cardinality(ahead[k]) = i
    BY RanksAre
<1>2. l \in Nat /\ l <= n /\ l <= Cardinality(S)
    BY <1>1
<1>3. IsFiniteSet(first)
    BY FS_Subset
<1>4. \A k \in first : rank[k] = Cardinality(ahead[k]) /\ rank[k] \in 0..(l - 1)
    BY <1>1, <1>2
<1>5. \A i \in 0..(l - 1) : \E k \in first : rank[k] = i
    <2> SUFFICES ASSUME NEW i \in 0..(l - 1) PROVE \E k \in first : rank[k] = i
        OBVIOUS
    <2>1. i \in 0..(Cardinality(S) - 1) /\ i < n
        BY <1>1, <1>2
    <2>2. PICK k \in S : Cardinality(ahead[k]) = i
        BY <1>1, <2>1
    <2>3. k \in first
        BY <2>1, <2>2
    <2> QED
        BY <1>4, <2>2, <2>3
<1>6. \A k, m \in first : rank[k] = rank[m] => k = m
    BY <1>1, <1>4
<1>7. rank \in [first -> 0..(l - 1)]
    BY <1>4
<1> HIDE DEF first, l, rank
<1>8. rank \in Injection(first, 0..(l - 1)) /\ rank \in Surjection(first, 0..(l - 1))
    BY <1>5, <1>6, <1>7 DEF Injection, IsInjective, Surjection
<1>9. IsFiniteSet(0..(l - 1)) /\ Cardinality(0..(l - 1)) = l
    <2>1. l - 1 \in Int /\ (0 <= l - 1 => (l - 1) - 0 + 1 = l) /\ (0 > l - 1 => l = 0)
        BY <1>2
    <2> QED
        BY <1>2, <2>1, FS_Interval
<1>10. Cardinality(first) = l
    BY <1>3, <1>8, <1>9, FS_Injection
<1> QED
    BY <1>3, <1>10 DEF first, l

\* The members of S as a list, in that order.
ByRank(S, ahead) ==
    [i \in 1..Cardinality(S) |-> CHOOSE k \in S : Cardinality(ahead[k]) = i - 1]

\* The list of the members by rank holds each at its rank.
LEMMA ListedByRank ==
    ASSUME NEW S, IsFiniteSet(S), NEW ahead, IsOrder(S, ahead),
           NEW list, list = ByRank(S, ahead)
    PROVE  /\ list \in Seq(S) /\ Len(list) = Cardinality(S)
           /\ \A i \in 1..Cardinality(S) :
                 list[i] \in S /\ Cardinality(ahead[list[i]]) = i - 1
           /\ \A k \in S : /\ Cardinality(ahead[k]) + 1 \in 1..Cardinality(S)
                            /\ list[Cardinality(ahead[k]) + 1] = k
<1>1. /\ Cardinality(S) \in Nat
      /\ \A k \in S : Cardinality(ahead[k]) \in 0..(Cardinality(S) - 1)
      /\ \A k, m \in S : Cardinality(ahead[m]) = Cardinality(ahead[k]) => k = m
      /\ \A i \in 0..(Cardinality(S) - 1) : \E k \in S : Cardinality(ahead[k]) = i
    BY RanksAre
<1>2. ASSUME NEW i \in 1..Cardinality(S)
      PROVE  list[i] \in S /\ Cardinality(ahead[list[i]]) = i - 1
    <2>1. i - 1 \in 0..(Cardinality(S) - 1)
        BY <1>1
    <2>2. \E k \in S : Cardinality(ahead[k]) = i - 1
        BY <1>1, <2>1
    <2>3. list[i] = CHOOSE k \in S : Cardinality(ahead[k]) = i - 1
        BY DEF ByRank
    <2> QED
        BY <2>2, <2>3
<1>3. list \in [1..Cardinality(S) -> S]
    BY <1>2 DEF ByRank
<1>4. list \in Seq(S) /\ Len(list) = Cardinality(S)
    BY <1>1, <1>3
<1>5. ASSUME NEW k \in S
      PROVE  /\ Cardinality(ahead[k]) + 1 \in 1..Cardinality(S)
             /\ list[Cardinality(ahead[k]) + 1] = k
    <2>1. /\ Cardinality(ahead[k]) + 1 \in 1..Cardinality(S)
          /\ (Cardinality(ahead[k]) + 1) - 1 = Cardinality(ahead[k])
        BY <1>1
    <2> QED
        BY <1>1, <1>2, <2>1
<1> QED
    BY <1>2, <1>4, <1>5

\* A list of all members in their order is the list by rank.
LEMMA SortedIsByRank ==
    ASSUME NEW S, NEW ahead, IsOrder(S, ahead), NEW r \in Seq(S),
           \A k \in S : \E i \in 1..Len(r) : r[i] = k,
           \A i, j \in 1..Len(r) : i < j => r[i] \in ahead[r[j]]
    PROVE  IsFiniteSet(S) /\ Cardinality(S) = Len(r) /\ r = ByRank(S, ahead)
<1> DEFINE n == Len(r)
<1>1. n \in Nat /\ r \in [1..n -> S] /\ \A i \in 1..n : r[i] \in S
    OBVIOUS
<1> HIDE DEF n
<1>2. \A i, j \in 1..n : i < j => r[i] \in ahead[r[j]]
    BY DEF n
<1>3. \A i, j \in 1..n : r[i] \in ahead[r[j]] => i < j
    <2> SUFFICES ASSUME NEW i \in 1..n, NEW j \in 1..n, r[i] \in ahead[r[j]], ~(i < j)
                 PROVE  FALSE
        OBVIOUS
    <2>1. r[i] \in S /\ r[j] \in S /\ r[i] \notin ahead[r[i]] /\ r[j] \notin ahead[r[j]]
        BY <1>1 DEF IsOrder
    <2>2. j < i
        BY <1>1, <2>1
    <2>3. r[j] \in ahead[r[i]]
        BY <1>2, <2>2
    <2>4. ahead[r[i]] \subseteq ahead[r[j]]
        BY <2>1 DEF IsOrder
    <2> QED
        BY <2>1, <2>3, <2>4
<1>4. \A i, j \in 1..n : r[i] = r[j] => i = j
    <2> SUFFICES ASSUME NEW i \in 1..n, NEW j \in 1..n, r[i] = r[j] PROVE i = j
        OBVIOUS
    <2>1. r[i] \in S /\ r[i] \notin ahead[r[i]]
        BY <1>1 DEF IsOrder
    <2>2. ~(i < j) /\ ~(j < i)
        BY <1>2, <2>1
    <2> QED
        BY <1>1, <2>2
<1>5. r \in Bijection(1..n, S)
    <2>1. \A k \in S : \E i \in 1..n : r[i] = k
        BY DEF n
    <2> QED
        BY <1>1, <1>4, <2>1 DEF Bijection, Injection, IsInjective, Surjection
<1>6. IsFiniteSet(1..n) /\ Cardinality(1..n) = n
    BY <1>1, FS_Interval
<1>7. IsFiniteSet(S) /\ Cardinality(S) = n
    <2>1. r \in Surjection(1..n, S) /\ r \in Injection(1..n, S)
        BY <1>5 DEF Bijection
    <2>2. IsFiniteSet(S)
        BY <1>6, <2>1, FS_Surjection
    <2> QED
        BY <1>6, <2>1, <2>2, FS_Surjection
<1>8. ASSUME NEW i \in 1..n PROVE Cardinality(ahead[r[i]]) = i - 1
    <2> DEFINE f == [j \in 1..(i - 1) |-> r[j]]
    <2>1. i - 1 \in Nat /\ \A j \in 1..(i - 1) : j \in 1..n /\ j < i
        BY <1>1
    <2>2. \A j \in 1..(i - 1) : r[j] \in ahead[r[i]]
        BY <1>2, <2>1
    <2>3. \A k \in ahead[r[i]] : \E j \in 1..(i - 1) : r[j] = k
        <3> SUFFICES ASSUME NEW k \in ahead[r[i]] PROVE \E j \in 1..(i - 1) : r[j] = k
            OBVIOUS
        <3>1. k \in S
            BY <1>1 DEF IsOrder
        <3>2. PICK j \in 1..n : r[j] = k
            BY <1>5, <3>1 DEF Bijection, Surjection
        <3>3. j < i
            BY <1>3, <3>2
        <3>4. j \in 1..(i - 1)
            BY <1>1, <3>3
        <3> QED
            BY <3>2, <3>4
    <2>4. f \in [1..(i - 1) -> ahead[r[i]]] /\ \A j \in 1..(i - 1) : f[j] = r[j]
        BY <2>2
    <2> HIDE DEF f
    <2>5. f \in Surjection(1..(i - 1), ahead[r[i]]) /\ f \in Injection(1..(i - 1), ahead[r[i]])
        BY <1>4, <2>1, <2>3, <2>4 DEF Injection, IsInjective, Surjection
    <2>6. IsFiniteSet(1..(i - 1)) /\ Cardinality(1..(i - 1)) = i - 1
        BY <2>1, FS_Interval
    <2> QED
        BY <2>5, <2>6, FS_Surjection
<1> DEFINE list == ByRank(S, ahead)
<1>9. /\ list \in Seq(S) /\ Len(list) = n
      /\ \A i \in 1..n : list[i] \in S /\ Cardinality(ahead[list[i]]) = i - 1
    BY <1>7, ListedByRank
<1>10. \A k, m \in S : Cardinality(ahead[m]) = Cardinality(ahead[k]) => k = m
    BY <1>7, RanksAre
<1> HIDE DEF list
<1>11. \A i \in 1..n : list[i] = r[i]
    BY <1>1, <1>8, <1>9, <1>10
<1>12. list = r
    BY <1>1, <1>9, <1>11
<1> QED
    BY <1>7, <1>12 DEF list, n

\* What holds of 0 and of every successor holds up to n.
LEMMA UpTo ==
    ASSUME NEW n \in Nat, NEW S, 0 \in S, \A k \in 1..n : k - 1 \in S => k \in S
    PROVE  0..n \subseteq S
<1> SUFFICES ASSUME (0..n) \ S # {} PROVE FALSE
    OBVIOUS
<1>1. PICK k \in (0..n) \ S : \A m \in (0..n) \ S : k <= m
    <2>1. (0..n) \ S \in SUBSET Nat
        OBVIOUS
    <2> QED
        BY <2>1, LeastNatural
<1>2. k # 0 /\ k \in 0..n /\ k \notin S
    BY <1>1
<1>3. k \in 1..n /\ k - 1 \in 0..n /\ ~(k <= k - 1)
    BY <1>2
<1>4. k - 1 \in S
    BY <1>1, <1>3
<1> QED
    BY <1>2, <1>3, <1>4

\* A function may be defined by recursion on a number.
NextValues(n, D) == [1..n -> [D -> D]]
HasRecursion(n, D, zero, step) ==
    \E f \in [0..n -> D] : /\ f[0] = zero
                           /\ \A k \in 1..n : f[k] = step[k][f[k - 1]]
LEMMA RecursionExists ==
    ASSUME NEW n \in Nat, NEW D, NEW zero \in D, NEW step \in NextValues(n, D)
    PROVE  HasRecursion(n, D, zero, step)
<1> DEFINE S == {m \in 0..n : \E f \in [0..m -> D] :
                    f[0] = zero /\ \A k \in 1..m : f[k] = step[k][f[k - 1]]}
<1> USE DEF NextValues
<1>1. 0 \in S
    <2> DEFINE f == [k \in 0..0 |-> zero]
    <2>1. f \in [0..0 -> D] /\ f[0] = zero /\ \A k \in 1..0 : f[k] = step[k][f[k - 1]]
        OBVIOUS
    <2>2. 0 \in 0..n
        OBVIOUS
    <2> HIDE DEF f
    <2> QED
        BY <2>1, <2>2
<1>2. ASSUME NEW m \in 1..n, m - 1 \in S PROVE m \in S
    <2>1. PICK g \in [0..(m - 1) -> D] :
             g[0] = zero /\ \A k \in 1..(m - 1) : g[k] = step[k][g[k - 1]]
        BY <1>2
    <2> DEFINE f == [k \in 0..m |-> IF k = m THEN step[m][g[m - 1]] ELSE g[k]]
    <2>2. m - 1 \in 0..(m - 1) /\ 0 \in 0..(m - 1) /\ m \in 0..n /\ 0 # m /\ 0 \in 0..m
        OBVIOUS
    <2>3. step[m][g[m - 1]] \in D
        BY <2>2
    <2>4. \A k \in 0..m : k # m => k \in 0..(m - 1)
        OBVIOUS
    <2>5. f \in [0..m -> D]
        BY <2>3, <2>4
    <2>6. f[0] = zero
        BY <2>1, <2>2
    <2>7. \A k \in 1..m : /\ k \in 0..m /\ k - 1 \in 0..m /\ k - 1 # m
                          /\ k # m => k \in 1..(m - 1)
        OBVIOUS
    <2>8. \A k \in 1..m : f[k] = step[k][f[k - 1]]
        BY <2>1, <2>7
    <2> HIDE DEF f
    <2> QED
        BY <2>2, <2>5, <2>6, <2>8
<1> HIDE DEF S
<1>3. 0..n \subseteq S
    BY <1>1, <1>2, UpTo
<1>4. n \in 0..n
    OBVIOUS
<1> QED
    BY <1>3, <1>4 DEF S, HasRecursion
=============================================================================
