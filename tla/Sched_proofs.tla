---------------------------- MODULE Sched_proofs ----------------------------
(***************************************************************************)
(* Every operation of the scheduler keeps the ready, delay and wait lists  *)
(* in agreement, and what it does to the sets of ready, delayed and waiting*)
(* tasks.  The proofs about the blocking objects cite these lemmas.        *)
(***************************************************************************)
EXTENDS Sched, SequenceTheorems, FiniteSetTheorems, WellFoundedInduction, TLAPS

(***************************************************************************)
(* Numbers and sequences.                                                  *)
(***************************************************************************)
\* A nonempty set of natural numbers has a least element.
LEMMA LeastElement ==
    ASSUME NEW S \in SUBSET Nat, S # {}
    PROVE  \E i \in S : \A k \in S : i <= k
<1>1. IsWellFoundedOn(OpToRel(<, Nat), Nat)
    BY NatLessThanWellFounded
<1>2. PICK i \in S : \A k \in S : ~(<<k, i>> \in OpToRel(<, Nat))
    BY <1>1, WFMin, Zenon
<1>3. \A k \in S : ~(k < i)
    BY <1>2 DEF OpToRel
<1>4. QED
    BY <1>3

\* the positions of the elements of s that are in S
Kept(s, S) == {i \in DOMAIN s : s[i] \in S}

\* Filter reads s along an increasing enumeration of the positions it keeps
Enumerates(s, S) ==
    \E n \in Nat : \E g \in [1 .. n -> Kept(s, S)] :
        /\ Filter(s, S) = [k \in 1 .. n |-> s[g[k]]]
        /\ \A k, m \in 1 .. n : k < m => g[k] < g[m]
        /\ \A i \in Kept(s, S) : \E k \in 1 .. n : g[k] = i

\* The positions of a filtered sequence can be counted: Filter reads s along
\* an increasing enumeration of the positions that are kept.
LEMMA FilterEnumerates ==
    ASSUME NEW X, NEW s \in Seq(X), NEW S
    PROVE  Enumerates(s, S)
<1> DEFINE I == {i \in DOMAIN s : s[i] \in S}
           n == Cardinality(I)
           UpTo(i) == {j \in I : j <= i}
           rank == [i \in I |-> Cardinality(UpTo(i))]
           g == [k \in 1 .. n |-> CHOOSE i \in I : rank[i] = k]
<1>1. DOMAIN s = 1 .. Len(s) /\ Len(s) \in Nat
    OBVIOUS
<1>2. I \subseteq Nat /\ IsFiniteSet(I) /\ n \in Nat
    <2>1. IsFiniteSet(1 .. Len(s)) /\ I \in SUBSET (1 .. Len(s))
        BY <1>1, FS_Interval
    <2>2. QED
        BY <1>1, <2>1, FS_Subset, FS_CardinalityType
<1>3. Filter(s, S) = [k \in 1 .. n |-> s[g[k]]]
    <2>1. ASSUME NEW k \in 1 .. n
          PROVE  g[k] = CHOOSE i \in I : Cardinality({j \in I : j <= i}) = k
        OBVIOUS
    <2> DEFINE Position(k) == CHOOSE i \in I : Cardinality({j \in I : j <= i}) = k
    <2>2. Filter(s, S) = [k \in 1 .. n |-> s[Position(k)]]
        BY DEF Filter
    <2> HIDE DEF I, n, g, Position
    <2>3. \A k \in 1 .. n : g[k] = Position(k)
        BY <2>1 DEF Position
    <2>4. QED
        BY <2>2, <2>3
<1> HIDE DEF I, n
<1>4. \A i \in I : IsFiniteSet(UpTo(i)) /\ UpTo(i) \in SUBSET I
    BY <1>2, FS_Subset
<1>5. ASSUME NEW i \in I PROVE rank[i] \in 1 .. n
    <2>1. Cardinality(UpTo(i)) <= n
        BY <1>2, <1>4, FS_Subset, Zenon DEF n
    <2>2. i \in UpTo(i)
        BY <1>2
    <2> HIDE DEF UpTo
    <2>3. Cardinality(UpTo(i)) \in Nat /\ Cardinality(UpTo(i)) # 0
        BY <1>4, <2>2, FS_EmptySet, FS_CardinalityType
    <2>4. QED
        BY <1>2, <2>1, <2>3
<1>6. ASSUME NEW i \in I, NEW j \in I, i < j
      PROVE  rank[i] < rank[j]
    <2>1. UpTo(i) \in SUBSET UpTo(j) /\ j \in UpTo(j) /\ j \notin UpTo(i)
        <3>1. i \in Nat /\ j \in Nat
            BY <1>2
        <3>2. j \in UpTo(j) /\ j \notin UpTo(i)
            BY <1>6, <3>1
        <3>3. \A k \in I : k <= i => k <= j
            BY <1>2, <1>6, <3>1
        <3>4. QED
            BY <3>2, <3>3
    <2> HIDE DEF UpTo
    <2>2. /\ Cardinality(UpTo(i)) <= Cardinality(UpTo(j))
          /\ Cardinality(UpTo(i)) # Cardinality(UpTo(j))
        BY <1>4, <2>1, FS_Subset, Zenon
    <2>3. rank[i] \in Nat /\ rank[j] \in Nat /\ rank[i] <= rank[j] /\ rank[i] # rank[j]
        BY <1>5, <2>2
    <2> HIDE DEF rank
    <2>4. QED
        BY <2>3
<1>7. rank \in [I -> 1 .. n]
    <2>1. rank = [i \in I |-> rank[i]]
        BY Zenon
    <2> HIDE DEF rank
    <2>2. QED
        BY <1>5, <2>1
<1> HIDE DEF rank, UpTo
<1>8. \A i, j \in I : rank[i] = rank[j] => i = j
    <2> SUFFICES ASSUME NEW i \in I, NEW j \in I, rank[i] = rank[j], i # j PROVE FALSE
        OBVIOUS
    <2>1. i < j \/ j < i
        BY <1>2
    <2>2. QED
        BY <1>5, <1>6, <2>1
<1>9. rank \in Injection(I, 1 .. n)
    BY <1>7, <1>8 DEF Injection, IsInjective
<1>10. ASSUME NEW k \in 1 .. n PROVE g[k] \in I /\ rank[g[k]] = k
    <2>1. IsFiniteSet(1 .. n) /\ Cardinality(1 .. n) = Cardinality(I)
        BY <1>2, FS_Interval DEF n
    <2>2. rank \in Surjection(I, 1 .. n)
        BY <1>9, <2>1, FS_Injection
    <2>3. \E i \in I : rank[i] = k
        BY <2>2 DEF Surjection
    <2>4. QED
        BY <2>3
<1>11. g \in [1 .. n -> I]
    BY <1>10
<1> HIDE DEF g
<1>12. ASSUME NEW k \in 1 .. n, NEW m \in 1 .. n, k < m PROVE g[k] < g[m]
    <2>1. g[k] \in I /\ g[m] \in I /\ k \in Nat /\ m \in Nat
        BY <1>10
    <2>2. g[m] < g[k] => m < k
        BY <1>6, <1>10
    <2>3. g[m] = g[k] => m = k
        BY <1>10
    <2>4. g[k] \in Nat /\ g[m] \in Nat
        BY <1>2, <2>1
    <2>5. QED
        BY <1>12, <2>1, <2>2, <2>3, <2>4
<1>13. ASSUME NEW i \in I PROVE \E k \in 1 .. n : g[k] = i
    <2>1. rank[i] \in 1 .. n
        BY <1>5
    <2>2. g[rank[i]] \in I /\ rank[g[rank[i]]] = rank[i]
        BY <1>10, <2>1
    <2>3. QED
        BY <1>8, <2>1, <2>2
<1>14. I = Kept(s, S)
    BY DEF I, Kept
<1>15. QED
    BY <1>2, <1>3, <1>11, <1>12, <1>13, <1>14 DEF Enumerates

\* Filter keeps exactly the elements of S, in their order.
LEMMA FilterFacts ==
    ASSUME NEW X, NEW s \in Seq(X), NEW S
    PROVE  /\ Filter(s, S) \in Seq(X)
           /\ Elems(Filter(s, S)) = Elems(s) \cap S
           /\ Distinct(s) => Distinct(Filter(s, S))
           /\ \A k, m \in DOMAIN Filter(s, S) : k < m =>
                 \E i, j \in DOMAIN s : i < j /\ s[i] = Filter(s, S)[k] /\ s[j] = Filter(s, S)[m]
<1> DEFINE I == Kept(s, S)
           F == Filter(s, S)
<1>1. PICK n \in Nat : \E h \in [1 .. n -> I] :
                  /\ F = [k \in 1 .. n |-> s[h[k]]]
                  /\ \A k, m \in 1 .. n : k < m => h[k] < h[m]
                  /\ \A i \in I : \E k \in 1 .. n : h[k] = i
    <2>1. Enumerates(s, S)
        BY FilterEnumerates
    <2>2. QED
        BY <2>1, Zenon DEF Enumerates
<1>2. PICK g \in [1 .. n -> I] :
                  /\ F = [k \in 1 .. n |-> s[g[k]]]
                  /\ \A k, m \in 1 .. n : k < m => g[k] < g[m]
                  /\ \A i \in I : \E k \in 1 .. n : g[k] = i
    BY <1>1
<1>3. /\ DOMAIN s = 1 .. Len(s) /\ Len(s) \in Nat
      /\ I \subseteq DOMAIN s /\ \A i \in I : s[i] \in S /\ s[i] \in X
    BY DEF Kept
<1>4. \A i \in DOMAIN s : s[i] \in S => i \in I
    BY DEF Kept
<1> HIDE DEF I, F
<1>5. DOMAIN F = 1 .. n /\ \A k \in 1 .. n : F[k] = s[g[k]] /\ g[k] \in I
    BY <1>2
<1>6. F \in Seq(X)
    <2>1. F \in [1 .. n -> X]
        BY <1>2, <1>3, <1>5
    <2>2. QED
        BY <2>1
<1>7. Elems(F) = Elems(s) \cap S
    <2>1. ASSUME NEW x \in Elems(F) PROVE x \in Elems(s) \cap S
        <3>1. PICK k \in 1 .. n : x = F[k]
            BY <1>5 DEF Elems
        <3>2. QED
            BY <1>3, <1>5, <3>1 DEF Elems
    <2>2. ASSUME NEW x \in Elems(s) \cap S PROVE x \in Elems(F)
        <3>1. PICK i \in DOMAIN s : x = s[i]
            BY DEF Elems
        <3>2. PICK k \in 1 .. n : g[k] = i
            BY <1>2, <1>4, <3>1
        <3>3. QED
            BY <1>5, <3>1, <3>2 DEF Elems
    <2>3. QED
        BY <2>1, <2>2
<1>8. ASSUME Distinct(s) PROVE Distinct(F)
    <2> SUFFICES ASSUME NEW k \in 1 .. n, NEW m \in 1 .. n, F[k] = F[m], k # m PROVE FALSE
        BY <1>5 DEF Distinct
    <2>1. g[k] = g[m]
        BY <1>3, <1>5, <1>8 DEF Distinct
    <2>2. k < m \/ m < k
        OBVIOUS
    <2>3. g[k] \in Nat
        BY <1>3, <1>5
    <2>4. QED
        BY <1>2, <2>1, <2>2, <2>3
<1>9. ASSUME NEW k \in 1 .. n, NEW m \in 1 .. n, k < m
      PROVE  \E i, j \in DOMAIN s : i < j /\ s[i] = F[k] /\ s[j] = F[m]
    BY <1>2, <1>3, <1>5, <1>9
<1>10. QED
    BY <1>5, <1>6, <1>7, <1>8, <1>9 DEF F

\* Without drops one element and nothing else.
LEMMA WithoutFacts ==
    ASSUME NEW X, NEW s \in Seq(X), NEW t
    PROVE  /\ Without(s, t) \in Seq(X)
           /\ Elems(Without(s, t)) = Elems(s) \ {t}
           /\ Distinct(s) => Distinct(Without(s, t))
           /\ \A k, m \in DOMAIN Without(s, t) : k < m =>
                 \E i, j \in DOMAIN s : i < j /\ s[i] = Without(s, t)[k] /\ s[j] = Without(s, t)[m]
<1> DEFINE S == Elems(s) \ {t}
<1>1. Elems(s) \cap S = Elems(s) \ {t}
    OBVIOUS
<1>2. Without(s, t) = Filter(s, S)
    BY DEF Without
<1> HIDE DEF S
<1>3. QED
    BY <1>1, <1>2, FilterFacts

\* r is s with t behind its first k elements, which are smaller, and in front
\* of one that is not
InsertedBehind(r, s, t, smaller, k) ==
    /\ \A i \in 1 .. k : r[i] = s[i] /\ s[i] \in smaller
    /\ r[k + 1] = t
    /\ \A i \in k + 1 .. Len(s) : r[i + 1] = s[i]
    /\ k < Len(s) => s[k + 1] \notin smaller

\* InsertSorted puts t behind a leading run of smaller elements and in front
\* of an element that is not smaller.
LEMMA InsertSortedFacts ==
    ASSUME NEW X, NEW s \in Seq(X), NEW t \in X, NEW smaller
    PROVE  /\ InsertSorted(s, t, smaller) \in Seq(X)
           /\ Len(InsertSorted(s, t, smaller)) = Len(s) + 1
           /\ \E k \in 0 .. Len(s) : InsertedBehind(InsertSorted(s, t, smaller), s, t, smaller, k)
<1> DEFINE D == {i \in DOMAIN s : \A j \in 1 .. i : s[j] \in smaller}
           n == Len(s)
           Out == {m \in 1 .. n + 1 : m \notin D}
<1>1. n \in Nat /\ DOMAIN s = 1 .. n
    OBVIOUS
<1>2. PICK m \in Out : \A i \in Out : m <= i
    <2>1. Out \in SUBSET Nat /\ n + 1 \in Out
        BY <1>1
    <2> HIDE DEF Out
    <2>2. QED
        BY <2>1, LeastElement
<1>3. D = 1 .. m - 1
    <2>1. ASSUME NEW i \in 1 .. m - 1 PROVE i \in D
        <3>1. i \in 1 .. n + 1 /\ ~ (m <= i)
            BY <1>1, <1>2
        <3>2. QED
            BY <1>2, <3>1
    <2>2. ASSUME NEW i \in D PROVE i \in 1 .. m - 1
        <3>1. i \in 1 .. n /\ \A j \in 1 .. i : s[j] \in smaller
            BY <1>1
        <3>2. ASSUME m <= i PROVE m \in D
            <4>1. m \in 1 .. n /\ \A j \in 1 .. m : j \in 1 .. i
                BY <1>1, <1>2, <3>1, <3>2
            <4>2. QED
                BY <1>1, <3>1, <4>1
        <3>3. QED
            BY <1>1, <1>2, <3>1, <3>2
    <2> HIDE DEF D
    <2>3. QED
        BY <2>1, <2>2
<1> DEFINE k == m - 1
<1>4. k \in 0 .. n
    BY <1>1, <1>2
<1>5. Cardinality(D) = k
    <2>1. Cardinality(1 .. k) = k
        BY <1>4, FS_Interval
    <2> HIDE DEF D, k
    <2>2. QED
        BY <1>3, <2>1 DEF k
<1>6. \A i \in 1 .. k : s[i] \in smaller
    <2>1. \A i \in 1 .. k : i \in D /\ i \in 1 .. i
        BY <1>1, <1>3, <1>4
    <2>2. QED
        BY <2>1
<1>7. k < n => s[k + 1] \notin smaller
    <2>1. SUFFICES ASSUME k < n, s[k + 1] \in smaller PROVE m \in D
        BY <1>2
    <2>2. \A j \in 1 .. m : j \in 1 .. k \/ j = k + 1
        BY <1>1, <1>2
    <2>3. QED
        BY <1>1, <1>2, <1>6, <2>1, <2>2
<1> DEFINE a == SubSeq(s, 1, k)
           b == SubSeq(s, k + 1, n)
<1>8. InsertSorted(s, t, smaller) = a \o <<t>> \o b
    BY <1>5 DEF InsertSorted
<1>n. n \in Nat /\ n = Len(s)
    OBVIOUS
<1> HIDE DEF D, Out, k, n
<1>9. /\ a \in Seq(X) /\ Len(a) = k /\ \A i \in 1 .. k : a[i] = s[i]
      /\ b \in Seq(X) /\ Len(b) = n - k /\ \A i \in 1 .. n - k : b[i] = s[k + i]
    <2>1. /\ \A i \in 1 .. k : s[i] \in X
          /\ \A i \in k + 1 .. n : s[i] \in X
        BY <1>1, <1>4
    <2>2. a \in Seq(X) /\ Len(a) = k /\ \A i \in 1 .. k : a[i] = s[i]
        BY <1>1, <1>4, <2>1, SubSeqProperties
    <2>3. b \in Seq(X) /\ Len(b) = n - k /\ \A i \in 1 .. n - k : b[i] = s[k + i]
        <3>1. PICK u \in Int : u = k + 1
            BY <1>1, <1>4
        <3>2. b = SubSeq(s, u, n) /\ \A i \in u .. n : s[i] \in X
            BY <2>1, <3>1
        <3>3. n \in Int
            BY <1>1
        <3> HIDE DEF b
        <3>4. /\ b \in Seq(X)
              /\ Len(b) = IF u <= n THEN n - u + 1 ELSE 0
              /\ \A i \in 1 .. n - u + 1 : b[i] = s[u + i - 1]
            BY <3>2, <3>3, SubSeqProperties
        <3>5. QED
            BY <1>1, <1>4, <3>1, <3>4
    <2>4. QED
        BY <2>2, <2>3
<1> DEFINE c == a \o <<t>>
<1> HIDE DEF a, b
<1>10. c \in Seq(X) /\ Len(c) = k + 1 /\ c[k + 1] = t /\ \A i \in 1 .. k : c[i] = s[i]
    BY <1>1, <1>4, <1>9
<1> HIDE DEF c
<1> DEFINE r == c \o b
<1>11. /\ r \in Seq(X) /\ Len(r) = n + 1 /\ r[k + 1] = t
       /\ \A i \in 1 .. k : r[i] = s[i]
       /\ \A i \in k + 1 .. n : r[i + 1] = s[i]
    <2>0. /\ r \in Seq(X) /\ Len(r) = Len(c) + Len(b)
          /\ \A i \in 1 .. Len(c) + Len(b) : r[i] = IF i <= Len(c) THEN c[i] ELSE b[i - Len(c)]
        <3>1. c \in Seq(X) /\ b \in Seq(X)
            BY <1>9, <1>10
        <3>2. QED
            BY <3>1, ConcatProperties
    <2> HIDE DEF r
    <2>1. r \in Seq(X) /\ Len(r) = n + 1
        BY <1>1, <1>4, <1>9, <1>10, <2>0
    <2>2. \A i \in 1 .. k + 1 : r[i] = c[i]
        BY <1>1, <1>4, <1>9, <1>10, <2>0
    <2>3. ASSUME NEW i \in k + 1 .. n PROVE r[i + 1] = s[i]
        <3>1. i + 1 - (k + 1) \in 1 .. n - k
            BY <1>1, <1>4
        <3>2. r[i + 1] = b[i + 1 - (k + 1)]
            BY <1>1, <1>4, <1>9, <1>10, <2>0
        <3>3. k + (i + 1 - (k + 1)) = i
            BY <1>1, <1>4
        <3>4. QED
            BY <1>1, <1>4, <1>9, <3>1, <3>2, <3>3
    <2>4. QED
        BY <1>1, <1>4, <1>10, <2>1, <2>2, <2>3
<1>12. InsertSorted(s, t, smaller) = r
    BY <1>8 DEF c
<1> HIDE DEF r
<1>13. QED
    BY <1>n, <1>4, <1>6, <1>7, <1>11, <1>12 DEF InsertedBehind

\* InsertSorted adds one element.
LEMMA InsertSortedSet ==
    ASSUME NEW X, NEW s \in Seq(X), NEW t \in X, NEW smaller
    PROVE  /\ InsertSorted(s, t, smaller) \in Seq(X)
           /\ Elems(InsertSorted(s, t, smaller)) = Elems(s) \cup {t}
           /\ Distinct(s) /\ t \notin Elems(s) => Distinct(InsertSorted(s, t, smaller))
<1> DEFINE r == InsertSorted(s, t, smaller)
<1>1. r \in Seq(X) /\ Len(r) = Len(s) + 1
    BY InsertSortedFacts
<1>b. \E k \in 0 .. Len(s) : InsertedBehind(r, s, t, smaller, k)
    BY InsertSortedFacts, Zenon
<1> HIDE DEF r
<1>2. PICK k \in 0 .. Len(s) :
          /\ \A i \in 1 .. k : r[i] = s[i]
          /\ r[k + 1] = t
          /\ \A i \in k + 1 .. Len(s) : r[i + 1] = s[i]
    BY <1>b, Zenon DEF InsertedBehind
<1>3. /\ DOMAIN s = 1 .. Len(s) /\ Len(s) \in Nat
      /\ DOMAIN r = 1 .. Len(s) + 1
    BY <1>1
\* where the elements of r come from
<1>4. \A i \in 1 .. Len(s) + 1 :
          \/ i \in 1 .. k /\ r[i] = s[i]
          \/ i = k + 1 /\ r[i] = t
          \/ i \in k + 2 .. Len(s) + 1 /\ i - 1 \in k + 1 .. Len(s) /\ r[i] = s[i - 1]
    <2> SUFFICES ASSUME NEW i \in 1 .. Len(s) + 1
                 PROVE  \/ i \in 1 .. k /\ r[i] = s[i]
                        \/ i = k + 1 /\ r[i] = t
                        \/ i \in k + 2 .. Len(s) + 1 /\ i - 1 \in k + 1 .. Len(s) /\ r[i] = s[i - 1]
        OBVIOUS
    <2>1. CASE i <= k
        BY <1>2, <1>3, <2>1
    <2>2. CASE i = k + 1
        BY <1>2, <1>3, <2>2
    <2>3. CASE i > k + 1
        <3>1. i - 1 \in k + 1 .. Len(s) /\ (i - 1) + 1 = i /\ i \in k + 2 .. Len(s) + 1
            BY <1>2, <1>3, <2>3
        <3>2. QED
            BY <1>2, <3>1
    <2>4. QED
        BY <1>2, <1>3, <2>1, <2>2, <2>3
<1>5. Elems(r) = Elems(s) \cup {t}
    <2>1. ASSUME NEW x \in Elems(r) PROVE x \in Elems(s) \cup {t}
        <3>1. PICK i \in 1 .. Len(s) + 1 : x = r[i]
            BY <1>3 DEF Elems
        <3>2. CASE i \in 1 .. k /\ r[i] = s[i]
            BY <1>2, <1>3, <3>1, <3>2, SMTT(20) DEF Elems
        <3>3. CASE i = k + 1 /\ r[i] = t
            BY <3>1, <3>3
        <3>4. CASE i - 1 \in k + 1 .. Len(s) /\ r[i] = s[i - 1]
            <4>1. i - 1 \in DOMAIN s
                BY <1>2, <1>3, <3>4
            <4>2. QED
                BY <3>1, <3>4, <4>1 DEF Elems
        <3>5. QED
            BY <1>4, <3>2, <3>3, <3>4
    <2>2. ASSUME NEW i \in DOMAIN s PROVE s[i] \in Elems(r)
        <3>1. CASE i \in 1 .. k
            BY <1>2, <1>3, <3>1 DEF Elems
        <3>2. CASE i \in k + 1 .. Len(s)
            <4>1. i + 1 \in DOMAIN r
                BY <1>2, <1>3, <3>2
            <4>2. QED
                BY <1>2, <3>2, <4>1 DEF Elems
        <3>3. QED
            BY <1>2, <1>3, <3>1, <3>2
    <2>3. k + 1 \in DOMAIN r
        BY <1>2, <1>3
    <2>4. t \in Elems(r)
        BY <1>2, <2>3 DEF Elems
    <2>5. \A x \in Elems(s) : x \in Elems(r)
        BY <2>2 DEF Elems
    <2>6. QED
        BY <2>1, <2>4, <2>5
<1>6. ASSUME Distinct(s), t \notin Elems(s) PROVE Distinct(r)
    <2> SUFFICES ASSUME NEW i \in 1 .. Len(s) + 1, NEW j \in 1 .. Len(s) + 1, r[i] = r[j]
                 PROVE  i = j
        BY <1>3 DEF Distinct
    <2>1. \A m \in 1 .. Len(s) : s[m] # t
        BY <1>3, <1>6 DEF Elems
    <2>2. \A m, n \in 1 .. Len(s) : s[m] = s[n] => m = n
        BY <1>3, <1>6 DEF Distinct
    <2>3. CASE i = k + 1
        BY <1>2, <1>3, <1>4, <2>1, <2>3
    <2>4. CASE j = k + 1
        BY <1>2, <1>3, <1>4, <2>1, <2>4
    <2>5. CASE i # k + 1 /\ j # k + 1
        <3>0. ASSUME NEW q \in 1 .. Len(s) + 1, q # k + 1
              PROVE  \E m \in 1 .. Len(s) : r[q] = s[m] /\ q = IF m <= k THEN m ELSE m + 1
            <4>1. CASE q \in 1 .. k /\ r[q] = s[q]
                BY <1>2, <1>3, <4>1
            <4>2. CASE q \in k + 2 .. Len(s) + 1 /\ r[q] = s[q - 1]
                <5>1. /\ q - 1 \in 1 .. Len(s) /\ ~ (q - 1 <= k) /\ q = (q - 1) + 1
                    BY <1>2, <1>3, <4>2
                <5>2. QED
                    BY <4>2, <5>1
            <4>3. QED
                BY <1>4, <3>0, <4>1, <4>2
        <3>1. PICK m \in 1 .. Len(s) : r[i] = s[m] /\ i = IF m <= k THEN m ELSE m + 1
            BY <2>5, <3>0
        <3>2. PICK n \in 1 .. Len(s) : r[j] = s[n] /\ j = IF n <= k THEN n ELSE n + 1
            BY <2>5, <3>0
        <3>3. m = n
            BY <2>2, <3>1, <3>2
        <3>4. QED
            BY <3>1, <3>2, <3>3
    <2>6. QED
        BY <2>3, <2>4, <2>5
<1>7. QED
    BY <1>1, <1>5, <1>6 DEF r

\* Two sequences without common elements can be joined.
LEMMA ConcatSet ==
    ASSUME NEW X, NEW s \in Seq(X), NEW u \in Seq(X)
    PROVE  /\ s \o u \in Seq(X)
           /\ Elems(s \o u) = Elems(s) \cup Elems(u)
           /\ Distinct(s) /\ Distinct(u) /\ Elems(s) \cap Elems(u) = {} => Distinct(s \o u)
<1> DEFINE r == s \o u
<1>1. /\ r \in Seq(X) /\ Len(r) = Len(s) + Len(u)
      /\ \A i \in 1 .. Len(s) + Len(u) : r[i] = IF i <= Len(s) THEN s[i] ELSE u[i - Len(s)]
    BY ConcatProperties
<1> HIDE DEF r
<1>2. /\ Len(s) \in Nat /\ Len(u) \in Nat /\ DOMAIN s = 1 .. Len(s) /\ DOMAIN u = 1 .. Len(u)
      /\ DOMAIN r = 1 .. Len(s) + Len(u)
    BY <1>1
<1>3. ASSUME NEW i \in DOMAIN r
      PROVE  \/ i \in DOMAIN s /\ r[i] = s[i]
             \/ i - Len(s) \in DOMAIN u /\ r[i] = u[i - Len(s)] /\ i > Len(s)
    BY <1>1, <1>2
<1>4. Elems(r) = Elems(s) \cup Elems(u)
    <2>1. ASSUME NEW x \in Elems(r) PROVE x \in Elems(s) \cup Elems(u)
        <3>1. PICK i \in DOMAIN r : x = r[i]
            BY DEF Elems
        <3>2. QED
            BY <1>3, <3>1 DEF Elems
    <2>2. ASSUME NEW i \in DOMAIN s PROVE s[i] \in Elems(r)
        <3>1. i \in DOMAIN r /\ r[i] = s[i]
            BY <1>1, <1>2
        <3>2. QED
            BY <3>1 DEF Elems
    <2>3. ASSUME NEW i \in DOMAIN u PROVE u[i] \in Elems(r)
        <3>1. Len(s) + i \in DOMAIN r /\ ~ (Len(s) + i <= Len(s)) /\ (Len(s) + i) - Len(s) = i
            BY <1>2
        <3>2. r[Len(s) + i] = u[i]
            BY <1>1, <1>2, <3>1
        <3>3. QED
            BY <3>1, <3>2 DEF Elems
    <2>4. QED
        BY <2>1, <2>2, <2>3 DEF Elems
<1>5. ASSUME Distinct(s), Distinct(u), Elems(s) \cap Elems(u) = {} PROVE Distinct(r)
    <2> SUFFICES ASSUME NEW i \in DOMAIN r, NEW j \in DOMAIN r, r[i] = r[j] PROVE i = j
        BY DEF Distinct
    <2>1. \A m \in DOMAIN s, n \in DOMAIN u : s[m] # u[n]
        BY <1>5 DEF Elems
    <2>2. i \in Nat /\ j \in Nat
        BY <1>2
    <2>3. CASE i \in DOMAIN s /\ r[i] = s[i]
        BY <1>3, <1>5, <2>1, <2>3 DEF Distinct
    <2>4. CASE i - Len(s) \in DOMAIN u /\ r[i] = u[i - Len(s)]
        <3>1. j - Len(s) \in DOMAIN u /\ r[j] = u[j - Len(s)]
            BY <1>3, <2>1, <2>4
        <3>2. i - Len(s) = j - Len(s)
            BY <1>5, <2>4, <3>1 DEF Distinct
        <3>3. QED
            BY <1>2, <2>2, <3>2
    <2>5. QED
        BY <1>3, <2>3, <2>4
<1>6. QED
    BY <1>1, <1>4, <1>5 DEF r

\* The first element of a sequence becomes its last.
LEMMA RotateSet ==
    ASSUME NEW X, NEW s \in Seq(X), s # <<>>
    PROVE  /\ Tail(s) \o <<Head(s)>> \in Seq(X)
           /\ Elems(Tail(s) \o <<Head(s)>>) = Elems(s)
           /\ Distinct(s) => Distinct(Tail(s) \o <<Head(s)>>)
<1> DEFINE h == <<Head(s)>>
<1>1. /\ Tail(s) \in Seq(X) /\ Len(Tail(s)) = Len(s) - 1 /\ Len(s) \in Nat /\ Len(s) >= 1
      /\ \A i \in 1 .. Len(s) - 1 : Tail(s)[i] = s[i + 1]
      /\ Head(s) = s[1] /\ Head(s) \in X
      /\ DOMAIN s = 1 .. Len(s) /\ DOMAIN Tail(s) = 1 .. Len(s) - 1
    OBVIOUS
<1>2. h \in Seq(X) /\ Elems(h) = {s[1]} /\ Distinct(h)
    BY <1>1 DEF Elems, Distinct
<1>3. Elems(s) = Elems(Tail(s)) \cup {s[1]}
    <2>1. ASSUME NEW i \in DOMAIN s PROVE s[i] \in Elems(Tail(s)) \cup {s[1]}
        <3>1. CASE i # 1
            <4>1. i - 1 \in DOMAIN Tail(s) /\ Tail(s)[i - 1] = s[i]
                BY <1>1, <3>1
            <4>2. QED
                BY <4>1 DEF Elems
        <3>2. QED
            BY <3>1
    <2>2. ASSUME NEW i \in DOMAIN Tail(s) PROVE Tail(s)[i] \in Elems(s)
        <3>1. i + 1 \in DOMAIN s /\ Tail(s)[i] = s[i + 1]
            BY <1>1
        <3>2. QED
            BY <3>1 DEF Elems
    <2>3. 1 \in DOMAIN s
        BY <1>1
    <2>4. QED
        BY <2>1, <2>2, <2>3 DEF Elems
<1>4. ASSUME Distinct(s) PROVE Distinct(Tail(s)) /\ s[1] \notin Elems(Tail(s))
    <2>1. ASSUME NEW i \in DOMAIN Tail(s), NEW j \in DOMAIN Tail(s), Tail(s)[i] = Tail(s)[j]
          PROVE  i = j
        <3>1. i + 1 \in DOMAIN s /\ j + 1 \in DOMAIN s /\ s[i + 1] = s[j + 1]
            BY <1>1, <2>1
        <3>2. i + 1 = j + 1
            BY <1>4, <3>1 DEF Distinct
        <3>3. QED
            BY <1>1, <3>2
    <2>2. ASSUME NEW i \in DOMAIN Tail(s) PROVE Tail(s)[i] # s[1]
        <3>1. i + 1 \in DOMAIN s /\ 1 \in DOMAIN s /\ i + 1 # 1 /\ Tail(s)[i] = s[i + 1]
            BY <1>1
        <3>2. QED
            BY <1>4, <3>1 DEF Distinct
    <2>3. QED
        BY <2>1, <2>2 DEF Distinct, Elems
<1> DEFINE tl == Tail(s)
<1>5. tl \in Seq(X)
    BY <1>1
<1> HIDE DEF h, tl
<1>6. /\ tl \o h \in Seq(X) /\ Elems(tl \o h) = Elems(tl) \cup Elems(h)
      /\ Distinct(tl) /\ Distinct(h) /\ Elems(tl) \cap Elems(h) = {} => Distinct(tl \o h)
    BY <1>2, <1>5, ConcatSet
<1>7. QED
    BY <1>2, <1>3, <1>4, <1>6 DEF h, tl

-----------------------------------------------------------------------------
(***************************************************************************)
(* The lists.  RingOK, DelayOK and WaitOK say of any rings, delay list and *)
(* wait lists what ListsAgree says of the current ones, when asleep is the *)
(* set of delayed tasks.                                                   *)
(***************************************************************************)
RingOK(r, asleep) ==
    /\ r \in [Levels -> Seq(Task)]
    /\ \A p \in Levels : Distinct(r[p])
    /\ \A p \in Levels : Elems(r[p]) = {t \in Task : Prio[t] = p /\ t \notin asleep}

DelayOK(d, lft) ==
    /\ d \in Seq(Task) /\ Distinct(d)
    /\ lft \in [Task -> 0 .. Never]
    /\ \A i, j \in DOMAIN d : i < j => lft[d[i]] <= lft[d[j]]

WaitOK(w, asleep) ==
    /\ w \in [WaitList -> Seq(Task)]
    /\ \A l \in WaitList : Distinct(w[l]) /\ Elems(w[l]) \subseteq asleep
    /\ \A l, m \in WaitList : l # m => Elems(w[l]) \cap Elems(w[m]) = {}

\* the delayed tasks, and the tasks on a wait list
Asleep     == Elems(delay)
Waiting(l) == Elems(wait[l])

\* The lists are well typed and agree.
ListsOK == SchedTypeOK /\ ListsAgree

\* What the proofs need of the constants.
LEMMA SchedConstants ==
    /\ IsFiniteSet(Task) /\ Idle \in Task /\ Never \in Nat
    /\ \A t \in Task : Prio[t] \in Levels /\ Prio[t] \in Nat
    /\ Levels \in SUBSET Nat
<1>1. \A t \in Task : Prio[t] \in Levels /\ Prio[t] \in Nat
    BY SchedAssumption DEF SchedAssumption, Levels
<1>2. Levels \in SUBSET Nat
    BY <1>1 DEF Levels
<1>3. QED
    BY <1>1, <1>2, SchedAssumption DEF SchedAssumption

\* The elements of a sequence of tasks are tasks.
LEMMA ElemsSubset ==
    ASSUME NEW X, NEW s \in Seq(X)
    PROVE  Elems(s) \in SUBSET X /\ (Elems(s) = {} <=> s = <<>>)
<1>1. Elems(s) \in SUBSET X
    BY DEF Elems
<1>2. s = <<>> => Elems(s) = {}
    BY DEF Elems
<1>3. ASSUME s # <<>> PROVE Elems(s) # {}
    <2>1. 1 \in DOMAIN s
        BY <1>3
    <2>2. QED
        BY <2>1 DEF Elems
<1>4. QED
    BY <1>1, <1>2, <1>3

\* ListsOK is the conjunction of the three.
LEMMA ListsOKSplit ==
    ListsOK <=> /\ cur \in Task
                /\ RingOK(ring, Asleep) /\ DelayOK(delay, left) /\ WaitOK(wait, Asleep)
<1>1. ASSUME ListsOK
      PROVE  /\ cur \in Task
             /\ RingOK(ring, Asleep) /\ DelayOK(delay, left) /\ WaitOK(wait, Asleep)
    <2> USE <1>1 DEF ListsOK, SchedTypeOK, ListsAgree, Delayed, Asleep
    <2>1. cur \in Task /\ DelayOK(delay, left)
        BY DEF DelayOK
    <2>2. RingOK(ring, Asleep)
        <3>1. ASSUME NEW p \in Levels
              PROVE  Elems(ring[p]) = {t \in Task : Prio[t] = p /\ t \notin Asleep}
            <4>1. Elems(ring[p]) \in SUBSET Task
                BY ElemsSubset
            <4>2. \A t \in Task : t \in Elems(ring[p]) <=> Prio[t] = p /\ t \notin Asleep
                OBVIOUS
            <4>3. QED
                BY <4>1, <4>2
        <3>2. QED
            BY <3>1 DEF RingOK
    <2>3. WaitOK(wait, Asleep)
        <3>1. \A l \in WaitList : Elems(wait[l]) \in SUBSET Task
            BY ElemsSubset
        <3>2. QED
            BY <3>1 DEF WaitOK
    <2>4. QED
        BY <2>1, <2>2, <2>3
<1>2. ASSUME cur \in Task, RingOK(ring, Asleep), DelayOK(delay, left), WaitOK(wait, Asleep)
      PROVE  ListsOK
    <2>1. SchedTypeOK
        BY <1>2 DEF SchedTypeOK, RingOK, DelayOK, WaitOK
    <2>2. ASSUME NEW t \in Task
          PROVE  /\ Delayed(t) <=> t \notin Elems(ring[Prio[t]])
                 /\ \A p \in Levels \ {Prio[t]} : t \notin Elems(ring[p])
                 /\ \A l \in WaitList : t \in Elems(wait[l]) => Delayed(t)
                 /\ \A l, m \in WaitList : t \in Elems(wait[l]) /\ t \in Elems(wait[m]) => l = m
        BY <1>2, SchedConstants DEF RingOK, WaitOK, Delayed, Asleep
    <2>3. QED
        BY <1>2, <2>1, <2>2 DEF ListsOK, ListsAgree, RingOK, DelayOK, WaitOK
<1>3. QED
    BY <1>1, <1>2

\* remove_from_ready_list
LEMMA RingRemove ==
    ASSUME NEW asleep, RingOK(ring, asleep), NEW t \in Task
    PROVE  RingOK(RemoveFromReadyList(t), asleep \cup {t})
<1> DEFINE q == Prio[t]
           r == [ring EXCEPT ![q] = Without(ring[q], t)]
<1>1. q \in Levels
    BY SchedConstants
<1>2. ring[q] \in Seq(Task) /\ Distinct(ring[q])
    BY <1>1 DEF RingOK
<1>3. /\ Without(ring[q], t) \in Seq(Task) /\ Distinct(Without(ring[q], t))
      /\ Elems(Without(ring[q], t)) = Elems(ring[q]) \ {t}
    BY <1>2, WithoutFacts
<1>4. r \in [Levels -> Seq(Task)] /\ \A p \in Levels : Distinct(r[p])
    BY <1>1, <1>3 DEF RingOK
<1>5. ASSUME NEW p \in Levels
      PROVE  Elems(r[p]) = {x \in Task : Prio[x] = p /\ x \notin asleep \cup {t}}
    <2>1. Elems(ring[p]) = {x \in Task : Prio[x] = p /\ x \notin asleep}
        BY DEF RingOK
    <2>2. CASE p = q
        <3>1. r[p] = Without(ring[q], t)
            BY <1>1, <2>2 DEF RingOK
        <3>2. QED
            BY <1>3, <2>1, <2>2, <3>1
    <2>3. CASE p # q
        <3>1. r[p] = ring[p]
            BY <2>3 DEF RingOK
        <3>2. QED
            BY <2>1, <2>3, <3>1
    <2>4. QED
        BY <2>2, <2>3
<1>6. r = RemoveFromReadyList(t)
    BY DEF RemoveFromReadyList
<1> HIDE DEF r
<1>7. QED
    BY <1>4, <1>5, <1>6 DEF RingOK

\* add_to_ready_list, for each task of a sequence
LEMMA RingAdd ==
    ASSUME NEW asleep, RingOK(ring, asleep), NEW s \in Seq(Task), Distinct(s),
           Elems(s) \subseteq asleep
    PROVE  RingOK(AddToReadyList(s), asleep \ Elems(s))
<1> DEFINE of(p) == {t \in Task : Prio[t] = p}
           r == [p \in Levels |-> ring[p] \o Filter(s, of(p))]
<1>1. r = AddToReadyList(s)
    BY DEF AddToReadyList, InsertBeforeCursor
<1>2. ASSUME NEW p \in Levels
      PROVE  /\ r[p] \in Seq(Task) /\ Distinct(r[p])
             /\ Elems(r[p]) = {t \in Task : Prio[t] = p /\ t \notin asleep \ Elems(s)}
    <2>1. /\ Filter(s, of(p)) \in Seq(Task) /\ Distinct(Filter(s, of(p)))
          /\ Elems(Filter(s, of(p))) = Elems(s) \cap of(p)
        BY FilterFacts
    <2>2. /\ ring[p] \in Seq(Task) /\ Distinct(ring[p])
          /\ Elems(ring[p]) = {t \in Task : Prio[t] = p /\ t \notin asleep}
        BY DEF RingOK
    <2>3. Elems(ring[p]) \cap Elems(Filter(s, of(p))) = {}
        BY <2>1, <2>2
    <2>4. /\ ring[p] \o Filter(s, of(p)) \in Seq(Task)
          /\ Distinct(ring[p] \o Filter(s, of(p)))
          /\ Elems(ring[p] \o Filter(s, of(p))) = Elems(ring[p]) \cup Elems(Filter(s, of(p)))
        <3> DEFINE a == ring[p]
                   b == Filter(s, of(p))
        <3>1. a \in Seq(Task) /\ b \in Seq(Task) /\ Distinct(a) /\ Distinct(b)
              /\ Elems(a) \cap Elems(b) = {}
            BY <2>1, <2>2, <2>3
        <3> HIDE DEF a, b
        <3>2. a \o b \in Seq(Task) /\ Distinct(a \o b) /\ Elems(a \o b) = Elems(a) \cup Elems(b)
            BY <3>1, ConcatSet
        <3>3. QED
            BY <3>2 DEF a, b
    <2>5. Elems(s) \in SUBSET Task
        BY ElemsSubset
    <2>6. Elems(ring[p]) \cup Elems(Filter(s, of(p)))
             = {t \in Task : Prio[t] = p /\ t \notin asleep \ Elems(s)}
        BY <2>1, <2>2, <2>5
    <2>7. QED
        BY <2>4, <2>6
<1>3. r \in [Levels -> Seq(Task)]
    BY <1>2
<1> HIDE DEF r
<1>4. QED
    BY <1>1, <1>2, <1>3 DEF RingOK

\* task_switch finds a task that is ready, as long as the idle task is.
LEMMA RingSwitch ==
    ASSUME NEW asleep, NEW r, RingOK(r, asleep), Idle \notin asleep
    PROVE  /\ PeekNext(r) \in Task /\ PeekNext(r) \notin asleep
           /\ RingOK([r EXCEPT ![FirstLevel(r)] = Tail(@) \o <<Head(@)>>], asleep)
<1> DEFINE full == {p \in Levels : r[p] # <<>>}
           q == FirstLevel(r)
           s == r[q]
<1>1. Prio[Idle] \in full
    <2>1. Idle \in Elems(r[Prio[Idle]])
        BY SchedConstants DEF RingOK
    <2>2. QED
        BY <2>1, SchedConstants DEF Elems, RingOK
<1>2. q \in Levels /\ r[q] # <<>>
    <2>1. full \in SUBSET Nat
        BY SchedConstants
    <2>2. \E p \in full : \A x \in full : p <= x
        BY <1>1, <2>1, LeastElement
    <2>3. QED
        BY <2>2 DEF FirstLevel
<1> HIDE DEF q
<1>3. /\ s \in Seq(Task) /\ Distinct(s) /\ s # <<>>
      /\ Elems(s) = {t \in Task : Prio[t] = q /\ t \notin asleep}
    BY <1>2 DEF RingOK
<1>4. PeekNext(r) \in Elems(s)
    <2>1. PeekNext(r) = IF Len(s) = 1 THEN s[1] ELSE s[2]
        BY DEF PeekNext, q
    <2> HIDE DEF s
    <2>2. Len(s) \in Nat /\ DOMAIN s = 1 .. Len(s) /\ Len(s) # 0
        BY <1>3
    <2>3. 1 \in DOMAIN s /\ (Len(s) # 1 => 2 \in DOMAIN s)
        BY <2>2
    <2>4. QED
        BY <2>1, <2>3 DEF Elems
<1> DEFINE u == Tail(s) \o <<Head(s)>>
<1>5. u \in Seq(Task) /\ Distinct(u) /\ Elems(u) = Elems(s)
    BY <1>3, RotateSet
<1> HIDE DEF u
<1>6. RingOK([r EXCEPT ![q] = u], asleep)
    BY <1>2, <1>3, <1>5 DEF RingOK
<1>7. [r EXCEPT ![q] = u] = [r EXCEPT ![FirstLevel(r)] = Tail(@) \o <<Head(@)>>]
    BY DEF q, u
<1>8. QED
    BY <1>3, <1>4, <1>6, <1>7

\* add_to_delayed_list keeps the order in which the tasks are due.
LEMMA DelayAdd ==
    ASSUME DelayOK(delay, left), NEW t \in Task, t \notin Asleep, NEW k \in 0 .. Never,
           AddToDelayedList(t, k)
    PROVE  DelayOK(delay', left') /\ Asleep' = Asleep \cup {t}
<1> DEFINE small == {x \in Task : left[x] < k}
           n == Len(delay)
           r == delay'
           f == left'
<1>1. r = InsertSorted(delay, t, small) /\ f = [left EXCEPT ![t] = k]
    BY DEF AddToDelayedList
<1>2. /\ delay \in Seq(Task) /\ Distinct(delay) /\ t \notin Elems(delay)
      /\ left \in [Task -> 0 .. Never]
    BY DEF DelayOK, Asleep
<1>3. r \in Seq(Task) /\ Elems(r) = Elems(delay) \cup {t} /\ Distinct(r)
    BY <1>1, <1>2, InsertSortedSet
<1>4. Len(r) = n + 1
    BY <1>1, <1>2, InsertSortedFacts
<1>p. PICK m \in 0 .. n : InsertedBehind(r, delay, t, small, m)
    BY <1>1, <1>2, InsertSortedFacts
<1>5. /\ m \in 0 .. n
      /\ \A i \in 1 .. m : r[i] = delay[i] /\ delay[i] \in small
      /\ r[m + 1] = t
      /\ \A i \in m + 1 .. n : r[i + 1] = delay[i]
      /\ m < n => delay[m + 1] \notin small
    BY <1>p DEF InsertedBehind
<1>6. /\ n \in Nat /\ DOMAIN delay = 1 .. n /\ DOMAIN r = 1 .. n + 1
      /\ \A i \in 1 .. n : /\ delay[i] \in Task /\ delay[i] # t /\ f[delay[i]] = left[delay[i]]
                            /\ left[delay[i]] \in Nat
      /\ f[t] = k /\ k \in Nat
    <2>1. /\ n \in Nat /\ DOMAIN delay = 1 .. n /\ DOMAIN r = 1 .. n + 1
        BY <1>2, <1>3, <1>4
    <2>2. \A i \in 1 .. n : delay[i] \in Task /\ delay[i] # t
        BY <1>2, <2>1 DEF Elems
    <2>3. f[t] = k /\ k \in Nat
        BY <1>1, <1>2, SchedConstants
    <2>4. \A x \in Task : left[x] \in Nat /\ (x # t => f[x] = left[x])
        BY <1>1, <1>2, SchedConstants
    <2>5. QED
        BY <2>1, <2>2, <2>3, <2>4
<1>7. \A i, j \in 1 .. n : i < j => left[delay[i]] <= left[delay[j]]
    BY <1>6 DEF DelayOK
<1>8. \A i \in 1 .. m : left[delay[i]] < k
    BY <1>5
<1>9. ASSUME NEW i \in m + 1 .. n PROVE left[delay[i]] >= k
    <2>1. m + 1 \in 1 .. n /\ i \in 1 .. n /\ (i = m + 1 \/ m + 1 < i)
        BY <1>5, <1>6
    <2>2. ~ (left[delay[m + 1]] < k)
        BY <1>5, <1>6, <2>1
    <2>3. left[delay[m + 1]] <= left[delay[i]]
        BY <1>6, <1>7, <2>1
    <2>4. QED
        BY <1>6, <2>1, <2>2, <2>3
<1> HIDE DEF n, r, f, small
\* where the elements of r come from
<1>10. ASSUME NEW i \in 1 .. n + 1
       PROVE  \/ i <= m /\ r[i] = delay[i] /\ i \in 1 .. n
              \/ i = m + 1 /\ r[i] = t
              \/ i > m + 1 /\ r[i] = delay[i - 1] /\ i - 1 \in m + 1 .. n /\ i - 1 \in 1 .. n
    <2>1. CASE i <= m
        BY <1>5, <1>6, <2>1
    <2>2. CASE i = m + 1
        BY <1>5, <2>2
    <2>3. CASE i > m + 1
        <3>1. i - 1 \in m + 1 .. n /\ (i - 1) + 1 = i /\ i - 1 \in 1 .. n
            BY <1>5, <1>6, <2>3
        <3>2. r[(i - 1) + 1] = delay[i - 1]
            BY <1>5, <3>1
        <3>3. QED
            BY <2>3, <3>1, <3>2
    <2>4. QED
        BY <1>5, <1>6, <2>1, <2>2, <2>3
<1>11. ASSUME NEW i \in 1 .. n + 1, NEW j \in 1 .. n + 1, i < j
       PROVE  f[r[i]] <= f[r[j]]
    <2>1. CASE i <= m /\ r[i] = delay[i] /\ i \in 1 .. n
        <3>1. f[r[i]] = left[delay[i]] /\ left[delay[i]] < k /\ left[delay[i]] \in Nat
            BY <1>5, <1>6, <1>8, <2>1
        <3>2. CASE j <= m /\ r[j] = delay[j] /\ j \in 1 .. n
            BY <1>6, <1>7, <1>11, <2>1, <3>1, <3>2
        <3>3. CASE j = m + 1 /\ r[j] = t
            BY <1>6, <3>1, <3>3
        <3>4. CASE j > m + 1 /\ r[j] = delay[j - 1] /\ j - 1 \in m + 1 .. n /\ j - 1 \in 1 .. n
            BY <1>6, <1>9, <3>1, <3>4
        <3>5. QED
            BY <1>10, <3>2, <3>3, <3>4
    <2>2. CASE i = m + 1 /\ r[i] = t
        <3>1. j > m + 1 /\ r[j] = delay[j - 1] /\ j - 1 \in m + 1 .. n /\ j - 1 \in 1 .. n
            BY <1>5, <1>6, <1>10, <1>11, <2>2
        <3>2. QED
            BY <1>6, <1>9, <2>2, <3>1
    <2>3. CASE i > m + 1 /\ r[i] = delay[i - 1] /\ i - 1 \in 1 .. n
        <3>1. j > m + 1 /\ r[j] = delay[j - 1] /\ j - 1 \in 1 .. n /\ i - 1 < j - 1
            BY <1>5, <1>6, <1>10, <1>11, <2>3
        <3>2. QED
            BY <1>6, <1>7, <2>3, <3>1
    <2>4. QED
        BY <1>10, <2>1, <2>2, <2>3
<1>12. f \in [Task -> 0 .. Never]
    BY <1>1, <1>2
<1>13. DelayOK(r, f)
    BY <1>3, <1>6, <1>11, <1>12 DEF DelayOK
<1>14. QED
    BY <1>3, <1>13 DEF r, f, Asleep

\* remove_from_delayed_list
LEMMA DelayRemove ==
    ASSUME DelayOK(delay, left), NEW t \in Task, RemoveFromDelayedList(t)
    PROVE  DelayOK(delay', left') /\ Asleep' = Asleep \ {t}
<1> DEFINE r == delay'
           f == left'
<1>1. r = Without(delay, t) /\ f = [left EXCEPT ![t] = 0]
    BY DEF RemoveFromDelayedList
<1>2. delay \in Seq(Task) /\ Distinct(delay) /\ left \in [Task -> 0 .. Never]
    BY DEF DelayOK
<1>3. /\ r \in Seq(Task) /\ Elems(r) = Elems(delay) \ {t} /\ Distinct(r)
      /\ \A k, m \in DOMAIN r : k < m =>
             \E i, j \in DOMAIN delay : i < j /\ delay[i] = r[k] /\ delay[j] = r[m]
    <2>1. /\ Without(delay, t) \in Seq(Task) /\ Elems(Without(delay, t)) = Elems(delay) \ {t}
          /\ Distinct(Without(delay, t))
          /\ \A k, m \in DOMAIN Without(delay, t) : k < m =>
                \E i, j \in DOMAIN delay :
                    i < j /\ delay[i] = Without(delay, t)[k] /\ delay[j] = Without(delay, t)[m]
        BY <1>2, WithoutFacts
    <2>2. QED
        BY <1>1, <2>1
<1>4. f \in [Task -> 0 .. Never]
    BY <1>1, <1>2, SchedConstants
<1>5. \A k \in DOMAIN r : r[k] \in Task /\ r[k] # t
    BY <1>3, SMTT(20) DEF Elems
<1>6. \A k \in DOMAIN r : f[r[k]] = left[r[k]]
    BY <1>1, <1>2, <1>5
<1> HIDE DEF r, f
<1>7. ASSUME NEW k \in DOMAIN r, NEW m \in DOMAIN r, k < m PROVE f[r[k]] <= f[r[m]]
    <2>1. PICK i \in DOMAIN delay, j \in DOMAIN delay : i < j /\ delay[i] = r[k] /\ delay[j] = r[m]
        BY <1>3, <1>7
    <2>2. left[delay[i]] <= left[delay[j]]
        BY <2>1 DEF DelayOK
    <2>3. QED
        BY <1>6, <2>1, <2>2
<1>8. DelayOK(r, f)
    BY <1>3, <1>4, <1>7 DEF DelayOK
<1>9. QED
    BY <1>3, <1>8 DEF r, f, Asleep

\* process_tick takes the tasks that are due off the delay list.
LEMMA DelayTick ==
    ASSUME DelayOK(delay, left), TickAndSwitch
    PROVE  /\ DelayOK(delay', left')
           /\ Asleep' = {t \in Asleep : left[t] > 1}
           /\ Due \in Seq(Task) /\ Distinct(Due)
           /\ Elems(Due) = {t \in Asleep : left[t] <= 1}
<1> DEFINE r == delay'
           f == left'
           late == {t \in Task : left[t] > 1}
           now == {t \in Task : left[t] <= 1}
<1>1. /\ r = Filter(delay, late)
      /\ f = [t \in Task |-> IF left[t] \in {0, Never} THEN left[t] ELSE left[t] - 1]
    BY DEF TickAndSwitch
<1>2. delay \in Seq(Task) /\ Distinct(delay) /\ left \in [Task -> 0 .. Never]
    BY DEF DelayOK
<1>3. Asleep \in SUBSET Task
    BY <1>2, ElemsSubset DEF Asleep
<1> HIDE DEF r, f, late, now
<1>4. /\ r \in Seq(Task) /\ Elems(r) = Elems(delay) \cap late /\ Distinct(r)
      /\ \A k, m \in DOMAIN r : k < m =>
             \E i, j \in DOMAIN delay : i < j /\ delay[i] = r[k] /\ delay[j] = r[m]
    BY <1>1, <1>2, FilterFacts
<1> USE DEF r, f, late, now
<1>5. Due \in Seq(Task) /\ Elems(Due) = Elems(delay) \cap now /\ Distinct(Due)
    BY <1>2, FilterFacts DEF Due
<1>6. f \in [Task -> 0 .. Never]
    BY <1>1, <1>2, SchedConstants
<1>7. \A k \in DOMAIN r : r[k] \in Task
    BY <1>4
<1>8. \A x, y \in Task : left[x] <= left[y] => f[x] <= f[y]
    <2> SUFFICES ASSUME NEW x \in Task, NEW y \in Task, left[x] <= left[y]
                 PROVE  f[x] <= f[y]
        OBVIOUS
    <2>1. left[x] \in 0 .. Never /\ left[y] \in 0 .. Never /\ Never \in Nat
        BY <1>2, SchedConstants
    <2>2. /\ f[x] = IF left[x] \in {0, Never} THEN left[x] ELSE left[x] - 1
          /\ f[y] = IF left[y] \in {0, Never} THEN left[y] ELSE left[y] - 1
        BY <1>1
    <2> HIDE DEF f
    <2>3. QED
        BY <2>1, <2>2
<1> HIDE DEF r, f
<1>9. ASSUME NEW k \in DOMAIN r, NEW m \in DOMAIN r, k < m PROVE f[r[k]] <= f[r[m]]
    <2>1. PICK i \in DOMAIN delay, j \in DOMAIN delay : i < j /\ delay[i] = r[k] /\ delay[j] = r[m]
        BY <1>4, <1>9
    <2>2. left[delay[i]] <= left[delay[j]]
        BY <2>1 DEF DelayOK
    <2>3. QED
        BY <1>7, <1>8, <2>1, <2>2
<1>10. DelayOK(r, f)
    BY <1>4, <1>6, <1>9 DEF DelayOK
<1>11. Elems(delay) \cap late = {t \in Asleep : left[t] > 1}
    BY <1>3 DEF Asleep
<1>12. Elems(delay) \cap now = {t \in Asleep : left[t] <= 1}
    BY <1>3 DEF Asleep
<1>13. QED
    BY <1>4, <1>5, <1>10, <1>11, <1>12 DEF r, f, Asleep

\* One wait list changes, by a task that goes to sleep on it.
LEMMA WaitAdd ==
    ASSUME NEW asleep, NEW w, WaitOK(w, asleep), NEW t, t \notin asleep,
           NEW l \in WaitList, NEW s \in Seq(Task), Distinct(s), Elems(s) = Elems(w[l]) \cup {t}
    PROVE  WaitOK([w EXCEPT ![l] = s], asleep \cup {t})
<1> DEFINE v == [w EXCEPT ![l] = s]
<1>1. v \in [WaitList -> Seq(Task)] /\ v[l] = s /\ \A m \in WaitList : m # l => v[m] = w[m]
    BY DEF WaitOK
<1> HIDE DEF v
<1>2. \A m \in WaitList : Distinct(w[m]) /\ Elems(w[m]) \subseteq asleep
    BY DEF WaitOK
<1>3. \A m \in WaitList : Distinct(v[m]) /\ Elems(v[m]) \subseteq asleep \cup {t}
    BY <1>1, <1>2
<1>4. ASSUME NEW m \in WaitList, NEW n \in WaitList, m # n
      PROVE  Elems(v[m]) \cap Elems(v[n]) = {}
    <2>1. Elems(w[m]) \cap Elems(w[n]) = {}
        BY <1>4 DEF WaitOK
    <2>2. t \notin Elems(w[m]) /\ t \notin Elems(w[n])
        BY <1>2
    <2>3. QED
        BY <1>1, <1>4, <2>1, <2>2
<1>5. QED
    BY <1>1, <1>3, <1>4 DEF WaitOK, v

\* One wait list changes, by a task that is taken off it.
LEMMA WaitRemove ==
    ASSUME NEW asleep, NEW w, WaitOK(w, asleep), NEW l \in WaitList, NEW t \in Elems(w[l]),
           NEW s \in Seq(Task), Distinct(s), Elems(s) = Elems(w[l]) \ {t}
    PROVE  WaitOK([w EXCEPT ![l] = s], asleep \ {t})
<1> DEFINE v == [w EXCEPT ![l] = s]
<1>1. v \in [WaitList -> Seq(Task)] /\ v[l] = s /\ \A m \in WaitList : m # l => v[m] = w[m]
    BY DEF WaitOK
<1> HIDE DEF v
<1>2. \A m \in WaitList : Distinct(w[m]) /\ Elems(w[m]) \subseteq asleep
    BY DEF WaitOK
<1>3. \A m, n \in WaitList : m # n => Elems(w[m]) \cap Elems(w[n]) = {}
    BY DEF WaitOK
<1>4. \A m \in WaitList : Distinct(v[m]) /\ Elems(v[m]) \subseteq asleep \ {t}
    <2>1. ASSUME NEW m \in WaitList, m # l PROVE t \notin Elems(v[m])
        <3>1. Elems(w[m]) \cap Elems(w[l]) = {} /\ v[m] = w[m]
            BY <1>1, <1>3, <2>1
        <3>2. QED
            BY <3>1
    <2>2. QED
        BY <1>1, <1>2, <2>1
<1>5. \A m, n \in WaitList : m # n => Elems(v[m]) \cap Elems(v[n]) = {}
    <2>1. \A m \in WaitList : Elems(v[m]) \subseteq Elems(w[m])
        BY <1>1
    <2>2. QED
        BY <1>3, <2>1
<1>6. QED
    BY <1>1, <1>4, <1>5 DEF WaitOK, v

\* the wait lists without the tasks in D
WaitWithout(w, D) == [l \in WaitList |-> Filter(w[l], Task \ D)]

\* process_tick takes the tasks that are due off every wait list.
LEMMA WaitTick ==
    ASSUME NEW asleep, NEW w, WaitOK(w, asleep), NEW D, NEW v, v = WaitWithout(w, D)
    PROVE  WaitOK(v, asleep \ D) /\ \A l \in WaitList : Elems(v[l]) = Elems(w[l]) \ D
<1> USE DEF WaitWithout
<1>1. ASSUME NEW l \in WaitList
      PROVE  v[l] \in Seq(Task) /\ Distinct(v[l]) /\ Elems(v[l]) = Elems(w[l]) \ D
    <2> DEFINE S == Task \ D
    <2>1. w[l] \in Seq(Task) /\ Distinct(w[l]) /\ Elems(w[l]) \subseteq Task
        BY ElemsSubset DEF WaitOK
    <2> HIDE DEF S
    <2>2. /\ Filter(w[l], S) \in Seq(Task) /\ Distinct(Filter(w[l], S))
          /\ Elems(Filter(w[l], S)) = Elems(w[l]) \cap S
        BY <2>1, FilterFacts
    <2>3. Elems(w[l]) \cap S = Elems(w[l]) \ D
        BY <2>1 DEF S
    <2>4. v[l] = Filter(w[l], S)
        BY DEF S
    <2>5. QED
        BY <2>2, <2>3, <2>4
<1>2. v \in [WaitList -> Seq(Task)]
    <2>1. \A l \in WaitList : Filter(w[l], Task \ D) \in Seq(Task)
        BY <1>1
    <2>2. QED
        BY <2>1
<1>3. \A m, n \in WaitList : m # n => Elems(v[m]) \cap Elems(v[n]) = {}
    BY <1>1 DEF WaitOK
<1>4. \A l \in WaitList : Elems(v[l]) \subseteq asleep \ D
    BY <1>1 DEF WaitOK
<1>5. QED
    BY <1>1, <1>2, <1>3, <1>4 DEF WaitOK

-----------------------------------------------------------------------------
(***************************************************************************)
(* What the steps of the scheduler do, for the proofs about the objects.   *)
(***************************************************************************)

\* ListsOK in the next state, from its three parts.
LEMMA ListsOKNext ==
    ASSUME cur' \in Task, RingOK(ring', Asleep'), DelayOK(delay', left'), WaitOK(wait', Asleep')
    PROVE  ListsOK'
<1>1. (ListsOK <=> /\ cur \in Task
                   /\ RingOK(ring, Asleep) /\ DelayOK(delay, left) /\ WaitOK(wait, Asleep))'
    BY ListsOKSplit, PTL
<1>2. RingOK(ring, Asleep)' /\ DelayOK(delay, left)' /\ WaitOK(wait, Asleep)'
    BY DEF RingOK, DelayOK, WaitOK
<1>3. QED
    BY <1>1, <1>2

\* What each task sleeps on, when t goes to sleep on l.
Slept(t, l, k) ==
    /\ Asleep' = Asleep \cup {t}
    /\ \A m \in WaitList : Waiting(m)' = IF m = l THEN Waiting(m) \cup {t} ELSE Waiting(m)
    /\ left' = [left EXCEPT ![t] = k]
    /\ cur' = cur

\* The same, when t is woken from l.
Woken(t, l) ==
    /\ t \in Waiting(l)
    /\ Asleep' = Asleep \ {t}
    /\ \A m \in WaitList : Waiting(m)' = IF m = l THEN Waiting(m) \ {t} ELSE Waiting(m)
    /\ left' = [left EXCEPT ![t] = 0]
    /\ cur' = cur

\* A task that is awake goes to sleep on a wait list, sorted or not.
LEMMA BlockOnFacts ==
    ASSUME ListsOK, NEW t \in Task, ~ Delayed(t), NEW l \in WaitList, NEW k \in 0 .. Never,
           BlockOn(t, l, k) \/ BlockOnUnsorted(t, l, k)
    PROVE  ListsOK' /\ Slept(t, l, k)
<1>1. /\ cur \in Task /\ RingOK(ring, Asleep) /\ DelayOK(delay, left) /\ WaitOK(wait, Asleep)
    BY ListsOKSplit
<1>2. t \notin Asleep /\ cur' = cur /\ AddToDelayedList(t, k) /\ ring' = RemoveFromReadyList(t)
    BY DEF Asleep, Delayed, BlockOn, BlockOnUnsorted
<1>3. left' = [left EXCEPT ![t] = k]
    BY <1>2 DEF AddToDelayedList
<1>4. DelayOK(delay', left') /\ Asleep' = Asleep \cup {t}
    BY <1>1, <1>2, DelayAdd
<1>5. RingOK(ring', Asleep')
    BY <1>1, <1>2, <1>4, RingRemove
<1>6. wait[l] \in Seq(Task) /\ Distinct(wait[l]) /\ t \notin Elems(wait[l])
    BY <1>1, <1>2 DEF WaitOK
<1>7. PICK s \in Seq(Task) : /\ wait' = [wait EXCEPT ![l] = s]
                             /\ Distinct(s) /\ Elems(s) = Elems(wait[l]) \cup {t}
    <2>1. CASE BlockOn(t, l, k)
        <3> DEFINE S == LessImportant(t)
                   s == InsertSorted(wait[l], t, S)
        <3>1. wait' = [wait EXCEPT ![l] = s]
            BY <2>1 DEF BlockOn
        <3> HIDE DEF S
        <3>2. s \in Seq(Task) /\ Distinct(s) /\ Elems(s) = Elems(wait[l]) \cup {t}
            BY <1>6, InsertSortedSet
        <3>3. QED
            BY <3>1, <3>2
    <2>2. CASE BlockOnUnsorted(t, l, k)
        <3> DEFINE h == <<t>>
                   s == h \o wait[l]
        <3>1. wait' = [wait EXCEPT ![l] = s]
            BY <2>2 DEF BlockOnUnsorted
        <3>2. h \in Seq(Task) /\ Distinct(h) /\ Elems(h) = {t}
            BY DEF Distinct, Elems
        <3> HIDE DEF h
        <3>3. s \in Seq(Task) /\ Distinct(s) /\ Elems(s) = Elems(h) \cup Elems(wait[l])
            BY <1>6, <3>2, ConcatSet
        <3>4. QED
            BY <3>1, <3>2, <3>3
    <2>3. QED
        BY <2>1, <2>2
<1>8. WaitOK(wait', Asleep')
    BY <1>1, <1>2, <1>4, <1>7, WaitAdd
<1>9. \A m \in WaitList : Elems(wait'[m]) = IF m = l THEN Elems(wait[m]) \cup {t} ELSE Elems(wait[m])
    BY <1>1, <1>7 DEF WaitOK
<1>10. ListsOK'
    BY <1>1, <1>2, <1>4, <1>5, <1>8, ListsOKNext
<1>11. QED
    BY <1>2, <1>3, <1>4, <1>9, <1>10 DEF Slept, Waiting

\* A task goes to sleep for good, on no wait list.
LEMMA SleepFacts ==
    ASSUME ListsOK, NEW t \in Task, ~ Delayed(t), NEW k \in 0 .. Never,
           ring' = RemoveFromReadyList(t), AddToDelayedList(t, k), UNCHANGED <<cur, wait>>
    PROVE  ListsOK' /\ Asleep' = Asleep \cup {t} /\ left' = [left EXCEPT ![t] = k]
<1>1. /\ cur \in Task /\ RingOK(ring, Asleep) /\ DelayOK(delay, left) /\ WaitOK(wait, Asleep)
    BY ListsOKSplit
<1>2. t \notin Asleep
    BY DEF Asleep, Delayed
<1>3. DelayOK(delay', left') /\ Asleep' = Asleep \cup {t}
    BY <1>1, <1>2, DelayAdd
<1>4. RingOK(ring', Asleep')
    BY <1>1, <1>2, <1>3, RingRemove
<1>5. WaitOK(wait', Asleep')
    BY <1>1, <1>3 DEF WaitOK
<1>6. ListsOK'
    BY <1>1, <1>3, <1>4, <1>5, ListsOKNext
<1>7. QED
    BY <1>3, <1>6 DEF AddToDelayedList

\* A task that waits on l is woken.
LEMMA WakeFacts ==
    ASSUME ListsOK, NEW l \in WaitList, NEW t \in Waiting(l), Wake(t, l)
    PROVE  ListsOK' /\ Woken(t, l)
<1>1. /\ cur \in Task /\ RingOK(ring, Asleep) /\ DelayOK(delay, left) /\ WaitOK(wait, Asleep)
    BY ListsOKSplit
<1>2. /\ t \in Task /\ t \in Asleep /\ t \in Elems(wait[l])
      /\ wait[l] \in Seq(Task) /\ Distinct(wait[l])
    <2>1. t \in Elems(wait[l])
        BY DEF Waiting
    <2>2. wait[l] \in Seq(Task) /\ Distinct(wait[l]) /\ Elems(wait[l]) \subseteq Asleep
        BY <1>1 DEF WaitOK
    <2>3. Elems(wait[l]) \in SUBSET Task
        BY <2>2, ElemsSubset
    <2>4. QED
        BY <2>1, <2>2, <2>3
<1>3. /\ wait' = [wait EXCEPT ![l] = Without(wait[l], t)] /\ RemoveFromDelayedList(t)
      /\ ring' = AddToReadyList(<<t>>) /\ cur' = cur /\ left' = [left EXCEPT ![t] = 0]
    BY DEF Wake, RemoveFromDelayedList
<1>4. DelayOK(delay', left') /\ Asleep' = Asleep \ {t}
    BY <1>1, <1>2, <1>3, DelayRemove
<1>5. RingOK(ring', Asleep')
    <2> DEFINE h == <<t>>
    <2>1. h \in Seq(Task) /\ Distinct(h) /\ Elems(h) = {t}
        BY <1>2 DEF Distinct, Elems
    <2>2. ring' = AddToReadyList(h)
        BY <1>3
    <2> HIDE DEF h
    <2>3. RingOK(AddToReadyList(h), Asleep \ Elems(h))
        BY <1>1, <1>2, <2>1, RingAdd
    <2>4. QED
        BY <1>4, <2>1, <2>2, <2>3
<1>6. PICK s \in Seq(Task) : s = Without(wait[l], t) /\ Distinct(s) /\ Elems(s) = Elems(wait[l]) \ {t}
    BY <1>2, WithoutFacts
<1>7. WaitOK(wait', Asleep')
    BY <1>1, <1>2, <1>3, <1>4, <1>6, WaitRemove
<1>8. \A m \in WaitList : Elems(wait'[m]) = IF m = l THEN Elems(wait[m]) \ {t} ELSE Elems(wait[m])
    BY <1>1, <1>3, <1>6 DEF WaitOK
<1>9. ListsOK'
    BY <1>1, <1>3, <1>4, <1>5, <1>7, ListsOKNext
<1>10. QED
    BY <1>3, <1>4, <1>8, <1>9 DEF Woken, Waiting

\* wakeup_blocked_task
LEMMA WakeFirstFacts ==
    ASSUME ListsOK, NEW l \in WaitList, WakeFirst(l)
    PROVE  /\ ListsOK'
           /\ \/ Waiting(l) = {} /\ UNCHANGED schedVars
              \/ \E t \in Task : Woken(t, l)
<1>1. wait[l] \in Seq(Task)
    BY DEF ListsOK, SchedTypeOK
<1>2. CASE wait[l] = <<>>
    <2>1. UNCHANGED schedVars
        BY <1>2 DEF WakeFirst
    <2>2. Waiting(l) = {}
        BY <1>1, <1>2, ElemsSubset DEF Waiting
    <2>3. ListsOK'
        BY <2>1 DEF ListsOK, SchedTypeOK, ListsAgree, schedVars, Delayed
    <2>4. QED
        BY <2>1, <2>2, <2>3
<1>3. CASE wait[l] # <<>>
    <2>1. Wake(Head(wait[l]), l)
        BY <1>3 DEF WakeFirst
    <2>2. Head(wait[l]) \in Waiting(l) /\ Head(wait[l]) \in Task
        <3>1. 1 \in DOMAIN wait[l] /\ Head(wait[l]) = wait[l][1] /\ Head(wait[l]) \in Task
            BY <1>1, <1>3
        <3>2. QED
            BY <3>1 DEF Waiting, Elems
    <2>3. QED
        BY <2>1, <2>2, WakeFacts
<1>4. QED
    BY <1>2, <1>3

\* process_tick and task_switch: the task that runs next is awake.
LEMMA TickFacts ==
    ASSUME ListsOK, Idle \notin Asleep, TickAndSwitch
    PROVE  /\ ListsOK' /\ ~ Delayed(cur)' /\ cur' \in Task
           /\ Asleep' = {t \in Asleep : left[t] > 1}
           /\ \A l \in WaitList : Waiting(l)' = {t \in Waiting(l) : left[t] > 1}
           /\ left' = [t \in Task |-> IF left[t] \in {0, Never} THEN left[t] ELSE left[t] - 1]
<1>1. /\ cur \in Task /\ RingOK(ring, Asleep) /\ DelayOK(delay, left) /\ WaitOK(wait, Asleep)
    BY ListsOKSplit
<1>2. /\ DelayOK(delay', left')
      /\ Asleep' = {t \in Asleep : left[t] > 1}
      /\ Due \in Seq(Task) /\ Distinct(Due)
      /\ Elems(Due) = {t \in Asleep : left[t] <= 1}
    BY <1>1, DelayTick
<1>3. Asleep \in SUBSET Task /\ \A t \in Task : left[t] \in Nat
    <2>1. Asleep \in SUBSET Task
        BY <1>1, ElemsSubset DEF DelayOK, Asleep
    <2>2. QED
        BY <1>1, <2>1, SchedConstants DEF DelayOK
<1>4. Asleep \ Elems(Due) = Asleep'
    BY <1>2, <1>3
<1> DEFINE r == AddToReadyList(Due)
<1>5. RingOK(r, Asleep')
    BY <1>1, <1>2, <1>4, RingAdd
<1>6. Switch(r) /\ wait' = WaitWithout(wait, Elems(Due))
    BY DEF TickAndSwitch, WaitWithout
<1> HIDE DEF r
<1>7. Idle \notin Asleep'
    BY <1>2
<1>8. /\ PeekNext(r) \in Task /\ PeekNext(r) \notin Asleep'
      /\ RingOK([r EXCEPT ![FirstLevel(r)] = Tail(@) \o <<Head(@)>>], Asleep')
    BY <1>5, <1>7, RingSwitch
<1>9. cur' \in Task /\ cur' \notin Asleep' /\ RingOK(ring', Asleep')
    BY <1>5, <1>6, <1>8 DEF Switch
<1>10. /\ WaitOK(wait', Asleep')
       /\ \A l \in WaitList : Elems(wait'[l]) = Elems(wait[l]) \ Elems(Due)
    <2>1. PICK D : D = Elems(Due)
        OBVIOUS
    <2>2. wait' = WaitWithout(wait, D) /\ Asleep' = Asleep \ D
        BY <1>4, <1>6, <2>1
    <2>3. WaitOK(wait', Asleep \ D) /\ \A l \in WaitList : Elems(wait'[l]) = Elems(wait[l]) \ D
        BY <1>1, <2>2, WaitTick
    <2>4. QED
        BY <2>1, <2>2, <2>3
<1>11. \A l \in WaitList : Elems(wait[l]) \subseteq Asleep
    BY <1>1 DEF WaitOK
<1>12. \A l \in WaitList : Elems(wait'[l]) = {t \in Elems(wait[l]) : left[t] > 1}
    BY <1>2, <1>3, <1>10, <1>11
<1>13. ListsOK'
    BY <1>2, <1>9, <1>10, ListsOKNext
<1>14. left' = [t \in Task |-> IF left[t] \in {0, Never} THEN left[t] ELSE left[t] - 1]
    BY DEF TickAndSwitch
<1>15. QED
    BY <1>2, <1>9, <1>12, <1>13, <1>14 DEF Waiting, Delayed, Asleep

\* task_switch alone, in arch_yield
LEMMA SwitchFacts ==
    ASSUME ListsOK, Idle \notin Asleep, Switch(ring), UNCHANGED <<delay, left, wait>>
    PROVE  ListsOK' /\ ~ Delayed(cur)' /\ cur' \in Task
<1>1. /\ cur \in Task /\ RingOK(ring, Asleep) /\ DelayOK(delay, left) /\ WaitOK(wait, Asleep)
    BY ListsOKSplit
<1>2. Asleep' = Asleep
    BY DEF Asleep
<1>3. /\ PeekNext(ring) \in Task /\ PeekNext(ring) \notin Asleep'
      /\ RingOK([ring EXCEPT ![FirstLevel(ring)] = Tail(@) \o <<Head(@)>>], Asleep')
    BY <1>1, <1>2, RingSwitch
<1>4. cur' \in Task /\ cur' \notin Asleep' /\ RingOK(ring', Asleep')
    BY <1>1, <1>2, <1>3 DEF Switch
<1>5. ListsOK'
    BY <1>1, <1>2, <1>4, ListsOKNext
<1>6. QED
    BY <1>4, <1>5 DEF Delayed, Asleep

\* arch_yield, and the choice of a task after a power failure
LEMMA YieldFacts ==
    ASSUME ListsOK, Idle \notin Asleep, YieldNow \/ Reschedule
    PROVE  /\ ListsOK' /\ ~ Delayed(cur)' /\ cur' \in Task
           /\ UNCHANGED <<delay, left, wait>>
<1>1. UNCHANGED <<delay, left, wait>>
    BY DEF YieldNow, Reschedule
<1>2. CASE Switch(ring)
    BY <1>1, <1>2, SwitchFacts
<1>3. CASE ~ Delayed(cur) /\ UNCHANGED <<cur, ring>>
    BY <1>1, <1>3 DEF ListsOK, SchedTypeOK, ListsAgree, Delayed
<1>4. QED
    BY <1>1, <1>2, <1>3 DEF YieldNow, Reschedule

\* The lists agree at the start.
LEMMA SchedInitFacts ==
    ASSUME SchedInit
    PROVE  ListsOK /\ Asleep = {} /\ (\A l \in WaitList : Waiting(l) = {}) /\ cur \in Task
<1>1. Asleep = {} /\ cur \in Task /\ \A l \in WaitList : Waiting(l) = {}
    BY DEF SchedInit, Asleep, Waiting, Elems
<1>2. DelayOK(delay, left)
    BY SchedConstants DEF SchedInit, DelayOK, Distinct
<1>3. WaitOK(wait, Asleep)
    <2>1. \A l \in WaitList : wait[l] = <<>>
        BY DEF SchedInit
    <2>2. QED
        BY <1>1, <2>1 DEF WaitOK, Distinct, SchedInit, Waiting
<1>4. ASSUME NEW p \in Levels
      PROVE  /\ ring[p] \in Seq(Task) /\ Distinct(ring[p])
             /\ Elems(ring[p]) = {t \in Task : Prio[t] = p}
    <2> DEFINE T == {t \in Task : Prio[t] = p}
               n == Cardinality(T)
    <2>1. IsFiniteSet(T)
        <3>1. T \in SUBSET Task
            OBVIOUS
        <3>2. QED
            BY <3>1, SchedConstants, FS_Subset
    <2>2. n \in Nat
        BY <2>1, FS_CardinalityType
    <2> HIDE DEF n
    <2>3. PICK b \in Bijection(1 .. n, T) : TRUE
        <3>1. ExistsBijection(1 .. n, T)
            BY <2>1, FS_CardinalityType DEF n
        <3>2. QED
            BY <3>1 DEF ExistsBijection
    <2>4. b \in [1 .. n -> Task] /\ {b[i] : i \in DOMAIN b} = T
        BY <2>3 DEF Bijection, Injection, Surjection
    <2>5. ring[p] = CHOOSE s \in [1 .. n -> Task] : Elems(s) = T
        BY DEF SchedInit, n
    <2>6. ring[p] \in [1 .. n -> Task] /\ Elems(ring[p]) = T
        <3>1. b \in [1 .. n -> Task] /\ Elems(b) = T
            BY <2>4 DEF Elems
        <3>2. QED
            BY <2>5, <3>1
    <2> DEFINE f == ring[p]
    <2>7. f \in Surjection(1 .. n, T)
        BY <2>6 DEF Surjection, Elems
    <2>8. IsFiniteSet(1 .. n) /\ Cardinality(1 .. n) = n
        BY <2>2, FS_Interval
    <2> HIDE DEF f, T
    <2>9. f \in Injection(1 .. n, T)
        BY <2>1, <2>7, <2>8, FS_SurjSameCardinalityImpliesInj DEF n
    <2>10. Distinct(f)
        BY <2>9 DEF Injection, Distinct, IsInjective
    <2>11. QED
        BY <2>2, <2>6, <2>10 DEF f, T
<1>5. RingOK(ring, Asleep)
    <2>1. DOMAIN ring = Levels /\ ring = [p \in Levels |-> ring[p]]
        BY DEF SchedInit
    <2>2. ring \in [Levels -> Seq(Task)]
        BY <1>4, <2>1
    <2>3. QED
        BY <1>1, <1>4, <2>2 DEF RingOK
<1>6. QED
    BY <1>1, <1>2, <1>3, <1>5, ListsOKSplit

\* Nothing changes for the scheduler.
LEMMA SameLists ==
    ASSUME ListsOK, UNCHANGED schedVars
    PROVE  /\ ListsOK' /\ Asleep' = Asleep /\ cur' = cur /\ left' = left
           /\ \A l \in WaitList : Waiting(l)' = Waiting(l)
BY DEF ListsOK, SchedTypeOK, ListsAgree, Delayed, schedVars, Asleep, Waiting

\* Only tasks are delayed or wait, and who waits is delayed.
LEMMA SleepersFacts ==
    ASSUME ListsOK
    PROVE  /\ Asleep \in SUBSET Task
           /\ \A l \in WaitList : /\ Waiting(l) \subseteq Asleep
                                  /\ Waiting(l) = {} <=> wait[l] = <<>>
           /\ \A t \in Task : left[t] \in 0 .. Never
<1>1. /\ cur \in Task /\ RingOK(ring, Asleep) /\ DelayOK(delay, left) /\ WaitOK(wait, Asleep)
    BY ListsOKSplit
<1>2. Asleep \in SUBSET Task
    BY <1>1, ElemsSubset DEF DelayOK, Asleep
<1>3. ASSUME NEW l \in WaitList
      PROVE  Waiting(l) \subseteq Asleep /\ (Waiting(l) = {} <=> wait[l] = <<>>)
    <2>1. wait[l] \in Seq(Task) /\ Elems(wait[l]) \subseteq Asleep
        BY <1>1 DEF WaitOK
    <2>2. QED
        BY <2>1, ElemsSubset DEF Waiting
<1>4. QED
    BY <1>1, <1>2, <1>3 DEF DelayOK

-----------------------------------------------------------------------------
(***************************************************************************)
(* Counting, for the proofs that no wake-up is lost: how the size of a set *)
(* changes when it gains, loses or exchanges an element.                   *)
(***************************************************************************)

\* The size of a finite set is a number and grows with the set.
LEMMA SizeGrows ==
    ASSUME NEW B, IsFiniteSet(B), NEW A \in SUBSET B
    PROVE  Cardinality(A) \in Nat /\ Cardinality(B) \in Nat /\ Cardinality(A) <= Cardinality(B)
BY FS_Subset, FS_CardinalityType

\* B has all of A and one element more.
LEMMA SizeGains ==
    ASSUME NEW B, IsFiniteSet(B), NEW A \in SUBSET B, NEW x \in B, x \notin A
    PROVE  Cardinality(A) \in Nat /\ Cardinality(B) \in Nat /\ Cardinality(A) + 1 <= Cardinality(B)
<1>1. IsFiniteSet(A)
    BY FS_Subset
<1>2. Cardinality(A \cup {x}) = Cardinality(A) + 1
    BY <1>1, FS_AddElement
<1>3. A \cup {x} \in SUBSET B
    OBVIOUS
<1>4. QED
    BY <1>1, <1>2, <1>3, SizeGrows, FS_CardinalityType

\* B has all of A but one element.
LEMMA SizeLoses ==
    ASSUME NEW A, NEW B, IsFiniteSet(A), IsFiniteSet(B), NEW x, A \ {x} \subseteq B
    PROVE  Cardinality(A) \in Nat /\ Cardinality(B) \in Nat /\ Cardinality(A) <= Cardinality(B) + 1
<1>1. /\ IsFiniteSet(A \ {x})
      /\ Cardinality(A \ {x}) = IF x \in A THEN Cardinality(A) - 1 ELSE Cardinality(A)
    BY FS_RemoveElement
<1>2. Cardinality(A \ {x}) \in Nat /\ Cardinality(B) \in Nat /\ Cardinality(A \ {x}) <= Cardinality(B)
    BY SizeGrows
<1>3. QED
    BY <1>1, <1>2, FS_CardinalityType

\* B has another element in the place of one of A.
LEMMA SizeExchange ==
    ASSUME NEW A, NEW B, IsFiniteSet(A), IsFiniteSet(B), NEW x, A \ {x} \subseteq B,
           NEW y \in B, y \notin A
    PROVE  Cardinality(A) \in Nat /\ Cardinality(B) \in Nat /\ Cardinality(A) <= Cardinality(B)
<1>1. PICK C : C = A \ {x}
    OBVIOUS
<1>2. /\ IsFiniteSet(C)
      /\ Cardinality(C) = IF x \in A THEN Cardinality(A) - 1 ELSE Cardinality(A)
    BY <1>1, FS_RemoveElement
<1>3. C \in SUBSET B /\ y \notin C
    BY <1>1
<1>4. Cardinality(C) \in Nat /\ Cardinality(B) \in Nat /\ Cardinality(C) + 1 <= Cardinality(B)
    BY <1>3, SizeGains
<1>5. QED
    BY <1>2, <1>4, FS_CardinalityType

=============================================================================
