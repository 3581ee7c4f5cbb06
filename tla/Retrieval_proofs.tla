-------------------------- MODULE Retrieval_proofs --------------------------
(***************************************************************************)
(* Lemmas on what the search is built from: sets of numbers, orders,       *)
(* picks, sorts, runs of verses, and sums.  They hold for sequences of any *)
(* length.  No step is an induction by a library theorem, which would need *)
(* an operator as its parameter: where the natural numbers are run         *)
(* through, it is by the least number that would be an exception.          *)
(***************************************************************************)
EXTENDS Retrieval, TLAPS, FiniteSetTheorems, FunctionTheorems, NaturalsInduction,
        WellFoundedInduction

----------------------------------------------------------------------------
(* Sets of numbers.                                                        *)

\* A set of natural numbers that is not empty has a least one.
LEMMA Least ==
    ASSUME NEW S \in SUBSET Nat, S # {}
    PROVE  \E x \in S : \A y \in S : x <= y
<1>1. PICK x \in S : \A y \in S : ~(<<y, x>> \in OpToRel(<, Nat))
      BY NatLessThanWellFounded, WFMin
<1>2. \A y \in S : ~(y < x)
      BY <1>1, Zenon DEF OpToRel
<1>. QED  BY <1>2

\* A set of numbers that is not empty has its Min in it.
LEMMA MinIsIn ==
    ASSUME NEW S \in SUBSET Nat, S # {}
    PROVE  Min(S) \in S /\ \A y \in S : Min(S) <= y
<1>1. \E x \in S : \A y \in S : x <= y
      BY Least
<1>. QED  BY <1>1, Zenon DEF Min

LEMMA CountTo ==
    ASSUME NEW n \in Nat
    PROVE  IsFiniteSet(1..n) /\ Cardinality(1..n) = n
<1>1. 1 \in Int /\ n \in Int
      OBVIOUS
<1>2. /\ IsFiniteSet(1..n)
      /\ Cardinality(1..n) = IF 1 > n THEN 0 ELSE n - 1 + 1
      BY <1>1, FS_Interval, Zenon
<1>. QED  BY <1>2

----------------------------------------------------------------------------
(* A finite set in a strict total order R: how many elements come before   *)
(* one says its place, and every place is taken.                           *)

Below(S, R, x) == {y \in S : <<y, x>> \in R}

StrictTotalOrder(R, S) ==
    /\ \A x \in S : <<x, x>> \notin R
    /\ \A x, y, z \in S : <<x, y>> \in R /\ <<y, z>> \in R => <<x, z>> \in R
    /\ \A x, y \in S : x = y \/ <<x, y>> \in R \/ <<y, x>> \in R

LEMMA RanksFill ==
    ASSUME NEW S, IsFiniteSet(S), NEW R, StrictTotalOrder(R, S)
    PROVE  /\ \A x, y \in S : <<x, y>> \in R
                  <=> Cardinality(Below(S, R, x)) < Cardinality(Below(S, R, y))
           /\ \A i \in 1..Cardinality(S) :
                  \E x \in S : Cardinality(Below(S, R, x)) = i - 1
           /\ \A x \in S : /\ Cardinality(Below(S, R, x)) \in Nat
                            /\ Cardinality(Below(S, R, x)) + 1 \in 1..Cardinality(S)
<1>. DEFINE n == Cardinality(S)
            rank == [x \in S |-> Cardinality(Below(S, R, x))]
<1>0. n \in Nat
      BY FS_CardinalityType
<1>1. ASSUME NEW x \in S
      PROVE  /\ IsFiniteSet(Below(S, R, x))
             /\ Cardinality(Below(S, R, x)) \in Nat
             /\ Cardinality(Below(S, R, x)) < n
  <2>1. Below(S, R, x) \in SUBSET (S \ {x})
        BY DEF Below, StrictTotalOrder
  <2>2. IsFiniteSet(S \ {x}) /\ Cardinality(S \ {x}) = n - 1
        BY FS_RemoveElement
  <2>3. IsFiniteSet(Below(S, R, x)) /\ Cardinality(Below(S, R, x)) <= Cardinality(S \ {x})
        BY <2>1, <2>2, FS_Subset
  <2>4. Cardinality(Below(S, R, x)) \in Nat
        BY <2>3, FS_CardinalityType
  <2>. QED  BY <1>0, <2>2, <2>3, <2>4
<1>2. ASSUME NEW x \in S, NEW y \in S, <<x, y>> \in R
      PROVE  Cardinality(Below(S, R, x)) < Cardinality(Below(S, R, y))
  <2>1. Below(S, R, x) \in SUBSET Below(S, R, y) /\ x \in Below(S, R, y)
        /\ x \notin Below(S, R, x)
        BY <1>2 DEF Below, StrictTotalOrder
  <2>2. /\ Cardinality(Below(S, R, x)) <= Cardinality(Below(S, R, y))
        /\ Cardinality(Below(S, R, x)) # Cardinality(Below(S, R, y))
        BY <1>1, <2>1, FS_Subset
  <2>. QED  BY <1>1, <2>2
<1>3. \A x, y \in S : <<x, y>> \in R
          <=> Cardinality(Below(S, R, x)) < Cardinality(Below(S, R, y))
  <2>1. ASSUME NEW x \in S, NEW y \in S,
               Cardinality(Below(S, R, x)) < Cardinality(Below(S, R, y))
        PROVE  <<x, y>> \in R
    <3>1. CASE <<y, x>> \in R
      <4>1. Cardinality(Below(S, R, y)) < Cardinality(Below(S, R, x))
            BY <1>2, <3>1
      <4>. QED  BY <1>1, <2>1, <4>1
    <3>2. CASE x = y
          BY <1>1, <2>1, <3>2
    <3>. QED  BY <3>1, <3>2 DEF StrictTotalOrder
  <2>. QED  BY <1>2, <2>1
<1>4. rank \in Injection(S, 0..(n - 1))
  <2>1. rank \in [S -> 0..(n - 1)]
        BY <1>0, <1>1
  <2>2. \A x, y \in S : rank[x] = rank[y] => x = y
    <3>1. ASSUME NEW x \in S, NEW y \in S, rank[x] = rank[y], x # y
          PROVE  FALSE
      <4>1. ~(rank[x] < rank[y]) /\ ~(rank[y] < rank[x])
            BY <1>1, <3>1
      <4>2. <<x, y>> \notin R /\ <<y, x>> \notin R
            BY <1>3, <4>1
      <4>. QED  BY <3>1, <4>2 DEF StrictTotalOrder
    <3>. QED  BY <3>1
  <2>. QED  BY <2>1, <2>2 DEF Injection, IsInjective
<1>5. IsFiniteSet(0..(n - 1)) /\ Cardinality(0..(n - 1)) = n
      BY <1>0, FS_Interval
<1>6. rank \in Surjection(S, 0..(n - 1))
      BY <1>4, <1>5, FS_Injection
<1>7. ASSUME NEW i \in 1..n
      PROVE  \E x \in S : Cardinality(Below(S, R, x)) = i - 1
  <2>1. i - 1 \in 0..(n - 1)
        BY <1>0
  <2>. QED  BY <1>6, <2>1 DEF Surjection
<1>8. \A x \in S : /\ Cardinality(Below(S, R, x)) \in Nat
                   /\ Cardinality(Below(S, R, x)) + 1 \in 1..n
      BY <1>0, <1>1
<1>. QED  BY <1>3, <1>7, <1>8

\* A sequence that has at each place an element of that rank is the whole of S in
\* the order R.
LEMMA RankedIsOrdered ==
    ASSUME NEW S, IsFiniteSet(S), NEW R, StrictTotalOrder(R, S), NEW f,
           DOMAIN f = 1..Cardinality(S),
           \A i \in 1..Cardinality(S) : f[i] \in S /\ Cardinality(Below(S, R, f[i])) = i - 1
    PROVE  /\ \A x \in S : \E i \in 1..Cardinality(S) : f[i] = x
           /\ \A i, j \in 1..Cardinality(S) : i < j <=> <<f[i], f[j]>> \in R
<1>1. ASSUME NEW x \in S
      PROVE  \E i \in 1..Cardinality(S) : f[i] = x
  <2>. DEFINE i == Cardinality(Below(S, R, x)) + 1
  <2>1. i \in 1..Cardinality(S)
        BY RanksFill
  <2>2. f[i] \in S /\ Cardinality(Below(S, R, f[i])) = i - 1
        BY <2>1
  <2>3. Cardinality(Below(S, R, x)) \in Nat
        BY RanksFill
  <2>4. <<x, f[i]>> \notin R /\ <<f[i], x>> \notin R
        BY <2>2, <2>3, RanksFill
  <2>. QED  BY <2>1, <2>2, <2>4 DEF StrictTotalOrder
<1>2. ASSUME NEW i \in 1..Cardinality(S), NEW j \in 1..Cardinality(S)
      PROVE  i < j <=> <<f[i], f[j]>> \in R
  <2>1. Cardinality(S) \in Nat
        BY FS_CardinalityType
  <2>2. <<f[i], f[j]>> \in R <=> i - 1 < j - 1
        BY RanksFill
  <2>. QED  BY <2>1, <2>2
<1>. QED  BY <1>1, <1>2

\* Ascending(S) lists the numbers of S, each once, from the least to the greatest.
LEMMA AscendingIsOrdered ==
    ASSUME NEW S \in SUBSET Int, IsFiniteSet(S)
    PROVE  /\ Cardinality(S) \in Nat
           /\ Ascending(S) \in [1..Cardinality(S) -> S]
           /\ \A x \in S : \E i \in 1..Cardinality(S) : Ascending(S)[i] = x
           /\ \A i, j \in 1..Cardinality(S) : i < j <=> Ascending(S)[i] < Ascending(S)[j]
<1>. DEFINE R == {p \in S \X S : p[1] < p[2]}
            n == Cardinality(S)
<1>0. n \in Nat
      BY FS_CardinalityType
<1>1. \A x, y \in S : <<x, y>> \in R <=> x < y
      OBVIOUS
<1>. HIDE DEF R
<1>2. StrictTotalOrder(R, S)
      BY <1>1 DEF StrictTotalOrder
<1>3. \A x \in S : {y \in S : y < x} = Below(S, R, x)
      BY <1>1 DEF Below
<1>4. Ascending(S) = [i \in 1..n |-> CHOOSE x \in S : Cardinality({y \in S : y < x}) = i - 1]
      BY DEF Ascending, Ordered
<1>5. ASSUME NEW i \in 1..n
      PROVE  Ascending(S)[i] \in S /\ Cardinality(Below(S, R, Ascending(S)[i])) = i - 1
  <2>0. PICK w \in S : Cardinality(Below(S, R, w)) = i - 1
        BY <1>2, RanksFill
  <2>1. \E z \in S : Cardinality({y \in S : y < z}) = i - 1
        BY <1>3, <2>0
  <2>2. Ascending(S)[i] = CHOOSE x \in S : Cardinality({y \in S : y < x}) = i - 1
        BY <1>4
  <2>3. /\ Ascending(S)[i] \in S
        /\ Cardinality({y \in S : y < Ascending(S)[i]}) = i - 1
        BY <2>1, <2>2, Zenon
  <2>. QED  BY <1>3, <2>3
<1>6. DOMAIN Ascending(S) = 1..n
      BY <1>4
<1>7. /\ \A x \in S : \E i \in 1..n : Ascending(S)[i] = x
      /\ \A i, j \in 1..n : i < j <=> <<Ascending(S)[i], Ascending(S)[j]>> \in R
      BY <1>2, <1>5, <1>6, RankedIsOrdered
<1>8. Ascending(S) \in [1..n -> S]
      BY <1>4, <1>5
<1>. QED  BY <1>0, <1>1, <1>7, <1>8

LEMMA AscendingType ==
    ASSUME NEW S \in SUBSET Int, IsFiniteSet(S)
    PROVE  /\ Ascending(S) \in Seq(S)
           /\ Len(Ascending(S)) = Cardinality(S)
           /\ DOMAIN Ascending(S) = 1..Cardinality(S)
           /\ ToSet(Ascending(S)) = S
<1>. DEFINE f == Ascending(S)
            n == Cardinality(S)
<1>1. n \in Nat /\ f \in [1..n -> S] /\ \A x \in S : \E i \in 1..n : f[i] = x
      BY AscendingIsOrdered
<1>. HIDE DEF f, n
<1>2. f \in Seq(S) /\ Len(f) = n /\ DOMAIN f = 1..n
      BY <1>1
<1>3. ToSet(f) = S
      BY <1>1 DEF ToSet
<1>. QED  BY <1>2, <1>3 DEF f, n

LEMMA Renumbered ==
    ASSUME NEW f, NEW g, NEW order, NEW K, NEW I,
           \A k \in K : order[k] \in I /\ f[k] = g[order[k]],
           \A i \in I : \E k \in K : order[k] = i
    PROVE  {f[k] : k \in K} = {g[i] : i \in I}
<1>1. \A k \in K : f[k] \in {g[i] : i \in I}
      OBVIOUS
<1>2. ASSUME NEW i \in I
      PROVE  g[i] \in {f[k] : k \in K}
  <2>1. PICK k \in K : order[k] = i
        OBVIOUS
  <2>2. f[k] = g[i]
        BY <2>1
  <2>. QED  BY <2>2
<1>. QED  BY <1>1, <1>2

\* Pick(s, I) holds the elements of s at the places I.
LEMMA PickPicks ==
    ASSUME NEW X, NEW s \in Seq(X), NEW I \in SUBSET (DOMAIN s)
    PROVE  /\ Pick(s, I) \in Seq(X)
           /\ Len(Pick(s, I)) = Cardinality(I)
           /\ DOMAIN Pick(s, I) = 1..Cardinality(I)
           /\ ToSet(Pick(s, I)) = {s[i] : i \in I}
           /\ Cardinality(I) \in Nat /\ Cardinality(I) <= Len(s)
<1>. DEFINE f == Ascending(I)
            n == Cardinality(I)
<1>1. Len(s) \in Nat /\ DOMAIN s = 1..Len(s)
      OBVIOUS
<1>2. IsFiniteSet(1..Len(s)) /\ Cardinality(1..Len(s)) = Len(s)
      BY <1>1, CountTo
<1>3. IsFiniteSet(I) /\ n <= Len(s) /\ I \in SUBSET Int
      BY <1>1, <1>2, FS_Subset
<1>4. /\ n \in Nat
      /\ f \in [1..n -> I]
      /\ \A i \in I : \E k \in 1..n : f[k] = i
      BY <1>3, AscendingIsOrdered
<1>5. Pick(s, I) = [k \in DOMAIN f |-> s[f[k]]]
      BY DEF Pick
<1>. HIDE DEF f, n
<1>6. Pick(s, I) \in [1..n -> X]
      BY <1>1, <1>4, <1>5
<1>7. Pick(s, I) \in Seq(X) /\ Len(Pick(s, I)) = n /\ DOMAIN Pick(s, I) = 1..n
      BY <1>4, <1>6
<1>8. ToSet(Pick(s, I)) = {s[i] : i \in I}
  <2>1. \A k \in 1..n : f[k] \in I /\ Pick(s, I)[k] = s[f[k]]
        BY <1>4, <1>5
  <2>2. ToSet(Pick(s, I)) = {Pick(s, I)[k] : k \in 1..n}
        BY <1>7 DEF ToSet
  <2>. QED  BY <1>4, <2>1, <2>2, Renumbered
<1>. QED  BY <1>3, <1>4, <1>7, <1>8 DEF n

\* t is s in the given order, which is by the keys, and of two with one key the
\* earlier first.
Arranges(t, s, key, order) ==
    /\ t = [i \in 1..Len(s) |-> s[order[i]]]
    /\ \A k \in 1..Len(s) : \E i \in 1..Len(s) : order[i] = k
    /\ \A i, j \in 1..Len(s) :
          i < j <=> \/ key[order[i]] < key[order[j]]
                    \/ key[order[i]] = key[order[j]] /\ order[i] < order[j]

\* Sorted(s, key) holds what s holds, arranged by the keys.
LEMMA SortedIsOrdered ==
    ASSUME NEW X, NEW s \in Seq(X), NEW key \in [DOMAIN s -> Int]
    PROVE  /\ Sorted(s, key) \in Seq(X)
           /\ Len(Sorted(s, key)) = Len(s)
           /\ ToSet(Sorted(s, key)) = ToSet(s)
           /\ \E order \in [1..Len(s) -> 1..Len(s)] : Arranges(Sorted(s, key), s, key, order)
<1>. DEFINE S == 1..Len(s)
            Before(i, j) == key[i] < key[j] \/ (key[i] = key[j] /\ i < j)
            R == {p \in S \X S : Before(p[1], p[2])}
            order == [i \in 1..Cardinality(S) |->
                         CHOOSE x \in S : Cardinality({y \in S : Before(y, x)}) = i - 1]
<1>1. Len(s) \in Nat /\ DOMAIN s = S /\ \A i \in S : s[i] \in X /\ key[i] \in Int
      OBVIOUS
<1>2. IsFiniteSet(S) /\ Cardinality(S) = Len(s)
      BY <1>1, CountTo
<1>3. \A x, y \in S : <<x, y>> \in R <=> Before(x, y)
      OBVIOUS
<1>. HIDE DEF R
<1>4. StrictTotalOrder(R, S)
  <2>1. \A x \in S : ~Before(x, x)
        BY <1>1
  <2>2. \A x, y, z \in S : Before(x, y) /\ Before(y, z) => Before(x, z)
        BY <1>1
  <2>3. \A x, y \in S : x = y \/ Before(x, y) \/ Before(y, x)
        BY <1>1
  <2>. HIDE DEF Before
  <2>. QED  BY <1>3, <2>1, <2>2, <2>3 DEF StrictTotalOrder
<1>5. \A x \in S : {y \in S : Before(y, x)} = Below(S, R, x)
      BY <1>3 DEF Below
<1>6. ASSUME NEW i \in S
      PROVE  order[i] \in S /\ Cardinality(Below(S, R, order[i])) = i - 1
  <2>2. order[i] = CHOOSE x \in S : Cardinality({y \in S : Before(y, x)}) = i - 1
        BY <1>2
  <2>. HIDE DEF Before, order
  <2>0. PICK w \in S : Cardinality(Below(S, R, w)) = i - 1
        BY <1>2, <1>4, RanksFill
  <2>1. \E z \in S : Cardinality({y \in S : Before(y, z)}) = i - 1
        BY <1>5, <2>0
  <2>3. order[i] \in S /\ Cardinality({y \in S : Before(y, order[i])}) = i - 1
        BY <2>1, <2>2, Zenon
  <2>. QED  BY <1>5, <2>3
<1>7. Sorted(s, key) = [i \in S |-> s[order[i]]]
      BY <1>1 DEF Sorted, Ordered
<1>8. DOMAIN order = S
      BY <1>2
<1>9. order \in [S -> S]
      BY <1>2, <1>6
<1>. HIDE DEF order
<1>10. /\ \A k \in S : \E i \in S : order[i] = k
       /\ \A i, j \in S : i < j <=> <<order[i], order[j]>> \in R
  <2>1. /\ DOMAIN order = 1..Cardinality(S)
        /\ \A i \in 1..Cardinality(S) :
              order[i] \in S /\ Cardinality(Below(S, R, order[i])) = i - 1
        BY <1>2, <1>6, <1>8
  <2>2. /\ \A k \in S : \E i \in 1..Cardinality(S) : order[i] = k
        /\ \A i, j \in 1..Cardinality(S) : i < j <=> <<order[i], order[j]>> \in R
        BY <1>2, <1>4, <2>1, RankedIsOrdered
  <2>. QED  BY <1>2, <2>2
<1>11. \A i, j \in S : i < j <=> Before(order[i], order[j])
      BY <1>3, <1>9, <1>10
<1>12. Sorted(s, key) \in [S -> X]
      BY <1>1, <1>7, <1>9
<1>13. Sorted(s, key) \in Seq(X) /\ Len(Sorted(s, key)) = Len(s)
      BY <1>1, <1>12
<1>14. ToSet(Sorted(s, key)) = ToSet(s)
  <2>1. \A i \in S : order[i] \in S /\ Sorted(s, key)[i] = s[order[i]]
        BY <1>7, <1>9
  <2>2. ToSet(Sorted(s, key)) = {Sorted(s, key)[i] : i \in S}
        BY <1>7 DEF ToSet
  <2>3. ToSet(s) = {s[i] : i \in S}
        BY <1>1 DEF ToSet
  <2>4. \A k \in S : \E i \in S : order[i] = k
        BY <1>10
  <2>. HIDE DEF S
  <2>5. {Sorted(s, key)[i] : i \in S} = {s[i] : i \in S}
        BY <2>1, <2>4, Renumbered
  <2>. QED  BY <2>2, <2>3, <2>5
<1>15. Arranges(Sorted(s, key), s, key, order)
       BY <1>7, <1>10, <1>11 DEF Arranges
<1>. QED  BY <1>9, <1>13, <1>14, <1>15

LEMMA TakeTakes ==
    ASSUME NEW X, NEW s \in Seq(X), NEW n \in Nat
    PROVE  /\ Take(s, n) \in Seq(X)
           /\ Len(Take(s, n)) <= n /\ Len(Take(s, n)) <= Len(s)
           /\ Len(Take(s, n)) = AtMost(Len(s), n)
           /\ \A i \in 1..Len(Take(s, n)) : Take(s, n)[i] = s[i]
           /\ ToSet(Take(s, n)) \subseteq ToSet(s)
<1>. DEFINE m == IF Len(s) < n THEN Len(s) ELSE n
<1>1. Len(s) \in Nat /\ m \in Nat /\ m <= Len(s) /\ m <= n
      OBVIOUS
<1>2. Take(s, n) = SubSeq(s, 1, m) /\ m = AtMost(Len(s), n)
      BY DEF Take, AtMost
<1>. HIDE DEF m
<1>3. /\ Take(s, n) \in Seq(X)
      /\ Len(Take(s, n)) = m
      /\ \A i \in 1..m : Take(s, n)[i] = s[i]
      BY <1>1, <1>2
<1>. QED  BY <1>1, <1>2, <1>3 DEF ToSet

----------------------------------------------------------------------------
(* Sequences put one after the other, and sums.  Both are recursive        *)
(* functions: that there is one is proved by the first place it could not  *)
(* be continued to, and what it gives by the first place it would not.     *)

LEMMA FlattenSteps ==
    ASSUME NEW X, NEW ss \in Seq(Seq(X)), ss # <<>>
    PROVE  \E f \in [1..Len(ss) -> Seq(X)] :
              /\ FlattenSeq(ss) = f[Len(ss)]
              /\ \A i \in 1..Len(ss) : f[i] = IF i = 1 THEN ss[i] ELSE f[i - 1] \o ss[i]
<1>. DEFINE n == Len(ss)
            Continues(f, m) == \A i \in 1..m : f[i] = IF i = 1 THEN ss[i] ELSE f[i - 1] \o ss[i]
            Upto(m) == \E f \in [1..m -> Seq(X)] : Continues(f, m)
            flatten[i \in 1..n] == IF i = 1 THEN ss[i] ELSE flatten[i - 1] \o ss[i]
<1>1. n \in Nat /\ \A i \in 1..n : ss[i] \in Seq(X)
      OBVIOUS
<1>2. \A m \in 1..n : Upto(m)
  <2>. DEFINE E == {m \in 1..n : ~Upto(m)}
  <2>1. SUFFICES ASSUME E # {}
                 PROVE  FALSE
        OBVIOUS
  <2>2. E \in SUBSET Nat
        BY <1>1
  <2>3. PICK m \in E : \A k \in E : m <= k
        BY <2>1, <2>2, Least
  <2>4. CASE m = 1
    <3>. DEFINE f == [i \in 1..m |-> ss[1]]
    <3>1. f \in [1..m -> Seq(X)] /\ Continues(f, m)
          BY <1>1, <2>4
    <3>. QED  BY <3>1
  <2>5. CASE m # 1
    <3>1. m - 1 \in 1..n /\ ~(m <= m - 1)
          BY <1>1, <2>5
    <3>2. PICK g \in [1..(m - 1) -> Seq(X)] : Continues(g, m - 1)
          BY <2>3, <3>1
    <3>. DEFINE f == [i \in 1..m |-> IF i = m THEN g[m - 1] \o ss[m] ELSE g[i]]
    <3>3. f \in [1..m -> Seq(X)]
          BY <1>1, <3>1, <3>2
    <3>4. Continues(f, m)
      <4>1. m \in Nat /\ m # 1 /\ DOMAIN f = 1..m
            BY <1>1, <2>5
      <4>2. ASSUME NEW i \in 1..m
            PROVE  f[i] = IF i = 1 THEN ss[i] ELSE f[i - 1] \o ss[i]
        <5>1. CASE i = m
          <6>1. f[i] = g[m - 1] \o ss[m]
                BY <5>1
          <6>2. f[i - 1] = g[m - 1]
                BY <3>1, <4>1, <5>1
          <6>. QED  BY <4>1, <5>1, <6>1, <6>2
        <5>2. CASE i # m
          <6>1. i \in 1..(m - 1) /\ f[i] = g[i]
                BY <4>1, <5>2
          <6>2. CASE i = 1
                BY <3>2, <6>1, <6>2
          <6>3. CASE i # 1
            <7>1. i - 1 \in 1..m /\ i - 1 # m
                  BY <4>1, <6>1, <6>3
            <7>2. f[i - 1] = g[i - 1]
                  BY <7>1
            <7>. QED  BY <3>2, <6>1, <6>3, <7>2
          <6>. QED  BY <6>2, <6>3
        <5>. QED  BY <5>1, <5>2
      <4>. QED  BY <4>2
    <3>. QED  BY <3>3, <3>4
  <2>. QED  BY <2>4, <2>5
<1>3. n # 0
      OBVIOUS
<1>4. n \in 1..n
      BY <1>1, <1>3
<1>5. PICK g \in [1..n -> Seq(X)] : Continues(g, n)
      BY <1>2, <1>4, Zenon
<1>6. g = [i \in 1..n |-> IF i = 1 THEN ss[i] ELSE g[i - 1] \o ss[i]]
      BY <1>5
<1>7. flatten = [i \in 1..n |-> IF i = 1 THEN ss[i] ELSE flatten[i - 1] \o ss[i]]
      BY <1>6, Zenon DEF flatten
<1>8. FlattenSeq(ss) = flatten[n]
      BY <1>3 DEF FlattenSeq
<1>. HIDE DEF flatten
<1>. DEFINE E == {i \in 1..n : flatten[i] \notin Seq(X)}
<1>9. E = {}
  <2>1. SUFFICES ASSUME E # {}
                 PROVE  FALSE
        OBVIOUS
  <2>2. E \in SUBSET Nat
        BY <1>1
  <2>3. PICK i \in E : \A k \in E : i <= k
        BY <2>1, <2>2, Least
  <2>4. flatten[i] = IF i = 1 THEN ss[i] ELSE flatten[i - 1] \o ss[i]
        BY <1>7
  <2>5. CASE i = 1
    <3>1. flatten[i] = ss[i]
          BY <2>4, <2>5
    <3>. QED  BY <1>1, <3>1
  <2>6. CASE i # 1
    <3>1. i - 1 \in 1..n /\ ~(i <= i - 1)
          BY <1>1, <2>6
    <3>2. flatten[i - 1] \in Seq(X)
          BY <2>3, <3>1
    <3>3. flatten[i] = flatten[i - 1] \o ss[i] /\ ss[i] \in Seq(X)
          BY <1>1, <2>4, <2>6
    <3>4. flatten[i - 1] \o ss[i] \in Seq(X)
          BY <3>2, <3>3
    <3>. QED  BY <3>3, <3>4
  <2>. QED  BY <2>5, <2>6
<1>10. flatten \in [1..n -> Seq(X)]
  <2>1. \A i \in 1..n : flatten[i] \in Seq(X)
        BY <1>9
  <2>. QED  BY <1>7, <2>1
<1>11. \A i \in 1..n : flatten[i] = IF i = 1 THEN ss[i] ELSE flatten[i - 1] \o ss[i]
       BY <1>7
<1>. QED  BY <1>8, <1>10, <1>11

LEMMA FlattenType ==
    ASSUME NEW X, NEW ss \in Seq(Seq(X))
    PROVE  FlattenSeq(ss) \in Seq(X)
<1>1. CASE ss = <<>>
  <2>1. FlattenSeq(ss) = ss
        BY <1>1 DEF FlattenSeq
  <2>2. <<>> \in Seq(X)
        OBVIOUS
  <2>. QED  BY <1>1, <2>1, <2>2
<1>2. CASE ss # <<>>
  <2>1. PICK f \in [1..Len(ss) -> Seq(X)] : FlattenSeq(ss) = f[Len(ss)]
        BY <1>2, FlattenSteps
  <2>2. Len(ss) \in 1..Len(ss)
        BY <1>2
  <2>. QED  BY <2>1, <2>2
<1>. QED  BY <1>1, <1>2

\* Of the subsets of a finite set that are in E, one has the fewest elements.
LEMMA Smallest ==
    ASSUME NEW D, IsFiniteSet(D), NEW E \in SUBSET SUBSET D, E # {}
    PROVE  \E s \in E : \A t \in E : Cardinality(s) <= Cardinality(t)
<1>1. \A s \in E : Cardinality(s) \in Nat
      BY FS_Subset, FS_CardinalityType
<1>. DEFINE N == {Cardinality(s) : s \in E}
<1>2. N \in SUBSET Nat /\ N # {}
      BY <1>1
<1>3. PICK n \in N : \A k \in N : n <= k
      BY <1>2, Least
<1>. QED  BY <1>3

LEMMA SumType ==
    ASSUME NEW D, IsFiniteSet(D), NEW f \in [D -> Nat]
    PROVE  SumFunction(f) \in Nat
<1>. DEFINE x(s) == CHOOSE d \in s : TRUE
            Adds(g, s) == g[s] = IF s = {} THEN 0 ELSE f[x(s)] + g[s \ {x(s)}]
            Upto(m) == \E g \in [SUBSET D -> Nat] :
                          \A s \in SUBSET D : Cardinality(s) <= m => Adds(g, s)
            iter[s \in SUBSET D] == IF s = {} THEN 0 ELSE f[x(s)] + iter[s \ {x(s)}]
            n == Cardinality(D)
<1>1. n \in Nat
      BY FS_CardinalityType
<1>2. ASSUME NEW s \in SUBSET D
      PROVE  /\ Cardinality(s) \in Nat
             /\ Cardinality(s) <= n
             /\ s = {} <=> Cardinality(s) = 0
             /\ s # {} => /\ x(s) \in s
                          /\ f[x(s)] \in Nat
                          /\ s \ {x(s)} \in SUBSET D
                          /\ Cardinality(s \ {x(s)}) = Cardinality(s) - 1
  <2>1. IsFiniteSet(s) /\ Cardinality(s) <= n
        BY FS_Subset
  <2>2. Cardinality(s) \in Nat /\ (s = {} <=> Cardinality(s) = 0)
        BY <2>1, FS_CardinalityType, FS_EmptySet
  <2>3. ASSUME s # {}
        PROVE  /\ x(s) \in s
               /\ f[x(s)] \in Nat
               /\ s \ {x(s)} \in SUBSET D
               /\ Cardinality(s \ {x(s)}) = Cardinality(s) - 1
    <3>1. x(s) \in s
          BY <2>3
    <3>. HIDE DEF x
    <3>2. Cardinality(s \ {x(s)}) = Cardinality(s) - 1
          BY <2>1, <3>1, FS_RemoveElement
    <3>. QED  BY <3>1, <3>2
  <2>. QED  BY <2>1, <2>2, <2>3
<1>. HIDE DEF x
<1>3. \A m \in 0..n : Upto(m)
  <2>. DEFINE E == {m \in 0..n : ~Upto(m)}
  <2>1. SUFFICES ASSUME E # {}
                 PROVE  FALSE
        OBVIOUS
  <2>2. E \in SUBSET Nat
        BY <1>1
  <2>3. PICK m \in E : \A k \in E : m <= k
        BY <2>1, <2>2, Least
  <2>4. CASE m = 0
    <3>. DEFINE g == [s \in SUBSET D |-> 0]
    <3>1. g \in [SUBSET D -> Nat]
          OBVIOUS
    <3>2. ASSUME NEW s \in SUBSET D, Cardinality(s) <= m
          PROVE  Adds(g, s)
      <4>0. Cardinality(s) \in Nat /\ (s = {} <=> Cardinality(s) = 0)
            BY <1>2
      <4>1. s = {}
            BY <2>4, <3>2, <4>0
      <4>. QED  BY <4>1
    <3>. QED  BY <3>1, <3>2
  <2>5. CASE m # 0
    <3>1. m - 1 \in 0..n /\ ~(m <= m - 1)
          BY <1>1, <2>5
    <3>2. PICK g \in [SUBSET D -> Nat] :
             \A s \in SUBSET D : Cardinality(s) <= m - 1 => Adds(g, s)
          BY <2>3, <3>1
    <3>. DEFINE h == [s \in SUBSET D |-> IF s = {} THEN 0 ELSE f[x(s)] + g[s \ {x(s)}]]
    <3>3. ASSUME NEW s \in SUBSET D
          PROVE  h[s] \in Nat
      <4>1. CASE s = {}
            BY <4>1
      <4>2. CASE s # {}
        <5>1. f[x(s)] \in Nat /\ s \ {x(s)} \in SUBSET D
              BY <1>2, <4>2
        <5>2. g[s \ {x(s)}] \in Nat
              BY <5>1
        <5>. QED  BY <4>2, <5>1, <5>2
      <4>. QED  BY <4>1, <4>2
    <3>4. ASSUME NEW s \in SUBSET D, Cardinality(s) <= m
          PROVE  Adds(h, s)
      <4>1. CASE s = {}
            BY <4>1
      <4>2. CASE s # {}
        <5>. DEFINE t == s \ {x(s)}
        <5>1. t \in SUBSET D /\ Cardinality(t) <= m - 1
              BY <1>2, <3>1, <3>4, <4>2
        <5>2. g[t] = IF t = {} THEN 0 ELSE f[x(t)] + g[t \ {x(t)}]
              BY <3>2, <5>1
        <5>3. h[t] = g[t]
              BY <5>1, <5>2
        <5>4. h[s] = f[x(s)] + g[t]
              BY <4>2
        <5>. QED  BY <4>2, <5>3, <5>4
      <4>. QED  BY <4>1, <4>2
    <3>. QED  BY <3>3, <3>4
  <2>. QED  BY <2>4, <2>5
<1>4. n \in 0..n
      BY <1>1
<1>5. PICK g \in [SUBSET D -> Nat] : \A s \in SUBSET D : Cardinality(s) <= n => Adds(g, s)
      BY <1>3, <1>4, Zenon
<1>6. g = [s \in SUBSET D |-> IF s = {} THEN 0 ELSE f[x(s)] + g[s \ {x(s)}]]
      BY <1>2, <1>5
<1>7. iter = [s \in SUBSET D |-> IF s = {} THEN 0 ELSE f[x(s)] + iter[s \ {x(s)}]]
      BY <1>6, Zenon DEF iter
<1>8. SumFunction(f) = iter[D]
  <2>1. DOMAIN f = D
        OBVIOUS
  <2>. QED  BY <2>1, Zenon DEF SumFunction, SumFunctionOnSet, FoldFunctionOnSet, MapThenFoldSet, iter, x
<1>. HIDE DEF iter
<1>. DEFINE E == {s \in SUBSET D : iter[s] \notin Nat}
<1>9. E = {}
  <2>1. SUFFICES ASSUME E # {}
                 PROVE  FALSE
        OBVIOUS
  <2>2. PICK s \in E : \A t \in E : Cardinality(s) <= Cardinality(t)
        BY <2>1, Smallest
  <2>3. iter[s] = IF s = {} THEN 0 ELSE f[x(s)] + iter[s \ {x(s)}]
        BY <1>7
  <2>4. s # {}
        BY <2>2, <2>3
  <2>. DEFINE t == s \ {x(s)}
  <2>5. t \in SUBSET D /\ ~(Cardinality(s) <= Cardinality(t)) /\ f[x(s)] \in Nat
    <3>1. /\ t \in SUBSET D /\ f[x(s)] \in Nat
          /\ Cardinality(t) = Cardinality(s) - 1
          BY <1>2, <2>4
    <3>2. Cardinality(s) \in Nat
          BY <1>2
    <3>. QED  BY <3>1, <3>2
  <2>6. iter[t] \in Nat
        BY <2>2, <2>5
  <2>. QED  BY <2>2, <2>3, <2>4, <2>5, <2>6
<1>. QED  BY <1>8, <1>9

----------------------------------------------------------------------------
(* What each step of the search yields.                                    *)

\* A finite set of numbers that is not empty has its Max in it.
LEMMA MaxIsIn ==
    ASSUME NEW S \in SUBSET Int, IsFiniteSet(S), S # {}
    PROVE  Max(S) \in S /\ \A y \in S : Max(S) >= y
<1>. DEFINE n == Cardinality(S)
            f == Ascending(S)
<1>1. /\ n \in Nat
      /\ f \in [1..n -> S]
      /\ \A x \in S : \E i \in 1..n : f[i] = x
      /\ \A i, j \in 1..n : i < j <=> f[i] < f[j]
      BY AscendingIsOrdered
<1>. HIDE DEF n, f
<1>2. n \in 1..n
  <2>1. PICK x \in S : TRUE
        OBVIOUS
  <2>2. PICK i \in 1..n : f[i] = x
        BY <1>1
  <2>. QED  BY <1>1, <2>2
<1>3. ASSUME NEW y \in S
      PROVE  f[n] >= y
  <2>1. PICK i \in 1..n : f[i] = y
        BY <1>1
  <2>2. ~(n < i)
        BY <1>1
  <2>3. ~(f[n] < f[i])
        BY <1>1, <1>2, <2>2
  <2>4. f[n] \in Int /\ f[i] \in Int
        BY <1>1, <1>2
  <2>. QED  BY <2>1, <2>3, <2>4
<1>4. f[n] \in S
      BY <1>1, <1>2
<1>. QED  BY <1>3, <1>4, Zenon DEF Max

LEMMA ElementsType ==
    ASSUME NEW X, NEW Y, NEW s \in Seq(X), \A i \in DOMAIN s : s[i] \in Y
    PROVE  s \in Seq(Y)
<1>1. Len(s) \in Nat /\ DOMAIN s = 1..Len(s) /\ s = [i \in 1..Len(s) |-> s[i]]
      OBVIOUS
<1>2. s \in [1..Len(s) -> Y]
      BY <1>1
<1>. QED  BY <1>1, <1>2

LEMMA PickType ==
    ASSUME NEW X, NEW Y, NEW s \in Seq(X), NEW I \in SUBSET (DOMAIN s), \A i \in I : s[i] \in Y
    PROVE  Pick(s, I) \in Seq(Y)
<1>1. Pick(s, I) \in Seq(X) /\ ToSet(Pick(s, I)) = {s[i] : i \in I}
      BY PickPicks
<1>2. \A k \in DOMAIN Pick(s, I) : Pick(s, I)[k] \in ToSet(Pick(s, I))
      BY DEF ToSet
<1>. QED  BY <1>1, <1>2, ElementsType

LEMMA DistinctType ==
    ASSUME NEW X, NEW s \in Seq(X)
    PROVE  Distinct(s) \in Seq(X)
<1>1. {i \in DOMAIN s : \A j \in 1..(i - 1) : s[j] # s[i]} \in SUBSET (DOMAIN s)
      OBVIOUS
<1>. QED  BY <1>1, PickPicks DEF Distinct

LEMMA BestFirstType ==
    ASSUME NEW X, NEW s \in Seq(X), NEW rank, \A i \in DOMAIN s : rank[i] \in Int
    PROVE  /\ BestFirst(s, rank) \in Seq(X)
           /\ Len(BestFirst(s, rank)) = Len(s)
           /\ ToSet(BestFirst(s, rank)) = ToSet(s)
<1>1. [i \in DOMAIN s |-> -rank[i]] \in [DOMAIN s -> Int]
      OBVIOUS
<1>. QED  BY <1>1, SortedIsOrdered DEF BestFirst

Descends(hits) == \A i, j \in DOMAIN hits : i < j => hits[i].score >= hits[j].score

LEMMA BestFirstDescends ==
    ASSUME NEW X, NEW s \in Seq(X), NEW rank,
           \A i \in DOMAIN s : rank[i] \in Int /\ s[i].score = rank[i]
    PROVE  Descends(BestFirst(s, rank))
<1>. DEFINE key == [i \in DOMAIN s |-> -rank[i]]
            n == Len(s)
<1>1. n \in Nat /\ DOMAIN s = 1..n
      OBVIOUS
<1>2. key \in [DOMAIN s -> Int] /\ \A i \in 1..n : key[i] = -rank[i]
      BY <1>1
<1>3. BestFirst(s, rank) = Sorted(s, key)
      BY DEF BestFirst
<1>. HIDE DEF key
<1>4. PICK order \in [1..n -> 1..n] : Arranges(Sorted(s, key), s, key, order)
      BY <1>2, SortedIsOrdered
<1>. HIDE DEF n
<1>5. /\ Sorted(s, key) = [i \in 1..n |-> s[order[i]]]
      /\ \A i, j \in 1..n :
            i < j => key[order[i]] < key[order[j]] \/ key[order[i]] = key[order[j]]
      BY <1>4 DEF Arranges, n
<1>6. ASSUME NEW i \in 1..n, NEW j \in 1..n, i < j
      PROVE  Sorted(s, key)[i].score >= Sorted(s, key)[j].score
  <2>1. order[i] \in 1..n /\ order[j] \in 1..n
        OBVIOUS
  <2>2. Sorted(s, key)[i].score = rank[order[i]] /\ Sorted(s, key)[j].score = rank[order[j]]
        BY <1>1, <1>5, <2>1
  <2>3. key[order[i]] = -rank[order[i]] /\ key[order[j]] = -rank[order[j]]
        BY <1>2, <2>1
  <2>4. key[order[i]] < key[order[j]] \/ key[order[i]] = key[order[j]]
        BY <1>5, <1>6
  <2>5. rank[order[i]] \in Int /\ rank[order[j]] \in Int
        BY <1>1, <2>1
  <2>. QED  BY <2>2, <2>3, <2>4, <2>5
<1>7. DOMAIN Sorted(s, key) = 1..n
      BY <1>5
<1>. QED  BY <1>3, <1>6, <1>7 DEF Descends

LEMMA TimesType ==
    ASSUME NEW X, NEW s \in Seq(X), NEW x
    PROVE  Times(s, x) \in Nat
<1>1. Len(s) \in Nat /\ DOMAIN s = 1..Len(s)
      OBVIOUS
<1>2. IsFiniteSet(DOMAIN s)
      BY <1>1, CountTo
<1>3. {i \in DOMAIN s : s[i] = x} \in SUBSET (DOMAIN s)
      OBVIOUS
<1>. QED  BY <1>2, <1>3, FS_Subset, FS_CardinalityType DEF Times

VersesIn(mode) == {v \in Verses : CanonOk(v, mode)}

\* Verses of one book are of one canon.
LEMMA CanonIsOfTheBook ==
    ASSUME NEW v, NEW w, Book(v) = Book(w), NEW mode
    PROVE  CanonOf(v) = CanonOf(w) /\ (CanonOk(v, mode) <=> CanonOk(w, mode))
<1>1. CanonOf(v) = CanonOf(w)
      BY DEF CanonOf
<1>. QED  BY <1>1, Zenon DEF CanonOk

LEMMA InCanonType ==
    ASSUME NEW s \in Seq(Verses), NEW mode
    PROVE  InCanon(s, mode) \in Seq(VersesIn(mode))
<1>. DEFINE I == {i \in DOMAIN s : CanonOk(s[i], mode)}
<1>1. I \in SUBSET (DOMAIN s) /\ \A i \in I : s[i] \in VersesIn(mode)
      BY DEF VersesIn
<1>. QED  BY <1>1, PickType DEF InCanon

LEMMA ListsType ==
    ASSUME NEW q, IsQuery(q), NEW mode
    PROVE  Lists(q, mode) \in Seq(Seq(VersesIn(mode)))
<1>. DEFINE V == VersesIn(mode)
<1>1. /\ Pool \in Nat
      /\ q.verses \in Seq(Verses)
      /\ q.pericopes \in Seq(Nat \X Nat)
      /\ \A i \in DOMAIN q.pericopes : Book(q.pericopes[i][1]) = Book(q.pericopes[i][2])
      /\ q.words \in Seq(Seq(Verses))
      BY IndexAssumption DEF IsQuery
<1>2. VectorVerses(q, mode) \in Seq(V)
  <2>1. 4 * Pool \in Nat
        BY <1>1
  <2>2. Take(q.verses, 4 * Pool) \in Seq(Verses)
        BY <1>1, <2>1, TakeTakes
  <2>3. InCanon(Take(q.verses, 4 * Pool), mode) \in Seq(V)
        BY <2>2, InCanonType
  <2>. QED  BY <1>1, <2>3, TakeTakes DEF VectorVerses
<1>3. VectorPericopes(q, mode) \in Seq(Seq(V))
  <2>. DEFINE P == {p \in Nat \X Nat : Book(p[1]) = Book(p[2])}
              C == {p \in P : CanonOk(p[1], mode)}
              near == Take(q.pericopes, 4 * Pool)
              I == {i \in DOMAIN near : CanonOk(near[i][1], mode)}
              found == NearPericopes(q, mode)
  <2>1. 4 * Pool \in Nat
        BY <1>1
  <2>2. q.pericopes \in Seq(P)
    <3>1. \A i \in DOMAIN q.pericopes : q.pericopes[i] \in Nat \X Nat
          BY <1>1
    <3>2. \A i \in DOMAIN q.pericopes : q.pericopes[i] \in P
          BY <1>1, <3>1
    <3>. QED  BY <1>1, <3>2, ElementsType
  <2>3. near \in Seq(P)
        BY <2>1, <2>2, TakeTakes
  <2>. HIDE DEF near, P
  <2>4. I \in SUBSET (DOMAIN near) /\ \A i \in I : near[i] \in C
        BY <2>3
  <2>5. Pick(near, I) \in Seq(C)
        BY <2>3, <2>4, PickType
  <2>6. found = Take(Pick(near, I), Pool)
        BY DEF NearPericopes, near
  <2>7. found \in Seq(C)
        BY <1>1, <2>5, <2>6, TakeTakes
  <2>. HIDE DEF found
  <2>8. ASSUME NEW i \in DOMAIN found
        PROVE  Ascending({v \in Verses : found[i][1] <= v /\ v <= found[i][2]}) \in Seq(V)
    <3>. DEFINE S == {v \in Verses : found[i][1] <= v /\ v <= found[i][2]}
    <3>1. found[i] \in C
          BY <2>7
    <3>2. /\ found[i][1] \in Nat /\ found[i][2] \in Nat
          /\ Book(found[i][1]) = Book(found[i][2])
          /\ CanonOk(found[i][1], mode)
          BY <3>1 DEF P
    <3>3. S \in SUBSET Int /\ IsFiniteSet(S)
      <4>1. S \in SUBSET Verses /\ IsFiniteSet(Verses) /\ Verses \subseteq Nat
            BY BibleAssumption
      <4>. HIDE DEF S
      <4>2. IsFiniteSet(S)
            BY <4>1, FS_Subset, Zenon
      <4>3. \A x \in S : x \in Nat
            BY <4>1
      <4>. QED  BY <4>2, <4>3
    <3>4. ASSUME NEW v \in S
          PROVE  v \in V
      <4>1. v \in Nat /\ found[i][1] <= v /\ v <= found[i][2] /\ v \in Verses
            BY BibleAssumption
      <4>2. Book(v) = Book(found[i][1])
            BY <3>2, <4>1 DEF Book
      <4>3. CanonOk(v, mode)
            BY <3>2, <4>2, CanonIsOfTheBook
      <4>. QED  BY <4>1, <4>3 DEF VersesIn
    <3>. HIDE DEF S
    <3>5. Ascending(S) \in Seq(S) /\ \A k \in DOMAIN Ascending(S) : Ascending(S)[k] \in S
          BY <3>3, AscendingType
    <3>6. Ascending(S) \in Seq(V)
          BY <3>4, <3>5, ElementsType
    <3>. QED  BY <3>6 DEF S
  <2>9. VectorPericopes(q, mode)
          = [i \in DOMAIN found |->
                Ascending({v \in Verses : found[i][1] <= v /\ v <= found[i][2]})]
        BY DEF VectorPericopes, VersesOf, found
  <2>10. DOMAIN found = 1..Len(found) /\ Len(found) \in Nat
        BY <2>7
  <2>. HIDE DEF V
  <2>11. VectorPericopes(q, mode) \in [1..Len(found) -> Seq(V)]
        BY <2>8, <2>9, <2>10
  <2>. QED  BY <2>10, <2>11
<1>4. Take(Distinct(FlattenSeq(VectorPericopes(q, mode))), 4 * Pool) \in Seq(V)
  <2>1. 4 * Pool \in Nat
        BY <1>1
  <2>2. FlattenSeq(VectorPericopes(q, mode)) \in Seq(V)
        BY <1>3, FlattenType
  <2>3. Distinct(FlattenSeq(VectorPericopes(q, mode))) \in Seq(V)
        BY <2>2, DistinctType
  <2>. QED  BY <2>1, <2>3, TakeTakes
<1>5. Fts(q, mode) \in Seq(Seq(V))
  <2>1. ASSUME NEW i \in DOMAIN q.words
        PROVE  Take(InCanon(q.words[i], mode), Pool) \in Seq(V)
    <3>1. q.words[i] \in Seq(Verses)
          BY <1>1
    <3>. QED  BY <1>1, <3>1, InCanonType, TakeTakes
  <2>2. DOMAIN q.words = 1..Len(q.words) /\ Len(q.words) \in Nat
        BY <1>1
  <2>. HIDE DEF V
  <2>3. Fts(q, mode) \in [1..Len(q.words) -> Seq(V)]
        BY <2>1, <2>2 DEF Fts
  <2>. QED  BY <2>2, <2>3
<1>. HIDE DEF V
<1>. QED  BY <1>2, <1>4, <1>5 DEF Lists, V

LEMMA TopicRowsType ==
    ASSUME NEW q, IsQuery(q), NEW mode
    PROVE  TopicRows(q, mode) \in Seq(VersesIn(mode))
<1>. DEFINE topics == MatchedTopics(q)
            rows == [i \in DOMAIN topics |-> Take(TopicVerses[topics[i]], TopicCap)]
<1>1. topics \in Seq(DOMAIN TopicVerses)
      BY IndexAssumption, TakeTakes DEF IsQuery, MatchedTopics
<1>. HIDE DEF topics
<1>2. DOMAIN topics = 1..Len(topics) /\ Len(topics) \in Nat
      BY <1>1
<1>3. ASSUME NEW i \in DOMAIN topics
      PROVE  Take(TopicVerses[topics[i]], TopicCap) \in Seq(Verses)
  <2>1. TopicVerses[topics[i]] \in Seq(Verses) /\ TopicCap \in Nat
        BY <1>1, IndexAssumption
  <2>. QED  BY <2>1, TakeTakes
<1>4. rows \in [1..Len(topics) -> Seq(Verses)]
      BY <1>2, <1>3
<1>. HIDE DEF rows
<1>5. rows \in Seq(Seq(Verses))
      BY <1>2, <1>4
<1>6. FlattenSeq(rows) \in Seq(Verses)
      BY <1>5, FlattenType
<1>. QED  BY <1>6, InCanonType DEF TopicRows, rows, topics

LEMMA TskRowsType ==
    ASSUME NEW anchors, NEW mode
    PROVE  TskRows(anchors, mode) \in Seq(VersesIn(mode))
<1>. DEFINE I == {i \in DOMAIN CrossRefs : CrossRefs[i][1] \in ToSet(anchors)}
            refs == TskFrom(anchors)
<1>1. CrossRefs \in Seq(Verses \X Verses) /\ 4 * TskCap \in Nat
      BY IndexAssumption
<1>2. Pick(CrossRefs, I) \in Seq(Verses \X Verses)
      BY <1>1, PickPicks
<1>3. refs \in Seq(Verses \X Verses)
      BY <1>1, <1>2, TakeTakes DEF TskFrom
<1>. HIDE DEF refs
<1>4. Targets(refs) \in Seq(Verses)
  <2>1. Len(refs) \in Nat /\ DOMAIN refs = 1..Len(refs)
        BY <1>3
  <2>2. Targets(refs) \in [1..Len(refs) -> Verses]
        BY <1>3, <2>1 DEF Targets
  <2>. QED  BY <2>1, <2>2
<1>. QED  BY <1>4, InCanonType DEF TskRows, refs

LEMMA TskKeptType ==
    ASSUME NEW X, NEW rows \in Seq(X)
    PROVE  TskKept(rows) \in Seq(X)
<1>. DEFINE targets == Distinct(rows)
            times == [i \in DOMAIN targets |-> Times(rows, targets[i])]
<1>1. targets \in Seq(X)
      BY DistinctType
<1>. HIDE DEF targets
<1>2. \A i \in DOMAIN targets : times[i] \in Int
      BY TimesType
<1>. HIDE DEF times
<1>3. BestFirst(targets, times) \in Seq(X)
      BY <1>1, <1>2, BestFirstType
<1>4. TskKept(rows) = Take(BestFirst(targets, times), TskCap)
      BY DEF TskKept, targets, times
<1>. QED  BY <1>3, <1>4, TakeTakes, IndexAssumption

----------------------------------------------------------------------------
(* The scores, and what is found.                                          *)

LEMMA FusedType ==
    ASSUME NEW X, NEW lists \in Seq(Seq(X)), NEW v
    PROVE  Fused(lists, v) \in Nat
<1>. DEFINE Cells(i) == {i} \X DOMAIN lists[i]
            All == UNION {Cells(i) : i \in DOMAIN lists}
            P == Places(lists, v)
            recip == [at \in P |-> Reciprocal(at[2])]
<1>1. Len(lists) \in Nat /\ DOMAIN lists = 1..Len(lists)
      OBVIOUS
<1>2. ASSUME NEW i \in DOMAIN lists
      PROVE  IsFiniteSet(Cells(i)) /\ DOMAIN lists[i] \subseteq Nat
  <2>1. lists[i] \in Seq(X)
        OBVIOUS
  <2>2. Len(lists[i]) \in Nat /\ DOMAIN lists[i] = 1..Len(lists[i])
        BY <2>1
  <2>3. IsFiniteSet(DOMAIN lists[i]) /\ IsFiniteSet({i})
        BY <2>2, CountTo, FS_Singleton
  <2>4. IsFiniteSet({i} \X DOMAIN lists[i])
        BY <2>3, FS_Product, Zenon
  <2>. QED  BY <2>2, <2>4
<1>3. IsFiniteSet(DOMAIN lists)
      BY <1>1, CountTo
<1>4. IsFiniteSet(All)
  <2>. DEFINE C == {Cells(i) : i \in DOMAIN lists}
              cell == [i \in DOMAIN lists |-> Cells(i)]
  <2>. HIDE DEF Cells
  <2>1. cell \in Surjection(DOMAIN lists, C)
        BY DEF Surjection
  <2>2. IsFiniteSet(C)
        BY <1>3, <2>1, FS_Surjection
  <2>3. \A T \in C : IsFiniteSet(T)
        BY <1>2
  <2>. HIDE DEF C
  <2>4. IsFiniteSet(UNION C)
        BY <2>2, <2>3, FS_UNION
  <2>. QED  BY <2>4 DEF C
<1>5. P \in SUBSET All
      BY DEF Places
<1>6. IsFiniteSet(P)
      BY <1>4, <1>5, FS_Subset
<1>7. ASSUME NEW at \in P
      PROVE  Reciprocal(at[2]) \in Nat
  <2>1. PICK i \in DOMAIN lists : at \in Cells(i)
        BY <1>5
  <2>2. at[2] \in DOMAIN lists[i]
        BY <2>1
  <2>3. at[2] \in Nat
        BY <1>2, <2>2
  <2>. HIDE DEF P
  <2>4. \A n \in Nat : (1000000 + (60 + n) \div 2) \div (60 + n) \in Nat
    <3>1. ASSUME NEW n \in Nat
          PROVE  (1000000 + (60 + n) \div 2) \div (60 + n) \in Nat
      <4>. DEFINE a == (60 + n) \div 2
      <4>1. a \in Nat
            OBVIOUS
      <4>. HIDE DEF a
      <4>2. (1000000 + a) \div (60 + n) \in Nat
            BY <4>1
      <4>. QED  BY <4>2 DEF a
    <3>. QED  BY <3>1
  <2>. QED  BY <2>3, <2>4 DEF Reciprocal
<1>. HIDE DEF P
<1>8. recip \in [P -> Nat]
      BY <1>7
<1>9. SumFunction(recip) \in Nat
      BY <1>6, <1>8, SumType
<1>. QED  BY <1>9 DEF Fused, P

LEMMA BonusType ==
    ASSUME NEW X, NEW rows \in Seq(X), NEW v
    PROVE  TopicBonus(rows, v) \in Nat /\ TskBonus(rows, v) \in Nat
<1>1. Times(rows, v) \in Nat
      BY TimesType
<1>2. AtMost(Times(rows, v), 3) \in Nat /\ AtMost(Times(rows, v), 4) \in Nat
      BY <1>1 DEF AtMost
<1>. QED  BY <1>2 DEF TopicBonus, TskBonus

LEMMA SoFarType ==
    ASSUME NEW V, NEW lists \in Seq(Seq(V)), NEW topics \in Seq(V)
    PROVE  \E D \in SUBSET V : SoFar(lists, topics) \in [D -> Nat]
<1>. DEFINE D == ToSet(FlattenSeq(lists)) \cup ToSet(topics)
<1>1. FlattenSeq(lists) \in Seq(V)
      BY FlattenType
<1>2. D \in SUBSET V
      BY <1>1 DEF ToSet
<1>3. \A v \in D : Fused(lists, v) + TopicBonus(topics, v) \in Nat
      BY FusedType, BonusType
<1>. HIDE DEF D
<1>4. SoFar(lists, topics) = [v \in D |-> Fused(lists, v) + TopicBonus(topics, v)]
      BY DEF SoFar, D
<1>5. SoFar(lists, topics) \in [D -> Nat]
      BY <1>3, <1>4
<1>. QED  BY <1>2, <1>5

LEMMA WithTskType ==
    ASSUME NEW V, NEW D \in SUBSET V, NEW score \in [D -> Nat], NEW rows \in Seq(V)
    PROVE  \E E \in SUBSET V : WithTsk(score, rows) \in [E -> Nat]
<1>. DEFINE kept == TskKept(rows)
            E == D \cup ToSet(kept)
            Adds(v) == (IF v \in D THEN score[v] ELSE 0)
                       + (IF v \in ToSet(kept) THEN TskBonus(rows, v) ELSE 0)
<1>1. kept \in Seq(V)
      BY TskKeptType
<1>2. E \in SUBSET V
      BY <1>1 DEF ToSet
<1>3. \A v \in E : Adds(v) \in Nat
      BY BonusType
<1>4. WithTsk(score, rows) = [v \in E |-> Adds(v)]
      BY DEF WithTsk, AddTsk
<1>. HIDE DEF E, Adds
<1>5. WithTsk(score, rows) \in [E -> Nat]
      BY <1>3, <1>4
<1>. QED  BY <1>2, <1>5

Hits(mode) == [verse : VersesIn(mode), score : Int]

LEMMA RankedType ==
    ASSUME NEW mode, NEW D \in SUBSET VersesIn(mode), NEW score \in [D -> Nat]
    PROVE  Ranked(score) \in Seq(Hits(mode)) /\ Descends(Ranked(score))
<1>. DEFINE verses == Ascending(DOMAIN score)
            scores == [i \in DOMAIN verses |-> score[verses[i]]]
            hits == [i \in DOMAIN verses |-> [verse |-> verses[i], score |-> scores[i]]]
<1>1. D \in SUBSET Verses /\ IsFiniteSet(Verses) /\ Verses \subseteq Nat
      BY BibleAssumption DEF VersesIn
<1>2. IsFiniteSet(D) /\ D \in SUBSET Int /\ DOMAIN score = D
  <2>1. IsFiniteSet(D)
        BY <1>1, FS_Subset, Zenon
  <2>2. \A x \in D : x \in Nat
        BY <1>1
  <2>. QED  BY <2>1, <2>2
<1>3. verses \in Seq(D)
      BY <1>2, AscendingType
<1>. HIDE DEF verses
<1>4. Len(verses) \in Nat /\ DOMAIN verses = 1..Len(verses) /\ \A i \in DOMAIN verses : verses[i] \in D
      BY <1>3
<1>5. \A i \in DOMAIN verses : scores[i] \in Int
      BY <1>4
<1>6. hits \in [1..Len(verses) -> Hits(mode)]
      BY <1>4, <1>5 DEF Hits
<1>7. /\ hits \in Seq(Hits(mode)) /\ DOMAIN hits = DOMAIN verses
      /\ \A i \in DOMAIN hits : scores[i] \in Int /\ hits[i].score = scores[i]
      BY <1>4, <1>5, <1>6
<1>. HIDE DEF hits, scores
<1>8. BestFirst(hits, scores) \in Seq(Hits(mode)) /\ Descends(BestFirst(hits, scores))
      BY <1>7, BestFirstType, BestFirstDescends
<1>. QED  BY <1>8 DEF Ranked, verses, scores, hits

LEMMA SearchOneType ==
    ASSUME NEW q, IsQuery(q), NEW mode
    PROVE  SearchOne(q, mode) \in Seq(Hits(mode)) /\ Descends(SearchOne(q, mode))
<1>. DEFINE V == VersesIn(mode)
            lists == Lists(q, mode)
            topics == TopicRows(q, mode)
            anchors == Anchors(Distinct(FlattenSeq(lists) \o topics), SoFar(lists, topics))
            rows == TskRows(anchors, mode)
<1>1. lists \in Seq(Seq(V)) /\ topics \in Seq(V)
      BY ListsType, TopicRowsType
<1>2. rows \in Seq(V)
      BY TskRowsType
<1>. HIDE DEF V, lists, topics, rows
<1>3. PICK D \in SUBSET V : SoFar(lists, topics) \in [D -> Nat]
      BY <1>1, SoFarType
<1>4. PICK E \in SUBSET V : WithTsk(SoFar(lists, topics), rows) \in [E -> Nat]
      BY <1>2, <1>3, WithTskType
<1>5. /\ Ranked(WithTsk(SoFar(lists, topics), rows)) \in Seq(Hits(mode))
      /\ Descends(Ranked(WithTsk(SoFar(lists, topics), rows)))
      BY <1>4, RankedType DEF V
<1>. QED  BY <1>5 DEF SearchOne, Fuse, FuseNamed, lists, topics, rows

LEMMA HitsOfBoth ==
    ASSUME NEW mode
    PROVE  VersesIn(mode) \subseteq VersesIn("both") /\ Hits(mode) \subseteq Hits("both")
<1>1. VersesIn(mode) \subseteq VersesIn("both")
      BY DEF VersesIn, CanonOk
<1>. QED  BY <1>1 DEF Hits

\* With the Deuterocanon the search finds what it finds without, and then verses
\* of the Deuterocanon that are scored below all of it.
LEMMA BothAddsASlice ==
    ASSUME NEW q, IsQuery(q)
    PROVE  \E slice \in Seq(Hits("deutero-only")) :
              /\ Search(q, "both") = Search(q, "66") \o slice
              /\ \A g \in ToSet(Search(q, "66")), h \in ToSet(slice) : g.score > h.score
<1>. DEFINE base == SearchOne(q, "66")
            full == SearchOne(q, "deutero-only")
            floor == IF base = <<>> THEN 0 ELSE Last(base).score
            top == Take(full, DeuteroSlice)
            slice == Slice(full, floor)
<1>1. base \in Seq(Hits("66")) /\ Descends(base) /\ full \in Seq(Hits("deutero-only"))
      BY SearchOneType
<1>2. top \in Seq(Hits("deutero-only")) /\ \A i \in 1..Len(top) : top[i] = full[i]
      BY <1>1, TakeTakes, IndexAssumption
<1>3. Search(q, "both") = base \o slice /\ Search(q, "66") = base
      BY DEF Search, AddSlice
<1>. HIDE DEF base, full
<1>4. floor \in Int /\ \A g \in ToSet(base) : g.score \in Int /\ g.score >= floor
  <2>1. CASE base = <<>>
        BY <2>1 DEF ToSet
  <2>2. CASE base # <<>>
    <3>1. Len(base) \in Nat /\ DOMAIN base = 1..Len(base) /\ Len(base) \in 1..Len(base)
          BY <1>1, <2>2
    <3>2. \A i \in DOMAIN base : base[i].score \in Int
      <4>1. \A i \in DOMAIN base : base[i] \in Hits("66")
            BY <1>1
      <4>. QED  BY <4>1 DEF Hits
    <3>3. floor = base[Len(base)].score
          BY <2>2 DEF Last
    <3>. HIDE DEF floor
    <3>4. ASSUME NEW i \in DOMAIN base
          PROVE  base[i].score >= floor
      <4>1. CASE i < Len(base)
            BY <1>1, <3>1, <3>3, <4>1 DEF Descends
      <4>2. CASE i = Len(base)
            BY <3>1, <3>2, <3>3, <4>2
      <4>. QED  BY <3>1, <4>1, <4>2
    <3>. QED  BY <3>1, <3>2, <3>3, <3>4 DEF ToSet
  <2>. QED  BY <2>1, <2>2
<1>. HIDE DEF floor, top
<1>5. Len(top) \in Nat /\ DOMAIN top = 1..Len(top)
      BY <1>2
<1>6. slice = [i \in DOMAIN top |-> [full[i] EXCEPT !.score = floor - i]]
      BY DEF Slice, top
<1>. HIDE DEF slice
<1>7. ASSUME NEW i \in DOMAIN top
      PROVE  /\ slice[i] \in Hits("deutero-only")
             /\ slice[i].score = floor - i /\ i >= 1
  <2>1. full[i] \in Hits("deutero-only") /\ floor - i \in Int
        BY <1>2, <1>4, <1>5
  <2>2. slice[i] = [full[i] EXCEPT !.score = floor - i]
        BY <1>6
  <2>. QED  BY <1>5, <2>1, <2>2 DEF Hits
<1>8. slice \in [1..Len(top) -> Hits("deutero-only")]
      BY <1>5, <1>6, <1>7
<1>9. slice \in Seq(Hits("deutero-only")) /\ DOMAIN slice = DOMAIN top
      BY <1>5, <1>8
<1>10. ASSUME NEW g \in ToSet(base), NEW h \in ToSet(slice)
       PROVE  g.score > h.score
  <2>1. PICK i \in DOMAIN top : h = slice[i]
        BY <1>9 DEF ToSet
  <2>2. h.score = floor - i /\ i \in Nat /\ i >= 1
        BY <1>5, <1>7, <2>1
  <2>. QED  BY <1>4, <2>2
<1>. QED  BY <1>3, <1>9, <1>10

\* Every hit is a verse of the index and of the canon that is read.
LEMMA SearchType ==
    ASSUME NEW q, IsQuery(q), NEW mode
    PROVE  Search(q, mode) \in Seq(Hits(mode))
<1>1. \A m : m # "both" => Search(q, m) \in Seq(Hits(m))
      BY SearchOneType DEF Search
<1>2. CASE mode = "both"
  <2>1. PICK slice \in Seq(Hits("deutero-only")) : Search(q, "both") = Search(q, "66") \o slice
        BY BothAddsASlice
  <2>. DEFINE base == Search(q, "66")
  <2>2. base \in Seq(Hits("66"))
        BY <1>1
  <2>. HIDE DEF base
  <2>3. base \in Seq(Hits("both")) /\ slice \in Seq(Hits("both"))
    <3>1. Hits("66") \subseteq Hits("both") /\ Hits("deutero-only") \subseteq Hits("both")
          BY HitsOfBoth
    <3>. QED  BY <2>2, <3>1
  <2>4. base \o slice \in Seq(Hits("both"))
        BY <2>3
  <2>. QED  BY <1>2, <2>1, <2>4 DEF base
<1>. QED  BY <1>1, <1>2

----------------------------------------------------------------------------
(* Verse ids.                                                              *)

\* Division leaves one quotient and one remainder.
LEMMA Divides ==
    ASSUME NEW m \in Nat \ {0}, NEW v \in Nat
    PROVE  /\ v \div m \in Nat /\ v % m \in Nat /\ v % m < m
           /\ v = (v \div m) * m + (v % m)
BY SMT

LEMMA DividesOneWay ==
    ASSUME NEW m \in Nat \ {0}, NEW v \in Nat, NEW q \in Nat, NEW r \in Nat,
           v = q * m + r, r < m
    PROVE  v \div m = q /\ v % m = r
BY SMT

\* A verse id is made of its parts, and gives them back.
LEMMA PartsOfAnId ==
    ASSUME NEW b \in Nat, NEW c \in Nat, NEW n \in Nat, c < 1000, n < 1000
    PROVE  /\ Book(VerseId(b, c, n)) = b
           /\ Chapter(VerseId(b, c, n)) = c
           /\ Num(VerseId(b, c, n)) = n
<1>. DEFINE r == c * 1000 + n
            v == VerseId(b, c, n)
<1>1. r \in Nat /\ r < 1000000
      BY SMT
<1>2. v \in Nat /\ v = b * 1000000 + r
      BY SMT DEF VerseId
<1>3. v = (b * 1000 + c) * 1000 + n /\ b * 1000 + c \in Nat
      BY SMT DEF VerseId
<1>. HIDE DEF v
<1>4. r \div 1000 = c
      BY <1>1, DividesOneWay, SMT
<1>. HIDE DEF r
<1>5. v \div 1000000 = b /\ v % 1000000 = r
      BY <1>1, <1>2, DividesOneWay, SMT
<1>6. v % 1000 = n
      BY <1>2, <1>3, DividesOneWay, SMT
<1>. QED  BY <1>4, <1>5, <1>6, SMT DEF Book, Chapter, Num, v

LEMMA IdOfItsParts ==
    ASSUME NEW v \in Nat
    PROVE  /\ VerseId(Book(v), Chapter(v), Num(v)) = v
           /\ Book(v) \in Nat
           /\ Chapter(v) \in Nat /\ Chapter(v) < 1000
           /\ Num(v) \in Nat /\ Num(v) < 1000
<1>. DEFINE b == v \div 1000000
            r == v % 1000000
            c == r \div 1000
            n == r % 1000
<1>1. b \in Nat /\ r \in Nat /\ r < 1000000 /\ v = b * 1000000 + r
      BY Divides, SMT
<1>. HIDE DEF b, r
<1>2. c \in Nat /\ n \in Nat /\ n < 1000 /\ r = c * 1000 + n
      BY <1>1, Divides, SMT
<1>. HIDE DEF c, n
<1>3. c < 1000
      BY <1>1, <1>2, SMT
<1>4. v = (b * 1000 + c) * 1000 + n /\ b * 1000 + c \in Nat
      BY <1>1, <1>2, SMT
<1>5. v % 1000 = n
      BY <1>2, <1>4, DividesOneWay, SMT
<1>6. Book(v) = b /\ Chapter(v) = c /\ Num(v) = n
      BY <1>5, SMT DEF Book, Chapter, Num, b, c, r
<1>7. VerseId(b, c, n) = v
      BY <1>1, <1>2, SMT DEF VerseId
<1>. QED  BY <1>1, <1>2, <1>3, <1>6, <1>7, SMT

LEMMA SameParts ==
    ASSUME NEW v \in Nat, NEW w \in Nat,
           Book(v) = Book(w), Chapter(v) = Chapter(w), Num(v) = Num(w)
    PROVE  v = w
<1>1. /\ VerseId(Book(v), Chapter(v), Num(v)) = v
      /\ VerseId(Book(w), Chapter(w), Num(w)) = w
      BY IdOfItsParts
<1>. QED  BY <1>1

\* Books and chapters ascend with the verse ids.
LEMMA IdsAscend ==
    ASSUME NEW v \in Verses, NEW w \in Verses, v < w
    PROVE  /\ Book(v) <= Book(w)
           /\ Book(v) = Book(w) => Chapter(v) <= Chapter(w)
<1>1. v \in Nat /\ w \in Nat
      BY BibleAssumption
<1>. DEFINE bv == Book(v)  cv == Chapter(v)  nv == Num(v)
            bw == Book(w)  cw == Chapter(w)  nw == Num(w)
<1>2. /\ bv \in Nat /\ cv \in Nat /\ cv < 1000 /\ nv \in Nat /\ nv < 1000
      /\ bw \in Nat /\ cw \in Nat /\ cw < 1000 /\ nw \in Nat /\ nw < 1000
      BY <1>1, IdOfItsParts
<1>3. v = VerseId(bv, cv, nv) /\ w = VerseId(bw, cw, nw)
      BY <1>1, IdOfItsParts
<1>. HIDE DEF bv, cv, nv, bw, cw, nw
<1>4. bv * 1000000 + cv * 1000 + nv < bw * 1000000 + cw * 1000 + nw
      BY <1>3, SMT DEF VerseId
<1>5. bv <= bw
      BY <1>2, <1>4, SMT
<1>6. bv = bw => cv <= cw
      BY <1>2, <1>4, SMT
<1>. QED  BY <1>5, <1>6 DEF bv, cv, bw, cw

----------------------------------------------------------------------------
(* Runs of verses, and the passages made of them.                          *)

OneChapter(ids) ==
    \A i \in DOMAIN ids : Book(ids[i]) = Book(ids[1]) /\ Chapter(ids[i]) = Chapter(ids[1])

\* Runs lie side by side: each begins where the verses are taken apart, and none
\* is taken apart within.
CutsInto(ids, m, first, last) ==
    /\ Runs(ids) = [k \in 1..m |-> SubSeq(ids, first[k], last[k])]
    /\ \A k \in 1..m :
          /\ first[k] <= last[k]
          /\ Begins(ids, first[k])
          /\ \A i \in (first[k] + 1)..last[k] : ~Begins(ids, i)
          /\ last[k] = Len(ids) \/ Begins(ids, last[k] + 1)
    /\ \A i \in DOMAIN ids : Begins(ids, i) => \E k \in 1..m : first[k] = i
    /\ \A k, l \in 1..m : k < l <=> first[k] < first[l]

LEMMA RunsCut ==
    ASSUME NEW X, NEW ids \in Seq(X)
    PROVE  \E m \in Nat :
              \E first \in [1..m -> 1..Len(ids)], last \in [1..m -> 1..Len(ids)] :
                  CutsInto(ids, m, first, last)
<1>. DEFINE n == Len(ids)
            I == {i \in DOMAIN ids : Begins(ids, i)}
            starts == Ascending(I)
            m == Cardinality(I)
            end(k) == IF k = m THEN n ELSE starts[k + 1] - 1
<1>1. n \in Nat /\ DOMAIN ids = 1..n /\ IsFiniteSet(1..n)
      BY CountTo
<1>2. I \in SUBSET (1..n)
      BY <1>1
<1>3. IsFiniteSet(I) /\ I \in SUBSET Int
      BY <1>1, <1>2, FS_Subset
<1>4. /\ m \in Nat
      /\ starts \in [1..m -> I]
      /\ \A i \in I : \E k \in 1..m : starts[k] = i
      /\ \A k, l \in 1..m : k < l <=> starts[k] < starts[l]
      BY <1>3, AscendingIsOrdered
<1>5. Len(starts) = m /\ DOMAIN starts = 1..m
      BY <1>3, AscendingType
<1>6. Runs(ids) = [k \in 1..m |-> SubSeq(ids, starts[k], end(k))]
      BY <1>5 DEF Runs
<1>. HIDE DEF m, starts
<1>7. ASSUME NEW k \in 1..m
      PROVE  /\ starts[k] \in 1..n /\ end(k) \in 1..n /\ starts[k] <= end(k)
             /\ \A i \in (starts[k] + 1)..end(k) : i \notin I
             /\ end(k) = n \/ end(k) + 1 \in I
  <2>1. starts[k] \in 1..n
        BY <1>2, <1>4
  <2>2. CASE k = m
    <3>1. \A i \in (starts[k] + 1)..end(k) : i \notin I
      <4>1. SUFFICES ASSUME NEW i \in (starts[k] + 1)..n, i \in I
                     PROVE  FALSE
            BY <2>2
      <4>2. PICK l \in 1..m : starts[l] = i
            BY <1>4, <4>1
      <4>3. starts[k] < starts[l]
            BY <2>1, <4>2
      <4>4. k < l
            BY <1>4, <4>3
      <4>. QED  BY <1>4, <2>2, <4>4
    <3>. QED  BY <1>1, <2>1, <2>2, <3>1
  <2>3. CASE k # m
    <3>1. k + 1 \in 1..m /\ k < k + 1
          BY <1>4, <2>3
    <3>2. starts[k + 1] \in 1..n /\ starts[k] < starts[k + 1]
          BY <1>2, <1>4, <3>1
    <3>3. end(k) = starts[k + 1] - 1
          BY <2>3
    <3>4. end(k) \in 1..n /\ starts[k] <= end(k)
          BY <1>1, <2>1, <3>2, <3>3
    <3>5. ASSUME NEW i \in (starts[k] + 1)..end(k), i \in I
          PROVE  FALSE
      <4>1. PICK l \in 1..m : starts[l] = i
            BY <1>4, <3>5
      <4>2. starts[k] < starts[l] /\ starts[l] < starts[k + 1]
            BY <1>1, <2>1, <3>2, <3>3, <4>1
      <4>3. k < l /\ l < k + 1
            BY <1>4, <3>1, <4>2
      <4>. QED  BY <1>4, <4>3
    <3>6. end(k) + 1 \in I
          BY <1>1, <1>4, <3>1, <3>2, <3>3
    <3>. QED  BY <2>1, <3>4, <3>5, <3>6
  <2>. QED  BY <2>2, <2>3
<1>. HIDE DEF end
<1>. DEFINE last == [k \in 1..m |-> end(k)]
<1>8. /\ starts \in [1..m -> 1..n] /\ last \in [1..m -> 1..n]
      /\ \A k \in 1..m : last[k] = end(k)
      BY <1>2, <1>4, <1>7
<1>9. Runs(ids) = [k \in 1..m |-> SubSeq(ids, starts[k], last[k])]
       BY <1>6
<1>. HIDE DEF last
<1>10. ASSUME NEW k \in 1..m
       PROVE  /\ starts[k] <= last[k]
              /\ Begins(ids, starts[k])
              /\ \A i \in (starts[k] + 1)..last[k] : ~Begins(ids, i)
              /\ last[k] = n \/ Begins(ids, last[k] + 1)
  <2>1. starts[k] \in I /\ last[k] = end(k)
        BY <1>4, <1>8
  <2>2. ASSUME NEW i \in (starts[k] + 1)..last[k]
        PROVE  ~Begins(ids, i)
    <3>1. i \in DOMAIN ids /\ i \notin I
          BY <1>1, <1>7, <2>1
    <3>. QED  BY <3>1
  <2>. QED  BY <1>7, <2>1, <2>2
<1>11. CutsInto(ids, m, starts, last)
       BY <1>4, <1>9, <1>10 DEF CutsInto
<1>. QED  BY <1>4, <1>8, <1>11

\* Every run has a verse, and all its verses are of one chapter.
LEMMA RunsType ==
    ASSUME NEW X, NEW ids \in Seq(X)
    PROVE  /\ Runs(ids) \in Seq(Seq(X))
           /\ \A k \in DOMAIN Runs(ids) : Runs(ids)[k] # <<>> /\ OneChapter(Runs(ids)[k])
<1>. DEFINE n == Len(ids)
<1>1. n \in Nat /\ DOMAIN ids = 1..n
      OBVIOUS
<1>. PICK m \in Nat :
        \E first \in [1..m -> 1..n], last \in [1..m -> 1..n] : CutsInto(ids, m, first, last)
     BY RunsCut
<1>2. PICK first \in [1..m -> 1..n], last \in [1..m -> 1..n] : CutsInto(ids, m, first, last)
      OBVIOUS
<1>3. ASSUME NEW k \in 1..m
      PROVE  /\ Runs(ids)[k] \in Seq(X)
             /\ Runs(ids)[k] # <<>>
             /\ OneChapter(Runs(ids)[k])
  <2>. DEFINE a == first[k]
              b == last[k]
              run == SubSeq(ids, a, b)
              Same(i) == Book(ids[i]) = Book(ids[a]) /\ Chapter(ids[i]) = Chapter(ids[a])
  <2>1. a \in 1..n /\ b \in 1..n /\ a <= b /\ \A i \in (a + 1)..b : ~Begins(ids, i)
        BY <1>2 DEF CutsInto
  <2>2. Runs(ids)[k] = run
        BY <1>2 DEF CutsInto
  <2>. HIDE DEF a, b
  <2>3. run \in Seq(X) /\ Len(run) = b - a + 1 /\ \A i \in 1..(b - a + 1) : run[i] = ids[a + i - 1]
        BY <1>1, <2>1
  <2>4. ASSUME NEW i \in (a + 1)..b
        PROVE  Book(ids[i - 1]) = Book(ids[i]) /\ Chapter(ids[i - 1]) = Chapter(ids[i])
    <3>1. i \in DOMAIN ids /\ ~Begins(ids, i)
          BY <1>1, <2>1
    <3>. QED  BY <3>1 DEF Begins, Adjacent
  <2>. DEFINE E == {i \in a..b : ~Same(i)}
  <2>5. E = {}
    <3>1. SUFFICES ASSUME E # {}
                   PROVE  FALSE
          OBVIOUS
    <3>2. E \in SUBSET Nat
          BY <1>1, <2>1
    <3>. HIDE DEF Same
    <3>3. PICK i \in E : \A j \in E : i <= j
          BY <3>1, <3>2, Least
    <3>4. i # a
          BY DEF Same
    <3>5. i \in (a + 1)..b /\ i - 1 \in a..b /\ ~(i <= i - 1)
          BY <1>1, <2>1, <3>4
    <3>6. Same(i - 1)
          BY <3>3, <3>5
    <3>7. Same(i)
          BY <2>4, <3>5, <3>6 DEF Same
    <3>. QED  BY <3>7
  <2>6. \A i \in a..b : Same(i)
        BY <2>5
  <2>7. Len(run) \in Nat /\ Len(run) >= 1
        BY <1>1, <2>1, <2>3
  <2>8. ASSUME NEW i \in DOMAIN run
        PROVE  Book(run[i]) = Book(run[1]) /\ Chapter(run[i]) = Chapter(run[1])
    <3>1. i \in 1..(b - a + 1) /\ 1 \in 1..(b - a + 1)
          BY <2>3, <2>7
    <3>2. run[i] = ids[a + i - 1] /\ run[1] = ids[a + 1 - 1] /\ a + 1 - 1 = a
          BY <2>1, <2>3, <3>1
    <3>3. a + i - 1 \in a..b
          BY <1>1, <2>1, <3>1
    <3>4. Same(a + i - 1)
          BY <2>6, <3>3
    <3>. QED  BY <3>2, <3>4
  <2>. HIDE DEF run
  <2>9. run # <<>>
        BY <2>3, <2>7
  <2>. QED  BY <2>2, <2>3, <2>8, <2>9 DEF OneChapter
<1>4. Runs(ids) \in [1..m -> Seq(X)]
      BY <1>2, <1>3 DEF CutsInto
<1>5. Runs(ids) \in Seq(Seq(X)) /\ DOMAIN Runs(ids) = 1..m
      BY <1>4
<1>. QED  BY <1>3, <1>5

Passages(mode) ==
    [ids : {s \in Seq(VersesIn(mode)) : s # <<>> /\ OneChapter(s)},
     score : Int, canon : {"protestant", "deutero"}]

VersesFound(hits) == {hit.verse : hit \in ToSet(hits)}

LEMMA FoundType ==
    ASSUME NEW mode, NEW hits \in Seq(Hits(mode))
    PROVE  /\ VersesFound(hits) \in SUBSET VersesIn(mode)
           /\ VersesFound(hits) \in SUBSET Verses
           /\ VersesFound(hits) \in SUBSET Int
           /\ IsFiniteSet(VersesFound(hits))
<1>. DEFINE S == VersesFound(hits)
<1>1. S \in SUBSET VersesIn(mode)
  <2>1. \A i \in DOMAIN hits : hits[i] \in Hits(mode)
        OBVIOUS
  <2>2. \A hit \in ToSet(hits) : hit.verse \in VersesIn(mode)
        BY <2>1 DEF ToSet, Hits
  <2>. QED  BY <2>2 DEF VersesFound
<1>2. VersesIn(mode) \in SUBSET Verses /\ IsFiniteSet(Verses) /\ Verses \subseteq Nat
      BY BibleAssumption DEF VersesIn
<1>. HIDE DEF S
<1>3. S \in SUBSET Verses
      BY <1>1, <1>2
<1>4. IsFiniteSet(S)
      BY <1>2, <1>3, FS_Subset, Zenon
<1>5. \A x \in S : x \in Nat
      BY <1>2, <1>3
<1>. QED  BY <1>1, <1>3, <1>4, <1>5 DEF S

\* The score of a run is one of its verses' scores, and none of them is higher.
LEMMA ScoreOfARun ==
    ASSUME NEW mode, NEW hits \in Seq(Hits(mode)),
           NEW ids \in Seq(VersesFound(hits)), ids # <<>>
    PROVE  /\ RunScore(hits, ids) \in Int
           /\ \E h \in ToSet(hits) : h.verse \in ToSet(ids) /\ h.score = RunScore(hits, ids)
           /\ \A h \in ToSet(hits) : h.verse \in ToSet(ids) => RunScore(hits, ids) >= h.score
<1>. DEFINE H == {h \in ToSet(hits) : h.verse \in ToSet(ids)}
            T == {hit.score : hit \in H}
<1>1. Len(hits) \in Nat /\ DOMAIN hits = 1..Len(hits) /\ \A i \in DOMAIN hits : hits[i] \in Hits(mode)
      OBVIOUS
<1>2. T \in SUBSET Int
      BY <1>1 DEF ToSet, Hits
<1>3. T # {}
  <2>1. ids[1] \in VersesFound(hits) /\ ids[1] \in ToSet(ids)
        BY DEF ToSet
  <2>2. PICK h \in ToSet(hits) : h.verse = ids[1]
        BY <2>1 DEF VersesFound
  <2>. QED  BY <2>1, <2>2
<1>4. IsFiniteSet(T)
  <2>1. IsFiniteSet(DOMAIN hits)
        BY <1>1, CountTo
  <2>. DEFINE score == [i \in DOMAIN hits |-> hits[i].score]
              U == {hits[i].score : i \in DOMAIN hits}
  <2>2. score \in Surjection(DOMAIN hits, U)
        BY DEF Surjection
  <2>3. IsFiniteSet(U)
        BY <2>1, <2>2, FS_Surjection, Zenon
  <2>4. T \in SUBSET U
        BY DEF ToSet
  <2>. QED  BY <2>3, <2>4, FS_Subset, Zenon
<1>5. Max(T) \in T /\ \A y \in T : Max(T) >= y
      BY <1>2, <1>3, <1>4, MaxIsIn
<1>6. RunScore(hits, ids) = Max(T)
      BY DEF RunScore
<1>7. Max(T) \in Int
      BY <1>2, <1>5
<1>8. \E h \in ToSet(hits) : h.verse \in ToSet(ids) /\ h.score = Max(T)
      BY <1>5
<1>9. \A h \in ToSet(hits) : h.verse \in ToSet(ids) => h.score \in T
      OBVIOUS
<1>. HIDE DEF T
<1>. QED  BY <1>5, <1>6, <1>7, <1>8, <1>9

\* Every run of what was found makes a passage: it has a verse, its verses are of
\* one chapter, of the index, and of the canon that is read.
LEMMA PassagesType ==
    ASSUME NEW mode, NEW hits \in Seq(Hits(mode))
    PROVE  LET runs == Runs(Ascending(VersesFound(hits)))
               passages == [k \in DOMAIN runs |-> Passage(hits, runs[k])]
           IN /\ passages \in Seq(Passages(mode))
              /\ \A k \in DOMAIN runs : passages[k].score \in Int
<1>. DEFINE S == VersesFound(hits)
            runs == Runs(Ascending(S))
            passages == [k \in DOMAIN runs |-> Passage(hits, runs[k])]
<1>1. S \in SUBSET VersesIn(mode) /\ S \in SUBSET Int /\ IsFiniteSet(S)
      BY FoundType
<1>2. Ascending(S) \in Seq(S)
      BY <1>1, AscendingType
<1>3. /\ runs \in Seq(Seq(S))
      /\ \A k \in DOMAIN runs : runs[k] # <<>> /\ OneChapter(runs[k])
      BY <1>2, RunsType
<1>. HIDE DEF runs
<1>4. ASSUME NEW k \in DOMAIN runs
      PROVE  Passage(hits, runs[k]) \in Passages(mode)
  <2>1. runs[k] \in Seq(S) /\ runs[k] # <<>> /\ OneChapter(runs[k])
        BY <1>3
  <2>2. runs[k] \in Seq(VersesIn(mode))
        BY <1>1, <2>1
  <2>3. RunScore(hits, runs[k]) \in Int
        BY <2>1, ScoreOfARun
  <2>4. CanonOf(runs[k][1]) \in {"protestant", "deutero"}
        BY DEF CanonOf
  <2>. QED  BY <2>1, <2>2, <2>3, <2>4 DEF Passage, Passages
<1>5. Len(runs) \in Nat /\ DOMAIN runs = 1..Len(runs)
      BY <1>3
<1>6. passages \in [1..Len(runs) -> Passages(mode)]
      BY <1>4, <1>5
<1>7. passages \in Seq(Passages(mode))
      BY <1>5, <1>6
<1>8. \A k \in DOMAIN runs : passages[k].score \in Int
      BY <1>4 DEF Passages
<1>. QED  BY <1>7, <1>8 DEF runs

LEMMA AsRangesType ==
    ASSUME NEW mode, NEW hits \in Seq(Hits(mode))
    PROVE  AsRanges(hits) \in Seq(Passages(mode))
<1>. DEFINE runs == Runs(Ascending(VersesFound(hits)))
            passages == [k \in DOMAIN runs |-> Passage(hits, runs[k])]
            scores == [k \in DOMAIN runs |-> passages[k].score]
<1>1. passages \in Seq(Passages(mode)) /\ \A k \in DOMAIN runs : passages[k].score \in Int
      BY PassagesType
<1>2. DOMAIN passages = DOMAIN runs /\ \A k \in DOMAIN runs : scores[k] \in Int
      BY <1>1
<1>. HIDE DEF passages, scores
<1>3. BestFirst(passages, scores) \in Seq(Passages(mode))
      BY <1>1, <1>2, BestFirstType
<1>. QED  BY <1>3 DEF AsRanges, VersesFound, passages, scores

LEMMA TopCutType ==
    ASSUME NEW X, NEW ranges \in Seq(X), NEW mode
    PROVE  /\ TopCut(ranges, mode) \in Seq(X)
           /\ Len(TopCut(ranges, mode)) <= TopN + DeuteroSlice
<1>1. TopN \in Nat /\ DeuteroSlice \in Nat
      BY IndexAssumption
<1>2. CASE mode # "both"
  <2>1. Take(ranges, TopN) \in Seq(X) /\ Len(Take(ranges, TopN)) <= TopN
        BY <1>1, TakeTakes
  <2>2. TopCut(ranges, mode) = Take(ranges, TopN)
        BY <1>2 DEF TopCut
  <2>. HIDE DEF TopCut
  <2>. QED  BY <1>1, <2>1, <2>2
<1>3. CASE mode = "both"
  <2>. DEFINE a == Take(OfCanon(ranges, "protestant"), TopN)
              b == Take(OfCanon(ranges, "deutero"), DeuteroSlice)
  <2>1. ASSUME NEW canon
        PROVE  OfCanon(ranges, canon) \in Seq(X)
    <3>1. {i \in DOMAIN ranges : ranges[i].canon = canon} \in SUBSET (DOMAIN ranges)
          OBVIOUS
    <3>. QED  BY <3>1, PickPicks DEF OfCanon
  <2>2. a \in Seq(X) /\ Len(a) <= TopN
        BY <1>1, <2>1, TakeTakes
  <2>3. b \in Seq(X) /\ Len(b) <= DeuteroSlice
        BY <1>1, <2>1, TakeTakes
  <2>4. TopCut(ranges, mode) = a \o b
        BY <1>3 DEF TopCut
  <2>. HIDE DEF a, b
  <2>5. a \o b \in Seq(X) /\ Len(a \o b) <= TopN + DeuteroSlice
        BY <1>1, <2>2, <2>3
  <2>. QED  BY <2>4, <2>5
<1>. QED  BY <1>2, <1>3

----------------------------------------------------------------------------
(* Sequences in an order: there is one for a set, and what is taken from   *)
(* one, and what is joined, is one.                                        *)

Enumerates(s, P, R) ==
    /\ s \in Seq(P)
    /\ ToSet(s) = P
    /\ \A i, j \in DOMAIN s : i < j <=> <<s[i], s[j]>> \in R

LEMMA OrderIsAPrefix ==
    ASSUME NEW P, NEW R, NEW s, NEW t, Enumerates(s, P, R), Enumerates(t, P, R)
    PROVE  \A i \in DOMAIN s : i \in DOMAIN t /\ s[i] = t[i]
<1>. DEFINE E == {i \in DOMAIN s : ~(i \in DOMAIN t /\ s[i] = t[i])}
<1>1. /\ Len(s) \in Nat /\ DOMAIN s = 1..Len(s)
      /\ Len(t) \in Nat /\ DOMAIN t = 1..Len(t)
      BY DEF Enumerates
<1>2. /\ \A i, j \in DOMAIN s : i < j <=> <<s[i], s[j]>> \in R
      /\ \A i, j \in DOMAIN t : i < j <=> <<t[i], t[j]>> \in R
      BY DEF Enumerates
<1>3. /\ \A i \in DOMAIN s : \E j \in DOMAIN t : t[j] = s[i]
      /\ \A j \in DOMAIN t : \E i \in DOMAIN s : s[i] = t[j]
      BY DEF Enumerates, ToSet
<1>4. SUFFICES ASSUME E # {}
               PROVE  FALSE
      OBVIOUS
<1>5. E \in SUBSET Nat
      BY <1>1
<1>6. PICK i \in E : \A k \in E : i <= k
      BY <1>4, <1>5, Least
<1>7. i \in DOMAIN s /\ \A k \in DOMAIN s : k < i => k \in DOMAIN t /\ s[k] = t[k]
      BY <1>1, <1>6
<1>8. PICK j \in DOMAIN t : t[j] = s[i]
      BY <1>3, <1>7
<1>9. ~(j < i)
  <2>1. ASSUME j < i
        PROVE  FALSE
    <3>1. j \in DOMAIN s /\ s[j] = s[i]
          BY <1>1, <1>7, <1>8, <2>1
    <3>2. <<s[j], s[i]>> \in R
          BY <1>2, <1>7, <2>1, <3>1
    <3>3. <<s[i], s[i]>> \in R
          BY <3>1, <3>2
    <3>. QED  BY <1>1, <1>2, <1>7, <3>3
  <2>. QED  BY <2>1
<1>10. j # i
       BY <1>6, <1>8
<1>11. j > i /\ i \in DOMAIN t
       BY <1>1, <1>7, <1>8, <1>9, <1>10
<1>12. PICK k \in DOMAIN s : s[k] = t[i]
       BY <1>3, <1>11
<1>13. ~(k < i)
  <2>1. ASSUME k < i
        PROVE  FALSE
    <3>1. k \in DOMAIN t /\ t[k] = t[i]
          BY <1>7, <1>12, <2>1
    <3>2. <<t[k], t[i]>> \in R
          BY <1>2, <1>11, <2>1, <3>1
    <3>3. <<t[i], t[i]>> \in R
          BY <3>1, <3>2
    <3>4. i < i
          BY <1>2, <1>11, <3>3
    <3>. QED  BY <1>1, <1>11, <3>4
  <2>. QED  BY <2>1
<1>14. k # i
       BY <1>6, <1>11, <1>12
<1>15. i < k
       BY <1>1, <1>7, <1>12, <1>13, <1>14
<1>16. <<s[i], s[k]>> \in R
       BY <1>2, <1>7, <1>12, <1>15
<1>17. <<t[j], t[i]>> \in R
       BY <1>8, <1>12, <1>16
<1>18. j < i
       BY <1>2, <1>8, <1>11, <1>17
<1>. QED  BY <1>9, <1>18

\* A set has one sequence in a given order.
LEMMA OneOrder ==
    ASSUME NEW P, NEW R, NEW s, NEW t, Enumerates(s, P, R), Enumerates(t, P, R)
    PROVE  s = t
<1>1. \A i \in DOMAIN s : i \in DOMAIN t /\ s[i] = t[i]
      BY OrderIsAPrefix
<1>2. \A i \in DOMAIN t : i \in DOMAIN s
      BY OrderIsAPrefix
<1>3. s \in Seq(P) /\ t \in Seq(P)
      BY DEF Enumerates
<1>4. DOMAIN s = DOMAIN t
      BY <1>1, <1>2
<1>5. s = [i \in DOMAIN s |-> s[i]] /\ t = [i \in DOMAIN t |-> t[i]]
      BY <1>3
<1>. QED  BY <1>1, <1>4, <1>5

LEMMA AscendingTo ==
    ASSUME NEW n \in Nat
    PROVE  Ascending(1..n) = [i \in 1..n |-> i]
<1>. DEFINE S == 1..n
            R == {p \in Int \X Int : p[1] < p[2]}
            f == Ascending(S)
            g == [i \in 1..n |-> i]
<1>1. IsFiniteSet(S) /\ S \in SUBSET Int /\ Cardinality(S) = n
      BY CountTo
<1>2. \A x, y \in Int : <<x, y>> \in R <=> x < y
      OBVIOUS
<1>3. /\ f \in [1..n -> S]
      /\ \A i, j \in 1..n : i < j <=> f[i] < f[j]
      BY <1>1, AscendingIsOrdered
<1>4. f \in Seq(S) /\ ToSet(f) = S /\ DOMAIN f = 1..n
      BY <1>1, AscendingType
<1>. HIDE DEF R, f
<1>5. \A i \in 1..n : f[i] \in Int
      BY <1>3
<1>6. Enumerates(f, S, R)
      BY <1>2, <1>3, <1>4, <1>5 DEF Enumerates
<1>7. g \in Seq(S) /\ ToSet(g) = S /\ DOMAIN g = 1..n /\ \A i \in 1..n : g[i] = i /\ i \in Int
      BY DEF ToSet
<1>. HIDE DEF g
<1>8. Enumerates(g, S, R)
      BY <1>2, <1>7 DEF Enumerates
<1>9. f = g
      BY <1>6, <1>8, OneOrder
<1>. QED  BY <1>9 DEF f, g

LEMMA PickAll ==
    ASSUME NEW X, NEW s \in Seq(X)
    PROVE  Pick(s, DOMAIN s) = s
<1>1. Len(s) \in Nat /\ DOMAIN s = 1..Len(s) /\ s = [i \in DOMAIN s |-> s[i]]
      OBVIOUS
<1>. DEFINE n == Len(s)
            f == Ascending(1..n)
<1>2. f = [i \in 1..n |-> i]
      BY <1>1, AscendingTo
<1>3. Pick(s, DOMAIN s) = [k \in DOMAIN f |-> s[f[k]]]
      BY <1>1 DEF Pick
<1>. HIDE DEF f, n
<1>4. [k \in DOMAIN f |-> s[f[k]]] = [k \in 1..n |-> s[k]]
      BY <1>2
<1>. QED  BY <1>1, <1>3, <1>4 DEF n

LEMMA PickEnumerates ==
    ASSUME NEW P, NEW R, NEW s, Enumerates(s, P, R), NEW I \in SUBSET (DOMAIN s)
    PROVE  Enumerates(Pick(s, I), {s[i] : i \in I}, R)
<1>. DEFINE n == Cardinality(I)
            places == Ascending(I)
            Q == {s[i] : i \in I}
<1>1. s \in Seq(P) /\ Len(s) \in Nat /\ DOMAIN s = 1..Len(s)
      BY DEF Enumerates
<1>2. IsFiniteSet(I) /\ I \in SUBSET Int
  <2>1. IsFiniteSet(1..Len(s))
        BY <1>1, CountTo
  <2>. QED  BY <1>1, <2>1, FS_Subset
<1>3. /\ places \in [1..n -> I]
      /\ \A k, l \in 1..n : k < l <=> places[k] < places[l]
      BY <1>2, AscendingIsOrdered
<1>4. DOMAIN places = 1..n
      BY <1>3
<1>5. Pick(s, I) = [k \in 1..n |-> s[places[k]]]
      BY <1>4 DEF Pick
<1>6. /\ Pick(s, I) \in Seq(P)
      /\ DOMAIN Pick(s, I) = 1..n
      /\ ToSet(Pick(s, I)) = Q
      BY <1>1, PickPicks
<1>. HIDE DEF places, n, Q
<1>7. \A k \in DOMAIN Pick(s, I) : Pick(s, I)[k] \in Q
      BY <1>6 DEF ToSet
<1>8. Pick(s, I) \in Seq(Q)
      BY <1>6, <1>7, ElementsType
<1>9. ASSUME NEW k \in 1..n, NEW l \in 1..n
      PROVE  k < l <=> <<Pick(s, I)[k], Pick(s, I)[l]>> \in R
  <2>1. Pick(s, I)[k] = s[places[k]] /\ Pick(s, I)[l] = s[places[l]]
        BY <1>5
  <2>2. places[k] \in DOMAIN s /\ places[l] \in DOMAIN s
        BY <1>3
  <2>3. places[k] < places[l] <=> <<s[places[k]], s[places[l]]>> \in R
        BY <2>2 DEF Enumerates
  <2>. QED  BY <1>3, <2>1, <2>3
<1>. QED  BY <1>6, <1>8, <1>9 DEF Enumerates, Q

LEMMA TakeEnumerates ==
    ASSUME NEW P, NEW R, NEW s, Enumerates(s, P, R), NEW n \in Nat
    PROVE  Enumerates(Take(s, n), ToSet(Take(s, n)), R)
<1>. DEFINE t == Take(s, n)
<1>1. s \in Seq(P) /\ DOMAIN s = 1..Len(s) /\ Len(s) \in Nat
      BY DEF Enumerates
<1>2. /\ t \in Seq(P)
      /\ Len(t) <= Len(s)
      /\ \A i \in 1..Len(t) : t[i] = s[i]
      BY <1>1, TakeTakes
<1>. HIDE DEF t
<1>3. DOMAIN t = 1..Len(t) /\ Len(t) \in Nat
      BY <1>2
<1>4. t \in Seq(ToSet(t))
  <2>1. \A i \in DOMAIN t : t[i] \in ToSet(t)
        BY DEF ToSet
  <2>. QED  BY <1>2, <2>1, ElementsType
<1>5. ASSUME NEW i \in DOMAIN t, NEW j \in DOMAIN t
      PROVE  i < j <=> <<t[i], t[j]>> \in R
  <2>1. i \in DOMAIN s /\ j \in DOMAIN s /\ t[i] = s[i] /\ t[j] = s[j]
        BY <1>1, <1>2, <1>3
  <2>. QED  BY <2>1 DEF Enumerates
<1>. QED  BY <1>4, <1>5 DEF Enumerates, t

LEMMA JoinedSet ==
    ASSUME NEW X, NEW Y, NEW a \in Seq(X), NEW b \in Seq(Y)
    PROVE  ToSet(a \o b) = ToSet(a) \cup ToSet(b)
<1>. DEFINE s == a \o b
            m == Len(a)
<1>1. /\ m \in Nat /\ DOMAIN a = 1..m
      /\ Len(b) \in Nat /\ DOMAIN b = 1..Len(b)
      OBVIOUS
<1>2. a \in Seq(X \cup Y) /\ b \in Seq(X \cup Y)
      OBVIOUS
<1>3. /\ DOMAIN s = 1..(m + Len(b))
      /\ \A i \in 1..m : s[i] = a[i]
      /\ \A i \in 1..Len(b) : s[m + i] = b[i]
      BY <1>1, <1>2
<1>. HIDE DEF s
<1>4. ASSUME NEW i \in DOMAIN s
      PROVE  s[i] \in ToSet(a) \cup ToSet(b)
  <2>1. CASE i \in 1..m
        BY <1>1, <1>3, <2>1 DEF ToSet
  <2>2. CASE i \notin 1..m
    <3>1. i - m \in 1..Len(b) /\ m + (i - m) = i
          BY <1>1, <1>3, <2>2
    <3>. QED  BY <1>1, <1>3, <3>1 DEF ToSet
  <2>. QED  BY <2>1, <2>2
<1>5. ASSUME NEW i \in 1..m
      PROVE  a[i] \in ToSet(s)
  <2>1. i \in DOMAIN s /\ s[i] = a[i]
        BY <1>1, <1>3
  <2>. QED  BY <2>1 DEF ToSet
<1>6. ASSUME NEW i \in 1..Len(b)
      PROVE  b[i] \in ToSet(s)
  <2>1. m + i \in DOMAIN s /\ s[m + i] = b[i]
        BY <1>1, <1>3
  <2>. QED  BY <2>1 DEF ToSet
<1>. QED  BY <1>1, <1>4, <1>5, <1>6 DEF ToSet, s

LEMMA JoinEnumerates ==
    ASSUME NEW A, NEW B, NEW R, NEW a, NEW b, Enumerates(a, A, R), Enumerates(b, B, R),
           \A x \in A, y \in B : <<x, y>> \in R /\ <<y, x>> \notin R
    PROVE  Enumerates(a \o b, A \cup B, R)
<1>. DEFINE s == a \o b
            m == Len(a)
<1>1. /\ a \in Seq(A) /\ m \in Nat /\ DOMAIN a = 1..m
      /\ b \in Seq(B) /\ Len(b) \in Nat /\ DOMAIN b = 1..Len(b)
      BY DEF Enumerates
<1>2. a \in Seq(A \cup B) /\ b \in Seq(A \cup B)
      BY <1>1
<1>3. /\ s \in Seq(A \cup B)
      /\ Len(s) = m + Len(b) /\ DOMAIN s = 1..(m + Len(b))
      /\ \A i \in 1..m : s[i] = a[i]
      /\ \A i \in 1..Len(b) : s[m + i] = b[i]
      BY <1>1, <1>2
<1>. HIDE DEF s
<1>4. ASSUME NEW i \in DOMAIN s
      PROVE  \/ i \in DOMAIN a /\ s[i] = a[i]
             \/ i - m \in DOMAIN b /\ s[i] = b[i - m] /\ i > m
  <2>1. CASE i <= m
        BY <1>1, <1>3, <2>1
  <2>2. CASE ~(i <= m)
    <3>1. i - m \in 1..Len(b) /\ m + (i - m) = i /\ i > m
          BY <1>1, <1>3, <2>2
    <3>. QED  BY <1>1, <1>3, <3>1
  <2>. QED  BY <2>1, <2>2
<1>5. ToSet(s) = A \cup B
      BY <1>1, JoinedSet DEF Enumerates, s
<1>6. ASSUME NEW i \in DOMAIN s, NEW j \in DOMAIN s
      PROVE  i < j <=> <<s[i], s[j]>> \in R
  <2>1. i \in Nat /\ j \in Nat
        BY <1>1, <1>3
  <2>2. CASE i \in DOMAIN a /\ s[i] = a[i] /\ j \in DOMAIN a /\ s[j] = a[j]
        BY <2>2 DEF Enumerates
  <2>3. CASE /\ i - m \in DOMAIN b /\ s[i] = b[i - m]
             /\ j - m \in DOMAIN b /\ s[j] = b[j - m]
    <3>1. i - m < j - m <=> <<s[i], s[j]>> \in R
          BY <2>3 DEF Enumerates
    <3>. QED  BY <1>1, <2>1, <3>1
  <2>4. CASE /\ i \in DOMAIN a /\ s[i] = a[i]
             /\ j - m \in DOMAIN b /\ s[j] = b[j - m] /\ j > m
    <3>1. s[i] \in A /\ s[j] \in B
          BY <1>1, <2>4
    <3>2. i < j
          BY <1>1, <2>1, <2>4
    <3>. QED  BY <3>1, <3>2
  <2>5. CASE /\ i - m \in DOMAIN b /\ s[i] = b[i - m] /\ i > m
             /\ j \in DOMAIN a /\ s[j] = a[j]
    <3>1. s[i] \in B /\ s[j] \in A
          BY <1>1, <2>5
    <3>2. ~(i < j)
          BY <1>1, <2>1, <2>5
    <3>. QED  BY <3>1, <3>2
  <2>. QED  BY <1>4, <2>2, <2>3, <2>4, <2>5
<1>. QED  BY <1>3, <1>5, <1>6 DEF Enumerates, s

----------------------------------------------------------------------------
(* What a run is, said of the set of verses alone: verses each of which    *)
(* goes on in the next one of the set, from one that none goes on in to    *)
(* one that goes on in none.                                               *)

Goes(S, u, v) ==
    /\ u \in S /\ v \in S /\ u < v
    /\ Adjacent(u, v)
    /\ \A w \in S : ~(u < w /\ w < v)

IsRun(S, r) ==
    /\ r \in Seq(S) /\ r # <<>>
    /\ \A i \in DOMAIN r : i + 1 \in DOMAIN r => Goes(S, r[i], r[i + 1])
    /\ \A w \in S : ~Goes(S, w, r[1]) /\ ~Goes(S, r[Len(r)], w)

\* A verse goes on in one verse at most.
LEMMA GoesOneWay ==
    ASSUME NEW S \in SUBSET Int, NEW u, NEW v, NEW w, Goes(S, u, v), Goes(S, u, w)
    PROVE  v = w
<1>1. u \in Int /\ v \in Int /\ w \in Int /\ v \in S /\ w \in S /\ u < v /\ u < w
      BY DEF Goes
<1>2. ~(w < v) /\ ~(v < w)
      BY <1>1 DEF Goes
<1>. QED  BY <1>1, <1>2

LEMMA RunGoesAlong ==
    ASSUME NEW S \in SUBSET Int, NEW r, NEW t, IsRun(S, r), IsRun(S, t), r[1] = t[1]
    PROVE  \A i \in DOMAIN r : i \in DOMAIN t /\ r[i] = t[i]
<1>. DEFINE E == {i \in DOMAIN r : ~(i \in DOMAIN t /\ r[i] = t[i])}
<1>1. /\ r \in Seq(S) /\ Len(r) \in Nat /\ DOMAIN r = 1..Len(r)
      /\ t \in Seq(S) /\ Len(t) \in Nat /\ DOMAIN t = 1..Len(t) /\ 1 \in DOMAIN t
      BY DEF IsRun
<1>2. SUFFICES ASSUME E # {}
               PROVE  FALSE
      OBVIOUS
<1>3. E \in SUBSET Nat
      BY <1>1
<1>4. PICK i \in E : \A k \in E : i <= k
      BY <1>2, <1>3, Least
<1>5. i \in DOMAIN r /\ i # 1
      BY <1>1
<1>6. i - 1 \in DOMAIN r /\ i - 1 \notin E /\ (i - 1) + 1 = i
      BY <1>1, <1>4, <1>5
<1>7. i - 1 \in DOMAIN t /\ r[i - 1] = t[i - 1]
      BY <1>6
<1>8. Goes(S, r[i - 1], r[i])
      BY <1>5, <1>6 DEF IsRun
<1>9. CASE i \in DOMAIN t
  <2>1. Goes(S, t[i - 1], t[i])
        BY <1>6, <1>7, <1>9 DEF IsRun
  <2>2. r[i] = t[i]
        BY <1>7, <1>8, <2>1, GoesOneWay
  <2>. QED  BY <1>4, <1>9, <2>2
<1>10. CASE i \notin DOMAIN t
  <2>1. i - 1 = Len(t)
        BY <1>1, <1>5, <1>7, <1>10
  <2>2. r[i] \in S
        BY <1>8 DEF Goes
  <2>3. ~Goes(S, t[Len(t)], r[i])
        BY <2>2 DEF IsRun
  <2>. QED  BY <1>7, <1>8, <2>1, <2>3
<1>. QED  BY <1>9, <1>10

\* One run begins with a verse.
LEMMA OneRunFrom ==
    ASSUME NEW S \in SUBSET Int, NEW r, NEW t, IsRun(S, r), IsRun(S, t), r[1] = t[1]
    PROVE  r = t
<1>1. \A i \in DOMAIN r : i \in DOMAIN t /\ r[i] = t[i]
      BY RunGoesAlong
<1>2. \A i \in DOMAIN t : i \in DOMAIN r
      BY RunGoesAlong
<1>3. r = [i \in DOMAIN r |-> r[i]] /\ t = [i \in DOMAIN t |-> t[i]]
      BY DEF IsRun
<1>. QED  BY <1>1, <1>2, <1>3

\* In verses that ascend, each goes on in the next where they are not taken apart,
\* and in no other.
LEMMA GoesToTheNext ==
    ASSUME NEW S \in SUBSET Int, IsFiniteSet(S)
    PROVE  LET ids == Ascending(S)
               n   == Cardinality(S)
           IN /\ \A i \in 2..n : Goes(S, ids[i - 1], ids[i]) <=> ~Begins(ids, i)
              /\ \A u, v : Goes(S, u, v) => \E i \in 2..n : u = ids[i - 1] /\ v = ids[i]
<1>. DEFINE ids == Ascending(S)
            n == Cardinality(S)
<1>1. /\ n \in Nat
      /\ ids \in [1..n -> S]
      /\ \A x \in S : \E i \in 1..n : ids[i] = x
      /\ \A i, j \in 1..n : i < j <=> ids[i] < ids[j]
      BY AscendingIsOrdered
<1>. HIDE DEF ids, n
<1>2. ASSUME NEW i \in 2..n
      PROVE  Goes(S, ids[i - 1], ids[i]) <=> ~Begins(ids, i)
  <2>1. i - 1 \in 1..n /\ i \in 1..n /\ i - 1 < i /\ i # 1
        BY <1>1
  <2>2. ids[i - 1] \in S /\ ids[i] \in S /\ ids[i - 1] < ids[i]
        BY <1>1, <2>1
  <2>3. ASSUME NEW w \in S, ids[i - 1] < w, w < ids[i]
        PROVE  FALSE
    <3>1. PICK j \in 1..n : ids[j] = w
          BY <1>1
    <3>2. i - 1 < j /\ j < i
          BY <1>1, <2>1, <2>3, <3>1
    <3>. QED  BY <1>1, <3>2
  <2>. QED  BY <2>1, <2>2, <2>3 DEF Goes, Begins
<1>3. ASSUME NEW u, NEW v, Goes(S, u, v)
      PROVE  \E i \in 2..n : u = ids[i - 1] /\ v = ids[i]
  <2>1. u \in S /\ v \in S /\ u < v /\ \A w \in S : ~(u < w /\ w < v)
        BY <1>3 DEF Goes
  <2>2. PICK j \in 1..n : ids[j] = u
        BY <1>1, <2>1
  <2>3. PICK i \in 1..n : ids[i] = v
        BY <1>1, <2>1
  <2>4. j < i
        BY <1>1, <2>1, <2>2, <2>3
  <2>5. ASSUME j < i - 1
        PROVE  FALSE
    <3>1. i - 1 \in 1..n /\ i - 1 < i
          BY <1>1, <2>4, <2>5
    <3>2. ids[i - 1] \in S /\ u < ids[i - 1] /\ ids[i - 1] < v
          BY <1>1, <2>2, <2>3, <2>5, <3>1
    <3>. QED  BY <2>1, <3>2
  <2>6. j = i - 1 /\ i \in 2..n
        BY <1>1, <2>4, <2>5
  <2>. QED  BY <2>2, <2>3, <2>6
<1>. QED  BY <1>2, <1>3 DEF ids, n

\* Verses that ascend are taken apart into the runs of their set, in the order of
\* their first verses, and no verse is of two.
LEMMA RunsOfASet ==
    ASSUME NEW S \in SUBSET Int, IsFiniteSet(S)
    PROVE  LET runs == Runs(Ascending(S))
           IN /\ runs \in Seq(Seq(S))
              /\ \A k \in DOMAIN runs : IsRun(S, runs[k])
              /\ \A r : IsRun(S, r) => \E k \in DOMAIN runs : runs[k] = r
              /\ \A k, l \in DOMAIN runs : k < l <=> runs[k][1] < runs[l][1]
              /\ \A k, l \in DOMAIN runs : ToSet(runs[k]) \cap ToSet(runs[l]) # {} => k = l
<1>. DEFINE ids == Ascending(S)
            n == Cardinality(S)
            runs == Runs(ids)
<1>1. /\ n \in Nat
      /\ ids \in [1..n -> S]
      /\ \A x \in S : \E i \in 1..n : ids[i] = x
      /\ \A i, j \in 1..n : i < j <=> ids[i] < ids[j]
      BY AscendingIsOrdered
<1>2. /\ \A i \in 2..n : Goes(S, ids[i - 1], ids[i]) <=> ~Begins(ids, i)
      /\ \A u, v : Goes(S, u, v) => \E i \in 2..n : u = ids[i - 1] /\ v = ids[i]
      BY GoesToTheNext
<1>3. ids \in Seq(S) /\ Len(ids) = n /\ DOMAIN ids = 1..n
      BY AscendingType
<1>4. runs \in Seq(Seq(S))
      BY <1>3, RunsType
<1>. HIDE DEF n
<1>. PICK m \in Nat :
        \E first \in [1..m -> 1..n], last \in [1..m -> 1..n] : CutsInto(ids, m, first, last)
     BY <1>3, RunsCut
<1>5. PICK first \in [1..m -> 1..n], last \in [1..m -> 1..n] : CutsInto(ids, m, first, last)
      OBVIOUS
<1>. HIDE DEF ids
<1>6. /\ runs = [k \in 1..m |-> SubSeq(ids, first[k], last[k])]
      /\ \A k \in 1..m :
            /\ first[k] <= last[k]
            /\ Begins(ids, first[k])
            /\ \A i \in (first[k] + 1)..last[k] : ~Begins(ids, i)
            /\ last[k] = n \/ Begins(ids, last[k] + 1)
      /\ \A i \in 1..n : Begins(ids, i) => \E k \in 1..m : first[k] = i
      /\ \A k, l \in 1..m : k < l <=> first[k] < first[l]
      BY <1>3, <1>5 DEF CutsInto
<1>. HIDE DEF runs
<1>7. DOMAIN runs = 1..m
      BY <1>6
<1>8. \A i, j \in 1..n : ids[i] = ids[j] => i = j
  <2>1. ASSUME NEW i \in 1..n, NEW j \in 1..n, ids[i] = ids[j]
        PROVE  i = j
    <3>1. ids[i] \in Int
          BY <1>1
    <3>2. ~(i < j) /\ ~(j < i)
          BY <1>1, <2>1, <3>1
    <3>. QED  BY <1>1, <3>2
  <2>. QED  BY <2>1
<1>9. ASSUME NEW k \in 1..m
      PROVE  /\ first[k] \in 1..n /\ last[k] \in 1..n /\ first[k] <= last[k]
             /\ runs[k] \in Seq(S)
             /\ Len(runs[k]) = last[k] - first[k] + 1
             /\ DOMAIN runs[k] = 1..(last[k] - first[k] + 1)
             /\ \A i \in 1..(last[k] - first[k] + 1) : runs[k][i] = ids[first[k] + i - 1]
             /\ runs[k][1] = ids[first[k]]
             /\ runs[k][Len(runs[k])] = ids[last[k]]
             /\ runs[k] # <<>>
  <2>. DEFINE a == first[k]
              b == last[k]
              r == SubSeq(ids, a, b)
  <2>1. a \in 1..n /\ b \in 1..n /\ a <= b /\ runs[k] = r
        BY <1>6
  <2>. HIDE DEF a, b
  <2>2. /\ r \in Seq(S) /\ Len(r) = b - a + 1
        /\ \A i \in 1..(b - a + 1) : r[i] = ids[a + i - 1]
        BY <1>1, <1>3, <2>1
  <2>. HIDE DEF r
  <2>3. b - a + 1 \in Nat /\ b - a + 1 >= 1
        BY <1>1, <2>1
  <2>4. DOMAIN r = 1..(b - a + 1) /\ r # <<>>
        BY <2>2, <2>3
  <2>5. a + 1 - 1 = a /\ a + (b - a + 1) - 1 = b
        BY <1>1, <2>1
  <2>6. r[1] = ids[a] /\ r[b - a + 1] = ids[b]
        BY <2>2, <2>3, <2>5
  <2>7. r[Len(r)] = ids[b]
        BY <2>2, <2>6
  <2>. QED  BY <2>1, <2>2, <2>4, <2>6, <2>7 DEF a, b
<1>10. ASSUME NEW k \in 1..m
       PROVE  IsRun(S, runs[k])
  <2>. DEFINE a == first[k]
              b == last[k]
  <2>1. a \in 1..n /\ b \in 1..n /\ a <= b
        BY <1>9
  <2>2. Begins(ids, a) /\ (\A i \in (a + 1)..b : ~Begins(ids, i)) /\ (b = n \/ Begins(ids, b + 1))
        BY <1>6
  <2>3. /\ Len(runs[k]) = b - a + 1 /\ DOMAIN runs[k] = 1..(b - a + 1)
        /\ \A i \in 1..(b - a + 1) : runs[k][i] = ids[a + i - 1]
        /\ runs[k][1] = ids[a] /\ runs[k][Len(runs[k])] = ids[b]
        BY <1>9
  <2>. HIDE DEF a, b
  <2>4. ASSUME NEW i \in DOMAIN runs[k], i + 1 \in DOMAIN runs[k]
        PROVE  Goes(S, runs[k][i], runs[k][i + 1])
    <3>1. i \in 1..(b - a + 1) /\ i + 1 \in 1..(b - a + 1)
          BY <2>3, <2>4
    <3>2. a + i \in 2..n /\ a + i \in (a + 1)..b /\ a + i - 1 = (a + i) - 1 /\ a + (i + 1) - 1 = a + i
          BY <1>1, <2>1, <3>1
    <3>3. runs[k][i] = ids[(a + i) - 1] /\ runs[k][i + 1] = ids[a + i]
          BY <2>3, <3>1, <3>2
    <3>4. ~Begins(ids, a + i)
          BY <2>2, <3>2
    <3>. QED  BY <1>2, <3>2, <3>3, <3>4
  <2>5. ASSUME NEW w \in S, Goes(S, w, runs[k][1])
        PROVE  FALSE
    <3>. DEFINE v == runs[k][1]
    <3>. HIDE DEF v
    <3>0. Goes(S, w, v)
          BY <2>5 DEF v
    <3>1. PICK i \in 2..n : w = ids[i - 1] /\ v = ids[i]
          BY <1>2, <3>0
    <3>2. i \in 1..n
          BY <1>1
    <3>3. i = a
          BY <1>8, <2>1, <2>3, <3>1, <3>2 DEF v
    <3>4. ~Begins(ids, i)
          BY <1>2, <3>0, <3>1
    <3>. QED  BY <2>2, <3>3, <3>4
  <2>6. ASSUME NEW w \in S, Goes(S, runs[k][Len(runs[k])], w)
        PROVE  FALSE
    <3>. DEFINE v == runs[k][Len(runs[k])]
    <3>. HIDE DEF v
    <3>0. Goes(S, v, w)
          BY <2>6 DEF v
    <3>1. PICK i \in 2..n : v = ids[i - 1] /\ w = ids[i]
          BY <1>2, <3>0
    <3>2. i - 1 \in 1..n /\ i \in 1..n
          BY <1>1
    <3>3. i - 1 = b
          BY <1>8, <2>1, <2>3, <3>1, <3>2 DEF v
    <3>4. ~Begins(ids, i)
          BY <1>2, <3>0, <3>1
    <3>5. i = b + 1 /\ b # n
          BY <1>1, <2>1, <3>2, <3>3
    <3>. QED  BY <2>2, <3>4, <3>5
  <2>. QED  BY <1>9, <2>4, <2>5, <2>6 DEF IsRun
<1>11. ASSUME NEW r, IsRun(S, r)
       PROVE  \E k \in DOMAIN runs : runs[k] = r
  <2>1. r \in Seq(S) /\ r # <<>> /\ \A w \in S : ~Goes(S, w, r[1])
        BY <1>11 DEF IsRun
  <2>2. r[1] \in S
        BY <2>1
  <2>3. PICK i \in 1..n : ids[i] = r[1]
        BY <1>1, <2>2
  <2>4. Begins(ids, i)
    <3>1. ASSUME i # 1, ~Begins(ids, i)
          PROVE  FALSE
      <4>1. i \in 2..n /\ i - 1 \in 1..n
            BY <1>1, <3>1
      <4>2. ids[i - 1] \in S /\ Goes(S, ids[i - 1], r[1])
            BY <1>1, <1>2, <2>3, <3>1, <4>1
      <4>. QED  BY <2>1, <4>2
    <3>. QED  BY <3>1 DEF Begins
  <2>5. PICK k \in 1..m : first[k] = i
        BY <1>6, <2>4
  <2>6. runs[k][1] = r[1]
        BY <1>9, <2>3, <2>5
  <2>7. runs[k] = r
        BY <1>10, <1>11, <2>6, OneRunFrom
  <2>. QED  BY <1>7, <2>7
<1>12. ASSUME NEW k \in 1..m, NEW l \in 1..m
       PROVE  k < l <=> runs[k][1] < runs[l][1]
  <2>1. first[k] \in 1..n /\ first[l] \in 1..n /\ runs[k][1] = ids[first[k]] /\ runs[l][1] = ids[first[l]]
        BY <1>9
  <2>. QED  BY <1>1, <1>6, <2>1
<1>13. ASSUME NEW k \in 1..m, NEW l \in 1..m, k < l
       PROVE  ToSet(runs[k]) \cap ToSet(runs[l]) = {}
  <2>1. /\ first[k] \in 1..n /\ last[k] \in 1..n /\ first[k] <= last[k]
        /\ first[l] \in 1..n /\ last[l] \in 1..n /\ first[l] <= last[l]
        BY <1>9
  <2>2. first[k] < first[l]
        BY <1>6, <1>13
  <2>3. last[k] < first[l]
    <3>1. ASSUME ~(last[k] < first[l])
          PROVE  FALSE
      <4>1. first[l] \in (first[k] + 1)..last[k]
            BY <1>1, <2>1, <2>2, <3>1
      <4>2. ~Begins(ids, first[l])
            BY <1>6, <4>1
      <4>. QED  BY <1>6, <4>2
    <3>. QED  BY <3>1
  <2>4. ASSUME NEW x \in 1..m, NEW v \in ToSet(runs[x])
        PROVE  \E i \in 1..n : v = ids[i] /\ first[x] <= i /\ i <= last[x]
    <3>1. PICK j \in DOMAIN runs[x] : v = runs[x][j]
          BY <2>4 DEF ToSet
    <3>2. /\ first[x] \in 1..n /\ last[x] \in 1..n
          /\ j \in 1..(last[x] - first[x] + 1) /\ v = ids[first[x] + j - 1]
          BY <1>9, <3>1
    <3>3. /\ first[x] + j - 1 \in 1..n
          /\ first[x] <= first[x] + j - 1 /\ first[x] + j - 1 <= last[x]
          BY <1>1, <3>2
    <3>. QED  BY <3>2, <3>3
  <2>5. ASSUME NEW v \in ToSet(runs[k]) \cap ToSet(runs[l])
        PROVE  FALSE
    <3>1. PICK i \in 1..n : v = ids[i] /\ first[k] <= i /\ i <= last[k]
          BY <2>4, <2>5
    <3>2. PICK j \in 1..n : v = ids[j] /\ first[l] <= j /\ j <= last[l]
          BY <2>4, <2>5
    <3>3. i = j
          BY <1>8, <3>1, <3>2
    <3>. QED  BY <1>1, <2>1, <2>3, <3>1, <3>2, <3>3
  <2>. QED  BY <2>5
<1>14. ASSUME NEW k \in 1..m, NEW l \in 1..m, ToSet(runs[k]) \cap ToSet(runs[l]) # {}
       PROVE  k = l
  <2>1. ~(k < l) /\ ~(l < k)
        BY <1>13, <1>14
  <2>. QED  BY <2>1
<1>15. /\ \A k \in DOMAIN runs : IsRun(S, runs[k])
       /\ \A k, l \in DOMAIN runs : k < l <=> runs[k][1] < runs[l][1]
       /\ \A k, l \in DOMAIN runs : ToSet(runs[k]) \cap ToSet(runs[l]) # {} => k = l
       BY <1>7, <1>10, <1>12, <1>14
<1>. QED  BY <1>4, <1>11, <1>15 DEF runs, ids

----------------------------------------------------------------------------
(* The ranking of passages: what is in it, and in which order.             *)

PassagesOf(hits) == {Passage(hits, r) : r \in {t \in Seq(VersesFound(hits)) :
                                                  IsRun(VersesFound(hits), t)}}

\* The higher score first; of two that score alike the earlier in the Bible.
Better ==
    {p \in Passages("both") \X Passages("both") :
        \/ p[1].score > p[2].score
        \/ p[1].score = p[2].score /\ p[1].ids[1] < p[2].ids[1]}

LEMMA BothHoldsAll ==
    ASSUME NEW mode
    PROVE  /\ VersesIn(mode) \subseteq VersesIn("both")
           /\ Hits(mode) \subseteq Hits("both")
           /\ Passages(mode) \subseteq Passages("both")
<1>1. VersesIn(mode) \subseteq VersesIn("both")
      BY HitsOfBoth
<1>2. Hits(mode) \subseteq Hits("both")
      BY HitsOfBoth
<1>3. ASSUME NEW s \in Seq(VersesIn(mode))
      PROVE  s \in Seq(VersesIn("both"))
      BY <1>1
<1>4. Passages(mode) \subseteq Passages("both")
      BY <1>3 DEF Passages
<1>. QED  BY <1>1, <1>2, <1>4

\* The ranking holds each passage once, the better before the worse.
LEMMA RangesEnumerate ==
    ASSUME NEW mode, NEW hits \in Seq(Hits(mode))
    PROVE  Enumerates(AsRanges(hits), PassagesOf(hits), Better)
<1>. DEFINE S == VersesFound(hits)
            runs == Runs(Ascending(S))
            passages == [k \in DOMAIN runs |-> Passage(hits, runs[k])]
            scores == [k \in DOMAIN runs |-> passages[k].score]
            key == [i \in DOMAIN passages |-> -scores[i]]
            n == Len(passages)
<1>1. S \in SUBSET Int /\ IsFiniteSet(S) /\ S \in SUBSET VersesIn(mode)
      BY FoundType
<1>2. /\ runs \in Seq(Seq(S))
      /\ \A k \in DOMAIN runs : IsRun(S, runs[k])
      /\ \A r : IsRun(S, r) => \E k \in DOMAIN runs : runs[k] = r
      /\ \A k, l \in DOMAIN runs : k < l <=> runs[k][1] < runs[l][1]
      BY <1>1, RunsOfASet
<1>3. passages \in Seq(Passages(mode)) /\ \A k \in DOMAIN runs : passages[k].score \in Int
      BY PassagesType
<1>. HIDE DEF S, runs
<1>4. /\ n \in Nat /\ DOMAIN runs = 1..n /\ DOMAIN passages = 1..n
      /\ \A k \in 1..n : passages[k] = Passage(hits, runs[k])
      BY <1>3
<1>5. \A k \in 1..n : /\ passages[k] \in Passages("both")
                      /\ scores[k] = passages[k].score
                      /\ passages[k].ids[1] = runs[k][1]
  <2>1. \A k \in 1..n : passages[k] \in Passages("both")
        BY <1>3, <1>4, BothHoldsAll
  <2>2. \A k \in 1..n : scores[k] = passages[k].score
        BY <1>4
  <2>3. \A k \in 1..n : passages[k].ids[1] = runs[k][1]
        BY <1>4 DEF Passage
  <2>. QED  BY <2>1, <2>2, <2>3
<1>6. AsRanges(hits) = Sorted(passages, key)
      BY DEF AsRanges, BestFirst, S, runs, VersesFound
<1>. HIDE DEF passages
<1>7. key \in [DOMAIN passages -> Int] /\ \A k \in 1..n : key[k] = -scores[k] /\ scores[k] \in Int
      BY <1>3, <1>4
<1>. HIDE DEF scores, key
<1>9. /\ Sorted(passages, key) \in Seq(Passages(mode))
      /\ Len(Sorted(passages, key)) = n
      /\ ToSet(Sorted(passages, key)) = ToSet(passages)
      BY <1>3, <1>7, SortedIsOrdered
<1>8. PICK order \in [1..n -> 1..n] : Arranges(Sorted(passages, key), passages, key, order)
      BY <1>3, <1>7, SortedIsOrdered
<1>10. /\ Sorted(passages, key) = [i \in 1..n |-> passages[order[i]]]
       /\ \A i, j \in 1..n :
             i < j <=> \/ key[order[i]] < key[order[j]]
                       \/ key[order[i]] = key[order[j]] /\ order[i] < order[j]
       BY <1>8 DEF Arranges
<1>. HIDE DEF n
<1>11. ASSUME NEW k \in 1..n, NEW l \in 1..n
       PROVE  (key[k] < key[l] \/ (key[k] = key[l] /\ k < l))
                 <=> <<passages[k], passages[l]>> \in Better
  <2>1. k < l <=> passages[k].ids[1] < passages[l].ids[1]
    <3>1. k < l <=> runs[k][1] < runs[l][1]
          BY <1>2, <1>4, Zenon
    <3>. QED  BY <1>5, <3>1
  <2>2. /\ key[k] < key[l] <=> scores[k] > scores[l]
        /\ key[k] = key[l] <=> scores[k] = scores[l]
        BY <1>7
  <2>3. /\ passages[k] \in Passages("both") /\ passages[l] \in Passages("both")
        /\ scores[k] = passages[k].score /\ scores[l] = passages[l].score
        BY <1>5
  <2>. QED  BY <2>1, <2>2, <2>3 DEF Better
<1>12. ToSet(passages) = PassagesOf(hits)
  <2>1. ToSet(passages) = {Passage(hits, runs[k]) : k \in 1..n}
        BY <1>4 DEF ToSet
  <2>2. \A k \in 1..n : runs[k] \in Seq(S) /\ IsRun(S, runs[k])
    <3>1. \A k \in DOMAIN runs : runs[k] \in Seq(S)
          BY <1>2
    <3>. QED  BY <1>2, <1>4, <3>1, Zenon
  <2>3. \A r : IsRun(S, r) => \E k \in 1..n : runs[k] = r
        BY <1>2, <1>4
  <2>4. PassagesOf(hits) = {Passage(hits, r) : r \in {t \in Seq(S) : IsRun(S, t)}}
        BY DEF PassagesOf, S
  <2>. QED  BY <2>1, <2>2, <2>3, <2>4
<1>13. \A i \in 1..n : order[i] \in 1..n /\ Sorted(passages, key)[i] = passages[order[i]]
       BY <1>10
<1>14. DOMAIN Sorted(passages, key) = 1..n
       BY <1>10
<1>15. \A i, j \in DOMAIN Sorted(passages, key) :
           i < j <=> <<Sorted(passages, key)[i], Sorted(passages, key)[j]>> \in Better
       BY <1>10, <1>11, <1>13, <1>14
<1>16. Sorted(passages, key) \in Seq(PassagesOf(hits))
  <2>1. \A i \in DOMAIN Sorted(passages, key) : Sorted(passages, key)[i] \in PassagesOf(hits)
        BY <1>9, <1>12 DEF ToSet
  <2>. QED  BY <1>9, <2>1, ElementsType
<1>. QED  BY <1>6, <1>9, <1>12, <1>15, <1>16 DEF Enumerates

----------------------------------------------------------------------------
(* One canon of what was found.                                            *)

\* A run lies in one book, so in one canon, and is a run of what was found of it.
LEMMA RunsOfACanon ==
    ASSUME NEW S \in SUBSET Verses, NEW T \in SUBSET S, NEW canon,
           \A v \in S : v \in T <=> CanonOf(v) = canon
    PROVE  \A r : IsRun(T, r) <=> IsRun(S, r) /\ CanonOf(r[1]) = canon
<1>1. ASSUME NEW u, NEW v, Goes(S, u, v)
      PROVE  (u \in T <=> v \in T) /\ (u \in T => Goes(T, u, v))
  <2>1. /\ u \in S /\ v \in S /\ u < v /\ Adjacent(u, v)
        /\ \A w \in S : ~(u < w /\ w < v)
        BY <1>1 DEF Goes
  <2>2. CanonOf(u) = CanonOf(v)
        BY <2>1 DEF CanonOf, Adjacent
  <2>. QED  BY <2>1, <2>2 DEF Goes
<1>2. ASSUME NEW u, NEW v, Goes(T, u, v)
      PROVE  Goes(S, u, v)
  <2>1. /\ u \in T /\ v \in T /\ u < v /\ Adjacent(u, v)
        /\ \A w \in T : ~(u < w /\ w < v)
        BY <1>2 DEF Goes
  <2>2. ASSUME NEW w \in S, u < w, w < v
        PROVE  FALSE
    <3>1. u \in Verses /\ v \in Verses /\ w \in Verses
          BY <2>1
    <3>2. Book(u) <= Book(w) /\ Book(w) <= Book(v) /\ Book(u) = Book(v)
          BY <2>1, <2>2, <3>1, IdsAscend DEF Adjacent
    <3>3. Book(u) \in Nat /\ Book(w) \in Nat
          BY <3>1, BibleAssumption, IdOfItsParts
    <3>4. Book(w) = Book(u)
          BY <3>2, <3>3
    <3>5. CanonOf(w) = CanonOf(u)
          BY <3>4 DEF CanonOf
    <3>6. w \in T
          BY <2>1, <3>5
    <3>. QED  BY <2>1, <2>2, <3>6
  <2>. QED  BY <2>1, <2>2 DEF Goes
<1>3. ASSUME NEW r, IsRun(T, r)
      PROVE  IsRun(S, r) /\ CanonOf(r[1]) = canon
  <2>1. /\ r \in Seq(T) /\ r # <<>>
        /\ \A i \in DOMAIN r : i + 1 \in DOMAIN r => Goes(T, r[i], r[i + 1])
        /\ \A w \in T : ~Goes(T, w, r[1]) /\ ~Goes(T, r[Len(r)], w)
        BY <1>3 DEF IsRun
  <2>2. r[1] \in T /\ r[Len(r)] \in T
        BY <2>1
  <2>3. r \in Seq(S)
        BY <2>1
  <2>4. \A i \in DOMAIN r : i + 1 \in DOMAIN r => Goes(S, r[i], r[i + 1])
        BY <1>2, <2>1
  <2>5. \A w \in S : ~Goes(S, w, r[1]) /\ ~Goes(S, r[Len(r)], w)
        BY <1>1, <2>1, <2>2
  <2>. QED  BY <2>1, <2>2, <2>3, <2>4, <2>5 DEF IsRun
<1>4. ASSUME NEW r, IsRun(S, r), CanonOf(r[1]) = canon
      PROVE  IsRun(T, r)
  <2>1. /\ r \in Seq(S) /\ r # <<>>
        /\ \A i \in DOMAIN r : i + 1 \in DOMAIN r => Goes(S, r[i], r[i + 1])
        /\ \A w \in S : ~Goes(S, w, r[1]) /\ ~Goes(S, r[Len(r)], w)
        BY <1>4 DEF IsRun
  <2>2. Len(r) \in Nat /\ DOMAIN r = 1..Len(r) /\ 1 \in DOMAIN r /\ Len(r) \in DOMAIN r
        BY <2>1
  <2>3. r[1] \in T
        BY <1>4, <2>1, <2>2
  <2>. DEFINE E == {i \in DOMAIN r : r[i] \notin T}
  <2>4. E = {}
    <3>1. SUFFICES ASSUME E # {}
                   PROVE  FALSE
          OBVIOUS
    <3>2. E \in SUBSET Nat
          BY <2>2
    <3>3. PICK i \in E : \A k \in E : i <= k
          BY <3>1, <3>2, Least
    <3>4. i \in DOMAIN r /\ i # 1
          BY <2>3
    <3>5. i - 1 \in DOMAIN r /\ i - 1 \notin E /\ (i - 1) + 1 = i
          BY <2>2, <3>3, <3>4
    <3>6. r[i - 1] \in T /\ Goes(S, r[i - 1], r[i])
          BY <2>1, <3>4, <3>5
    <3>. QED  BY <1>1, <3>3, <3>6
  <2>5. \A i \in DOMAIN r : r[i] \in T
        BY <2>4
  <2>6. r \in Seq(T)
        BY <2>1, <2>5, ElementsType
  <2>7. \A i \in DOMAIN r : i + 1 \in DOMAIN r => Goes(T, r[i], r[i + 1])
        BY <1>1, <2>1, <2>5
  <2>8. \A w \in T : ~Goes(T, w, r[1]) /\ ~Goes(T, r[Len(r)], w)
        BY <1>2, <2>1
  <2>. QED  BY <2>1, <2>6, <2>7, <2>8 DEF IsRun
<1>. QED  BY <1>3, <1>4

\* The ranking of the 66 books is what the ranking of both holds of them.
LEMMA RangesOfTheSixtySix ==
    ASSUME NEW q, IsQuery(q)
    PROVE  OfCanon(AsRanges(Search(q, "both")), "protestant") = AsRanges(Search(q, "66"))
<1>. DEFINE base == Search(q, "66")
            both == Search(q, "both")
            S == VersesFound(both)
            T == VersesFound(base)
            ranges == AsRanges(both)
            I == {i \in DOMAIN ranges : ranges[i].canon = "protestant"}
<1>1. PICK slice \in Seq(Hits("deutero-only")) : both = base \o slice
      BY BothAddsASlice
<1>2. base \in Seq(Hits("66")) /\ both \in Seq(Hits("both"))
      BY SearchType
<1>3. S \in SUBSET Verses /\ S \in SUBSET Int /\ T \in SUBSET VersesIn("66")
      BY <1>2, FoundType
<1>4. Enumerates(ranges, PassagesOf(both), Better) /\ Enumerates(AsRanges(base), PassagesOf(base), Better)
      BY <1>2, RangesEnumerate
<1>. HIDE DEF base, both
<1>5. \A v \in VersesIn("66") : CanonOf(v) = "protestant"
      BY DEF VersesIn, CanonOk
<1>6. \A h \in ToSet(slice) : CanonOf(h.verse) = "deutero"
  <2>1. \A i \in DOMAIN slice : slice[i] \in Hits("deutero-only")
        OBVIOUS
  <2>2. \A h \in Hits("deutero-only") : CanonOf(h.verse) = "deutero"
        BY DEF Hits, VersesIn, CanonOk
  <2>. QED  BY <2>1, <2>2 DEF ToSet
<1>7. ToSet(both) = ToSet(base) \cup ToSet(slice)
      BY <1>1, <1>2, JoinedSet
<1>8. T \in SUBSET S
      BY <1>7 DEF VersesFound
<1>9. \A v \in S : v \in T <=> CanonOf(v) = "protestant"
  <2>1. ASSUME NEW v \in S, CanonOf(v) = "protestant"
        PROVE  v \in T
        BY <1>6, <1>7, <2>1 DEF VersesFound
  <2>. QED  BY <1>3, <1>5, <2>1
<1>10. \A r : IsRun(T, r) <=> IsRun(S, r) /\ CanonOf(r[1]) = "protestant"
       BY <1>3, <1>8, <1>9, RunsOfACanon
<1>11. ASSUME NEW r \in Seq(T)
       PROVE  Passage(both, r) = Passage(base, r)
  <2>1. \A v \in ToSet(r) : v \in T
        BY DEF ToSet
  <2>2. {h \in ToSet(both) : h.verse \in ToSet(r)} = {h \in ToSet(base) : h.verse \in ToSet(r)}
        BY <1>3, <1>5, <1>6, <1>7, <2>1
  <2>3. RunScore(both, r) = RunScore(base, r)
        BY <2>2 DEF RunScore
  <2>. QED  BY <2>3 DEF Passage
<1>12. {p \in PassagesOf(both) : p.canon = "protestant"} = PassagesOf(base)
  <2>1. \A r : Passage(both, r).canon = CanonOf(r[1])
        BY DEF Passage
  <2>2. \A r : IsRun(S, r) => r \in Seq(S)
        BY DEF IsRun
  <2>3. \A r : IsRun(T, r) => r \in Seq(T)
        BY DEF IsRun
  <2>4. ASSUME NEW p \in PassagesOf(both), p.canon = "protestant"
        PROVE  p \in PassagesOf(base)
    <3>1. PICK r : r \in Seq(S) /\ IsRun(S, r) /\ p = Passage(both, r)
          BY DEF PassagesOf
    <3>2. IsRun(T, r) /\ r \in Seq(T)
          BY <1>10, <2>1, <2>3, <2>4, <3>1
    <3>3. p = Passage(base, r)
          BY <1>11, <3>1, <3>2
    <3>. QED  BY <3>2, <3>3 DEF PassagesOf
  <2>5. ASSUME NEW p \in PassagesOf(base)
        PROVE  p \in PassagesOf(both) /\ p.canon = "protestant"
    <3>1. PICK r : r \in Seq(T) /\ IsRun(T, r) /\ p = Passage(base, r)
          BY DEF PassagesOf
    <3>2. IsRun(S, r) /\ CanonOf(r[1]) = "protestant" /\ r \in Seq(S)
          BY <1>10, <2>2, <3>1
    <3>3. p = Passage(both, r)
          BY <1>11, <3>1
    <3>. QED  BY <2>1, <3>2, <3>3 DEF PassagesOf
  <2>. QED  BY <2>4, <2>5
<1>13. {ranges[i] : i \in I} = PassagesOf(base)
  <2>1. ToSet(ranges) = PassagesOf(both) /\ ToSet(ranges) = {ranges[i] : i \in DOMAIN ranges}
        BY <1>4 DEF Enumerates, ToSet
  <2>. HIDE DEF ranges
  <2>2. {ranges[i] : i \in I} = {p \in PassagesOf(both) : p.canon = "protestant"}
        BY <2>1
  <2>. QED  BY <1>12, <2>2
<1>14. Enumerates(Pick(ranges, I), PassagesOf(base), Better)
       BY <1>4, <1>13, PickEnumerates
<1>15. Pick(ranges, I) = AsRanges(base)
       BY <1>4, <1>14, OneOrder
<1>. QED  BY <1>15 DEF OfCanon, base, both

LEMMA JoinedParts ==
    ASSUME NEW X, NEW a \in Seq(X), NEW b \in Seq(X)
    PROVE  /\ IsPrefix(a, a \o b)
           /\ SubSeq(a \o b, Len(a) + 1, Len(a \o b)) = b
<1>. DEFINE s == a \o b
            m == Len(a)
            n == Len(b)
<1>1. m \in Nat /\ n \in Nat /\ DOMAIN a = 1..m /\ DOMAIN b = 1..n
      OBVIOUS
<1>2. /\ s \in Seq(X) /\ Len(s) = m + n /\ DOMAIN s = 1..(m + n)
      /\ \A i \in 1..m : s[i] = a[i]
      /\ \A i \in 1..n : s[m + i] = b[i]
      BY <1>1
<1>. HIDE DEF s
<1>3. SubSeq(a, 1, m) = SubSeq(s, 1, m)
  <2>1. SubSeq(a, 1, m) = [i \in 1..m |-> a[i]]
        BY <1>1
  <2>2. SubSeq(s, 1, m) = [i \in 1..m |-> s[i]]
        BY <1>1, <1>2
  <2>. HIDE DEF m
  <2>. QED  BY <1>2, <2>1, <2>2
<1>4. SubSeq(s, m + 1, m + n) = b
  <2>. DEFINE t == SubSeq(s, m + 1, m + n)
  <2>. HIDE DEF m, n
  <2>1. t \in Seq(X) /\ Len(t) = n
        BY <1>1, <1>2
  <2>2. ASSUME NEW i \in 1..n
        PROVE  t[i] = b[i]
    <3>1. t[i] = s[m + 1 + i - 1]
          BY <1>1, <1>2
    <3>2. m + 1 + i - 1 = m + i
          BY <1>1
    <3>. QED  BY <1>2, <3>1, <3>2
  <2>. HIDE DEF t
  <2>3. DOMAIN t = 1..n /\ t = [i \in DOMAIN t |-> t[i]]
        BY <1>1, <2>1
  <2>4. b = [i \in DOMAIN b |-> b[i]]
        OBVIOUS
  <2>. QED  BY <1>1, <2>2, <2>3, <2>4 DEF t
<1>5. IsPrefix(a, s)
      BY <1>1, <1>2, <1>3 DEF IsPrefix
<1>. QED  BY <1>2, <1>4, <1>5 DEF s

LEMMA OfCanonType ==
    ASSUME NEW X, NEW ranges \in Seq(X), NEW canon
    PROVE  /\ OfCanon(ranges, canon) \in Seq(X)
           /\ \A p \in ToSet(OfCanon(ranges, canon)) : p.canon = canon
<1>. DEFINE I == {i \in DOMAIN ranges : ranges[i].canon = canon}
<1>1. I \in SUBSET (DOMAIN ranges) /\ \A i \in I : ranges[i].canon = canon
      OBVIOUS
<1>. HIDE DEF I
<1>. QED  BY <1>1, PickPicks DEF OfCanon, I

\* What is sent with the Deuterocanon: what is sent without it, and then passages
\* of the Deuterocanon, as many as there are places or passages.
LEMMA BothSendsMore ==
    ASSUME NEW q, IsQuery(q)
    PROVE  LET ranges   == AsRanges(Search(q, "both"))
               sent66   == TopCut(AsRanges(Search(q, "66")), "66")
               sentBoth == TopCut(ranges, "both")
               added    == Take(OfCanon(ranges, "deutero"), DeuteroSlice)
           IN /\ sentBoth = sent66 \o added
              /\ sent66 \in Seq(Passages("both")) /\ added \in Seq(Passages("both"))
              /\ \A p \in ToSet(added) : p.canon = "deutero"
              /\ Len(added) = AtMost(Len(OfCanon(ranges, "deutero")), DeuteroSlice)
<1>. DEFINE ranges == AsRanges(Search(q, "both"))
            sixtySix == AsRanges(Search(q, "66"))
            deutero == OfCanon(ranges, "deutero")
<1>1. OfCanon(ranges, "protestant") = sixtySix
      BY RangesOfTheSixtySix
<1>2. ranges \in Seq(Passages("both")) /\ sixtySix \in Seq(Passages("both"))
  <2>1. ranges \in Seq(Passages("both"))
        BY SearchType, AsRangesType
  <2>. HIDE DEF ranges, sixtySix
  <2>. QED  BY <1>1, <2>1, OfCanonType
<1>. HIDE DEF ranges, sixtySix
<1>3. TopN \in Nat /\ DeuteroSlice \in Nat
      BY IndexAssumption
<1>4. /\ TopCut(sixtySix, "66") = Take(sixtySix, TopN)
      /\ TopCut(ranges, "both") = Take(sixtySix, TopN) \o Take(deutero, DeuteroSlice)
      BY <1>1 DEF TopCut
<1>5. deutero \in Seq(Passages("both")) /\ \A p \in ToSet(deutero) : p.canon = "deutero"
      BY <1>2, OfCanonType
<1>. HIDE DEF deutero
<1>6. Take(sixtySix, TopN) \in Seq(Passages("both"))
      BY <1>2, <1>3, TakeTakes
<1>7. /\ Take(deutero, DeuteroSlice) \in Seq(Passages("both"))
      /\ ToSet(Take(deutero, DeuteroSlice)) \subseteq ToSet(deutero)
      /\ Len(Take(deutero, DeuteroSlice)) = AtMost(Len(deutero), DeuteroSlice)
      BY <1>3, <1>5, TakeTakes
<1>. QED  BY <1>4, <1>5, <1>6, <1>7 DEF ranges, sixtySix, deutero

----------------------------------------------------------------------------
(* What is sent.                                                           *)

\* A passage is known by its reference, and by each of its verses.
LEMMA PassagesApart ==
    ASSUME NEW mode, NEW hits \in Seq(Hits(mode)),
           NEW p \in PassagesOf(hits), NEW t \in PassagesOf(hits)
    PROVE  /\ ReferenceOf(p.ids) = ReferenceOf(t.ids) => p = t
           /\ ToSet(p.ids) \cap ToSet(t.ids) # {} => p = t
<1>. DEFINE S == VersesFound(hits)
            runs == Runs(Ascending(S))
<1>1. S \in SUBSET Int /\ IsFiniteSet(S) /\ S \in SUBSET Verses
      BY FoundType
<1>2. PICK a : a \in Seq(S) /\ IsRun(S, a) /\ p = Passage(hits, a)
      BY DEF PassagesOf
<1>3. PICK b : b \in Seq(S) /\ IsRun(S, b) /\ t = Passage(hits, b)
      BY DEF PassagesOf
<1>4. p.ids = a /\ t.ids = b
      BY <1>2, <1>3 DEF Passage
<1>. HIDE DEF S
<1>5. ASSUME ReferenceOf(a) = ReferenceOf(b)
      PROVE  a = b
  <2>1. a[1] \in S /\ b[1] \in S
        BY <1>2, <1>3 DEF IsRun
  <2>2. Book(a[1]) = Book(b[1]) /\ Chapter(a[1]) = Chapter(b[1]) /\ Num(a[1]) = Num(b[1])
        BY <1>5 DEF ReferenceOf
  <2>3. a[1] \in Nat /\ b[1] \in Nat
        BY <1>1, <2>1, BibleAssumption
  <2>4. a[1] = b[1]
        BY <2>2, <2>3, SameParts
  <2>. QED  BY <1>1, <1>2, <1>3, <2>4, OneRunFrom
<1>6. ASSUME ToSet(a) \cap ToSet(b) # {}
      PROVE  a = b
  <2>1. /\ \A r : IsRun(S, r) => \E k \in DOMAIN runs : runs[k] = r
        /\ \A k, l \in DOMAIN runs : ToSet(runs[k]) \cap ToSet(runs[l]) # {} => k = l
        BY <1>1, RunsOfASet
  <2>. HIDE DEF runs
  <2>2. PICK k \in DOMAIN runs : runs[k] = a
        BY <1>2, <2>1
  <2>3. PICK l \in DOMAIN runs : runs[l] = b
        BY <1>3, <2>1
  <2>4. k = l
        BY <1>6, <2>1, <2>2, <2>3
  <2>. QED  BY <2>2, <2>3, <2>4
<1>. QED  BY <1>2, <1>3, <1>4, <1>5, <1>6

\* A sequence in an order holds nothing twice.
LEMMA EnumeratesOnce ==
    ASSUME NEW P, NEW R, NEW s, Enumerates(s, P, R)
    PROVE  \A i, j \in DOMAIN s : s[i] = s[j] => i = j
<1>1. DOMAIN s = 1..Len(s) /\ Len(s) \in Nat
      BY DEF Enumerates
<1>2. ASSUME NEW i \in DOMAIN s, NEW j \in DOMAIN s, s[i] = s[j], i < j
      PROVE  FALSE
  <2>1. <<s[i], s[j]>> \in R
        BY <1>2 DEF Enumerates
  <2>2. <<s[i], s[i]>> \in R
        BY <1>2, <2>1
  <2>3. i < i
        BY <2>2 DEF Enumerates
  <2>. QED  BY <1>1, <2>3
<1>3. ASSUME NEW i \in DOMAIN s, NEW j \in DOMAIN s, s[i] = s[j]
      PROVE  i = j
  <2>1. ~(i < j) /\ ~(j < i)
        BY <1>2, <1>3
  <2>. QED  BY <1>1, <2>1
<1>. QED  BY <1>3

LEMMA CanonOfAPassage ==
    ASSUME NEW q, IsQuery(q), NEW p \in PassagesOf(Search(q, "both"))
    PROVE  /\ p \in Passages("both")
           /\ \E h \in ToSet(Search(q, "both")) :
                 CanonOf(h.verse) = p.canon /\ h.score = p.score
<1>. DEFINE both == Search(q, "both")
            S == VersesFound(both)
<1>1. both \in Seq(Hits("both"))
      BY SearchType
<1>. HIDE DEF both
<1>2. PICK r : r \in Seq(S) /\ IsRun(S, r) /\ p = Passage(both, r)
      BY DEF PassagesOf, both
<1>3. r # <<>>
      BY <1>2 DEF IsRun
<1>4. PICK h \in ToSet(both) : h.verse \in ToSet(r) /\ h.score = RunScore(both, r)
      BY <1>1, <1>2, <1>3, ScoreOfARun
<1>5. p \in Passages("both")
  <2>1. Enumerates(AsRanges(both), PassagesOf(both), Better) /\ AsRanges(both) \in Seq(Passages("both"))
        BY <1>1, RangesEnumerate, AsRangesType
  <2>2. \A i \in DOMAIN AsRanges(both) : AsRanges(both)[i] \in Passages("both")
        BY <2>1
  <2>3. p \in ToSet(AsRanges(both))
        BY <2>1 DEF Enumerates, both
  <2>. QED  BY <2>2, <2>3 DEF ToSet
<1>6. OneChapter(r)
      BY <1>2, <1>5 DEF Passage, Passages
<1>7. Book(h.verse) = Book(r[1])
      BY <1>4, <1>6 DEF ToSet, OneChapter
<1>8. CanonOf(h.verse) = CanonOf(r[1])
      BY <1>7, CanonIsOfTheBook
<1>9. p.canon = CanonOf(r[1]) /\ p.score = RunScore(both, r)
      BY <1>2 DEF Passage
<1>. QED  BY <1>4, <1>5, <1>8, <1>9 DEF both

\* A passage of the Deuterocanon is scored below every passage of the 66 books.
LEMMA DeuterocanonIsBelow ==
    ASSUME NEW q, IsQuery(q),
           NEW p \in PassagesOf(Search(q, "both")), p.canon = "protestant",
           NEW t \in PassagesOf(Search(q, "both")), t.canon = "deutero"
    PROVE  <<p, t>> \in Better /\ <<t, p>> \notin Better
<1>. DEFINE base == Search(q, "66")
            both == Search(q, "both")
<1>1. PICK slice \in Seq(Hits("deutero-only")) :
         /\ both = base \o slice
         /\ \A g \in ToSet(base), h \in ToSet(slice) : g.score > h.score
      BY BothAddsASlice
<1>2. base \in Seq(Hits("66"))
      BY SearchType
<1>3. PICK g \in ToSet(both) : CanonOf(g.verse) = "protestant" /\ g.score = p.score
      BY CanonOfAPassage
<1>4. PICK h \in ToSet(both) : CanonOf(h.verse) = "deutero" /\ h.score = t.score
      BY CanonOfAPassage
<1>5. p \in Passages("both") /\ t \in Passages("both")
      BY CanonOfAPassage
<1>. HIDE DEF base, both
<1>6. ToSet(both) = ToSet(base) \cup ToSet(slice)
      BY <1>1, <1>2, JoinedSet
<1>7. /\ \A i \in DOMAIN base : base[i] \in Hits("66")
      /\ \A i \in DOMAIN slice : slice[i] \in Hits("deutero-only")
      BY <1>2
<1>8. /\ \A x \in ToSet(base) : CanonOf(x.verse) = "protestant"
      /\ \A x \in ToSet(slice) : CanonOf(x.verse) = "deutero"
      BY <1>7 DEF ToSet, Hits, VersesIn, CanonOk
<1>9. g \in ToSet(base) /\ h \in ToSet(slice)
      BY <1>3, <1>4, <1>6, <1>8
<1>10. p.score > t.score
       BY <1>1, <1>3, <1>4, <1>9
<1>11. p.score \in Int /\ t.score \in Int
       BY <1>5 DEF Passages
<1>. QED  BY <1>5, <1>10, <1>11 DEF Better

\* The order in which passages are sent is the order of the ranking.
LEMMA CutEnumerates ==
    ASSUME NEW q, IsQuery(q), NEW mode \in {"66", "both"}
    PROVE  LET ranges == AsRanges(Search(q, mode))
               cut    == TopCut(ranges, mode)
           IN /\ Enumerates(cut, ToSet(cut), Better)
              /\ ToSet(cut) \subseteq ToSet(ranges)
<1>. DEFINE P == PassagesOf(Search(q, mode))
            ranges == AsRanges(Search(q, mode))
<1>1. Enumerates(ranges, P, Better)
      BY SearchType, RangesEnumerate
<1>2. ToSet(ranges) = P /\ ranges \in Seq(P)
      BY <1>1 DEF Enumerates
<1>. HIDE DEF ranges
<1>3. TopN \in Nat /\ DeuteroSlice \in Nat
      BY IndexAssumption
<1>4. CASE mode = "66"
  <2>1. TopCut(ranges, mode) = Take(ranges, TopN)
        BY <1>4 DEF TopCut
  <2>2. ToSet(Take(ranges, TopN)) \subseteq ToSet(ranges)
        BY <1>2, <1>3, TakeTakes
  <2>3. Enumerates(Take(ranges, TopN), ToSet(Take(ranges, TopN)), Better)
        BY <1>1, <1>3, TakeEnumerates
  <2>. QED  BY <2>1, <2>2, <2>3 DEF ranges
<1>5. CASE mode = "both"
  <2>. DEFINE a == Take(OfCanon(ranges, "protestant"), TopN)
              b == Take(OfCanon(ranges, "deutero"), DeuteroSlice)
  <2>1. ASSUME NEW canon, NEW n \in Nat
        PROVE  LET t == Take(OfCanon(ranges, canon), n)
               IN /\ Enumerates(t, ToSet(t), Better)
                  /\ ToSet(t) \subseteq P
                  /\ \A p \in ToSet(t) : p.canon = canon
    <3>. DEFINE I == {i \in DOMAIN ranges : ranges[i].canon = canon}
                t == Take(OfCanon(ranges, canon), n)
    <3>1. I \in SUBSET (DOMAIN ranges)
          OBVIOUS
    <3>2. Enumerates(Pick(ranges, I), {ranges[i] : i \in I}, Better)
          BY <1>1, <3>1, PickEnumerates
    <3>3. Enumerates(t, ToSet(t), Better)
          BY <3>2, TakeEnumerates DEF OfCanon
    <3>4. OfCanon(ranges, canon) \in Seq(P) /\ \A p \in ToSet(OfCanon(ranges, canon)) : p.canon = canon
          BY <1>2, OfCanonType
    <3>5. t \in Seq(P) /\ ToSet(t) \subseteq ToSet(OfCanon(ranges, canon))
          BY <3>4, TakeTakes
    <3>. HIDE DEF t, P
    <3>6. \A i \in DOMAIN t : t[i] \in P
          BY <3>5
    <3>7. ToSet(t) \subseteq P
          BY <3>6 DEF ToSet
    <3>. QED  BY <3>3, <3>4, <3>5, <3>7 DEF t
  <2>2. /\ Enumerates(a, ToSet(a), Better) /\ ToSet(a) \subseteq P
        /\ \A p \in ToSet(a) : p.canon = "protestant"
        BY <1>3, <2>1
  <2>3. /\ Enumerates(b, ToSet(b), Better) /\ ToSet(b) \subseteq P
        /\ \A p \in ToSet(b) : p.canon = "deutero"
        BY <1>3, <2>1
  <2>4. TopCut(ranges, mode) = a \o b
        BY <1>5 DEF TopCut
  <2>. HIDE DEF a, b
  <2>5. \A x \in ToSet(a), y \in ToSet(b) : <<x, y>> \in Better /\ <<y, x>> \notin Better
        BY <1>5, <2>2, <2>3, DeuterocanonIsBelow
  <2>. HIDE DEF P
  <2>6. Enumerates(a \o b, ToSet(a) \cup ToSet(b), Better)
        BY <2>2, <2>3, <2>5, JoinEnumerates
  <2>7. ToSet(a \o b) = ToSet(a) \cup ToSet(b)
        BY <2>6 DEF Enumerates
  <2>8. ToSet(a \o b) \subseteq ToSet(ranges)
        BY <1>2, <2>2, <2>3, <2>7
  <2>. QED  BY <2>4, <2>6, <2>7, <2>8 DEF ranges
<1>. QED  BY <1>4, <1>5

----------------------------------------------------------------------------
(* Sequences that hold nothing twice.                                      *)

LEMMA PickOnce ==
    ASSUME NEW X, NEW s \in Seq(X), NEW I \in SUBSET (DOMAIN s),
           \A i, j \in I : s[i] = s[j] => i = j
    PROVE  IsInjective(Pick(s, I))
<1>. DEFINE f == Ascending(I)
            n == Cardinality(I)
<1>1. IsFiniteSet(I) /\ I \in SUBSET Int
  <2>1. Len(s) \in Nat /\ DOMAIN s = 1..Len(s)
        OBVIOUS
  <2>2. IsFiniteSet(1..Len(s))
        BY <2>1, CountTo
  <2>. QED  BY <2>1, <2>2, FS_Subset
<1>2. /\ n \in Nat /\ f \in [1..n -> I]
      /\ \A i, j \in 1..n : i < j <=> f[i] < f[j]
      BY <1>1, AscendingIsOrdered
<1>3. Pick(s, I) = [k \in 1..n |-> s[f[k]]]
      BY <1>2 DEF Pick
<1>. HIDE DEF f, n
<1>4. ASSUME NEW i \in 1..n, NEW j \in 1..n, s[f[i]] = s[f[j]]
      PROVE  i = j
  <2>1. f[i] = f[j]
        BY <1>2, <1>4
  <2>2. ~(i < j) /\ ~(j < i)
    <3>1. f[i] \in Int
          BY <1>1, <1>2
    <3>2. ~(f[i] < f[j]) /\ ~(f[j] < f[i])
          BY <2>1, <3>1
    <3>. QED  BY <1>2, <3>2
  <2>. QED  BY <1>2, <2>2
<1>. QED  BY <1>3, <1>4 DEF IsInjective

\* Distinct(s) holds what s holds, once.
LEMMA DistinctOnce ==
    ASSUME NEW X, NEW s \in Seq(X)
    PROVE  IsInjective(Distinct(s)) /\ ToSet(Distinct(s)) = ToSet(s)
<1>. DEFINE I == {i \in DOMAIN s : \A j \in 1..(i - 1) : s[j] # s[i]}
<1>1. DOMAIN s = 1..Len(s) /\ Len(s) \in Nat /\ I \in SUBSET (DOMAIN s)
      OBVIOUS
<1>2. ASSUME NEW i \in I, NEW j \in I, s[i] = s[j]
      PROVE  i = j
  <2>1. ~(i < j)
    <3>1. SUFFICES ASSUME i < j
                   PROVE  FALSE
          OBVIOUS
    <3>2. i \in 1..(j - 1)
          BY <1>1, <3>1
    <3>. QED  BY <1>2, <3>2
  <2>2. ~(j < i)
    <3>1. SUFFICES ASSUME j < i
                   PROVE  FALSE
          OBVIOUS
    <3>2. j \in 1..(i - 1)
          BY <1>1, <3>1
    <3>. QED  BY <1>2, <3>2
  <2>. QED  BY <1>1, <2>1, <2>2
<1>3. \A v \in ToSet(s) : \E i \in I : s[i] = v
  <2>. SUFFICES ASSUME NEW v \in ToSet(s)
                PROVE  \E i \in I : s[i] = v
       OBVIOUS
  <2>. DEFINE E == {i \in DOMAIN s : s[i] = v}
  <2>1. E # {}
        BY DEF ToSet
  <2>2. E \in SUBSET Nat
        BY <1>1
  <2>3. PICK i \in E : \A j \in E : i <= j
        BY <2>1, <2>2, Least
  <2>4. ASSUME NEW j \in 1..(i - 1)
        PROVE  s[j] # s[i]
    <3>1. j \in DOMAIN s /\ ~(i <= j)
          BY <1>1
    <3>. QED  BY <2>3, <3>1
  <2>. QED  BY <2>4
<1>4. ToSet(Distinct(s)) = {s[i] : i \in I}
      BY <1>1, PickPicks DEF Distinct
<1>5. \A i \in I : s[i] \in ToSet(s)
      BY <1>1 DEF ToSet
<1>6. Distinct(s) = Pick(s, I)
      BY DEF Distinct
<1>. HIDE DEF I
<1>7. IsInjective(Pick(s, I))
      BY <1>1, <1>2, PickOnce
<1>. QED  BY <1>3, <1>4, <1>5, <1>6, <1>7

LEMMA SortedOnce ==
    ASSUME NEW X, NEW s \in Seq(X), NEW key \in [DOMAIN s -> Int], IsInjective(s)
    PROVE  IsInjective(Sorted(s, key))
<1>. DEFINE n == Len(s)
            t == Sorted(s, key)
<1>1. n \in Nat /\ DOMAIN s = 1..n
      OBVIOUS
<1>2. PICK order \in [1..n -> 1..n] : Arranges(t, s, key, order)
      BY SortedIsOrdered
<1>3. /\ t = [i \in 1..n |-> s[order[i]]]
      /\ \A i, j \in 1..n :
            i < j <=> \/ key[order[i]] < key[order[j]]
                      \/ key[order[i]] = key[order[j]] /\ order[i] < order[j]
      BY <1>2 DEF Arranges
<1>. HIDE DEF t
<1>4. ASSUME NEW i \in 1..n, NEW j \in 1..n, t[i] = t[j]
      PROVE  i = j
  <2>1. order[i] \in 1..n /\ order[j] \in 1..n
        OBVIOUS
  <2>2. order[i] = order[j]
        BY <1>1, <1>3, <1>4, <2>1 DEF IsInjective
  <2>3. key[order[i]] \in Int /\ order[i] \in Int
        BY <1>1, <2>1
  <2>4. ~(key[order[i]] < key[order[j]]) /\ ~(order[i] < order[j])
        BY <2>2, <2>3
  <2>5. ~(key[order[j]] < key[order[i]]) /\ ~(order[j] < order[i])
        BY <2>2, <2>3
  <2>6. ~(i < j) /\ ~(j < i)
        BY <1>3, <2>4, <2>5
  <2>. QED  BY <1>1, <2>6
<1>. QED  BY <1>3, <1>4 DEF IsInjective, t

LEMMA JoinedOnce ==
    ASSUME NEW X, NEW a \in Seq(X), NEW b \in Seq(X), IsInjective(a), IsInjective(b),
           ToSet(a) \cap ToSet(b) = {}
    PROVE  IsInjective(a \o b)
<1>. DEFINE m == Len(a)
            n == Len(b)
            c == a \o b
<1>1. m \in Nat /\ n \in Nat /\ DOMAIN a = 1..m /\ DOMAIN b = 1..n /\ DOMAIN c = 1..(m + n)
      OBVIOUS
<1>2. \A i \in 1..(m + n) : /\ i <= m => i \in 1..m /\ c[i] = a[i]
                            /\ ~(i <= m) => i - m \in 1..n /\ c[i] = b[i - m]
      OBVIOUS
<1>3. \A i \in 1..m, j \in 1..n : a[i] # b[j]
      BY <1>1 DEF ToSet
<1>. HIDE DEF c, m, n
<1>4. ASSUME NEW i \in 1..(m + n), NEW j \in 1..(m + n), c[i] = c[j]
      PROVE  i = j
  <2>1. CASE i <= m /\ j <= m
        BY <1>1, <1>2, <1>4, <2>1 DEF IsInjective
  <2>2. CASE i <= m /\ ~(j <= m)
        BY <1>2, <1>3, <1>4, <2>2
  <2>3. CASE ~(i <= m) /\ j <= m
        BY <1>2, <1>3, <1>4, <2>3
  <2>4. CASE ~(i <= m) /\ ~(j <= m)
    <3>1. i - m = j - m
          BY <1>1, <1>2, <1>4, <2>4 DEF IsInjective
    <3>. QED  BY <1>1, <3>1
  <2>. QED  BY <2>1, <2>2, <2>3, <2>4
<1>. QED  BY <1>1, <1>4 DEF IsInjective, c

\* Sequences that hold nothing twice and have nothing in common, put together.
LEMMA FlattenOnce ==
    ASSUME NEW X, NEW ss \in Seq(Seq(X)),
           \A i \in DOMAIN ss : IsInjective(ss[i]),
           \A i, j \in DOMAIN ss : i # j => ToSet(ss[i]) \cap ToSet(ss[j]) = {}
    PROVE  /\ IsInjective(FlattenSeq(ss))
           /\ ToSet(FlattenSeq(ss)) = UNION {ToSet(ss[i]) : i \in DOMAIN ss}
<1>. DEFINE n == Len(ss)
            Upto(i) == UNION {ToSet(ss[j]) : j \in 1..i}
<1>1. n \in Nat /\ DOMAIN ss = 1..n /\ \A i \in 1..n : ss[i] \in Seq(X)
      OBVIOUS
<1>2. CASE ss = <<>>
  <2>1. FlattenSeq(ss) = ss
        BY <1>2 DEF FlattenSeq
  <2>2. DOMAIN ss = {}
        BY <1>2
  <2>. QED  BY <2>1, <2>2 DEF IsInjective, ToSet
<1>3. CASE ss # <<>>
  <2>1. PICK f \in [1..n -> Seq(X)] :
           /\ FlattenSeq(ss) = f[n]
           /\ \A i \in 1..n : f[i] = IF i = 1 THEN ss[i] ELSE f[i - 1] \o ss[i]
        BY <1>3, FlattenSteps
  <2>. DEFINE E == {i \in 1..n : ~(IsInjective(f[i]) /\ ToSet(f[i]) = Upto(i))}
  <2>2. E = {}
    <3>1. SUFFICES ASSUME E # {}
                   PROVE  FALSE
          OBVIOUS
    <3>2. E \in SUBSET Nat
          BY <1>1
    <3>3. PICK i \in E : \A j \in E : i <= j
          BY <3>1, <3>2, Least
    <3>4. i \in 1..n
          OBVIOUS
    <3>5. CASE i = 1
      <4>1. f[i] = ss[i]
            BY <2>1, <3>4, <3>5
      <4>0. 1..i = {1}
            BY <3>5
      <4>2. Upto(i) = ToSet(ss[i])
            BY <3>5, <4>0
      <4>. QED  BY <1>1, <3>4, <4>1, <4>2
    <3>6. CASE i # 1
      <4>. DEFINE before == f[i - 1]
                  here == ss[i]
      <4>1. i - 1 \in 1..n /\ ~(i <= i - 1)
            BY <1>1, <3>4, <3>6
      <4>2. IsInjective(before) /\ ToSet(before) = Upto(i - 1)
            BY <3>3, <4>1
      <4>3. f[i] = before \o here /\ before \in Seq(X) /\ here \in Seq(X)
            BY <1>1, <2>1, <3>4, <3>6, <4>1
      <4>4. IsInjective(here)
            BY <1>1, <3>4
      <4>5. ToSet(before) \cap ToSet(here) = {}
        <5>1. ASSUME NEW j \in 1..(i - 1)
              PROVE  ToSet(ss[j]) \cap ToSet(ss[i]) = {}
          <6>1. j \in 1..n /\ j # i
                BY <1>1, <3>4
          <6>. QED  BY <1>1, <3>4, <6>1
        <5>. QED  BY <4>2, <5>1
      <4>. HIDE DEF before, here, Upto
      <4>6. IsInjective(f[i])
            BY <4>2, <4>3, <4>4, <4>5, JoinedOnce
      <4>7. ToSet(f[i]) = Upto(i - 1) \cup ToSet(here)
            BY <4>2, <4>3, JoinedSet
      <4>8. Upto(i) = Upto(i - 1) \cup ToSet(here)
        <5>1. 1..i = (1..(i - 1)) \cup {i}
              BY <1>1, <3>4
        <5>. QED  BY <5>1 DEF Upto, here
      <4>. QED  BY <4>6, <4>7, <4>8
    <3>. QED  BY <3>5, <3>6
  <2>3. n \in 1..n
        BY <1>1, <1>3
  <2>4. IsInjective(f[n]) /\ ToSet(f[n]) = Upto(n)
        BY <2>2, <2>3
  <2>. QED  BY <1>1, <2>1, <2>4
<1>. QED  BY <1>2, <1>3

\* g is what a step, taken n times, leads to.
Iterated(g, base, n, step) == g[0] = base /\ \A i \in 1..n : g[i] = step[<<i, g[i - 1]>>]

LEMMA Iterates ==
    ASSUME NEW S, NEW base \in S, NEW n \in Nat, NEW step \in [(1..n) \X S -> S]
    PROVE  \E g \in [0..n -> S] : Iterated(g, base, n, step)
<1>. DEFINE Steps(g, m) == g[0] = base /\ \A i \in 1..m : g[i] = step[<<i, g[i - 1]>>]
            Upto(m) == \E g \in [0..m -> S] : Steps(g, m)
            E == {m \in 0..n : ~Upto(m)}
<1>1. SUFFICES E = {}
  <2>1. n \in 0..n
        OBVIOUS
  <2>2. PICK g \in [0..n -> S] : Steps(g, n)
        BY <2>1
  <2>. QED  BY <2>2 DEF Iterated
<1>2. SUFFICES ASSUME E # {}
               PROVE  FALSE
      OBVIOUS
<1>3. E \in SUBSET Nat
      OBVIOUS
<1>4. PICK m \in E : \A k \in E : m <= k
      BY <1>2, <1>3, Least
<1>5. CASE m = 0
  <2>. DEFINE g == [i \in 0..0 |-> base]
  <2>1. g \in [0..m -> S] /\ Steps(g, m)
        BY <1>5
  <2>. QED  BY <2>1
<1>6. CASE m # 0
  <2>1. m \in 1..n /\ m - 1 \in 0..n /\ ~(m <= m - 1)
        BY <1>6
  <2>2. PICK g \in [0..(m - 1) -> S] : Steps(g, m - 1)
        BY <1>4, <2>1
  <2>. DEFINE f == [i \in 0..m |-> IF i = m THEN step[<<m, g[m - 1]>>] ELSE g[i]]
  <2>3. m - 1 \in 0..(m - 1) /\ g[m - 1] \in S
        BY <2>1, <2>2
  <2>4. step[<<m, g[m - 1]>>] \in S
        BY <2>1, <2>3
  <2>5. f \in [0..m -> S]
        BY <2>1, <2>4
  <2>6. f[0] = base
        BY <2>1, <2>2
  <2>7. ASSUME NEW i \in 1..m
        PROVE  f[i] = step[<<i, f[i - 1]>>]
    <3>1. i - 1 \in 0..m /\ i - 1 # m /\ f[i - 1] = g[i - 1]
          BY <2>1
    <3>2. CASE i = m
          BY <2>1, <3>1, <3>2
    <3>3. CASE i # m
      <4>1. i \in 1..(m - 1) /\ f[i] = g[i]
            BY <2>1, <3>3
      <4>. QED  BY <2>2, <3>1, <4>1
    <3>. QED  BY <3>2, <3>3
  <2>. HIDE DEF f
  <2>8. Steps(f, m)
        BY <2>6, <2>7
  <2>. QED  BY <2>5, <2>8
<1>. QED  BY <1>5, <1>6
=============================================================================
