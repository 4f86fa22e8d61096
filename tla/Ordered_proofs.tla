--------------------------- MODULE Ordered_proofs ---------------------------
(***************************************************************************)
(* What the list operations of Ordered return, for lists of every length.  *)
(***************************************************************************)
EXTENDS Ordered, FiniteSetTheorems, SequenceTheorems, TLAPS

\* The size of an interval
LEMMA Positions ==
    ASSUME NEW n \in Nat
    PROVE  IsFiniteSet(1..n) /\ Cardinality(1..n) = n
BY FS_Interval

\* Ranks are positions, and no two elements share one.
LEMMA RankInjective ==
    ASSUME NEW S, IsFiniteSet(S), S \subseteq Int \X Int
    PROVE  /\ \A x \in S : Rank(S, x) \in 1..Cardinality(S)
           /\ \A x, y \in S : Rank(S, x) = Rank(S, y) => x = y
<1> DEFINE Upto(x) == {y \in S : Precedes(y, x)}
<1>1. \A x \in S : /\ IsFiniteSet(Upto(x))
                   /\ Cardinality(Upto(x)) \in Nat
                   /\ Cardinality(Upto(x)) <= Cardinality(S)
  BY FS_Subset, FS_CardinalityType
<1>2. \A x \in S : x \in Upto(x)
  BY DEF Precedes
<1>3. \A x \in S : Cardinality(Upto(x)) # 0
  BY <1>1, <1>2, FS_EmptySet
<1>4. \A x \in S : Rank(S, x) \in 1..Cardinality(S)
  BY <1>1, <1>3, FS_CardinalityType DEF Rank
<1>5. ASSUME NEW x \in S, NEW y \in S, x # y, Precedes(x, y)
      PROVE  Rank(S, x) # Rank(S, y)
  <2>1. Upto(x) \subseteq Upto(y)
    BY <1>5 DEF Precedes
  <2>2. y \notin Upto(x)
    BY <1>5 DEF Precedes
  <2>3. Upto(x) # Upto(y)
    BY <1>2, <2>2
  <2> QED
    BY <1>1, <2>1, <2>3, FS_Subset DEF Rank
<1>6. \A x, y \in S : Precedes(x, y) \/ Precedes(y, x)
  BY DEF Precedes
<1> QED
  BY <1>4, <1>5, <1>6

\* InOrder lists the elements of the set, each at its rank.
LEMMA InOrderElement ==
    ASSUME NEW S, IsFiniteSet(S), S \subseteq Int \X Int
    PROVE  /\ Cardinality(S) \in Nat
           /\ DOMAIN InOrder(S) = 1..Cardinality(S)
           /\ \A k \in DOMAIN InOrder(S) :
                InOrder(S)[k] \in S /\ Rank(S, InOrder(S)[k]) = k
<1> DEFINE n == Cardinality(S)
           f == [x \in S |-> Rank(S, x)]
<1>1. n \in Nat
  BY FS_CardinalityType
<1>2. IsFiniteSet(1..n) /\ Cardinality(1..n) = n
  BY <1>1, FS_Interval
<1>3. f \in Injection(S, 1..n)
  BY RankInjective DEF Injection, IsInjective
<1>4. f \in Surjection(S, 1..n)
  BY <1>2, <1>3, FS_Injection
<1>5. \A k \in 1..n : \E x \in S : Rank(S, x) = k
  BY <1>4 DEF Surjection
<1>6. \A k \in 1..n : InOrder(S)[k] \in S /\ Rank(S, InOrder(S)[k]) = k
  BY <1>5 DEF InOrder
<1> QED
  BY <1>1, <1>6 DEF InOrder

\* The list InOrder gives is increasing.
LEMMA InOrderIncreases ==
    ASSUME NEW S, IsFiniteSet(S), S \subseteq Int \X Int,
           NEW j \in DOMAIN InOrder(S), NEW k \in DOMAIN InOrder(S), j < k
    PROVE  ~Precedes(InOrder(S)[k], InOrder(S)[j])
<1> DEFINE x == InOrder(S)[j]
           y == InOrder(S)[k]
           Upto(z) == {w \in S : Precedes(w, z)}
<1>1. /\ x \in S /\ Rank(S, x) = j
      /\ y \in S /\ Rank(S, y) = k
  BY InOrderElement
<1>2. j \in Int /\ k \in Int
  BY InOrderElement
<1> HIDE DEF x, y
<1>3. SUFFICES ASSUME Precedes(y, x) PROVE FALSE
  BY DEF x, y
<1>4. Upto(y) \subseteq Upto(x)
  BY <1>1, <1>3 DEF Precedes
<1>5. IsFiniteSet(Upto(x))
  BY FS_Subset
<1>6. Cardinality(Upto(y)) <= Cardinality(Upto(x))
  BY <1>4, <1>5, FS_Subset
<1>7. k <= j
  BY <1>1, <1>6 DEF Rank
<1> QED
  BY <1>2, <1>7

\* A finite set of integers that is not empty has a least and a greatest element.
LEMMA Extremes ==
    ASSUME NEW S, IsFiniteSet(S), S \subseteq Int, S # {}
    PROVE  /\ \E x \in S : \A y \in S : x <= y
           /\ \E x \in S : \A y \in S : y <= x
<1> DEFINE P == {<<0, x>> : x \in S}
           n == Cardinality(P)
           f == [x \in S |-> <<0, x>>]
           Upto(p) == {q \in P : Precedes(q, p)}
<1>1. f \in Bijection(S, P)
  BY DEF Bijection, Injection, IsInjective, Surjection
<1>2. IsFiniteSet(P)
  BY <1>1, FS_Bijection DEF ExistsBijection
<1>0. PICK e \in S : TRUE
  OBVIOUS
<1>3. P \subseteq Int \X Int /\ <<0, e>> \in P
  BY <1>0
<1>4. n \in Nat /\ n # 0
  BY <1>2, <1>3, FS_CardinalityType, FS_EmptySet
<1>5. /\ DOMAIN InOrder(P) = 1..n
      /\ \A k \in 1..n : InOrder(P)[k] \in P /\ Rank(P, InOrder(P)[k]) = k
  BY <1>2, <1>3, InOrderElement
<1>6. \A p \in P : /\ IsFiniteSet(Upto(p))
                   /\ Cardinality(Upto(p)) = Rank(P, p)
                   /\ Upto(p) \in SUBSET P
  BY <1>2, FS_Subset DEF Rank
<1>7. \E x \in S : \A y \in S : y <= x
  <2> DEFINE p == InOrder(P)[n]
  <2>0. n \in 1..n
    BY <1>4
  <2>1. p \in P /\ Rank(P, p) = n
    BY <2>0, <1>5
  <2>2. Upto(p) = P
    BY <1>2, <1>6, <2>1, FS_Subset
  <2>3. \A y \in S : Precedes(<<0, y>>, p)
    BY <2>2
  <2>4. \A y \in S : y <= p[2]
    BY <2>1, <2>3 DEF Precedes
  <2> QED
    BY <2>1, <2>4
<1>8. \E x \in S : \A y \in S : x <= y
  <2> DEFINE p == InOrder(P)[1]
  <2>0. 1 \in 1..n
    BY <1>4
  <2>1. p \in P /\ Rank(P, p) = 1
    BY <2>0, <1>5
  <2>2. {p} \in SUBSET Upto(p)
    BY <2>1 DEF Precedes
  <2>3. IsFiniteSet({p}) /\ Cardinality({p}) = 1
    BY FS_Singleton
  <2>4. Upto(p) = {p}
    BY <1>6, <2>1, <2>2, <2>3, FS_Subset
  <2>5. \A y \in S : <<0, y>> = p \/ ~Precedes(<<0, y>>, p)
    BY <2>4
  <2>6. \A y \in S : p[2] <= y
    BY <2>1, <2>5 DEF Precedes
  <2> QED
    BY <2>1, <2>6
<1> QED
  BY <1>7, <1>8

\* A function on 1..n is a list of length n.
LEMMA FunctionIsSeq ==
    ASSUME NEW T, NEW n \in Nat, NEW f \in [1..n -> T]
    PROVE  f \in Seq(T) /\ Len(f) = n /\ DOMAIN f = 1..n
<1>1. f \in Seq(T)
  BY SeqDef
<1>2. 1..Len(f) = 1..n /\ Len(f) \in Nat
  BY <1>1, LenProperties
<1> QED
  BY <1>1, <1>2

\* What is left of a list holds elements of it, and no more than it had.
LEMMA PickElements ==
    ASSUME NEW T, NEW s \in Seq(T), NEW I, I \subseteq DOMAIN s
    PROVE  /\ Pick(s, I) \in Seq(T)
           /\ Len(Pick(s, I)) = Cardinality(I)
           /\ IsFiniteSet(I)
           /\ Cardinality(I) <= Len(s)
           /\ \A k \in DOMAIN Pick(s, I) : \E i \in I : Pick(s, I)[k] = s[i]
<1> DEFINE P == {0} \X I
           f == [i \in I |-> <<0, i>>]
<1>1. DOMAIN s = 1..Len(s) /\ Len(s) \in Nat
  BY LenProperties
<1>0. IsFiniteSet(1..Len(s)) /\ Cardinality(1..Len(s)) = Len(s)
  BY <1>1, Positions
<1>2. IsFiniteSet(I) /\ Cardinality(I) <= Len(s)
  BY <1>0, <1>1, FS_Subset
<1>3. f \in Bijection(I, P)
  BY DEF Bijection, Injection, IsInjective, Surjection
<1>4. IsFiniteSet(P) /\ Cardinality(P) = Cardinality(I)
  BY <1>2, <1>3, FS_Bijection DEF ExistsBijection
<1>5. P \subseteq Int \X Int
  BY <1>1
<1>6. /\ Cardinality(P) \in Nat
      /\ DOMAIN InOrder(P) = 1..Cardinality(P)
      /\ \A k \in DOMAIN InOrder(P) : InOrder(P)[k] \in P
  BY <1>4, <1>5, InOrderElement
<1>7. \A k \in DOMAIN InOrder(P) : InOrder(P)[k][2] \in I
  BY <1>6
<1>8. Pick(s, I) = [k \in 1..Cardinality(P) |-> s[InOrder(P)[k][2]]]
  BY <1>6 DEF Pick
<1>9. \A i \in I : s[i] \in T
  BY <1>1, ElementOfSeq
<1>10. Pick(s, I) \in [1..Cardinality(P) -> T]
  BY <1>6, <1>7, <1>8, <1>9
<1>11. /\ Pick(s, I) \in Seq(T)
       /\ Len(Pick(s, I)) = Cardinality(P)
       /\ DOMAIN Pick(s, I) = 1..Cardinality(P)
  BY <1>6, <1>10, FunctionIsSeq
<1>12. \A k \in 1..Cardinality(P) : \E i \in I : Pick(s, I)[k] = s[i]
  BY <1>6, <1>7, <1>8
<1> QED
  BY <1>2, <1>4, <1>11, <1>12

\* Sorting keeps the length of a list and adds no element to it.
LEMMA SortByElements ==
    ASSUME NEW T, NEW s \in Seq(T), NEW key \in [DOMAIN s -> Int]
    PROVE  /\ SortBy(s, key) \in Seq(T)
           /\ Len(SortBy(s, key)) = Len(s)
           /\ \A k \in DOMAIN SortBy(s, key) : \E i \in DOMAIN s : SortBy(s, key)[k] = s[i]
<1> DEFINE P == {<<key[i], i>> : i \in DOMAIN s}
           f == [i \in DOMAIN s |-> <<key[i], i>>]
<1>1. DOMAIN s = 1..Len(s) /\ Len(s) \in Nat
  BY LenProperties
<1>0. IsFiniteSet(1..Len(s)) /\ Cardinality(1..Len(s)) = Len(s)
  BY <1>1, Positions
<1>2. IsFiniteSet(DOMAIN s) /\ Cardinality(DOMAIN s) = Len(s)
  BY <1>0, <1>1
<1>3. f \in Bijection(DOMAIN s, P)
  BY DEF Bijection, Injection, IsInjective, Surjection
<1>4. IsFiniteSet(P) /\ Cardinality(P) = Len(s)
  BY <1>2, <1>3, FS_Bijection DEF ExistsBijection
<1>5. P \subseteq Int \X Int
  BY <1>1
<1>6. /\ DOMAIN InOrder(P) = 1..Cardinality(P)
      /\ \A k \in DOMAIN InOrder(P) : InOrder(P)[k] \in P
  BY <1>4, <1>5, InOrderElement
<1>7. \A k \in DOMAIN InOrder(P) : InOrder(P)[k][2] \in DOMAIN s
  <2> TAKE k \in DOMAIN InOrder(P)
  <2>1. PICK i \in DOMAIN s : InOrder(P)[k] = <<key[i], i>>
    BY <1>6
  <2> QED
    BY <2>1
<1>8. SortBy(s, key) = [k \in 1..Len(s) |-> s[InOrder(P)[k][2]]]
  BY <1>4, <1>6 DEF SortBy
<1>9. \A i \in DOMAIN s : s[i] \in T
  BY <1>1, ElementOfSeq
<1>10. SortBy(s, key) \in [1..Len(s) -> T]
  BY <1>4, <1>6, <1>7, <1>8, <1>9
<1>11. /\ SortBy(s, key) \in Seq(T)
       /\ Len(SortBy(s, key)) = Len(s)
       /\ DOMAIN SortBy(s, key) = 1..Len(s)
  BY <1>1, <1>10, FunctionIsSeq
<1>12. \A k \in 1..Len(s) : \E i \in DOMAIN s : SortBy(s, key)[k] = s[i]
  BY <1>4, <1>6, <1>7, <1>8
<1> QED
  BY <1>11, <1>12

\* SortBy is stable: of two elements of the sorted list the first had the smaller
\* key, or the same key and the earlier position.
LEMMA SortByOrders ==
    ASSUME NEW T, NEW s \in Seq(T), NEW key \in [DOMAIN s -> Int],
           NEW j \in DOMAIN SortBy(s, key), NEW k \in DOMAIN SortBy(s, key), j < k
    PROVE  \E a, b \in DOMAIN s :
              /\ SortBy(s, key)[j] = s[a] /\ SortBy(s, key)[k] = s[b]
              /\ key[a] < key[b] \/ (key[a] = key[b] /\ a < b)
<1> DEFINE P == {<<key[i], i>> : i \in DOMAIN s}
           f == [i \in DOMAIN s |-> <<key[i], i>>]
           o == InOrder(P)
<1>1. DOMAIN s = 1..Len(s) /\ Len(s) \in Nat
  BY LenProperties
<1>2. IsFiniteSet(DOMAIN s)
  BY <1>1, Positions
<1>3. f \in Bijection(DOMAIN s, P)
  BY DEF Bijection, Injection, IsInjective, Surjection
<1>4. IsFiniteSet(P)
  BY <1>2, <1>3, FS_Bijection DEF ExistsBijection
<1>5. P \subseteq Int \X Int
  BY <1>1
<1>6. SortBy(s, key) = [i \in DOMAIN o |-> s[o[i][2]]]
  BY DEF SortBy
<1>7. j \in DOMAIN o /\ k \in DOMAIN o
  BY <1>6
<1>8. o[j] \in P /\ o[k] \in P /\ ~Precedes(o[k], o[j])
  BY <1>4, <1>5, <1>7, InOrderElement, InOrderIncreases
<1>9. PICK a \in DOMAIN s, b \in DOMAIN s : o[j] = <<key[a], a>> /\ o[k] = <<key[b], b>>
  BY <1>8
<1>10. SortBy(s, key)[j] = s[a] /\ SortBy(s, key)[k] = s[b]
  BY <1>6, <1>7, <1>9
<1>11. key[a] \in Int /\ key[b] \in Int /\ a \in Int /\ b \in Int
  BY <1>1
<1>12. ~(key[b] < key[a] \/ (key[b] = key[a] /\ b <= a))
  BY <1>8, <1>9 DEF Precedes
<1>13. key[a] < key[b] \/ (key[a] = key[b] /\ a < b)
  BY <1>11, <1>12
<1> QED
  BY <1>10, <1>13
=============================================================================
