-------------------------- MODULE Dispatcher_proofs --------------------------
(***************************************************************************)
(* Dispatcher keeps its types, its indices identify implementations, what  *)
(* can be chosen satisfies the filters, and its numbers follow the         *)
(* documented priority without a gap: for every installation of runtimes,  *)
(* every set of property values and every bound.  In three parts: what     *)
(* the steps of loading return, the invariants, the order.                 *)
(***************************************************************************)
EXTENDS Dispatcher, Ordered_proofs

-----------------------------------------------------------------------------
(* What the operations of Dispatcher on its lists return, then the steps   *)
(* of loading, querying and filtering built from them: lists keep their    *)
(* types, indices stay unique and below m_implIdxNext, and once filters    *)
(* were applied every implementation that can be chosen meets them.        *)

\* m and n are one implementation, both valid or both invalid
Same(m, n) ==
    /\ m.lib = n.lib /\ m.file = n.file /\ m.idx = n.idx /\ m.desc = n.desc
    /\ m.ver = n.ver
    /\ m.valid >= 0 <=> n.valid >= 0

\* every element of R is one of I
From(R, I) == \A k \in DOMAIN R : \E i \in DOMAIN I : R[k] = I[i]
SameAs(R, I) == \A k \in DOMAIN R : \E i \in DOMAIN I : Same(R[k], I[i])

\* what the sorts need: libraries and descriptions of all elements are there
Sortable(L, G) ==
    /\ G \in Seq(ImplInfo)
    /\ \A k \in DOMAIN G : G[k].lib \in LibIds(L) /\ G[k].desc /\ Known(G[k])

-----------------------------------------------------------------------------
\* A description that a runtime returned has a version.
LEMMA KnownVersion ==
    ASSUME NEW m, m.file \in File, Known(m)
    PROVE  DescOf(m).ver \in Nat
<1>1. m.idx \in DOMAIN Caps[m.file] /\ Caps[m.file][m.idx] # NoCaps
  BY DEF Known
<1>2. IsDesc(Caps[m.file][m.idx])
  BY <1>1, RuntimeAssumption
<1> QED
  BY <1>2 DEF IsDesc, DescOf

\* The library of an implementation, if it is in the list, is found.
LEMMA LibOfType ==
    ASSUME NEW L \in Seq(LibInfo), NEW m, m.lib \in LibIds(L)
    PROVE  LibOf(L, m) \in LibInfo /\ LibOf(L, m).prio \in Nat
<1>1. \E k \in DOMAIN L : L[k].id = m.lib
  BY DEF LibIds
<1>2. \A k \in DOMAIN L : L[k] \in LibInfo
  BY LenProperties, ElementOfSeq
<1>3. LibOf(L, m) \in LibInfo
  BY <1>1, <1>2 DEF LibOf
<1> QED
  BY <1>3 DEF LibInfo

\* A sort by any key leaves a list sortable, and adds nothing to it.
LEMMA SortKeeps ==
    ASSUME NEW L, NEW G, Sortable(L, G), NEW key \in [DOMAIN G -> Int]
    PROVE  /\ Sortable(L, SortBy(G, key))
           /\ Len(SortBy(G, key)) = Len(G)
           /\ From(SortBy(G, key), G)
<1>1. G \in Seq(ImplInfo)
  BY DEF Sortable
<1>2. /\ SortBy(G, key) \in Seq(ImplInfo)
      /\ Len(SortBy(G, key)) = Len(G)
      /\ From(SortBy(G, key), G)
  BY <1>1, SortByElements DEF From
<1> QED
  BY <1>2 DEF Sortable, From

\* The four sorts leave the elements and the length of the list.
LEMMA SortGeneralElements ==
    ASSUME NEW L \in Seq(LibInfo), NEW G, Sortable(L, G)
    PROVE  /\ SortGeneral(L, G) \in Seq(ImplInfo)
           /\ Len(SortGeneral(L, G)) = Len(G)
           /\ From(SortGeneral(L, G), G)
<1> DEFINE G1 == SortBySearchPath(L, G)
           G2 == SortByVersion(G1)
           G3 == SortByAccelerator(G2)
           G4 == SortByImpl(G3)
<1>1. Sortable(L, G1) /\ Len(G1) = Len(G) /\ From(G1, G)
  <2>1. \A k \in DOMAIN G : LibOf(L, G[k]).prio \in Int
    BY LibOfType DEF Sortable
  <2> QED
    BY <2>1, SortKeeps DEF SortBySearchPath
<1>2. Sortable(L, G2) /\ Len(G2) = Len(G) /\ From(G2, G1)
  <2>1. \A k \in DOMAIN G1 : G1[k] \in ImplInfo
    BY <1>1, LenProperties, ElementOfSeq DEF Sortable
  <2>2. \A k \in DOMAIN G1 : -DescOf(G1[k]).ver \in Int
    <3> TAKE k \in DOMAIN G1
    <3>1. G1[k].file \in File /\ Known(G1[k])
      BY <1>1, <2>1 DEF Sortable, ImplInfo
    <3>2. DescOf(G1[k]).ver \in Nat
      BY <3>1, KnownVersion
    <3> QED
      BY <3>2
  <2> QED
    BY <1>1, <2>2, SortKeeps DEF SortByVersion
<1>3. Sortable(L, G3) /\ Len(G3) = Len(G) /\ From(G3, G2)
  BY <1>2, SortKeeps DEF SortByAccelerator
<1>4. Sortable(L, G4) /\ Len(G4) = Len(G) /\ From(G4, G3)
  BY <1>3, SortKeeps DEF SortByImpl
<1>5. From(G4, G)
  BY <1>1, <1>2, <1>3, <1>4 DEF From
<1>6. From(G, G) /\ G \in Seq(ImplInfo)
  BY DEF From, Sortable
<1> QED
  BY <1>4, <1>5, <1>6 DEF SortGeneral, Sortable

\* Numbering gives the valid elements distinct indices below the length of the
\* list and changes nothing else.
LEMMA RenumberElements ==
    ASSUME NEW I \in Seq(ImplInfo)
    PROVE  /\ Renumber(I) \in Seq(ImplInfo)
           /\ Len(Renumber(I)) = Len(I)
           /\ DOMAIN Renumber(I) = DOMAIN I
           /\ \A k \in DOMAIN I : Same(Renumber(I)[k], I[k]) /\ Renumber(I)[k].valid < Len(I)
           /\ \A j, k \in DOMAIN I :
                Renumber(I)[j].valid >= 0 /\ Renumber(I)[j].valid = Renumber(I)[k].valid => j = k
<1> DEFINE n == Len(I)
           Earlier(k) == {j \in 1..(k - 1) : I[j].valid >= 0}
           R == Renumber(I)
<1>1. n \in Nat /\ DOMAIN I = 1..n
  BY LenProperties
<1>2. \A k \in 1..n : I[k] \in ImplInfo
  BY <1>1, ElementOfSeq
<1>3. \A k \in 1..n : /\ IsFiniteSet(Earlier(k))
                      /\ Cardinality(Earlier(k)) \in Nat
                      /\ Cardinality(Earlier(k)) <= k - 1
  <2> TAKE k \in 1..n
  <2>1. k - 1 \in Nat
    OBVIOUS
  <2>2. IsFiniteSet(1..(k - 1)) /\ Cardinality(1..(k - 1)) = k - 1
    BY <2>1, Positions
  <2> QED
    BY <2>2, FS_Subset, FS_CardinalityType
<1>4. ASSUME NEW j \in 1..n, NEW k \in 1..n, j < k, I[j].valid >= 0
      PROVE  Cardinality(Earlier(j)) < Cardinality(Earlier(k))
  <2>1. Earlier(j) \subseteq Earlier(k) /\ j \in Earlier(k) /\ j \notin Earlier(j)
    BY <1>4
  <2>2. /\ Cardinality(Earlier(j)) # Cardinality(Earlier(k))
        /\ Cardinality(Earlier(j)) <= Cardinality(Earlier(k))
    BY <1>3, <2>1, FS_Subset
  <2>3. Cardinality(Earlier(j)) \in Nat /\ Cardinality(Earlier(k)) \in Nat
    BY <1>3
  <2> HIDE DEF Earlier
  <2> QED
    BY <2>2, <2>3
<1>5. \A k \in 1..n : R[k] = IF I[k].valid >= 0
                             THEN [I[k] EXCEPT !.valid = Cardinality(Earlier(k))]
                             ELSE I[k]
  BY <1>1 DEF Renumber
<1> HIDE DEF Earlier
<1>6. \A k \in 1..n : R[k] \in ImplInfo
  <2> TAKE k \in 1..n
  <2>1. I[k] \in ImplInfo /\ Cardinality(Earlier(k)) \in Nat
    BY <1>2, <1>3
  <2>2. [I[k] EXCEPT !.valid = Cardinality(Earlier(k))] \in ImplInfo
    BY <2>1 DEF ImplInfo
  <2> QED
    BY <1>5, <2>1, <2>2
<1>7. R \in [1..n -> ImplInfo]
  BY <1>1, <1>6 DEF Renumber
<1>8. R \in Seq(ImplInfo) /\ Len(R) = n /\ DOMAIN R = 1..n
  BY <1>1, <1>7, FunctionIsSeq
<1> HIDE DEF R
<1>9. \A k \in 1..n :
        \/ /\ I[k].valid >= 0
           /\ R[k].valid = Cardinality(Earlier(k))
           /\ R[k].valid \in Nat
           /\ R[k].valid < n
        \/ /\ I[k].valid = -1
           /\ R[k].valid = -1
  <2> TAKE k \in 1..n
  <2>1. I[k].valid \in Nat \cup {-1}
    BY <1>2 DEF ImplInfo
  <2>2. CASE I[k].valid >= 0
    <3>1. R[k].valid = Cardinality(Earlier(k))
      BY <1>2, <1>5, <2>2 DEF ImplInfo
    <3>2. Cardinality(Earlier(k)) \in Nat /\ Cardinality(Earlier(k)) <= k - 1
      BY <1>3
    <3> QED
      BY <1>1, <2>2, <3>1, <3>2
  <2>3. CASE ~(I[k].valid >= 0)
    <3>1. R[k] = I[k]
      BY <1>5, <2>3
    <3> QED
      BY <2>1, <2>3, <3>1
  <2> QED
    BY <2>2, <2>3
<1>10. \A k \in 1..n : Same(R[k], I[k]) /\ R[k].valid < n
  <2> TAKE k \in 1..n
  <2>1. R[k].valid < n /\ (R[k].valid >= 0 <=> I[k].valid >= 0)
    BY <1>1, <1>9
  <2>2. /\ R[k].lib = I[k].lib /\ R[k].file = I[k].file /\ R[k].idx = I[k].idx
        /\ R[k].desc = I[k].desc /\ R[k].ver = I[k].ver
    BY <1>2, <1>5 DEF ImplInfo
  <2> QED
    BY <2>1, <2>2 DEF Same
<1>11. \A j, k \in 1..n : R[j].valid >= 0 /\ R[j].valid = R[k].valid => j = k
  <2> SUFFICES ASSUME NEW j \in 1..n, NEW k \in 1..n,
                      R[j].valid >= 0, R[j].valid = R[k].valid, j < k
               PROVE  FALSE
    BY <1>1
  <2>1. /\ I[j].valid >= 0 /\ R[j].valid = Cardinality(Earlier(j))
        /\ I[k].valid >= 0 /\ R[k].valid = Cardinality(Earlier(k))
    BY <1>9
  <2>2. Cardinality(Earlier(j)) \in Nat /\ Cardinality(Earlier(k)) \in Nat
    BY <1>3
  <2>3. Cardinality(Earlier(j)) < Cardinality(Earlier(k))
    BY <1>4, <2>1
  <2>4. Cardinality(Earlier(j)) = Cardinality(Earlier(k))
    BY <2>1
  <2> QED
    BY <2>2, <2>3, <2>4
<1> QED
  BY <1>1, <1>8, <1>10, <1>11 DEF R

\* Two lists that hold the elements of I at the positions A and at the others
\* have together as many elements as I.
LEMMA PickBoth ==
    ASSUME NEW T, NEW I \in Seq(T), NEW A \in SUBSET DOMAIN I
    PROVE  Len(Pick(I, A)) + Len(Pick(I, DOMAIN I \ A)) = Len(I)
<1> DEFINE n == Len(I)
           B == DOMAIN I \ A
<1>1. n \in Nat /\ DOMAIN I = 1..n
  BY LenProperties
<1>2. IsFiniteSet(1..n) /\ Cardinality(1..n) = n
  BY <1>1, Positions
<1>3. IsFiniteSet(A) /\ IsFiniteSet(B)
  BY <1>1, <1>2, FS_Subset
<1>4. A \cup B = 1..n /\ A \cap B = {}
  BY <1>1
<1>5. Cardinality(A) \in Nat /\ Cardinality(B) \in Nat
  BY <1>3, FS_CardinalityType
<1>6. Cardinality(A \cup B) = Cardinality(A) + Cardinality(B) - Cardinality(A \cap B)
  BY <1>3, FS_Union
<1>7. Cardinality(A \cap B) = 0
  BY <1>4, FS_EmptySet
<1>8. Len(Pick(I, A)) = Cardinality(A) /\ Len(Pick(I, B)) = Cardinality(B)
  BY PickElements
<1> HIDE DEF B
<1>9. n = Cardinality(A) + Cardinality(B) - 0
  BY <1>2, <1>4, <1>6, <1>7
<1>10. Len(Pick(I, A)) + Len(Pick(I, B)) = n
  BY <1>5, <1>8, <1>9
<1> QED
  BY <1>10 DEF B

\* Ranking returns the implementations it was given and numbers them, provided
\* all libraries are in the list and no missing description is compared.
LEMMA PrioritizeElements ==
    ASSUME NEW L \in Seq(LibInfo), NEW I \in Seq(ImplInfo),
           \A k \in DOMAIN I : I[k].lib \in LibIds(L),
           \A k \in DOMAIN I : I[k].desc => Known(I[k]),
           ~NullDescCompared(L, I)
    PROVE  LET R == PrioritizeImplList(L, I)
           IN  /\ R \in Seq(ImplInfo)
               /\ Len(R) = Len(I)
               /\ SameAs(R, I)
               /\ \A k \in DOMAIN R : R[k].valid < Len(I)
               /\ \A j, k \in DOMAIN R : R[j].valid >= 0 /\ R[j].valid = R[k].valid => j = k
<1> DEFINE A == {k \in DOMAIN I : IsSpecial(L, I[k])}
           B == DOMAIN I \ A
           U == Unsorted(L, I)
           G == General(L, I)
           S == SortGeneral(L, G)
           R == PrioritizeImplList(L, I)
<1>1. U = Pick(I, A) /\ G = Pick(I, B)
  <2>1. {k \in DOMAIN I : ~IsSpecial(L, I[k])} = B
    OBVIOUS
  <2> QED
    BY <2>1 DEF Unsorted, General
<1>0. A \in SUBSET DOMAIN I /\ B \in SUBSET DOMAIN I
  OBVIOUS
<1> HIDE DEF A, B, U, G
<1>2. U \in Seq(ImplInfo) /\ From(U, I)
  BY <1>0, <1>1, PickElements DEF From
<1>3. G \in Seq(ImplInfo) /\ From(G, I)
  BY <1>0, <1>1, PickElements DEF From
<1>4. Len(U) + Len(G) = Len(I)
  BY <1>0, <1>1, PickBoth DEF B
<1>5. S \in Seq(ImplInfo) /\ Len(S) = Len(G) /\ From(S, I)
  <2>1. CASE Len(G) < 2
    BY <1>3, <2>1 DEF SortGeneral
  <2>2. CASE ~(Len(G) < 2)
    <3>1. Len(G) \in Nat
      BY <1>3, LenProperties
    <3>2. \A k \in DOMAIN G : G[k].desc
      BY <2>2, <3>1 DEF NullDescCompared, G
    <3>3. Sortable(L, G)
      BY <1>3, <3>2 DEF Sortable, From
    <3>4. S \in Seq(ImplInfo) /\ Len(S) = Len(G) /\ From(S, G)
      BY <3>3, SortGeneralElements
    <3> QED
      BY <1>3, <3>4 DEF From
  <2> QED
    BY <2>1, <2>2
<1>6. /\ U \o S \in Seq(ImplInfo)
      /\ Len(U \o S) = Len(I)
      /\ From(U \o S, I)
  <2>1. /\ U \o S \in Seq(ImplInfo)
        /\ Len(U \o S) = Len(U) + Len(S)
        /\ \A k \in 1..(Len(U) + Len(S)) : (U \o S)[k] =
             IF k <= Len(U) THEN U[k] ELSE S[k - Len(U)]
    BY <1>2, <1>5, ConcatProperties
  <2>2. /\ Len(U) \in Nat /\ DOMAIN U = 1..Len(U)
        /\ Len(S) \in Nat /\ DOMAIN S = 1..Len(S)
        /\ DOMAIN (U \o S) = 1..(Len(U) + Len(S))
    BY <1>2, <1>5, <2>1, LenProperties
  <2>3. ASSUME NEW k \in 1..(Len(U) + Len(S))
        PROVE  \E i \in DOMAIN I : (U \o S)[k] = I[i]
    <3>1. CASE k <= Len(U)
      <4>1. k \in DOMAIN U
        BY <2>2, <3>1
      <4> QED
        BY <1>2, <2>1, <3>1, <4>1 DEF From
    <3>2. CASE ~(k <= Len(U))
      <4>1. k - Len(U) \in DOMAIN S
        BY <2>2, <3>2
      <4> QED
        BY <1>5, <2>1, <3>2, <4>1 DEF From
    <3> QED
      BY <3>1, <3>2
  <2> QED
    BY <1>4, <1>5, <2>1, <2>2, <2>3 DEF From
<1>7. R = Renumber(U \o S)
  BY DEF PrioritizeImplList, U, G
<1> HIDE DEF S, R
<1>8. /\ R \in Seq(ImplInfo)
      /\ Len(R) = Len(I)
      /\ DOMAIN R = DOMAIN (U \o S)
      /\ \A k \in DOMAIN R : Same(R[k], (U \o S)[k]) /\ R[k].valid < Len(I)
      /\ \A j, k \in DOMAIN R : R[j].valid >= 0 /\ R[j].valid = R[k].valid => j = k
  BY <1>6, <1>7, RenumberElements
<1>9. SameAs(R, I)
  BY <1>6, <1>8 DEF From, SameAs
<1> QED
  BY <1>8, <1>9 DEF R

-----------------------------------------------------------------------------
\* The list after ranking is well indexed if it was no longer than n before.
LEMMA PrioritizeWellIndexed ==
    ASSUME NEW L \in Seq(LibInfo), NEW I \in Seq(ImplInfo), NEW n \in Nat,
           \A k \in DOMAIN I : I[k].lib \in LibIds(L),
           WellIndexed(I, n),
           ~NullDescCompared(L, I)
    PROVE  /\ PrioritizeImplList(L, I) \in Seq(ImplInfo)
           /\ WellIndexed(PrioritizeImplList(L, I), n)
           /\ SameAs(PrioritizeImplList(L, I), I)
<1> DEFINE R == PrioritizeImplList(L, I)
<1>1. /\ Len(I) <= n
      /\ \A k \in DOMAIN I : IF I[k].desc THEN Known(I[k]) ELSE I[k].idx = 1
  BY DEF WellIndexed
<1>2. /\ R \in Seq(ImplInfo)
      /\ Len(R) = Len(I)
      /\ SameAs(R, I)
      /\ \A k \in DOMAIN R : R[k].valid < Len(I)
      /\ \A j, k \in DOMAIN R : R[j].valid >= 0 /\ R[j].valid = R[k].valid => j = k
  BY <1>1, PrioritizeElements
<1> HIDE DEF R
<1>3. \A k \in DOMAIN R : R[k].valid < n
  <2> TAKE k \in DOMAIN R
  <2>1. R[k] \in ImplInfo
    BY <1>2, LenProperties, ElementOfSeq
  <2>2. R[k].valid \in Int
    BY <2>1 DEF ImplInfo
  <2>3. Len(I) \in Nat
    BY LenProperties
  <2> QED
    BY <1>1, <1>2, <2>2, <2>3
<1>4. \A k \in DOMAIN R : IF R[k].desc THEN Known(R[k]) ELSE R[k].idx = 1
  BY <1>1, <1>2 DEF SameAs, Same, Known
<1> QED
  BY <1>1, <1>2, <1>3, <1>4 DEF WellIndexed, R

\* Implementations appended with the next indices leave the list well indexed.
LEMMA AppendWellIndexed ==
    ASSUME NEW I \in Seq(ImplInfo), NEW n \in Nat, WellIndexed(I, n),
           NEW N \in Seq(ImplInfo),
           \A k \in DOMAIN N : N[k].valid = n + k - 1,
           \A k \in DOMAIN N : IF N[k].desc THEN Known(N[k]) ELSE N[k].idx = 1
    PROVE  I \o N \in Seq(ImplInfo) /\ WellIndexed(I \o N, n + Len(N))
<1> DEFINE a == Len(I)
           b == Len(N)
           S == I \o N
<1>1. a \in Nat /\ DOMAIN I = 1..a /\ b \in Nat /\ DOMAIN N = 1..b
  BY LenProperties
<1>2. /\ S \in Seq(ImplInfo)
      /\ Len(S) = a + b
      /\ \A k \in 1..(a + b) : S[k] = IF k <= a THEN I[k] ELSE N[k - a]
  BY ConcatProperties
<1>3. DOMAIN S = 1..(a + b)
  BY <1>2, LenProperties
<1> HIDE DEF S
<1>4. \A k \in 1..(a + b) :
        \/ /\ k \in 1..a
           /\ S[k] = I[k]
        \/ /\ k - a \in 1..b
           /\ S[k] = N[k - a]
  BY <1>1, <1>2
<1>5. \A k \in 1..a : I[k].valid \in Int /\ I[k].valid < n
  <2> TAKE k \in 1..a
  <2>1. I[k] \in ImplInfo
    BY <1>1, ElementOfSeq
  <2>2. I[k].valid < n
    BY <1>1 DEF WellIndexed
  <2> QED
    BY <2>1, <2>2 DEF ImplInfo
<1>6. \A k \in 1..b : N[k].valid = n + k - 1
  BY <1>1
<1>7. \A k \in DOMAIN S : S[k].valid < n + b
  <2> SUFFICES ASSUME NEW k \in 1..(a + b) PROVE S[k].valid < n + b
    BY <1>3
  <2>1. CASE k \in 1..a /\ S[k] = I[k]
    BY <1>1, <1>5, <2>1
  <2>2. CASE k - a \in 1..b /\ S[k] = N[k - a]
    <3>1. S[k].valid = n + (k - a) - 1
      BY <1>6, <2>2
    <3> QED
      BY <1>1, <2>2, <3>1
  <2> QED
    BY <1>4, <2>1, <2>2
<1>8. \A k \in DOMAIN S : IF S[k].desc THEN Known(S[k]) ELSE S[k].idx = 1
  <2> SUFFICES ASSUME NEW k \in 1..(a + b)
               PROVE  IF S[k].desc THEN Known(S[k]) ELSE S[k].idx = 1
    BY <1>3
  <2>1. CASE k \in 1..a /\ S[k] = I[k]
    <3>1. k \in DOMAIN I
      BY <1>1, <2>1
    <3>2. IF I[k].desc THEN Known(I[k]) ELSE I[k].idx = 1
      BY <3>1 DEF WellIndexed
    <3> QED
      BY <2>1, <3>2
  <2>2. CASE k - a \in 1..b /\ S[k] = N[k - a]
    <3>1. k - a \in DOMAIN N
      BY <1>1, <2>2
    <3>2. IF N[k - a].desc THEN Known(N[k - a]) ELSE N[k - a].idx = 1
      BY <3>1
    <3> QED
      BY <2>2, <3>2
  <2> QED
    BY <1>4, <2>1, <2>2
<1>9. ASSUME NEW j \in 1..(a + b), NEW k \in 1..(a + b),
             S[j].valid >= 0, S[j].valid = S[k].valid
      PROVE  j = k
  <2>1. CASE j \in 1..a /\ S[j] = I[j] /\ k \in 1..a /\ S[k] = I[k]
    BY <1>1, <1>9, <2>1 DEF WellIndexed
  <2>2. CASE j \in 1..a /\ S[j] = I[j] /\ k - a \in 1..b /\ S[k] = N[k - a]
    <3>1. S[j].valid \in Int /\ S[j].valid < n
      BY <1>5, <2>2
    <3>2. S[k].valid = n + (k - a) - 1
      BY <1>6, <2>2
    <3>3. k - a \in Nat /\ k - a >= 1
      BY <1>1, <2>2
    <3> QED
      BY <1>9, <3>1, <3>2, <3>3
  <2>3. CASE k \in 1..a /\ S[k] = I[k] /\ j - a \in 1..b /\ S[j] = N[j - a]
    <3>1. S[k].valid \in Int /\ S[k].valid < n
      BY <1>5, <2>3
    <3>2. S[j].valid = n + (j - a) - 1
      BY <1>6, <2>3
    <3>3. j - a \in Nat /\ j - a >= 1
      BY <1>1, <2>3
    <3> QED
      BY <1>9, <3>1, <3>2, <3>3
  <2>4. CASE j - a \in 1..b /\ S[j] = N[j - a] /\ k - a \in 1..b /\ S[k] = N[k - a]
    <3>1. S[j].valid = n + (j - a) - 1 /\ S[k].valid = n + (k - a) - 1
      BY <1>6, <2>4
    <3>2. n + (j - a) - 1 = n + (k - a) - 1
      BY <1>9, <3>1
    <3>3. n \in Int /\ a \in Int /\ j \in Int /\ k \in Int
      BY <1>1
    <3> QED
      BY <3>2, <3>3
  <2> QED
    BY <1>4, <2>1, <2>2, <2>3, <2>4
<1>10. Len(S) <= n + b
  BY <1>1, <1>2 DEF WellIndexed
<1> QED
  BY <1>2, <1>3, <1>7, <1>8, <1>9, <1>10 DEF WellIndexed, S

-----------------------------------------------------------------------------
(* The steps of loading, querying and filtering                            *)

ListState ==
    [libs : Seq(LibInfo), impls : Seq(ImplInfo), next : Nat, leaked : SUBSET File,
     fault : {"none"} \cup Faults, ok : BOOLEAN]

\* what every step keeps of the lists
Good(r) == r \in ListState /\ WellIndexed(r.impls, r.next)

\* every implementation that can be chosen meets the filters
AllMeet(I) == \A k \in DOMAIN I : I[k].valid >= 0 => Meets(I[k])

-----------------------------------------------------------------------------
\* Elements of a list have its type.
LEMMA Element ==
    ASSUME NEW T, NEW s \in Seq(T)
    PROVE  \A k \in DOMAIN s : s[k] \in T
BY LenProperties, ElementOfSeq

\* A list made by changing each element of another is a list of the same length.
LEMMA MapIsSeq ==
    ASSUME NEW S, NEW T, NEW s \in Seq(S), NEW f \in [DOMAIN s -> T]
    PROVE  f \in Seq(T) /\ Len(f) = Len(s) /\ DOMAIN f = DOMAIN s
BY LenProperties, FunctionIsSeq

\* The empty list is well indexed.
LEMMA EmptyWellIndexed == <<>> \in Seq(ImplInfo) /\ WellIndexed(<<>>, 0)
<1>1. <<>> \in Seq(ImplInfo) /\ Len(<<>>) = 0
  BY EmptySeq
<1>2. DOMAIN <<>> = {}
  OBVIOUS
<1> QED
  BY <1>1, <1>2 DEF WellIndexed

\* A fault leaves the lists as they are.
LEMMA FaultyGood ==
    ASSUME NEW r, Good(r), NEW what \in Faults
    PROVE  Good(Faulty(r, what)) /\ ~Faulty(r, what).ok
BY DEF Good, ListState, Faulty

\* Unloading leaves empty lists, or a fault.
LEMMA UnloadGood ==
    ASSUME NEW r, Good(r)
    PROVE  Good(UnloadAllLibraries(r))
<1>1. "use_after_free" \in Faults /\ "null_call" \in Faults
  BY DEF Faults
<1>2. <<>> \in Seq(LibInfo)
  BY EmptySeq
<1>3. Good([r EXCEPT !.libs = <<>>, !.impls = <<>>, !.next = 0])
  BY <1>2, EmptyWellIndexed DEF Good, ListState
<1> QED
  BY <1>1, <1>3, FaultyGood DEF UnloadAllLibraries

\* The ids of a list are a finite set.
LEMMA IdsFinite ==
    ASSUME NEW T, NEW s \in Seq(T), NEW f \in [DOMAIN s -> Nat]
    PROVE  IsFiniteSet({f[k] : k \in DOMAIN s})
<1> DEFINE n == Len(s)
           V == {f[k] : k \in DOMAIN s}
<1>1. n \in Nat /\ DOMAIN s = 1..n
  BY LenProperties
<1>2. IsFiniteSet(DOMAIN s)
  BY <1>1, Positions
<1>3. f \in Surjection(DOMAIN s, V)
  BY DEF Surjection
<1> QED
  BY <1>2, <1>3, FS_Surjection

\* The ids in use have a greatest element, so that the id after it is a new one.
LEMMA LastIdGreatest ==
    ASSUME NEW L \in Seq(LibInfo), NEW I \in Seq(ImplInfo)
    PROVE  LastId(L, I) \in Nat /\ \A id \in LibIds(L) : id \in Nat /\ id <= LastId(L, I)
<1> DEFINE A == LibIds(L)
           B == {I[k].lib : k \in DOMAIN I}
           used == {0} \cup A \cup B
<1>1. IsFiniteSet(A) /\ A \subseteq Nat
  <2> DEFINE f == [k \in DOMAIN L |-> L[k].id]
  <2>0. \A k \in DOMAIN L : L[k] \in LibInfo
    BY Element
  <2>1. \A k \in DOMAIN L : L[k].id \in Nat
    BY <2>0 DEF LibInfo
  <2>2. f \in [DOMAIN L -> Nat]
    BY <2>1
  <2>3. A = {f[k] : k \in DOMAIN L}
    BY DEF LibIds
  <2>4. IsFiniteSet({f[k] : k \in DOMAIN L})
    BY <2>2, IdsFinite
  <2>5. A \subseteq Nat
    BY <2>1 DEF LibIds
  <2> QED
    BY <2>3, <2>4, <2>5
<1>2. IsFiniteSet(B) /\ B \subseteq Nat
  <2> DEFINE f == [k \in DOMAIN I |-> I[k].lib]
  <2>0. \A k \in DOMAIN I : I[k] \in ImplInfo
    BY Element
  <2>1. \A k \in DOMAIN I : I[k].lib \in Nat
    BY <2>0 DEF ImplInfo
  <2>2. f \in [DOMAIN I -> Nat]
    BY <2>1
  <2>3. B = {f[k] : k \in DOMAIN I}
    OBVIOUS
  <2>4. IsFiniteSet({f[k] : k \in DOMAIN I})
    BY <2>2, IdsFinite
  <2>5. B \subseteq Nat
    BY <2>1
  <2> QED
    BY <2>3, <2>4, <2>5
<1> HIDE DEF A, B
<1>3. IsFiniteSet({0})
  BY FS_Singleton
<1>4. IsFiniteSet({0} \cup A)
  BY <1>1, <1>3, FS_Union
<1>5. IsFiniteSet(used) /\ used \subseteq Nat
  <2>1. IsFiniteSet(({0} \cup A) \cup B)
    BY <1>2, <1>4, FS_Union
  <2> QED
    BY <1>1, <1>2, <2>1
<1>6. \E n \in used : \A m \in used : m <= n
  <2>1. used \subseteq Int /\ used # {}
    BY <1>5
  <2> HIDE DEF used
  <2> QED
    BY <1>5, <2>1, Extremes
<1>7. LastId(L, I) = CHOOSE n \in used : \A m \in used : m <= n
  BY DEF LastId, A, B
<1>8. LastId(L, I) \in used /\ \A id \in used : id <= LastId(L, I)
  BY <1>6, <1>7
<1> QED
  BY <1>1, <1>5, <1>8 DEF A

\* libraries that were not deleted
LiveLib == {l \in LibInfo : l.live}

\* A new LibInfo is one, and alive.
LEMMA NewLibType ==
    ASSUME NEW id \in Nat, NEW file \in File, NEW prio \in Nat,
           NEW type \in {"unknown", "vpl", "msdk"}, NEW isOpen \in BOOLEAN
    PROVE  NewLib(id, file, prio, type, isOpen) \in LiveLib
BY DEF NewLib, LibInfo, LiveLib

\* The directory search returns a list of libraries, and adds none that is deleted.
LEMMA BuildListOfCandidateLibsType ==
    ASSUME NEW L \in Seq(LibInfo), NEW I \in Seq(ImplInfo)
    PROVE  /\ BuildListOfCandidateLibs(L, I) \in Seq(LibInfo)
           /\ L \in Seq(LiveLib) => BuildListOfCandidateLibs(L, I) \in Seq(LiveLib)
<1> DEFINE found == {k \in DOMAIN Search : \A j \in DOMAIN L : L[j].file # Search[k].file}
           new == Pick(Search, found)
           N == [k \in DOMAIN new |->
                    NewLib(LastId(L, I) + k, new[k].file, new[k].prio, "unknown", FALSE)]
<1>1. found \subseteq DOMAIN Search
  OBVIOUS
<1> HIDE DEF found
<1>2. new \in Seq([file : File, prio : Nat])
  BY <1>1, SearchAssumption, PickElements
<1> HIDE DEF new
<1>3. \A k \in DOMAIN new : new[k].file \in File /\ new[k].prio \in Nat /\ k \in Nat
  <2>1. \A k \in DOMAIN new : new[k] \in [file : File, prio : Nat]
    BY <1>2, Element
  <2>2. DOMAIN new = 1..Len(new)
    BY <1>2, LenProperties
  <2> QED
    BY <2>1, <2>2
<1>4. \A k \in DOMAIN new : N[k] \in LiveLib
  <2> TAKE k \in DOMAIN new
  <2>1. LastId(L, I) + k \in Nat
    BY <1>3, LastIdGreatest
  <2> QED
    BY <1>3, <2>1, NewLibType
<1>5. N \in [DOMAIN new -> LibInfo] /\ N \in [DOMAIN new -> LiveLib]
  BY <1>4 DEF LiveLib
<1>6. N \in Seq(LibInfo) /\ N \in Seq(LiveLib)
  <2> HIDE DEF N
  <2> QED
    BY <1>2, <1>5, MapIsSeq
<1>7. BuildListOfCandidateLibs(L, I) = L \o N
  BY DEF BuildListOfCandidateLibs, found, new
<1> HIDE DEF N
<1> QED
  BY <1>6, <1>7, ConcatProperties

\* The check that libraries load returns a list of libraries, and deletes none.
LEMMA CheckValidLibrariesType ==
    ASSUME NEW L \in Seq(LibInfo), NEW up
    PROVE  /\ CheckValidLibraries(L, up) \in Seq(LibInfo)
           /\ L \in Seq(LiveLib) => CheckValidLibraries(L, up) \in Seq(LiveLib)
<1> DEFINE kept == {k \in DOMAIN L : TypeOf(L[k], up) = "vpl"} \cup BestMSDK(L, up)
           M == [k \in DOMAIN L |-> [L[k] EXCEPT !.type = TypeOf(L[k], up), !.open = TRUE]]
<1>1. kept \subseteq DOMAIN L
  BY DEF BestMSDK
<1>2. \A k \in DOMAIN L : M[k] \in LibInfo /\ M[k].live = L[k].live
  <2> TAKE k \in DOMAIN L
  <2>1. L[k] \in LibInfo
    BY Element
  <2>2. TypeOf(L[k], up) \in {"unknown", "vpl", "msdk"}
    BY DEF TypeOf
  <2> QED
    BY <2>1, <2>2 DEF LibInfo
<1>3. /\ M \in [DOMAIN L -> LibInfo]
      /\ L \in Seq(LiveLib) => M \in [DOMAIN L -> LiveLib]
  BY <1>2, Element DEF LiveLib
<1>4. /\ M \in Seq(LibInfo) /\ DOMAIN M = DOMAIN L
      /\ L \in Seq(LiveLib) => M \in Seq(LiveLib)
  <2> HIDE DEF M
  <2> QED
    BY <1>3, MapIsSeq
<1>5. CheckValidLibraries(L, up) = Pick(M, kept)
  BY DEF CheckValidLibraries
<1> HIDE DEF kept, M
<1> QED
  BY <1>1, <1>4, <1>5, PickElements

-----------------------------------------------------------------------------
\* Where an entry of Caps is a description, it is known and has a version.
LEMMA AcceptedKnown ==
    ASSUME NEW l \in LibInfo, NEW i, Accepted(l, i), NEW n \in Nat
    PROVE  /\ NewImpl(l, i, n) \in ImplInfo
           /\ NewImpl(l, i, n).valid = n
           /\ NewImpl(l, i, n).desc
           /\ NewImpl(l, i, n).lib = l.id
           /\ Known(NewImpl(l, i, n))
<1>1. l.file \in File /\ l.id \in Nat
  BY DEF LibInfo
<1>2. i \in DOMAIN Caps[l.file] /\ Caps[l.file][i] # NoCaps
  BY DEF Accepted
<1>3. IsDesc(Caps[l.file][i]) /\ i \in Nat
  BY <1>1, <1>2, RuntimeAssumption
<1>4. Caps[l.file][i].ver \in Nat
  BY <1>3 DEF IsDesc
<1> QED
  BY <1>1, <1>2, <1>3, <1>4 DEF NewImpl, ImplInfo, Known

\* The query lists described implementations with consecutive indices.
LEMMA NewImplsElements ==
    ASSUME NEW L \in Seq(LibInfo), NEW n \in Nat
    PROVE  /\ NewImpls(L, n) \in Seq(ImplInfo)
           /\ \A j \in DOMAIN NewImpls(L, n) :
                /\ NewImpls(L, n)[j].valid = n + j - 1
                /\ NewImpls(L, n)[j].desc
                /\ NewImpls(L, n)[j].lib \in LibIds(L)
                /\ Known(NewImpls(L, n)[j])
<1> DEFINE E == {e \in (1..Len(L)) \X (1..MaxCaps) : Accepted(L[e[1]], e[2])}
           o == InOrder(E)
           c == Cardinality(E)
           N == NewImpls(L, n)
<1>1. Len(L) \in Nat /\ DOMAIN L = 1..Len(L) /\ MaxCaps \in Nat
  BY LenProperties, RuntimeAssumption
<1>2. IsFiniteSet(1..Len(L)) /\ IsFiniteSet(1..MaxCaps)
  BY <1>1, Positions
<1>3. IsFiniteSet((1..Len(L)) \X (1..MaxCaps))
  BY <1>2, FS_Product
<1>4. IsFiniteSet(E) /\ E \subseteq Int \X Int
  BY <1>3, FS_Subset
<1>5. \A e \in E : e[1] \in DOMAIN L /\ Accepted(L[e[1]], e[2])
  BY <1>1
<1> HIDE DEF E
<1>6. c \in Nat /\ DOMAIN o = 1..c /\ \A j \in 1..c : o[j] \in E
  BY <1>4, InOrderElement
<1> HIDE DEF o, c
<1>7. N = [j \in 1..c |-> NewImpl(L[o[j][1]], o[j][2], n + j - 1)]
  BY <1>6 DEF NewImpls, o, E
<1>8. \A j \in 1..c : /\ N[j] \in ImplInfo
                      /\ N[j].valid = n + j - 1
                      /\ N[j].desc
                      /\ N[j].lib \in LibIds(L)
                      /\ Known(N[j])
  <2> TAKE j \in 1..c
  <2>1. o[j][1] \in DOMAIN L /\ Accepted(L[o[j][1]], o[j][2])
    BY <1>5, <1>6
  <2>2. L[o[j][1]] \in LibInfo
    BY <2>1, Element
  <2>3. n + j - 1 \in Nat
    BY <1>6
  <2>4. N[j] = NewImpl(L[o[j][1]], o[j][2], n + j - 1)
    BY <1>7
  <2>5. L[o[j][1]].id \in LibIds(L)
    BY <2>1 DEF LibIds
  <2> QED
    BY <2>1, <2>2, <2>3, <2>4, <2>5, AcceptedKnown
<1>9. N \in [1..c -> ImplInfo]
  BY <1>7, <1>8
<1> HIDE DEF N
<1>10. N \in Seq(ImplInfo) /\ DOMAIN N = 1..c
  BY <1>6, <1>9, FunctionIsSeq
<1> QED
  BY <1>8, <1>10 DEF N

\* Once every missing description has an answer, all implementations are known.
LEMMA DescribeWellIndexed ==
    ASSUME NEW I \in Seq(ImplInfo), NEW n \in Nat, WellIndexed(I, n),
           ~QueryNeverEnds(I), ~QueryUnanswered(I)
    PROVE  /\ Describe(I) \in Seq(ImplInfo)
           /\ DOMAIN Describe(I) = DOMAIN I
           /\ WellIndexed(Describe(I), n)
           /\ \A k \in DOMAIN I : Describe(I)[k].lib = I[k].lib /\ Describe(I)[k].desc
<1> DEFINE D == Describe(I)
<1>1. \A k \in DOMAIN I : I[k] \in ImplInfo
  BY Element
<1>2. \A k \in DOMAIN I : D[k] = [I[k] EXCEPT !.desc = TRUE,
                                    !.valid = IF Hidden(I, I[k]) THEN -1 ELSE @]
  BY DEF Describe
<1>3. D \in [DOMAIN I -> ImplInfo]
  BY <1>1 DEF Describe, ImplInfo
<1>4. D \in Seq(ImplInfo) /\ Len(D) = Len(I) /\ DOMAIN D = DOMAIN I
  <2> HIDE DEF D
  <2> QED
    BY <1>3, MapIsSeq
<1> HIDE DEF D
<1>5. \A k \in DOMAIN I : /\ D[k].lib = I[k].lib /\ D[k].file = I[k].file
                          /\ D[k].idx = I[k].idx /\ D[k].desc
                          /\ D[k].valid \in {-1, I[k].valid}
  <2> TAKE k \in DOMAIN I
  <2>1. I[k] \in ImplInfo
    BY <1>1
  <2>2. D[k] = [I[k] EXCEPT !.desc = TRUE, !.valid = IF Hidden(I, I[k]) THEN -1 ELSE @]
    BY <1>2
  <2> QED
    BY <2>1, <2>2 DEF ImplInfo
<1>6. \A k \in DOMAIN I : Known(I[k])
  <2> TAKE k \in DOMAIN I
  <2>1. CASE I[k].desc
    BY <2>1 DEF WellIndexed
  <2>2. CASE ~I[k].desc
    <3>1. I[k].idx = 1
      BY <2>2 DEF WellIndexed
    <3>2. I[k].file \in File
      BY <1>1 DEF ImplInfo
    <3>3. Len(Caps[I[k].file]) # 0
      BY <2>2 DEF QueryUnanswered
    <3>4. 1 \in DOMAIN Caps[I[k].file]
      <4>1. /\ Len(Caps[I[k].file]) \in Nat
            /\ DOMAIN Caps[I[k].file] = 1..Len(Caps[I[k].file])
        BY <3>2, RuntimeAssumption
      <4> QED
        BY <3>3, <4>1
    <3>5. Caps[I[k].file][1] # NoCaps
      <4>1. CASE Kind[I[k].file] = "msdk"
        BY <2>2, <4>1 DEF QueryNeverEnds
      <4>2. CASE Kind[I[k].file] # "msdk"
        BY <3>2, <3>4, <4>2, RuntimeAssumption
      <4> QED
        BY <4>1, <4>2
    <3> QED
      BY <3>1, <3>4, <3>5 DEF Known
  <2> QED
    BY <2>1, <2>2
<1>7. \A k \in DOMAIN D : Known(D[k])
  BY <1>4, <1>5, <1>6 DEF Known
<1>8. \A k \in DOMAIN D : D[k].valid < n
  <2> TAKE k \in DOMAIN D
  <2>1. I[k].valid < n /\ n > -1
    BY <1>4 DEF WellIndexed
  <2> QED
    BY <1>4, <1>5, <2>1
<1>9. ASSUME NEW j \in DOMAIN D, NEW k \in DOMAIN D, D[j].valid >= 0, D[j].valid = D[k].valid
      PROVE  j = k
  <2>1. D[j].valid = I[j].valid /\ D[k].valid = I[k].valid
    BY <1>4, <1>5, <1>9
  <2> QED
    BY <1>4, <1>9, <2>1 DEF WellIndexed
<1>10. Len(D) <= n
  BY <1>4 DEF WellIndexed
<1> QED
  BY <1>4, <1>5, <1>7, <1>8, <1>9, <1>10 DEF WellIndexed, D

-----------------------------------------------------------------------------
\* The query of all libraries keeps the lists well formed.
LEMMA QueryLibraryCapsFullGood ==
    ASSUME NEW r, Good(r)
    PROVE  Good(QueryLibraryCapsFull(r))
<1> DEFINE stay == {k \in DOMAIN r.libs : ~QueryFails(r.libs[k])}
           L == Pick(r.libs, stay)
           new == NewImpls(L, r.next)
           I == r.impls \o new
           r1 == [r EXCEPT !.libs = L, !.impls = I, !.next = r.next + Len(new)]
           D == Describe(I)
           R == PrioritizeImplList(L, D)
<1>1. /\ r \in ListState /\ r.libs \in Seq(LibInfo) /\ r.impls \in Seq(ImplInfo)
      /\ r.next \in Nat /\ WellIndexed(r.impls, r.next)
  BY DEF Good, ListState
<1>2. L \in Seq(LibInfo)
  <2>1. stay \subseteq DOMAIN r.libs
    OBVIOUS
  <2> HIDE DEF stay
  <2> QED
    BY <1>1, <2>1, PickElements
<1> HIDE DEF L
<1>3. /\ new \in Seq(ImplInfo)
      /\ \A k \in DOMAIN new : /\ new[k].valid = r.next + k - 1
                               /\ new[k].desc
                               /\ Known(new[k])
  BY <1>1, <1>2, NewImplsElements
<1> HIDE DEF new
<1>4. I \in Seq(ImplInfo) /\ WellIndexed(I, r.next + Len(new))
  BY <1>1, <1>3, AppendWellIndexed
<1>5. r.next + Len(new) \in Nat
  BY <1>1, <1>3, LenProperties
<1> HIDE DEF I
<1>6. r1 \in ListState /\ Good(r1)
  BY <1>1, <1>2, <1>4, <1>5 DEF Good, ListState
<1>7. Good([r1 EXCEPT !.ok = FALSE])
  BY <1>6 DEF Good, ListState
<1>8. \A what \in Faults : Good(Faulty(r1, what))
  BY <1>6, FaultyGood
<1> DEFINE calls == \E k \in DOMAIN r.libs : CallsNull(r.libs[k])
<1>9. CASE ~calls /\ ~Dangling(L, I) /\ ~QueryNeverEnds(I) /\ ~QueryUnanswered(I)
  <2>1. /\ D \in Seq(ImplInfo)
        /\ DOMAIN D = DOMAIN I
        /\ WellIndexed(D, r.next + Len(new))
        /\ \A k \in DOMAIN I : D[k].lib = I[k].lib /\ D[k].desc
    BY <1>4, <1>5, <1>9, DescribeWellIndexed
  <2> HIDE DEF D
  <2>2. \A k \in DOMAIN D : D[k].lib \in LibIds(L)
    BY <1>9, <2>1 DEF Dangling
  <2>3. ~NullDescCompared(L, D)
    <3> DEFINE B == {k \in DOMAIN D : ~IsSpecial(L, D[k])}
    <3>1. B \subseteq DOMAIN D /\ General(L, D) = Pick(D, B)
      BY DEF General
    <3> HIDE DEF B
    <3>2. \A k \in DOMAIN General(L, D) : \E j \in B : General(L, D)[k] = D[j]
      BY <2>1, <3>1, PickElements
    <3> QED
      BY <2>1, <3>1, <3>2 DEF NullDescCompared
  <2>4. R \in Seq(ImplInfo) /\ WellIndexed(R, r.next + Len(new))
    BY <1>2, <1>5, <2>1, <2>2, <2>3, PrioritizeWellIndexed
  <2> HIDE DEF R
  <2>5. Good([r1 EXCEPT !.impls = R])
    BY <1>6, <2>4 DEF Good, ListState
  <2> QED
    BY <1>7, <1>9, <2>5 DEF QueryLibraryCapsFull, I, L, new, stay, R, D
<1>10. CASE ~(~calls /\ ~Dangling(L, I) /\ ~QueryNeverEnds(I) /\ ~QueryUnanswered(I))
  <2>1. {"use_after_free", "endless_loop", "null_deref", "null_call"} \subseteq Faults
    BY DEF Faults
  <2>2. Good(Faulty(r, "null_call"))
    BY <2>1, FaultyGood
  <2> QED
    BY <1>7, <1>8, <1>10, <2>1, <2>2 DEF QueryLibraryCapsFull, I, L, new, stay
<1> QED
  BY <1>9, <1>10

\* So does a full load.
LEMMA FullLoadAndQueryGood ==
    ASSUME NEW r, Good(r), NEW up
    PROVE  Good(FullLoadAndQuery(r, up))
<1> DEFINE L == BuildListOfCandidateLibs(r.libs, r.impls)
           V == CheckValidLibraries(L, up)
           r1 == [r EXCEPT !.libs = V, !.leaked = @ \cup Reopened(L)]
<1>1. r \in ListState /\ r.libs \in Seq(LibInfo) /\ r.impls \in Seq(ImplInfo)
  BY DEF Good, ListState
<1>2. L \in Seq(LibInfo)
  BY <1>1, BuildListOfCandidateLibsType
<1> HIDE DEF L
<1>3. V \in Seq(LibInfo)
  BY <1>2, CheckValidLibrariesType
<1> HIDE DEF V
<1>4. Reopened(L) \subseteq File
  <2>1. \A k \in DOMAIN L : L[k] \in LibInfo
    BY <1>2, Element
  <2> QED
    BY <2>1 DEF Reopened, LibInfo
<1>5. Good(r1)
  BY <1>1, <1>3, <1>4 DEF Good, ListState
<1>6. Good([r1 EXCEPT !.ok = FALSE])
  BY <1>5 DEF Good, ListState
<1>7. Good(QueryLibraryCapsFull(r1))
  BY <1>5, QueryLibraryCapsFullGood
<1>8. Good(Faulty(r, "use_after_free"))
  BY FaultyGood DEF Faults
<1> HIDE DEF r1
<1> QED
  BY <1>6, <1>7, <1>8 DEF FullLoadAndQuery, L, V, r1

-----------------------------------------------------------------------------
\* Whether a description meets the filters does not depend on the index.
LEMMA SameMeets ==
    ASSUME NEW m, NEW n, Same(m, n)
    PROVE  Meets(m) <=> Meets(n)
BY DEF Same, Meets, DescOf

\* The filters mark implementations invalid, and all that do not meet them.
LEMMA ApplyFiltersWellIndexed ==
    ASSUME NEW I \in Seq(ImplInfo), NEW n \in Nat, WellIndexed(I, n)
    PROVE  /\ ApplyFilters(I) \in Seq(ImplInfo)
           /\ DOMAIN ApplyFilters(I) = DOMAIN I
           /\ WellIndexed(ApplyFilters(I), n)
           /\ \A k \in DOMAIN I : /\ ApplyFilters(I)[k].lib = I[k].lib
                                  /\ ApplyFilters(I)[k].desc = I[k].desc
           /\ AllMeet(ApplyFilters(I))
<1> DEFINE F == ApplyFilters(I)
<1>1. \A k \in DOMAIN I : I[k] \in ImplInfo
  BY Element
<1>2. \A k \in DOMAIN I : F[k] = IF I[k].valid = -1 \/ Meets(I[k]) THEN I[k]
                                 ELSE [I[k] EXCEPT !.valid = -1]
  BY DEF ApplyFilters
<1>3. F \in [DOMAIN I -> ImplInfo]
  BY <1>1 DEF ApplyFilters, ImplInfo
<1>4. F \in Seq(ImplInfo) /\ Len(F) = Len(I) /\ DOMAIN F = DOMAIN I
  <2> HIDE DEF F
  <2> QED
    BY <1>3, MapIsSeq
<1> HIDE DEF F
<1>5. \A k \in DOMAIN I : /\ F[k].lib = I[k].lib /\ F[k].file = I[k].file
                          /\ F[k].idx = I[k].idx /\ F[k].desc = I[k].desc
                          /\ F[k].valid \in {-1, I[k].valid}
  BY <1>1, <1>2 DEF ImplInfo
<1>6. \A k \in DOMAIN F : IF F[k].desc THEN Known(F[k]) ELSE F[k].idx = 1
  BY <1>4, <1>5 DEF WellIndexed, Known
<1>7. \A k \in DOMAIN F : F[k].valid < n
  <2> TAKE k \in DOMAIN F
  <2>1. I[k].valid < n
    BY <1>4 DEF WellIndexed
  <2> QED
    BY <1>4, <1>5, <2>1
<1>8. ASSUME NEW j \in DOMAIN F, NEW k \in DOMAIN F, F[j].valid >= 0, F[j].valid = F[k].valid
      PROVE  j = k
  <2>1. F[j].valid = I[j].valid /\ F[k].valid = I[k].valid
    BY <1>4, <1>5, <1>8
  <2> QED
    BY <1>4, <1>8, <2>1 DEF WellIndexed
<1>9. Len(F) <= n
  BY <1>4 DEF WellIndexed
<1>10. \A k \in DOMAIN I : F[k].valid >= 0 => F[k] = I[k] /\ Meets(I[k])
  <2> SUFFICES ASSUME NEW k \in DOMAIN I, F[k].valid >= 0
               PROVE  F[k] = I[k] /\ Meets(I[k])
    OBVIOUS
  <2>1. CASE I[k].valid = -1
    <3>1. F[k] = I[k]
      BY <1>2, <2>1
    <3> QED
      BY <2>1, <3>1
  <2>2. CASE I[k].valid # -1 /\ ~Meets(I[k])
    <3>1. F[k] = [I[k] EXCEPT !.valid = -1] /\ I[k] \in ImplInfo
      BY <1>1, <1>2, <2>2
    <3>2. F[k].valid = -1
      BY <3>1 DEF ImplInfo
    <3> QED
      BY <3>2
  <2>3. CASE I[k].valid # -1 /\ Meets(I[k])
    BY <1>2, <2>3
  <2> QED
    BY <2>1, <2>2, <2>3
<1>11. AllMeet(F)
  BY <1>4, <1>10 DEF AllMeet
<1> QED
  BY <1>4, <1>5, <1>6, <1>7, <1>8, <1>9, <1>11 DEF WellIndexed, F

\* UpdateValidImplList keeps the lists well formed, and when it returns, what
\* can be chosen meets the filters.
LEMMA UpdateValidImplListGood ==
    ASSUME NEW r, Good(r)
    PROVE  /\ Good(UpdateValidImplList(r))
           /\ UpdateValidImplList(r).ok => AllMeet(UpdateValidImplList(r).impls)
<1> DEFINE gone == {k \in DOMAIN r.impls : r.impls[k].lib \notin LibIds(r.libs)}
           I == ApplyFilters(r.impls)
           R == PrioritizeImplList(r.libs, I)
<1>1. /\ r \in ListState /\ r.libs \in Seq(LibInfo) /\ r.impls \in Seq(ImplInfo)
      /\ r.next \in Nat /\ WellIndexed(r.impls, r.next)
  BY DEF Good, ListState
<1>2. /\ I \in Seq(ImplInfo)
      /\ DOMAIN I = DOMAIN r.impls
      /\ WellIndexed(I, r.next)
      /\ \A k \in DOMAIN r.impls : I[k].lib = r.impls[k].lib
      /\ AllMeet(I)
  BY <1>1, ApplyFiltersWellIndexed
<1> HIDE DEF I
<1>3. \A what \in Faults : Good(Faulty(r, what)) /\ ~Faulty(r, what).ok
  BY FaultyGood
<1>4. "use_after_free" \in Faults /\ "null_deref" \in Faults
  BY DEF Faults
<1>5. CASE \E k \in gone : Len(r.impls) > 1 \/ r.impls[k].valid # -1
  BY <1>3, <1>4, <1>5 DEF UpdateValidImplList
<1>6. CASE gone # {} /\ ~(\E k \in gone : Len(r.impls) > 1 \/ r.impls[k].valid # -1)
  <2>1. PICK g \in gone : ~(Len(r.impls) > 1) /\ r.impls[g].valid = -1
    BY <1>6
  <2>2. Len(r.impls) \in Nat /\ DOMAIN r.impls = 1..Len(r.impls)
    BY <1>1, LenProperties
  <2>3. \A k \in DOMAIN r.impls : k = g
    BY <2>1, <2>2
  <2>4. AllMeet(r.impls)
    BY <2>1, <2>3 DEF AllMeet
  <2>5. UpdateValidImplList(r) = r
    BY <1>6 DEF UpdateValidImplList
  <2> QED
    BY <2>4, <2>5
<1>7. CASE gone = {} /\ NullDescCompared(r.libs, I)
  <2>1. UpdateValidImplList(r) = Faulty(r, "null_deref")
    BY <1>7 DEF UpdateValidImplList, I
  <2> QED
    BY <1>3, <1>4, <2>1
<1>8. CASE gone = {} /\ ~NullDescCompared(r.libs, I)
  <2>1. \A k \in DOMAIN I : I[k].lib \in LibIds(r.libs)
    BY <1>2, <1>8
  <2>2. /\ R \in Seq(ImplInfo)
        /\ WellIndexed(R, r.next)
        /\ SameAs(R, I)
    BY <1>1, <1>2, <1>8, <2>1, PrioritizeWellIndexed
  <2>3. UpdateValidImplList(r) = [r EXCEPT !.impls = R]
    BY <1>8 DEF UpdateValidImplList, I
  <2> HIDE DEF R
  <2>4. Good([r EXCEPT !.impls = R]) /\ [r EXCEPT !.impls = R].impls = R
    BY <1>1, <2>2 DEF Good, ListState
  <2>5. \A k \in DOMAIN R : R[k].valid >= 0 => Meets(R[k])
    <3> SUFFICES ASSUME NEW k \in DOMAIN R, R[k].valid >= 0 PROVE Meets(R[k])
      OBVIOUS
    <3>1. PICK i \in DOMAIN I : Same(R[k], I[i])
      BY <2>2 DEF SameAs
    <3>2. I[i].valid >= 0
      BY <3>1 DEF Same
    <3>3. Meets(I[i])
      BY <1>2, <3>2 DEF AllMeet
    <3> QED
      BY <3>1, <3>3, SameMeets
  <2> QED
    BY <2>3, <2>4, <2>5 DEF AllMeet
<1> QED
  BY <1>5, <1>6, <1>7, <1>8

\* The load and the filters as MFXEnumImplementations and MFXCreateSession run
\* them: nothing happens to a list that is up to date.
LEMMA RefreshGood ==
    ASSUME NEW r, Good(r), NEW up
    PROVE  /\ Good(Refresh(r, up))
           /\ Refresh(r, up).ok /\ (needFull \/ needUpdate) => AllMeet(Refresh(r, up).impls)
           /\ ~needFull /\ ~needUpdate => Refresh(r, up) = r
<1> DEFINE r1 == IF needFull THEN FullLoadAndQuery(r, up) ELSE r
<1>1. Good(r1)
  BY FullLoadAndQueryGood
<1>2. /\ Good(UpdateValidImplList(r1))
      /\ UpdateValidImplList(r1).ok => AllMeet(UpdateValidImplList(r1).impls)
  BY <1>1, UpdateValidImplListGood
<1>3. Refresh(r, up) = IF r1.ok /\ (needFull \/ needUpdate) THEN UpdateValidImplList(r1) ELSE r1
  BY DEF Refresh
<1> QED
  BY <1>1, <1>2, <1>3

-----------------------------------------------------------------------------
\* A library opened in low latency mode is one.
LEMMA LowLatLibType ==
    ASSUME NEW L \in Seq(LibInfo), NEW I \in Seq(ImplInfo), NEW file \in File,
           NEW type \in {"vpl", "msdk"}, NEW works \in BOOLEAN
    PROVE  Append(L, LowLatLib(L, I, file, type, works)) \in Seq(LibInfo)
<1>1. LastId(L, I) + 1 \in Nat
  BY LastIdGreatest
<1>2. LowLatLib(L, I, file, type, works) \in LibInfo
  BY <1>1 DEF LowLatLib, NewLib, LibInfo, PrioLowLatency, PrioLegacy
<1> QED
  BY <1>2, AppendProperties

\* The low latency load adds libraries only; a failed one changes no filter.
LEMMA LoadLibsLowLatencyGood ==
    ASSUME NEW r, Good(r), NEW found \in SUBSET File, NEW up
    PROVE  LET l == LoadLibsLowLatency(r, found, up)
           IN  /\ Good(l.lists)
               /\ l.lists.impls = r.impls
               /\ l.configs \in {configs, RenameFilters(configs)}
               /\ ~l.lists.ok => l.configs = configs
<1> DEFINE vplOk == LowLatVPL \in found \cap up
           msdkOk == LowLatMSDK \in found \cap up /\ Kind[LowLatMSDK] = "msdk"
           L1 == IF LowLatVPL \notin found THEN r.libs
                 ELSE Append(r.libs, LowLatLib(r.libs, r.impls, LowLatVPL, "vpl", vplOk))
           L2 == IF vplOk \/ LowLatMSDK \notin found THEN L1
                 ELSE Append(L1, LowLatLib(L1, r.impls, LowLatMSDK, "msdk", msdkOk))
           r1 == [r EXCEPT !.libs = L2, !.ok = vplOk \/ msdkOk]
           l == LoadLibsLowLatency(r, found, up)
<1>1. r \in ListState /\ r.libs \in Seq(LibInfo) /\ r.impls \in Seq(ImplInfo)
  BY DEF Good, ListState
<1>2. L1 \in Seq(LibInfo)
  <2>1. CASE LowLatVPL \notin found
    BY <1>1, <2>1
  <2>2. CASE LowLatVPL \in found
    <3>1. LowLatVPL \in File /\ vplOk \in BOOLEAN
      BY <2>2
    <3> HIDE DEF vplOk
    <3> QED
      BY <1>1, <2>2, <3>1, LowLatLibType
  <2> QED
    BY <2>1, <2>2
<1> HIDE DEF L1
<1>3. L2 \in Seq(LibInfo)
  <2>1. CASE LowLatMSDK \notin found
    BY <1>2, <2>1
  <2>2. CASE LowLatMSDK \in found
    <3>1. LowLatMSDK \in File /\ msdkOk \in BOOLEAN
      BY <2>2
    <3> HIDE DEF msdkOk
    <3> QED
      BY <1>1, <1>2, <2>2, <3>1, LowLatLibType
  <2> QED
    BY <2>1, <2>2
<1>4. l = [lists |-> r1, configs |-> IF ~vplOk /\ msdkOk THEN RenameFilters(configs) ELSE configs]
  BY DEF LoadLibsLowLatency, L1
<1> HIDE DEF L2, l
<1>5. Good(r1) /\ r1.impls = r.impls /\ r1.ok = (vplOk \/ msdkOk)
  BY <1>1, <1>3 DEF Good, ListState
<1> HIDE DEF r1
<1>6. l.lists = r1 /\ l.configs = IF ~vplOk /\ msdkOk THEN RenameFilters(configs) ELSE configs
  BY <1>4
<1>7. /\ Good(l.lists)
      /\ l.lists.impls = r.impls
      /\ l.configs \in {configs, RenameFilters(configs)}
      /\ ~l.lists.ok => l.configs = configs
  BY <1>5, <1>6
<1> QED
  BY <1>7 DEF l

\* The low latency query lists implementations without description, with the
\* next indices.
LEMMA QueryLibraryCapsLowGood ==
    ASSUME NEW r, Good(r), NEW answers
    PROVE  Good(QueryLibraryCapsLow(r, answers))
<1> DEFINE L == r.libs
           stay == {k \in DOMAIN L : L[k].type = "msdk" => L[k].file \in answers}
           used == {k \in stay : /\ L[k].file \in answers
                                 /\ L[k].type = "vpl" => ApiVer[L[k].file] < MissingFrom[L[k].file]}
           F == Pick(L, used)
           N == [j \in DOMAIN F |-> LowLatImpl(F[j], r.next + j - 1)]
           I == r.impls \o N
           S == Pick(L, stay)
           r1 == [r EXCEPT !.libs = S, !.impls = I, !.next = @ + Len(F), !.ok = I # <<>>]
<1>1. /\ r \in ListState /\ L \in Seq(LibInfo) /\ r.impls \in Seq(ImplInfo)
      /\ r.next \in Nat /\ WellIndexed(r.impls, r.next)
  BY DEF Good, ListState
<1>2. stay \subseteq DOMAIN L /\ used \subseteq DOMAIN L
  OBVIOUS
<1> HIDE DEF stay, used
<1>3. F \in Seq(LibInfo) /\ S \in Seq(LibInfo)
  BY <1>1, <1>2, PickElements
<1> HIDE DEF F, S
<1>4. Len(F) \in Nat /\ DOMAIN F = 1..Len(F)
  BY <1>3, LenProperties
<1>5. \A j \in DOMAIN F : /\ N[j] \in ImplInfo
                          /\ N[j].valid = r.next + j - 1
                          /\ ~N[j].desc /\ N[j].idx = 1
  <2> TAKE j \in DOMAIN F
  <2>1. F[j] \in LibInfo
    BY <1>3, Element
  <2>2. F[j].id \in Nat /\ F[j].file \in File
    BY <2>1 DEF LibInfo
  <2>3. ApiVer[F[j].file] \in Nat
    BY <2>2, RuntimeAssumption
  <2>4. r.next + j - 1 \in Nat
    BY <1>1, <1>4
  <2> QED
    BY <2>2, <2>3, <2>4 DEF LowLatImpl, ImplInfo
<1>6. N \in [DOMAIN F -> ImplInfo]
  BY <1>5
<1> HIDE DEF N
<1>7. N \in Seq(ImplInfo) /\ Len(N) = Len(F) /\ DOMAIN N = DOMAIN F
  BY <1>3, <1>6, MapIsSeq
<1>8. I \in Seq(ImplInfo) /\ WellIndexed(I, r.next + Len(F))
  BY <1>1, <1>5, <1>7, AppendWellIndexed
<1> HIDE DEF I
<1>9. Good(r1)
  <2>1. r.next + Len(F) \in Nat /\ (I # <<>>) \in BOOLEAN
    BY <1>1, <1>4
  <2>2. r1 \in ListState
    BY <1>1, <1>3, <1>8, <2>1 DEF ListState
  <2>3. r1.impls = I /\ r1.next = r.next + Len(F)
    BY <1>1 DEF ListState
  <2> QED
    BY <1>8, <2>2, <2>3 DEF Good
<1>10. Good(Faulty(r, "use_after_free")) /\ Good(Faulty(r, "null_call"))
  BY FaultyGood DEF Faults
<1>11. QueryLibraryCapsLow(r, answers) =
         IF Dangling(L, <<>>) THEN Faulty(r, "use_after_free")
         ELSE IF \E k \in DOMAIN L : CallsNullLow(L[k], answers) THEN Faulty(r, "null_call")
         ELSE r1
  BY DEF QueryLibraryCapsLow, F, N, I, S, stay, used
<1> QED
  BY <1>9, <1>10, <1>11

\* What a call finds for an index is an entry of the list.
LEMMA FirstListed ==
    ASSUME NEW I \in Seq(ImplInfo), NEW i, Listed(I, i) # {}
    PROVE  First(I, i) \in ImplInfo /\ \E k \in Listed(I, i) : First(I, i) = I[k]
<1>1. DOMAIN I = 1..Len(I) /\ Len(I) \in Nat
  BY LenProperties
<1>2. IsFiniteSet(1..Len(I))
  BY <1>1, Positions
<1>3. Listed(I, i) \subseteq 1..Len(I)
  BY <1>1 DEF Listed
<1>4. IsFiniteSet(Listed(I, i)) /\ Listed(I, i) \subseteq Int
  BY <1>1, <1>2, <1>3, FS_Subset
<1>5. \E k \in Listed(I, i) : \A j \in Listed(I, i) : k <= j
  BY <1>4, Extremes
<1>6. \E k \in Listed(I, i) : First(I, i) = I[k]
  BY <1>5 DEF First
<1> QED
  BY <1>1, <1>3, <1>6, Element

-----------------------------------------------------------------------------
(* The invariants, action by action                                        *)

\* LastSet returns Unset or what some mfxConfig holds.
LEMMA LastSetValue ==
    ASSUME NEW cs \in Seq(Config), NEW p \in Property
    PROVE  LastSet(cs, p) = Unset \/ \E k \in DOMAIN cs : LastSet(cs, p) = cs[k][p]
<1> DEFINE setters == {k \in DOMAIN cs : cs[k][p] # Unset}
<1>1. DOMAIN cs = 1..Len(cs) /\ Len(cs) \in Nat
  BY LenProperties
<1>2. IsFiniteSet(1..Len(cs))
  BY <1>1, Positions
<1>3. setters \subseteq 1..Len(cs) /\ setters \subseteq DOMAIN cs
  BY <1>1
<1>4. IsFiniteSet(setters) /\ setters \subseteq Int
  BY <1>2, <1>3, FS_Subset
<1>5. LastSet(cs, p) = IF setters = {} THEN Unset
                       ELSE cs[CHOOSE k \in setters : \A j \in setters : j <= k][p]
  BY DEF LastSet
<1> HIDE DEF setters
<1>6. CASE setters = {}
  BY <1>5, <1>6
<1>7. CASE setters # {}
  <2>1. \E k \in setters : \A j \in setters : j <= k
    BY <1>4, <1>7, Extremes
  <2> DEFINE last == CHOOSE k \in setters : \A j \in setters : j <= k
  <2>2. last \in setters
    BY <2>1
  <2> QED
    BY <1>3, <1>5, <1>7, <2>2
<1> QED
  BY <1>6, <1>7

\* A property holds one of its values, in an mfxConfig and in m_specialConfig.
LEMMA ConfigField ==
    ASSUME NEW c \in Config, NEW p \in Property \ {"ImplName"}
    PROVE  c[p] \in Values(p)
BY DEF Config, Property

\* Setting one property of an mfxConfig to one of its values, or unsetting it.
LEMMA ConfigExcept ==
    ASSUME NEW c \in Config, NEW p \in Property, NEW v \in Values(p)
    PROVE  [c EXCEPT ![p] = v] \in Config
<1>1. CASE p = "Impl"
  BY <1>1 DEF Config
<1>2. CASE p = "ImplName"
  BY <1>2 DEF Config
<1>3. CASE p = "VendorID"
  BY <1>3 DEF Config
<1>4. CASE p = "AccelerationMode"
  BY <1>4 DEF Config
<1>5. CASE p = "ApiVersion"
  BY <1>5 DEF Config
<1>6. CASE p = "CodecID"
  BY <1>6 DEF Config
<1> QED
  BY <1>1, <1>2, <1>3, <1>4, <1>5, <1>6 DEF Property

\* The same in the list of all mfxConfig objects.
LEMMA ConfigsExcept ==
    ASSUME NEW cs \in Seq(Config), NEW k \in DOMAIN cs, NEW p \in Property, NEW v \in Values(p)
    PROVE  [cs EXCEPT ![k][p] = v] \in Seq(Config)
<1> DEFINE d == [cs EXCEPT ![k][p] = v]
<1>1. \A j \in DOMAIN cs : cs[j] \in Config
  BY Element
<1>2. [cs[k] EXCEPT ![p] = v] \in Config
  BY <1>1, ConfigExcept
<1>3. d = [cs EXCEPT ![k] = [cs[k] EXCEPT ![p] = v]]
  OBVIOUS
<1>4. d \in [DOMAIN cs -> Config]
  <2>1. cs \in [DOMAIN cs -> Config]
    BY <1>1, LenProperties
  <2> QED
    BY <1>2, <1>3, <2>1
<1> HIDE DEF d
<1>5. d \in Seq(Config)
  BY <1>4, MapIsSeq
<1> QED
  BY <1>5 DEF d

\* The 1.x fallback changes names only.
LEMMA RenameFiltersType ==
    ASSUME NEW cs \in Seq(Config)
    PROVE  RenameFilters(cs) \in Seq(Config)
<1>1. \A j \in DOMAIN cs : cs[j] \in Config
  BY Element
<1>2. \A j \in DOMAIN cs : [cs[j] EXCEPT !["ImplName"] = "mfxhw64"] \in Config
  BY <1>1 DEF Config
<1>3. RenameFilters(cs) \in [DOMAIN cs -> Config]
  BY <1>2 DEF RenameFilters
<1> QED
  BY <1>3, MapIsSeq

SpecialConfig == [AccelerationMode : Values("AccelerationMode"), ApiVersion : Values("ApiVersion")]

\* Special properties take values of the mfxConfig objects.
LEMMA UpdateSpecialType ==
    ASSUME NEW sp \in SpecialConfig, NEW cs \in Seq(Config)
    PROVE  UpdateSpecial(sp, cs) \in SpecialConfig
<1>1. \A p \in {"AccelerationMode", "ApiVersion"} :
        LastSet(cs, p) = Unset \/ LastSet(cs, p) \in Values(p)
  <2> TAKE p \in {"AccelerationMode", "ApiVersion"}
  <2>1. p \in Property \ {"ImplName"} /\ p \in Property
    BY DEF Property
  <2>2. \A k \in DOMAIN cs : cs[k][p] \in Values(p)
    BY <2>1, Element, ConfigField
  <2> QED
    BY <2>1, <2>2, LastSetValue
<1>2. /\ DOMAIN sp = {"AccelerationMode", "ApiVersion"}
      /\ sp["AccelerationMode"] \in Values("AccelerationMode")
      /\ sp["ApiVersion"] \in Values("ApiVersion")
  BY DEF SpecialConfig
<1>3. UpdateSpecial(sp, cs) =
        [p \in {"AccelerationMode", "ApiVersion"} |->
            IF LastSet(cs, p) = Unset THEN sp[p] ELSE LastSet(cs, p)]
  BY <1>2 DEF UpdateSpecial
<1> QED
  BY <1>1, <1>2, <1>3 DEF SpecialConfig

-----------------------------------------------------------------------------
SessionOK == session # NoSession =>
                session.file \in File /\ session.idx \in Nat /\ session.ver \in Nat
ListsOK == /\ libs \in Seq(LibInfo) /\ impls \in Seq(ImplInfo) /\ nextIdx \in Nat
           /\ leaked \subseteq File /\ fault \in {"none"} \cup Faults
           /\ IndexInv

\* The lists of the loader are well formed whenever a call starts.
LEMMA CurrentGood ==
    ASSUME TypeOK, IndexInv
    PROVE  Good(Current)
BY DEF TypeOK, IndexInv, Good, ListState, Current

\* A step from well-formed lists leaves well-formed lists.
LEMMA SetListsOK ==
    ASSUME NEW r, Good(r), SetLists(r)
    PROVE  ListsOK'
BY DEF Good, ListState, SetLists, ListsOK, IndexInv

\* Creating a session leaves the lists, or a fault, and the session runs on an
\* implementation of the list.
LEMMA CreateSessionOK ==
    ASSUME NEW r, Good(r), NEW ll, NEW i, NEW starts,
           SessionOK, CreateSession(r, ll, i, starts)
    PROVE  /\ ListsOK'
           /\ ret' \in {"NONE", "NULL_PTR", "NOT_FOUND", "UNSUPPORTED"}
           /\ SessionOK'
           /\ impls' = r.impls
<1> DEFINE m == First(r.impls, i)
           found == r.ok /\ Listed(r.impls, i) # {}
           gone == found /\ m.lib \notin LibIds(r.libs)
<1>1. r \in ListState /\ r.impls \in Seq(ImplInfo)
  BY DEF Good, ListState
<1>2. SetLists(IF gone THEN Faulty(r, "use_after_free") ELSE r)
  BY DEF CreateSession
<1>3. Good(Faulty(r, "use_after_free")) /\ Faulty(r, "use_after_free").impls = r.impls
  BY <1>1, FaultyGood DEF Faults, Faulty, ListState
<1>4. ListsOK' /\ impls' = r.impls
  <2>1. CASE gone
    BY <1>2, <1>3, <2>1, SetListsOK DEF SetLists
  <2>2. CASE ~gone
    BY <1>2, <2>2, SetListsOK DEF SetLists
  <2> QED
    BY <2>1, <2>2
<1>5. found => m \in ImplInfo
  BY <1>1, FirstListed
<1>6. found => m.file \in File /\ m.idx \in Nat /\ m.ver \in Nat
  BY <1>5 DEF ImplInfo
<1>7. \/ UNCHANGED session
      \/ found /\ session'.file = m.file /\ session'.idx = m.idx /\ session'.ver = m.ver
  BY DEF CreateSession
<1>8. ret' \in {"NONE", "NULL_PTR", "NOT_FOUND", "UNSUPPORTED"}
  BY DEF CreateSession
<1>9. SessionOK'
  BY <1>6, <1>7 DEF SessionOK
<1> QED
  BY <1>4, <1>8, <1>9

-----------------------------------------------------------------------------
\* Two lists of mfxConfig objects that set p in the same objects to the same
\* values have the same last value of p.
LEMMA LastSetSame ==
    ASSUME NEW cs \in Seq(Config), NEW ds \in Seq(Config), NEW p \in Property,
           {k \in DOMAIN cs : cs[k][p] # Unset} = {k \in DOMAIN ds : ds[k][p] # Unset},
           \A k \in DOMAIN cs \cap DOMAIN ds : cs[k][p] = ds[k][p]
    PROVE  LastSet(cs, p) = LastSet(ds, p)
<1> DEFINE setters == {k \in DOMAIN cs : cs[k][p] # Unset}
           last == CHOOSE k \in setters : \A j \in setters : j <= k
<1>1. /\ LastSet(cs, p) = IF setters = {} THEN Unset ELSE cs[last][p]
      /\ LastSet(ds, p) = IF setters = {} THEN Unset ELSE ds[last][p]
  <2> DEFINE others == {k \in DOMAIN ds : ds[k][p] # Unset}
  <2>1. LastSet(cs, p) = IF setters = {} THEN Unset ELSE cs[last][p]
    BY DEF LastSet
  <2>2. LastSet(ds, p) = IF others = {} THEN Unset
                         ELSE ds[CHOOSE k \in others : \A j \in others : j <= k][p]
    BY DEF LastSet
  <2>3. others = setters
    OBVIOUS
  <2> HIDE DEF others, setters
  <2> QED
    BY <2>1, <2>2, <2>3
<1>2. DOMAIN cs = 1..Len(cs) /\ Len(cs) \in Nat
  BY LenProperties
<1>3. IsFiniteSet(1..Len(cs))
  BY <1>2, Positions
<1>4. setters \subseteq 1..Len(cs) /\ setters \subseteq DOMAIN cs /\ setters \subseteq DOMAIN ds
  BY <1>2
<1>5. IsFiniteSet(setters) /\ setters \subseteq Int
  BY <1>3, <1>4, FS_Subset
<1> HIDE DEF setters
<1>6. CASE setters = {}
  BY <1>1, <1>6
<1>7. CASE setters # {}
  <2>1. \E k \in setters : \A j \in setters : j <= k
    BY <1>5, <1>7, Extremes
  <2>2. last \in setters
    BY <2>1
  <2> HIDE DEF last
  <2> QED
    BY <1>1, <1>4, <1>7, <2>2
<1> QED
  BY <1>6, <1>7

\* A new mfxConfig filters nothing.
LEMMA NewConfigRelaxes ==
    ASSUME NEW cs \in Seq(Config), NEW d, NEW kind, ValidateConfig(cs, d, kind)
    PROVE  /\ Append(cs, NoFilter) \in Seq(Config)
           /\ ValidateConfig(Append(cs, NoFilter), d, kind)
<1> DEFINE ds == Append(cs, NoFilter)
<1>0. NoFilter \in Config /\ \A p \in Property : NoFilter[p] = Unset
  BY DEF NoFilter, Config, Property, Values
<1>1. /\ ds \in Seq(Config)
      /\ Len(ds) = Len(cs) + 1
      /\ \A k \in 1..Len(cs) : ds[k] = cs[k]
      /\ ds[Len(cs) + 1] = NoFilter
  BY <1>0, AppendProperties
<1>2. Len(cs) \in Nat /\ DOMAIN cs = 1..Len(cs) /\ DOMAIN ds = 1..(Len(cs) + 1)
  BY <1>1, LenProperties
<1> HIDE DEF ds
<1>3. \A k \in DOMAIN ds : IF k \in DOMAIN cs THEN ds[k] = cs[k] ELSE ds[k] = NoFilter
  BY <1>1, <1>2
<1>4. DOMAIN cs \subseteq DOMAIN ds
  BY <1>2
<1>5. "ApiVersion" \in Property
  BY DEF Property
<1>6. LastSet(cs, "ApiVersion") = LastSet(ds, "ApiVersion")
  BY <1>0, <1>1, <1>3, <1>4, <1>5, LastSetSame
<1>7. \A k \in DOMAIN ds : CheckProps(ds[k], d, kind)
  <2>1. CheckProps(NoFilter, d, kind)
    BY <1>0 DEF CheckProps, Property
  <2> QED
    BY <1>3, <2>1 DEF ValidateConfig
<1> QED
  BY <1>1, <1>6, <1>7 DEF ValidateConfig, ds

\* A property that is unset filters no more.
LEMMA UnsetRelaxes ==
    ASSUME NEW cs \in Seq(Config), NEW k \in DOMAIN cs, NEW p \in PtrProperty,
           NEW d, NEW kind, ValidateConfig(cs, d, kind)
    PROVE  ValidateConfig([cs EXCEPT ![k][p] = Unset], d, kind)
<1> DEFINE ds == [cs EXCEPT ![k][p] = Unset]
<1>1. p = "ImplName" /\ p \in Property /\ Unset \in Values(p) /\ "ApiVersion" \in Property
  BY DEF PtrProperty, Property, Values
<1>2. ds \in Seq(Config)
  BY <1>1, ConfigsExcept
<1>3. \A j \in DOMAIN cs : cs[j] \in Config
  BY Element
<1>4. DOMAIN ds = DOMAIN cs
  OBVIOUS
<1>5. \A j \in DOMAIN cs : ds[j] = IF j = k THEN [cs[k] EXCEPT !["ImplName"] = Unset] ELSE cs[j]
  BY <1>1
<1>6. \A j \in DOMAIN cs : /\ ds[j]["ImplName"] \in {Unset, cs[j]["ImplName"]}
                           /\ ds[j]["Impl"] = cs[j]["Impl"]
                           /\ ds[j]["VendorID"] = cs[j]["VendorID"]
                           /\ ds[j]["AccelerationMode"] = cs[j]["AccelerationMode"]
                           /\ ds[j]["ApiVersion"] = cs[j]["ApiVersion"]
                           /\ ds[j]["CodecID"] = cs[j]["CodecID"]
  BY <1>3, <1>5 DEF Config
<1> HIDE DEF ds
<1>7. LastSet(cs, "ApiVersion") = LastSet(ds, "ApiVersion")
  BY <1>1, <1>2, <1>4, <1>6, LastSetSame
<1>8. \A j \in DOMAIN ds : CheckProps(ds[j], d, kind)
  <2> TAKE j \in DOMAIN ds
  <2>1. CheckProps(cs[j], d, kind)
    BY <1>4 DEF ValidateConfig
  <2> QED
    BY <1>4, <1>6, <2>1 DEF CheckProps
<1> QED
  BY <1>7, <1>8 DEF ValidateConfig, ds

-----------------------------------------------------------------------------
\* Every call keeps the types and the indices.
LEMMA TypesKept ==
    ASSUME TypeOK, IndexInv, [Next]_vars
    PROVE  TypeOK' /\ IndexInv'
<1> USE DEF TypeOK, SessionOK, ListsOK
<1>1. Good(Current)
  BY CurrentGood
<1>2. CASE MFXLoad
  <2>1. [p \in SpecialProperty |-> Unset] \in
            [AccelerationMode : Values("AccelerationMode"), ApiVersion : Values("ApiVersion")]
    BY DEF SpecialProperty, Values
  <2> QED
    BY <1>2, <2>1 DEF MFXLoad, lists, IndexInv
<1>3. CASE MFXUnload
  <2>1. Good(UnloadAllLibraries(Current))
    BY <1>1, UnloadGood
  <2>2. ListsOK'
    BY <1>3, <2>1, SetListsOK DEF MFXUnload
  <2>3. <<>> \in Seq(Config)
    BY EmptySeq
  <2> QED
    BY <1>3, <2>2, <2>3 DEF MFXUnload, flags
<1>4. CASE MFXCreateConfig
  <2>1. NoFilter \in Config
    BY DEF NoFilter, Config, Property, Values
  <2>2. configs' \in Seq(Config)
    BY <1>4, <2>1, AppendProperties DEF MFXCreateConfig
  <2> QED
    BY <1>4, <2>2 DEF MFXCreateConfig, lists, flags, IndexInv
<1>5. ASSUME NEW k \in 1..MaxConfig, NEW s \in Setting, MFXSetConfigFilterProperty(k, s)
      PROVE  TypeOK' /\ IndexInv'
  <2>1. s[1] \in Property /\ s[2] \in Values(s[1])
    BY ConfigAssumption DEF Values
  <2>2. configs' \in Seq(Config)
    BY <1>5, <2>1, ConfigsExcept DEF MFXSetConfigFilterProperty
  <2>3. special' \in SpecialConfig
    BY <1>5, <2>2, UpdateSpecialType DEF MFXSetConfigFilterProperty, SpecialConfig
  <2>4. lowLatency' \in BOOLEAN
    BY <1>5 DEF MFXSetConfigFilterProperty, CheckLowLatencyConfig
  <2> QED
    BY <1>5, <2>2, <2>3, <2>4 DEF MFXSetConfigFilterProperty, SpecialConfig, lists, IndexInv
<1>6. ASSUME NEW k \in 1..MaxConfig, NEW p \in PtrProperty, MFXSetConfigFilterPropertyNull(k, p)
      PROVE  TypeOK' /\ IndexInv'
  <2>1. p \in Property /\ Unset \in Values(p)
    BY DEF PtrProperty, Property, Values
  <2>2. configs' \in Seq(Config)
    BY <1>6, <2>1, ConfigsExcept DEF MFXSetConfigFilterPropertyNull
  <2> QED
    BY <1>6, <2>2 DEF MFXSetConfigFilterPropertyNull, lists, flags, IndexInv
<1>7. ASSUME NEW i \in 0..MaxIndex, NEW up \in Working, MFXEnumImplementations(i, up)
      PROVE  TypeOK' /\ IndexInv'
  <2> DEFINE unload == needFull /\ lowLatency /\ ~needLowLat
             r0 == IF unload THEN UnloadAllLibraries(Current) ELSE Current
             r == Refresh(r0, up)
  <2>1. Good(r0)
    BY <1>1, UnloadGood
  <2> HIDE DEF r0
  <2>2. Good(r) /\ r.ok \in BOOLEAN
    BY <2>1, RefreshGood DEF Good, ListState
  <2> HIDE DEF r
  <2>3. SetLists(r) /\ RefreshFlags(r)
    BY <1>7 DEF MFXEnumImplementations, r, r0
  <2>4. ListsOK'
    BY <2>2, <2>3, SetListsOK
  <2>5. ret' \in {"NONE", "NULL_PTR", "NOT_FOUND", "UNSUPPORTED"}
    BY <1>7 DEF MFXEnumImplementations
  <2> QED
    BY <1>7, <2>2, <2>3, <2>4, <2>5 DEF MFXEnumImplementations, RefreshFlags
<1>8. ASSUME NEW i \in 0..MaxIndex, NEW up \in Working, NEW starts \in BOOLEAN,
             MFXCreateSessionFull(i, up, starts)
      PROVE  TypeOK' /\ IndexInv'
  <2> DEFINE r == Refresh(Current, up)
  <2>1. Good(r) /\ r.ok \in BOOLEAN
    BY <1>1, RefreshGood DEF Good, ListState
  <2> HIDE DEF r
  <2>2. RefreshFlags(r) /\ CreateSession(r, FALSE, i, starts)
    BY <1>8 DEF MFXCreateSessionFull, r
  <2>3. /\ ListsOK'
        /\ ret' \in {"NONE", "NULL_PTR", "NOT_FOUND", "UNSUPPORTED"}
        /\ SessionOK'
    BY <2>1, <2>2, CreateSessionOK
  <2> QED
    BY <1>8, <2>1, <2>2, <2>3 DEF MFXCreateSessionFull, RefreshFlags
<1>9. ASSUME NEW i \in 0..MaxIndex, NEW found \in Working, NEW up \in Working, NEW answers \in Working,
             NEW starts \in BOOLEAN, MFXCreateSessionLowLatency(i, found, up, answers, starts)
      PROVE  TypeOK' /\ IndexInv'
  <2> DEFINE l == LoadLibsLowLatency(Current, found, up)
             r == IF l.lists.ok THEN QueryLibraryCapsLow(l.lists, answers) ELSE l.lists
  <2>1. Good(l.lists) /\ l.configs \in {configs, RenameFilters(configs)}
    BY <1>1, LoadLibsLowLatencyGood DEF Working
  <2>2. l.lists.ok \in BOOLEAN
    BY <2>1 DEF Good, ListState
  <2>3. l.configs \in Seq(Config)
    BY <2>1, RenameFiltersType
  <2> HIDE DEF l
  <2>4. Good(r)
    BY <2>1, QueryLibraryCapsLowGood
  <2> HIDE DEF r
  <2>5. \/ /\ CreateSession(r, TRUE, i, starts)
           /\ configs' = l.configs
           /\ needLowLat' = ~l.lists.ok
        \/ /\ CreateSession(Current, TRUE, i, starts)
           /\ UNCHANGED <<configs, needLowLat>>
    BY <1>9 DEF MFXCreateSessionLowLatency, r, l
  <2>6. /\ ListsOK'
        /\ ret' \in {"NONE", "NULL_PTR", "NOT_FOUND", "UNSUPPORTED"}
        /\ SessionOK'
    BY <1>1, <2>4, <2>5, CreateSessionOK
  <2> QED
    BY <1>9, <2>2, <2>3, <2>5, <2>6 DEF MFXCreateSessionLowLatency
<1>10. CASE UNCHANGED vars
  BY <1>10 DEF vars, lists, flags, IndexInv
<1> QED
  BY <1>2, <1>3, <1>4, <1>5, <1>6, <1>7, <1>8, <1>9, <1>10 DEF Next

-----------------------------------------------------------------------------
\* Every call keeps what can be chosen within the filters.
LEMMA FiltersKept ==
    ASSUME TypeOK, IndexInv, EnumeratedSatisfyFilters, [Next]_vars
    PROVE  EnumeratedSatisfyFilters'
<1>1. Good(Current) /\ Current.impls = impls
  BY CurrentGood DEF Current
<1>2. configs \in Seq(Config) /\ impls \in Seq(ImplInfo)
  BY DEF TypeOK
<1>3. UpToDate => AllMeet(impls)
  BY DEF EnumeratedSatisfyFilters, AllMeet, Valid
<1>4. ASSUME configs' = configs, UpToDate' => AllMeet(impls')
      PROVE  EnumeratedSatisfyFilters'
  BY <1>4 DEF EnumeratedSatisfyFilters, AllMeet, Valid, Meets
<1>5. ASSUME MFXLoad \/ MFXUnload \/ \E k \in 1..MaxConfig, s \in Setting :
                                        MFXSetConfigFilterProperty(k, s)
      PROVE  EnumeratedSatisfyFilters'
  <2>1. ~UpToDate'
    BY <1>5 DEF UpToDate, MFXLoad, MFXUnload, MFXSetConfigFilterProperty
  <2> QED
    BY <2>1 DEF EnumeratedSatisfyFilters
<1>6. ASSUME impls' = impls, UpToDate' => UpToDate,
             \A d, kind : ValidateConfig(configs, d, kind) => ValidateConfig(configs', d, kind)
      PROVE  EnumeratedSatisfyFilters'
  BY <1>3, <1>6 DEF EnumeratedSatisfyFilters, AllMeet, Valid, Meets
<1>7. CASE MFXCreateConfig
  <2>1. \A d, kind : ValidateConfig(configs, d, kind) => ValidateConfig(configs', d, kind)
    BY <1>2, <1>7, NewConfigRelaxes DEF MFXCreateConfig
  <2> QED
    BY <1>6, <1>7, <2>1 DEF MFXCreateConfig, UpToDate, lists, flags
<1>8. ASSUME NEW k \in 1..MaxConfig, NEW p \in PtrProperty, MFXSetConfigFilterPropertyNull(k, p)
      PROVE  EnumeratedSatisfyFilters'
  <2>1. \A d, kind : ValidateConfig(configs, d, kind) => ValidateConfig(configs', d, kind)
    BY <1>2, <1>8, UnsetRelaxes DEF MFXSetConfigFilterPropertyNull
  <2> QED
    BY <1>6, <1>8, <2>1 DEF MFXSetConfigFilterPropertyNull, UpToDate, lists, flags
<1>9. ASSUME NEW i \in 0..MaxIndex, NEW up \in Working, MFXEnumImplementations(i, up)
      PROVE  EnumeratedSatisfyFilters'
  <2> DEFINE unload == needFull /\ lowLatency /\ ~needLowLat
             r0 == IF unload THEN UnloadAllLibraries(Current) ELSE Current
             r == Refresh(r0, up)
  <2>1. Good(r0) /\ (~needFull => r0 = Current)
    BY <1>1, UnloadGood
  <2> HIDE DEF r0
  <2>2. /\ r.ok /\ (needFull \/ needUpdate) => AllMeet(r.impls)
        /\ ~needFull /\ ~needUpdate => r = r0
    BY <2>1, RefreshGood
  <2> HIDE DEF r
  <2>3. SetLists(r) /\ RefreshFlags(r) /\ UNCHANGED <<open, configs>> /\ Calling
    BY <1>9 DEF MFXEnumImplementations, r, r0
  <2>4. impls' = r.impls
    BY <2>3 DEF SetLists
  <2>5. UpToDate' => AllMeet(impls')
    BY <1>1, <1>3, <2>1, <2>2, <2>3, <2>4 DEF UpToDate, RefreshFlags, Calling
  <2> QED
    BY <1>4, <2>3, <2>5
<1>10. ASSUME NEW i \in 0..MaxIndex, NEW up \in Working, NEW starts \in BOOLEAN,
              MFXCreateSessionFull(i, up, starts)
       PROVE  EnumeratedSatisfyFilters'
  <2> DEFINE r == Refresh(Current, up)
  <2>1. /\ Good(r)
        /\ r.ok /\ (needFull \/ needUpdate) => AllMeet(r.impls)
        /\ ~needFull /\ ~needUpdate => r = Current
    BY <1>1, RefreshGood
  <2> HIDE DEF r
  <2>2. /\ RefreshFlags(r) /\ CreateSession(r, FALSE, i, starts)
        /\ UNCHANGED <<open, configs>> /\ Calling
    BY <1>10 DEF MFXCreateSessionFull, r
  <2>3. impls' = r.impls
    BY <2>1, <2>2, CreateSessionOK DEF TypeOK, SessionOK
  <2>4. UpToDate' => AllMeet(impls')
    BY <1>1, <1>3, <2>1, <2>2, <2>3 DEF UpToDate, RefreshFlags, Calling
  <2> QED
    BY <1>4, <2>2, <2>4
<1>11. ASSUME NEW i \in 0..MaxIndex, NEW found \in Working, NEW up \in Working, NEW answers \in Working,
              NEW starts \in BOOLEAN, MFXCreateSessionLowLatency(i, found, up, answers, starts)
       PROVE  EnumeratedSatisfyFilters'
  <2> DEFINE l == LoadLibsLowLatency(Current, found, up)
  <2>1. /\ Good(l.lists)
        /\ l.lists.impls = impls
        /\ ~l.lists.ok => l.configs = configs
    BY <1>1, LoadLibsLowLatencyGood DEF Working
  <2> HIDE DEF l
  <2>2. CASE needLowLat /\ ~l.lists.ok
    <3>1. CreateSession(l.lists, TRUE, i, starts) /\ configs' = l.configs
      BY <1>11, <2>2 DEF MFXCreateSessionLowLatency, l
    <3>2. impls' = impls /\ configs' = configs
      BY <2>1, <2>2, <3>1, CreateSessionOK DEF TypeOK, SessionOK
    <3>3. UpToDate' => UpToDate
      BY <1>11, <2>2 DEF MFXCreateSessionLowLatency, UpToDate, Calling
    <3> QED
      BY <1>3, <1>4, <3>2, <3>3
  <2>3. CASE ~needLowLat \/ l.lists.ok
    <3>1. lowLatency' /\ ~needLowLat'
      BY <1>11, <2>3 DEF MFXCreateSessionLowLatency, l
    <3> QED
      BY <3>1 DEF EnumeratedSatisfyFilters, UpToDate
  <2> QED
    BY <2>2, <2>3
<1>12. CASE UNCHANGED vars
  BY <1>6, <1>12 DEF vars, lists, flags, UpToDate
<1> QED
  BY <1>5, <1>7, <1>8, <1>9, <1>10, <1>11, <1>12 DEF Next

-----------------------------------------------------------------------------
\* The initial state has empty lists and no filters.
LEMMA InitOK == Init => TypeOK /\ IndexInv /\ EnumeratedSatisfyFilters
<1> SUFFICES ASSUME Init PROVE TypeOK /\ IndexInv /\ EnumeratedSatisfyFilters
  OBVIOUS
<1>1. <<>> \in Seq(Config) /\ <<>> \in Seq(LibInfo)
  BY EmptySeq
<1>2. [p \in SpecialProperty |-> Unset] \in
            [AccelerationMode : Values("AccelerationMode"), ApiVersion : Values("ApiVersion")]
  BY DEF SpecialProperty, Values
<1>3. TypeOK
  BY <1>1, <1>2, EmptyWellIndexed DEF Init, TypeOK
<1>4. IndexInv
  BY EmptyWellIndexed DEF Init, IndexInv
<1>5. EnumeratedSatisfyFilters
  BY DEF Init, EnumeratedSatisfyFilters, UpToDate
<1> QED
  BY <1>3, <1>4, <1>5

\* The inductive invariant: types, well-formed indices, filters.
THEOREM Invariance == Spec => [](TypeOK /\ IndexInv /\ EnumeratedSatisfyFilters)
<1>1. TypeOK /\ IndexInv /\ EnumeratedSatisfyFilters /\ [Next]_vars
        => (TypeOK /\ IndexInv /\ EnumeratedSatisfyFilters)'
  BY TypesKept, FiltersKept
<1> QED
  BY InitOK, <1>1, PTL DEF Spec

\* The lists, flags and filters of a loader keep their types (LibInfo, ImplInfo
\* and the mfxConfig objects of the code), whatever runtimes are installed.
THEOREM TypeCorrectness == Spec => []TypeOK
BY Invariance, PTL

\* The index an application passes to MFXCreateSession names one entry of
\* m_implInfoList, also after low latency loads and failed ones.
THEOREM IndicesAreUnique == Spec => []UniqueIndices
<1>1. IndexInv => UniqueIndices
  BY DEF IndexInv, WellIndexed, UniqueIndices, Valid
<1> QED
  BY Invariance, <1>1, PTL

\* MFXEnumImplementations and MFXCreateSession choose among implementations that
\* meet every filter of every mfxConfig, whatever was set in between.
THEOREM FiltersAreMet == Spec => []EnumeratedSatisfyFilters
BY Invariance, PTL

-----------------------------------------------------------------------------
\* m_specialConfig holds what the mfxConfig objects say, and there are none
\* without a loader.
SpecialInv ==
    /\ ~open => configs = <<>>
    /\ \A p \in SpecialProperty : LastSet(configs, p) # Unset => special[p] = LastSet(configs, p)

\* Without mfxConfig objects no property is set.
LEMMA LastSetEmpty == ASSUME NEW p PROVE LastSet(<<>>, p) = Unset
<1>1. DOMAIN <<>> = {}
  OBVIOUS
<1>2. {k \in DOMAIN <<>> : <<>>[k][p] # Unset} = {}
  BY <1>1
<1> QED
  BY <1>2 DEF LastSet

\* A new mfxConfig sets no property.
LEMMA NewConfigSetsNothing ==
    ASSUME NEW cs \in Seq(Config), NEW p \in Property
    PROVE  LastSet(Append(cs, NoFilter), p) = LastSet(cs, p)
<1> DEFINE ds == Append(cs, NoFilter)
<1>1. NoFilter \in Config /\ NoFilter[p] = Unset
  BY DEF NoFilter, Config, Property, Values
<1>2. /\ ds \in Seq(Config)
      /\ Len(ds) = Len(cs) + 1
      /\ \A k \in 1..Len(cs) : ds[k] = cs[k]
      /\ ds[Len(cs) + 1] = NoFilter
  BY <1>1, AppendProperties
<1>3. Len(cs) \in Nat /\ DOMAIN cs = 1..Len(cs) /\ DOMAIN ds = 1..(Len(cs) + 1)
  BY <1>2, LenProperties
<1> HIDE DEF ds
<1>4. \A k \in DOMAIN ds : IF k \in DOMAIN cs THEN ds[k] = cs[k] ELSE ds[k] = NoFilter
  BY <1>2, <1>3
<1>5. DOMAIN cs \subseteq DOMAIN ds
  BY <1>3
<1>6. LastSet(cs, p) = LastSet(ds, p)
  BY <1>1, <1>2, <1>4, <1>5, LastSetSame
<1> QED
  BY <1>6 DEF ds

\* A change of names leaves the special properties.
LEMMA NamesLeaveSpecial ==
    ASSUME NEW cs \in Seq(Config), NEW ds \in Seq(Config), DOMAIN ds = DOMAIN cs,
           \A k \in DOMAIN cs : \E name : ds[k] = [cs[k] EXCEPT !["ImplName"] = name],
           NEW p \in SpecialProperty
    PROVE  LastSet(ds, p) = LastSet(cs, p)
<1>1. p \in Property /\ p # "ImplName" /\ p \in {"AccelerationMode", "ApiVersion"}
  BY DEF SpecialProperty, Property
<1>2. \A k \in DOMAIN cs : ds[k][p] = cs[k][p]
  <2> TAKE k \in DOMAIN cs
  <2>1. PICK name : ds[k] = [cs[k] EXCEPT !["ImplName"] = name]
    OBVIOUS
  <2>2. cs[k] \in Config
    BY Element
  <2>3. /\ ds[k]["AccelerationMode"] = cs[k]["AccelerationMode"]
        /\ ds[k]["ApiVersion"] = cs[k]["ApiVersion"]
    BY <2>1, <2>2 DEF Config
  <2> QED
    BY <1>1, <2>3
<1>3. {k \in DOMAIN cs : cs[k][p] # Unset} = {k \in DOMAIN ds : ds[k][p] # Unset}
  BY <1>2
<1> QED
  BY <1>1, <1>2, <1>3, LastSetSame

\* Every call leaves m_specialConfig with what the mfxConfig objects say.
LEMMA SpecialKept ==
    ASSUME TypeOK, IndexInv, SpecialInv, [Next]_vars
    PROVE  SpecialInv'
<1>0. configs \in Seq(Config) /\ SpecialProperty \subseteq Property
  BY DEF TypeOK, SpecialProperty, Property
<1>1. ASSUME UNCHANGED special, open \/ configs' = configs, open => open',
             \A p \in SpecialProperty : LastSet(configs', p) = LastSet(configs, p)
      PROVE  SpecialInv'
  BY <1>1 DEF SpecialInv, TypeOK
<1>2. CASE MFXLoad
  <2>1. configs' = <<>> /\ open'
    BY <1>2 DEF MFXLoad, SpecialInv
  <2> QED
    BY <2>1, LastSetEmpty DEF SpecialInv
<1>3. CASE MFXUnload
  <2>1. configs' = <<>>
    BY <1>3 DEF MFXUnload
  <2> QED
    BY <2>1, LastSetEmpty DEF SpecialInv
<1>4. CASE MFXCreateConfig
  <2>1. \A p \in SpecialProperty : LastSet(configs', p) = LastSet(configs, p)
    BY <1>0, <1>4, NewConfigSetsNothing DEF MFXCreateConfig
  <2> QED
    BY <1>1, <1>4, <2>1 DEF MFXCreateConfig, Calling
<1>5. ASSUME NEW k \in 1..MaxConfig, NEW s \in Setting, MFXSetConfigFilterProperty(k, s)
      PROVE  SpecialInv'
  <2>1. open' /\ special' = UpdateSpecial(special, configs')
    BY <1>5 DEF MFXSetConfigFilterProperty, Calling
  <2>2. DOMAIN special = SpecialProperty
    BY DEF TypeOK, SpecialProperty
  <2>3. \A p \in SpecialProperty :
          special'[p] = IF LastSet(configs', p) = Unset THEN special[p] ELSE LastSet(configs', p)
    BY <2>1, <2>2 DEF UpdateSpecial
  <2> QED
    BY <2>1, <2>3 DEF SpecialInv
<1>6. ASSUME NEW k \in 1..MaxConfig, NEW p \in PtrProperty, MFXSetConfigFilterPropertyNull(k, p)
      PROVE  SpecialInv'
  <2>1. k \in DOMAIN configs /\ configs' = [configs EXCEPT ![k]["ImplName"] = Unset]
    BY <1>6 DEF MFXSetConfigFilterPropertyNull, PtrProperty
  <2>2. "ImplName" \in Property /\ Unset \in Values("ImplName")
    BY DEF Property, Values
  <2>3. configs' \in Seq(Config)
    BY <1>0, <2>1, <2>2, ConfigsExcept
  <2>4. /\ DOMAIN configs' = DOMAIN configs
        /\ \A j \in DOMAIN configs :
             \E name : configs'[j] = [configs[j] EXCEPT !["ImplName"] = name]
    <3>1. ASSUME NEW j \in DOMAIN configs
          PROVE  \E name : configs'[j] = [configs[j] EXCEPT !["ImplName"] = name]
      <4>1. CASE j = k
        BY <2>1, <4>1
      <4>2. CASE j # k
        <5>1. configs[j] \in Config
          BY <1>0, Element
        <5>2. configs[j] = [configs[j] EXCEPT !["ImplName"] = configs[j]["ImplName"]]
          BY <5>1 DEF Config
        <5>3. configs'[j] = configs[j]
          BY <2>1, <4>2
        <5> QED
          BY <5>2, <5>3
      <4> QED
        BY <4>1, <4>2
    <3> QED
      BY <2>1, <3>1
  <2>5. \A q \in SpecialProperty : LastSet(configs', q) = LastSet(configs, q)
    BY <1>0, <2>3, <2>4, NamesLeaveSpecial
  <2> QED
    BY <1>1, <1>6, <2>5 DEF MFXSetConfigFilterPropertyNull, Calling
<1>7. ASSUME NEW i \in 0..MaxIndex, NEW up \in Working, NEW starts \in BOOLEAN,
             MFXEnumImplementations(i, up) \/ MFXCreateSessionFull(i, up, starts)
      PROVE  SpecialInv'
  BY <1>1, <1>7 DEF MFXEnumImplementations, MFXCreateSessionFull
<1>8. ASSUME NEW i \in 0..MaxIndex, NEW found \in Working, NEW up \in Working, NEW answers \in Working,
             NEW starts \in BOOLEAN, MFXCreateSessionLowLatency(i, found, up, answers, starts)
      PROVE  SpecialInv'
  <2>1. open /\ open' /\ UNCHANGED special
    BY <1>8 DEF MFXCreateSessionLowLatency, Calling
  <2>2. configs' = configs \/ configs' = RenameFilters(configs)
    <3> DEFINE l == LoadLibsLowLatency(Current, found, up)
    <3>1. l.configs \in {configs, RenameFilters(configs)}
      BY CurrentGood, LoadLibsLowLatencyGood DEF Working
    <3> HIDE DEF l
    <3> QED
      BY <1>8, <3>1 DEF MFXCreateSessionLowLatency, l
  <2>3. /\ RenameFilters(configs) \in Seq(Config)
        /\ DOMAIN RenameFilters(configs) = DOMAIN configs
        /\ \A j \in DOMAIN configs :
             RenameFilters(configs)[j] = [configs[j] EXCEPT !["ImplName"] = "mfxhw64"]
    BY <1>0, RenameFiltersType DEF RenameFilters
  <2>4. \A p \in SpecialProperty : LastSet(RenameFilters(configs), p) = LastSet(configs, p)
    <3> DEFINE ds == RenameFilters(configs)
    <3>1. /\ ds \in Seq(Config) /\ DOMAIN ds = DOMAIN configs
          /\ \A j \in DOMAIN configs : \E name : ds[j] = [configs[j] EXCEPT !["ImplName"] = name]
      BY <2>3
    <3> HIDE DEF ds
    <3>2. \A p \in SpecialProperty : LastSet(ds, p) = LastSet(configs, p)
      BY <1>0, <3>1, NamesLeaveSpecial
    <3> QED
      BY <3>2 DEF ds
  <2> QED
    BY <1>1, <2>1, <2>2, <2>4
<1>9. CASE UNCHANGED vars
  BY <1>9 DEF vars, SpecialInv
<1> QED
  BY <1>2, <1>3, <1>4, <1>5, <1>6, <1>7, <1>8, <1>9 DEF Next

\* what SessionMeetsFilters says of a step that creates a session
NewSessionMeets ==
    /\ LastSet(configs, "AccelerationMode") \in {Unset, session'.accel}
    /\ IF session'.lowLat
       THEN LastSet(configs, "ApiVersion") # Unset => session'.ver >= LastSet(configs, "ApiVersion")
       ELSE ValidateConfig(configs, Caps[session'.file][session'.idx], Kind[session'.file])

\* CreateSession takes an implementation that meets the filters if all that can be
\* chosen do, and checks the version itself in low latency mode.
LEMMA CreateSessionMeets ==
    ASSUME TypeOK, SpecialInv, NEW r, Good(r), NEW ll \in BOOLEAN, NEW i \in Nat, NEW starts,
           CreateSession(r, ll, i, starts), ~ll /\ r.ok => AllMeet(r.impls),
           session' # session
    PROVE  NewSessionMeets
<1> DEFINE m == First(r.impls, i)
           found == r.ok /\ Listed(r.impls, i) # {}
<1>1. /\ found
      /\ ~(ll /\ special["ApiVersion"] # Unset /\ m.ver < special["ApiVersion"])
      /\ session' = [file |-> m.file, idx |-> m.idx, lowLat |-> ll, ver |-> m.ver,
                     accel |-> IF special["AccelerationMode"] # Unset
                               THEN special["AccelerationMode"]
                               ELSE DescOf(m).AccelerationMode]
  BY DEF CreateSession
<1>2. m \in ImplInfo /\ \E k \in Listed(r.impls, i) : m = r.impls[k]
  BY <1>1, FirstListed DEF Good, ListState
<1>3. PICK k \in DOMAIN r.impls : m = r.impls[k] /\ r.impls[k].valid = i
  BY <1>2 DEF Listed
<1>4. m.ver \in Nat
  BY <1>2 DEF ImplInfo
<1> HIDE DEF m
<1>5. /\ session'.file = m.file /\ session'.idx = m.idx
      /\ session'.lowLat = ll /\ session'.ver = m.ver
      /\ session'.accel = IF special["AccelerationMode"] # Unset
                          THEN special["AccelerationMode"]
                          ELSE DescOf(m).AccelerationMode
  BY <1>1
<1>6. /\ LastSet(configs, "AccelerationMode") # Unset =>
            special["AccelerationMode"] = LastSet(configs, "AccelerationMode")
      /\ LastSet(configs, "ApiVersion") # Unset =>
            special["ApiVersion"] = LastSet(configs, "ApiVersion")
  BY DEF SpecialInv, SpecialProperty
<1>7. LastSet(configs, "AccelerationMode") \in {Unset, session'.accel}
  BY <1>5, <1>6
<1>8. CASE ll
  <2>1. SUFFICES ASSUME LastSet(configs, "ApiVersion") # Unset
                 PROVE  m.ver >= LastSet(configs, "ApiVersion")
    BY <1>5, <1>7, <1>8 DEF NewSessionMeets
  <2>2. special["ApiVersion"] = LastSet(configs, "ApiVersion") /\ special["ApiVersion"] # Unset
    BY <1>6, <2>1
  <2>3. special["ApiVersion"] \in Nat
    BY <2>2, ConfigAssumption DEF TypeOK, Values
  <2> QED
    BY <1>1, <1>4, <1>8, <2>2, <2>3
<1>9. CASE ~ll
  <2>1. Meets(m)
    BY <1>1, <1>3, <1>9 DEF AllMeet
  <2>2. ValidateConfig(configs, DescOf(m), Kind[m.file])
    BY <2>1 DEF Meets
  <2> QED
    BY <1>5, <1>7, <1>9, <2>2 DEF NewSessionMeets, DescOf
<1> QED
  BY <1>8, <1>9

\* Every step that creates a session creates it within the filters.
LEMMA SessionStep ==
    ASSUME TypeOK, IndexInv, EnumeratedSatisfyFilters, SpecialInv, [Next]_vars,
           session' # session
    PROVE  NewSessionMeets
<1>1. Good(Current) /\ Current.impls = impls
  BY CurrentGood DEF Current
<1>2. 0..MaxIndex \subseteq Nat
  BY ConfigAssumption
<1>3. CASE \E i \in 0..MaxIndex, up \in Working, starts \in BOOLEAN : MFXCreateSessionFull(i, up, starts)
  <2>1. PICK i \in 0..MaxIndex, up \in Working, starts \in BOOLEAN : MFXCreateSessionFull(i, up, starts)
    BY <1>3
  <2> DEFINE r == Refresh(Current, up)
  <2>2. /\ Good(r)
        /\ r.ok /\ (needFull \/ needUpdate) => AllMeet(r.impls)
        /\ ~needFull /\ ~needUpdate => r = Current
    BY <1>1, RefreshGood
  <2> HIDE DEF r
  <2>3. CreateSession(r, FALSE, i, starts) /\ Calling /\ ~lowLatency
    BY <2>1 DEF MFXCreateSessionFull, r
  <2>4. r.ok => AllMeet(r.impls)
    <3>1. CASE needFull \/ needUpdate
      BY <2>2, <3>1
    <3>2. CASE ~needFull /\ ~needUpdate
      <4>1. UpToDate
        BY <2>3, <3>2 DEF UpToDate, Calling
      <4> QED
        BY <1>1, <2>2, <3>2, <4>1 DEF EnumeratedSatisfyFilters, AllMeet, Valid
    <3> QED
      BY <3>1, <3>2
  <2> QED
    BY <1>2, <2>2, <2>3, <2>4, CreateSessionMeets
<1>4. CASE \E i \in 0..MaxIndex, found, up, answers \in Working, starts \in BOOLEAN :
             MFXCreateSessionLowLatency(i, found, up, answers, starts)
  <2>1. PICK i \in 0..MaxIndex, found \in Working, up \in Working, answers \in Working,
             starts \in BOOLEAN : MFXCreateSessionLowLatency(i, found, up, answers, starts)
    BY <1>4
  <2> DEFINE l == LoadLibsLowLatency(Current, found, up)
             r == IF l.lists.ok THEN QueryLibraryCapsLow(l.lists, answers) ELSE l.lists
  <2>2. Good(r)
    BY <1>1, LoadLibsLowLatencyGood, QueryLibraryCapsLowGood DEF Working
  <2> HIDE DEF l, r
  <2>3. CreateSession(r, TRUE, i, starts) \/ CreateSession(Current, TRUE, i, starts)
    BY <2>1 DEF MFXCreateSessionLowLatency, l, r
  <2> QED
    BY <1>1, <1>2, <2>2, <2>3, CreateSessionMeets
<1> QED
  BY <1>3, <1>4 DEF Next, vars, MFXLoad, MFXUnload, MFXCreateConfig, MFXSetConfigFilterProperty,
     MFXSetConfigFilterPropertyNull, MFXEnumImplementations

\* The same with the configuration.
THEOREM SpecialInvariance ==
    Spec => [](TypeOK /\ IndexInv /\ EnumeratedSatisfyFilters /\ SpecialInv)
<1>1. Init => SpecialInv
  BY LastSetEmpty DEF Init, SpecialInv
<1>2. TypeOK /\ IndexInv /\ SpecialInv /\ [Next]_vars => SpecialInv'
  BY SpecialKept
<1> QED
  BY Invariance, <1>1, <1>2, PTL DEF Spec

\* MFXCreateSession creates sessions only on implementations that meet all filters,
\* or, in low latency mode, the API version, which is all that is known then.
THEOREM SessionsWithinFilters == Spec => SessionMeetsFilters
<1>1. TypeOK /\ IndexInv /\ EnumeratedSatisfyFilters /\ SpecialInv /\ [Next]_vars =>
        [session' # session =>
            /\ LastSet(configs, "AccelerationMode") \in {Unset, session'.accel}
            /\ IF session'.lowLat
               THEN LastSet(configs, "ApiVersion") # Unset => session'.ver >= LastSet(configs, "ApiVersion")
               ELSE ValidateConfig(configs, Caps[session'.file][session'.idx], Kind[session'.file])]_vars
  BY SessionStep DEF NewSessionMeets
<1> QED
  BY SpecialInvariance, <1>1, PTL DEF Spec, SessionMeetsFilters

-----------------------------------------------------------------------------
\* Without low latency loads no library that was deleted stays in a list, every
\* implementation is described, and its library is in the list.
Sound(r) ==
    /\ Good(r) /\ r.fault = "none"
    /\ r.libs \in Seq(LiveLib)
    /\ \A k \in DOMAIN r.impls : r.impls[k].desc /\ r.impls[k].lib \in LibIds(r.libs)

\* A null pointer was called: one of the libraries does not export what is called
\* without a test.
CalledNull(r) ==
    /\ ~r.ok /\ r.fault = "null_call"
    /\ \E k \in DOMAIN r.libs : r.libs[k].type = "vpl" /\ Lacks[r.libs[k].file] # {}

\* That is where the calls through a null pointer lead.
LEMMA FaultyCalls ==
    ASSUME NEW r, Good(r)
    PROVE  /\ (\E k \in DOMAIN r.libs : CallsNull(r.libs[k])) => CalledNull(Faulty(r, "null_call"))
           /\ ReleasesNull(r.libs, r.impls) => CalledNull(Faulty(r, "null_call"))
<1>1. /\ Faulty(r, "null_call").libs = r.libs /\ ~Faulty(r, "null_call").ok
      /\ Faulty(r, "null_call").fault = "null_call"
  BY DEF Good, ListState, Faulty
<1>2. ASSUME NEW k \in DOMAIN r.libs, CallsNull(r.libs[k])
      PROVE  r.libs[k].type = "vpl" /\ Lacks[r.libs[k].file] # {}
  BY <1>2 DEF CallsNull
<1>3. ASSUME ReleasesNull(r.libs, r.impls)
      PROVE  \E k \in DOMAIN r.libs : r.libs[k].type = "vpl" /\ Lacks[r.libs[k].file] # {}
  BY <1>3 DEF ReleasesNull
<1> QED
  BY <1>1, <1>2, <1>3 DEF CalledNull

\* Sound lists can be unloaded, unless a library cannot release what it described.
LEMMA UnloadSound ==
    ASSUME NEW r, Sound(r), r.ok
    PROVE  LET u == UnloadAllLibraries(r)
           IN  \/ Sound(u) /\ u.impls = <<>> /\ u.fault = "none" /\ u.ok
               \/ CalledNull(u)
<1>1. r \in ListState
  BY DEF Sound, Good
<1>2. ~Dangling(r.libs, r.impls)
  BY Element DEF Sound, Dangling, LiveLib
<1> DEFINE u == [r EXCEPT !.libs = <<>>, !.impls = <<>>, !.next = 0]
<1>7. CASE ReleasesNull(r.libs, r.impls)
  BY <1>2, <1>7, FaultyCalls DEF UnloadAllLibraries, Sound
<1> SUFFICES ASSUME ~ReleasesNull(r.libs, r.impls)
             PROVE  Sound(UnloadAllLibraries(r)) /\ UnloadAllLibraries(r).impls = <<>>
                    /\ UnloadAllLibraries(r).fault = "none" /\ UnloadAllLibraries(r).ok
  BY <1>7
<1>3. UnloadAllLibraries(r) = u
  BY <1>2 DEF UnloadAllLibraries
<1>4. u.libs = <<>> /\ u.impls = <<>> /\ u.fault = "none" /\ u.ok
  BY <1>1 DEF ListState, Sound
<1>5. Good(u)
  BY <1>3, UnloadGood DEF Sound
<1> HIDE DEF u
<1>6. u.libs \in Seq(LiveLib) /\ DOMAIN u.impls = {}
  BY <1>4, EmptySeq
<1> QED
  BY <1>2, <1>3, <1>4, <1>5, <1>6 DEF Sound

\* Ranking lists that are sound leaves them sound.
LEMMA PrioritizeSound ==
    ASSUME NEW L \in Seq(LibInfo), NEW I \in Seq(ImplInfo), NEW n \in Nat, WellIndexed(I, n),
           \A k \in DOMAIN I : I[k].desc /\ I[k].lib \in LibIds(L)
    PROVE  /\ ~NullDescCompared(L, I)
           /\ \A k \in DOMAIN PrioritizeImplList(L, I) :
                /\ PrioritizeImplList(L, I)[k].desc
                /\ PrioritizeImplList(L, I)[k].lib \in LibIds(L)
<1>1. ~NullDescCompared(L, I)
  <2> DEFINE B == {k \in DOMAIN I : ~IsSpecial(L, I[k])}
  <2>1. B \subseteq DOMAIN I /\ General(L, I) = Pick(I, B)
    BY DEF General
  <2> HIDE DEF B
  <2>2. \A k \in DOMAIN General(L, I) : \E j \in B : General(L, I)[k] = I[j]
    BY <2>1, PickElements
  <2> QED
    BY <2>1, <2>2 DEF NullDescCompared
<1>2. SameAs(PrioritizeImplList(L, I), I)
  BY <1>1, PrioritizeWellIndexed
<1> QED
  BY <1>1, <1>2 DEF SameAs, Same

\* A first load that succeeds leaves sound lists, one that fails no implementation,
\* if it does not call a null pointer.
LEMMA FullLoadSound ==
    ASSUME NEW r, Sound(r), r.ok, r.impls = <<>>, NEW up
    PROVE  LET q == FullLoadAndQuery(r, up)
           IN  (Sound(q) /\ (~q.ok => q.impls = <<>>)) \/ CalledNull(q)
<1> DEFINE C == BuildListOfCandidateLibs(r.libs, r.impls)
           V == CheckValidLibraries(C, up)
           r1 == [r EXCEPT !.libs = V, !.leaked = @ \cup Reopened(C)]
           stay == {k \in DOMAIN r1.libs : ~QueryFails(r1.libs[k])}
           L == Pick(r1.libs, stay)
           new == NewImpls(L, r1.next)
           I == r1.impls \o new
           r2 == [r1 EXCEPT !.libs = L, !.impls = I, !.next = r1.next + Len(new)]
           D == Describe(I)
           R == PrioritizeImplList(L, D)
           q == FullLoadAndQuery(r, up)
<1>1. /\ r \in ListState /\ r.libs \in Seq(LibInfo) /\ r.impls \in Seq(ImplInfo)
      /\ r.libs \in Seq(LiveLib) /\ r.next \in Nat /\ r.fault = "none" /\ WellIndexed(r.impls, r.next)
  BY DEF Sound, Good, ListState
<1>2. Good(q)
  BY FullLoadAndQueryGood DEF Sound
<1>3. ~Dangling(r.libs, <<>>)
  BY <1>1, Element DEF Dangling, LiveLib
<1>4. q = IF r1.libs = <<>> THEN [r1 EXCEPT !.ok = FALSE] ELSE QueryLibraryCapsFull(r1)
  BY <1>3 DEF FullLoadAndQuery
<1> HIDE DEF q
<1>10. C \in Seq(LiveLib) /\ C \in Seq(LibInfo)
  BY <1>1, BuildListOfCandidateLibsType
<1>5. V \in Seq(LiveLib) /\ V \in Seq(LibInfo)
  <2> HIDE DEF C
  <2> QED
    BY <1>10, CheckValidLibrariesType
<1> HIDE DEF C, V
<1>6. /\ r1.libs = V /\ r1.impls = <<>> /\ r1.next = r.next /\ r1.fault = "none" /\ r1.ok
      /\ DOMAIN r1 = DOMAIN r
  BY <1>1 DEF ListState
<1>7. CASE r1.libs = <<>>
  <2>1. /\ q.libs = V /\ q.impls = <<>> /\ q.fault = "none" /\ ~q.ok
    BY <1>1, <1>4, <1>6, <1>7 DEF ListState
  <2>2. DOMAIN <<>> = {}
    OBVIOUS
  <2> QED
    BY <1>2, <1>5, <2>1, <2>2 DEF Sound, q
<1>9. CASE r1.libs # <<>> /\ \E k \in DOMAIN r1.libs : CallsNull(r1.libs[k])
  <2>1. q = Faulty(r1, "null_call")
    BY <1>4, <1>9 DEF QueryLibraryCapsFull
  <2>2. Reopened(C) \subseteq File
    <3>1. \A k \in DOMAIN C : C[k] \in LibInfo
      BY <1>10, Element
    <3> QED
      BY <3>1 DEF Reopened, LibInfo
  <2>3. Good(r1)
    BY <1>1, <1>5, <2>2 DEF Good, ListState
  <2> HIDE DEF r1
  <2> QED
    BY <1>9, <2>1, <2>3, FaultyCalls DEF q
<1>8. CASE r1.libs # <<>> /\ ~\E k \in DOMAIN r1.libs : CallsNull(r1.libs[k])
  <2>1. q = IF I = <<>> THEN [r2 EXCEPT !.ok = FALSE]
            ELSE IF Dangling(L, I) THEN Faulty(r2, "use_after_free")
            ELSE IF QueryNeverEnds(I) THEN Faulty(r2, "endless_loop")
            ELSE IF QueryUnanswered(I) THEN Faulty(r2, "null_deref")
            ELSE [r2 EXCEPT !.impls = R]
    BY <1>4, <1>8 DEF QueryLibraryCapsFull
  <2>2. stay \subseteq DOMAIN V
    BY <1>6
  <2>3. L = Pick(V, stay)
    BY <1>6
  <2> HIDE DEF stay, r1
  <2>4. L \in Seq(LiveLib) /\ L \in Seq(LibInfo)
    BY <1>5, <2>2, <2>3, PickElements
  <2> HIDE DEF L
  <2>5. /\ new \in Seq(ImplInfo)
        /\ \A k \in DOMAIN new : /\ new[k].valid = r.next + k - 1 /\ new[k].desc
                                 /\ new[k].lib \in LibIds(L) /\ Known(new[k])
    <3>1. new = NewImpls(L, r.next) /\ r.next \in Nat
      BY <1>1, <1>6
    <3> HIDE DEF new
    <3> QED
      BY <2>4, <3>1, NewImplsElements
  <2> HIDE DEF new
  <2>6. I = new
    BY <1>6, <2>5
  <2>7. WellIndexed(I, r.next + Len(new)) /\ r.next + Len(new) \in Nat
    <3>1. r.impls \o new = new
      BY <2>5
    <3>2. WellIndexed(r.impls \o new, r.next + Len(new))
      BY <1>1, <2>5, AppendWellIndexed
    <3> QED
      BY <1>1, <2>5, <2>6, <3>1, <3>2, LenProperties
  <2> HIDE DEF I
  <2>8. ~Dangling(L, I) /\ ~QueryNeverEnds(I) /\ ~QueryUnanswered(I)
    BY <2>4, <2>5, <2>6, Element DEF Dangling, QueryNeverEnds, QueryUnanswered, LiveLib
  <2>9. r2.libs = L /\ r2.impls = I /\ r2.fault = "none" /\ r2.ok /\ DOMAIN r2 = DOMAIN r
    BY <1>1, <1>6 DEF ListState
  <2> HIDE DEF r2
  <2>10. CASE I = <<>>
    <3>1. q.libs = L /\ q.impls = <<>> /\ q.fault = "none" /\ ~q.ok
      BY <1>1, <2>1, <2>9, <2>10 DEF ListState
    <3>2. DOMAIN <<>> = {}
      OBVIOUS
    <3> QED
      BY <1>2, <2>4, <3>1, <3>2 DEF Sound, q
  <2>11. CASE I # <<>>
    <3>1. q.libs = L /\ q.impls = R /\ q.fault = "none" /\ q.ok
      BY <1>1, <2>1, <2>8, <2>9, <2>11 DEF ListState
    <3>2. I \in Seq(ImplInfo)
      BY <2>5, <2>6
    <3>3. /\ D \in Seq(ImplInfo) /\ DOMAIN D = DOMAIN I
          /\ WellIndexed(D, r.next + Len(new))
          /\ \A k \in DOMAIN I : D[k].lib = I[k].lib /\ D[k].desc
      BY <2>7, <2>8, <3>2, DescribeWellIndexed
    <3> HIDE DEF D
    <3>4. \A k \in DOMAIN R : R[k].desc /\ R[k].lib \in LibIds(L)
      BY <2>4, <2>5, <2>6, <2>7, <3>3, PrioritizeSound
    <3> HIDE DEF R
    <3> QED
      BY <1>2, <2>4, <3>1, <3>4 DEF Sound, q
  <2> QED
    BY <2>10, <2>11
<1> QED
  BY <1>7, <1>8, <1>9 DEF q

\* The filters leave sound lists sound.
LEMMA UpdateValidImplListSound ==
    ASSUME NEW r, Sound(r)
    PROVE  Sound(UpdateValidImplList(r)) /\ UpdateValidImplList(r).ok = r.ok
<1> DEFINE I == ApplyFilters(r.impls)
           R == PrioritizeImplList(r.libs, I)
           u == UpdateValidImplList(r)
<1>1. /\ r \in ListState /\ r.libs \in Seq(LibInfo) /\ r.impls \in Seq(ImplInfo)
      /\ r.libs \in Seq(LiveLib) /\ r.next \in Nat /\ r.fault = "none" /\ WellIndexed(r.impls, r.next)
  BY DEF Sound, Good, ListState
<1>2. /\ I \in Seq(ImplInfo) /\ DOMAIN I = DOMAIN r.impls /\ WellIndexed(I, r.next)
      /\ \A k \in DOMAIN I : I[k].desc /\ I[k].lib \in LibIds(r.libs)
  BY <1>1, ApplyFiltersWellIndexed DEF Sound
<1> HIDE DEF I
<1>3. /\ ~NullDescCompared(r.libs, I)
      /\ \A k \in DOMAIN R : R[k].desc /\ R[k].lib \in LibIds(r.libs)
  BY <1>1, <1>2, PrioritizeSound
<1>4. {k \in DOMAIN r.impls : r.impls[k].lib \notin LibIds(r.libs)} = {}
  BY DEF Sound
<1>5. u = [r EXCEPT !.impls = R]
  BY <1>3, <1>4 DEF UpdateValidImplList, I
<1>6. Good(u)
  BY UpdateValidImplListGood DEF Sound
<1> HIDE DEF u, R
<1>7. u.libs = r.libs /\ u.impls = R /\ u.fault = "none" /\ u.ok = r.ok
  BY <1>1, <1>5 DEF ListState
<1> QED
  BY <1>1, <1>3, <1>6, <1>7 DEF Sound, u

\* Load and filters together.
LEMMA RefreshSound ==
    ASSUME NEW r, Sound(r), r.ok, needFull => r.impls = <<>>, NEW up
    PROVE  LET q == Refresh(r, up)
           IN  (Sound(q) /\ (~q.ok => needFull /\ q.impls = <<>>)) \/ CalledNull(q)
<1> DEFINE r1 == IF needFull THEN FullLoadAndQuery(r, up) ELSE r
           q == Refresh(r, up)
<1>1. (Sound(r1) /\ (~r1.ok => needFull /\ r1.impls = <<>>)) \/ CalledNull(r1)
  BY FullLoadSound
<1>2. q = IF r1.ok /\ (needFull \/ needUpdate) THEN UpdateValidImplList(r1) ELSE r1
  BY DEF Refresh
<1> HIDE DEF r1, q
<1>3. CASE Sound(r1) /\ (~r1.ok => needFull /\ r1.impls = <<>>)
  BY <1>2, <1>3, UpdateValidImplListSound DEF q
<1>4. CASE CalledNull(r1)
  BY <1>2, <1>4 DEF q, CalledNull
<1> QED
  BY <1>1, <1>3, <1>4

\* what holds as long as no session was asked for in low latency mode
SoundInv ==
    \/ /\ fault = "none" /\ Sound(Current)
       /\ needFull \/ ~open => impls = <<>>
    \/ /\ fault = "null_call"
       /\ \E k \in DOMAIN libs : libs[k].type = "vpl" /\ Lacks[libs[k].file] # {}

LowLatencyCall ==
    \E i \in 0..MaxIndex, found, up, answers \in Working, starts \in BOOLEAN :
        MFXCreateSessionLowLatency(i, found, up, answers, starts)

\* The lists at the start of a call are the state of the loader.
LEMMA SoundCurrent ==
    ASSUME SoundInv, fault = "none"
    PROVE  /\ Sound(Current) /\ Current.impls = impls /\ Current.ok /\ fault = "none"
           /\ needFull \/ ~open => impls = <<>>
<1>1. Current.impls = impls /\ Current.ok
  BY DEF Current
<1> QED
  BY <1>1 DEF SoundInv

\* A step to sound lists is a step to sound lists.
LEMMA SetListsSound ==
    ASSUME NEW r, Sound(r), SetLists(r)
    PROVE  Sound(Current)' /\ fault' = "none" /\ impls' = r.impls
<1>1. r \in ListState
  BY DEF Sound, Good
<1>2. /\ libs' = r.libs /\ impls' = r.impls /\ nextIdx' = r.next /\ leaked' = r.leaked
      /\ fault' = r.fault
  BY DEF SetLists
<1>3. Current' \in ListState /\ Current'.impls = r.impls /\ Current'.next = r.next
      /\ Current'.fault = "none" /\ Current'.libs = r.libs
  BY <1>1, <1>2 DEF Current, ListState, Sound
<1>4. fault' = "none"
  BY <1>2 DEF Sound
<1> QED
  BY <1>2, <1>3, <1>4 DEF Sound, Good

\* A step to a call through a null pointer stays within it, too.
LEMMA SetListsCalledNull ==
    ASSUME NEW r, CalledNull(r), SetLists(r)
    PROVE  SoundInv'
BY DEF CalledNull, SetLists, SoundInv

\* Nothing but another MFXLoad follows a fault, and it changes no list.
LEMMA FaultStays ==
    ASSUME fault # "none", SoundInv, [Next]_vars
    PROVE  SoundInv'
<1>1. libs' = libs /\ fault' = fault
  BY DEF Next, vars, lists, MFXLoad, Calling, MFXUnload, MFXCreateConfig,
         MFXSetConfigFilterProperty, MFXSetConfigFilterPropertyNull,
         MFXEnumImplementations, MFXCreateSessionFull, MFXCreateSessionLowLatency
<1> QED
  BY <1>1 DEF SoundInv

\* Every other call keeps it.
LEMMA SoundKept ==
    ASSUME TypeOK, IndexInv, SoundInv, [Next]_vars, ~LowLatencyCall
    PROVE  SoundInv'
<1> SUFFICES ASSUME fault = "none"
             PROVE  SoundInv'
  BY FaultStays
<1>1. /\ Sound(Current) /\ Current.impls = impls /\ Current.ok /\ fault = "none"
      /\ needFull \/ ~open => impls = <<>>
  BY SoundCurrent
<1>2. ASSUME UNCHANGED <<libs, impls, nextIdx, leaked, fault>>, needFull' \/ ~open' => impls = <<>>
      PROVE  SoundInv'
  <2>1. Current' = Current /\ fault' = "none"
    BY <1>1, <1>2 DEF Current
  <2>2. Sound(Current)' <=> Sound(Current)
    BY <2>1 DEF Sound, Good
  <2> QED
    BY <1>1, <1>2, <2>1, <2>2 DEF SoundInv
<1>3. CASE MFXLoad
  BY <1>1, <1>2, <1>3 DEF MFXLoad, lists
<1>4. CASE MFXUnload
  <2> DEFINE u == UnloadAllLibraries(Current)
  <2>1. (Sound(u) /\ u.impls = <<>>) \/ CalledNull(u)
    BY <1>1, UnloadSound
  <2>2. SetLists(u)
    BY <1>4 DEF MFXUnload
  <2> HIDE DEF u
  <2>3. CASE CalledNull(u)
    BY <2>2, <2>3, SetListsCalledNull
  <2>4. CASE Sound(u) /\ u.impls = <<>>
    <3>1. Sound(Current)' /\ fault' = "none" /\ impls' = <<>>
      BY <2>2, <2>4, SetListsSound
    <3> QED
      BY <3>1 DEF SoundInv
  <2> QED
    BY <2>1, <2>3, <2>4
<1>5. CASE MFXCreateConfig
  BY <1>1, <1>2, <1>5 DEF MFXCreateConfig, lists, flags
<1>6. ASSUME NEW k \in 1..MaxConfig, NEW s \in Setting, MFXSetConfigFilterProperty(k, s)
      PROVE  SoundInv'
  BY <1>1, <1>2, <1>6 DEF MFXSetConfigFilterProperty, lists
<1>7. ASSUME NEW k \in 1..MaxConfig, NEW p \in PtrProperty, MFXSetConfigFilterPropertyNull(k, p)
      PROVE  SoundInv'
  BY <1>1, <1>2, <1>7 DEF MFXSetConfigFilterPropertyNull, lists, flags
<1>8. ASSUME NEW i \in 0..MaxIndex, NEW up \in Working, MFXEnumImplementations(i, up)
      PROVE  SoundInv'
  <2> DEFINE unload == needFull /\ lowLatency /\ ~needLowLat
             r0 == IF unload THEN UnloadAllLibraries(Current) ELSE Current
             r == Refresh(r0, up)
  <2>1. (Sound(r0) /\ r0.ok /\ (needFull => r0.impls = <<>>)) \/ (unload /\ CalledNull(r0))
    BY <1>1, UnloadSound
  <2>6. SetLists(r) /\ RefreshFlags(r) /\ open' = open /\ open
    BY <1>8 DEF MFXEnumImplementations, Calling
  <2>7. CASE unload /\ CalledNull(r0)
    <3> HIDE DEF r0
    <3>1. r = r0
      BY <2>7 DEF Refresh, FullLoadAndQuery, CalledNull
    <3> HIDE DEF r
    <3> QED
      BY <2>6, <2>7, <3>1, SetListsCalledNull
  <2> SUFFICES ASSUME Sound(r0) /\ r0.ok /\ (needFull => r0.impls = <<>>)
               PROVE  SoundInv'
    BY <2>1, <2>7
  <2> HIDE DEF r0
  <2>8. (Sound(r) /\ (~r.ok => needFull /\ r.impls = <<>>)) \/ CalledNull(r)
    BY RefreshSound
  <2> HIDE DEF r
  <2>9. CASE CalledNull(r)
    BY <2>6, <2>9, SetListsCalledNull
  <2> SUFFICES ASSUME Sound(r) /\ (~r.ok => needFull /\ r.impls = <<>>)
               PROVE  SoundInv'
    BY <2>8, <2>9
  <2>2. Sound(r) /\ (~r.ok => needFull /\ r.impls = <<>>)
    OBVIOUS
  <2>3. SetLists(r) /\ RefreshFlags(r) /\ open' = open /\ open
    BY <2>6
  <2>4. Sound(Current)' /\ fault' = "none" /\ impls' = r.impls
    BY <2>2, <2>3, SetListsSound
  <2>5. needFull' => ~r.ok
    BY <2>3 DEF RefreshFlags
  <2> QED
    BY <2>2, <2>3, <2>4, <2>5 DEF SoundInv
<1>9. ASSUME NEW i \in 0..MaxIndex, NEW up \in Working, NEW starts \in BOOLEAN,
             MFXCreateSessionFull(i, up, starts)
      PROVE  SoundInv'
  <2> DEFINE r == Refresh(Current, up)
             found == r.ok /\ Listed(r.impls, i) # {}
             gone == found /\ First(r.impls, i).lib \notin LibIds(r.libs)
  <2>7. (Sound(r) /\ (~r.ok => needFull /\ r.impls = <<>>)) \/ CalledNull(r)
    BY <1>1, RefreshSound
  <2> HIDE DEF r
  <2>2. RefreshFlags(r) /\ CreateSession(r, FALSE, i, starts) /\ open' = open /\ open
    BY <1>9 DEF MFXCreateSessionFull, Calling, r
  <2>8. CASE CalledNull(r)
    <3>1. SetLists(r)
      BY <2>2, <2>8 DEF CreateSession, CalledNull
    <3> QED
      BY <2>8, <3>1, SetListsCalledNull
  <2> SUFFICES ASSUME Sound(r) /\ (~r.ok => needFull /\ r.impls = <<>>)
               PROVE  SoundInv'
    BY <2>7, <2>8
  <2>1. Sound(r) /\ (~r.ok => needFull /\ r.impls = <<>>)
    OBVIOUS
  <2>3. ~gone
    <3>1. SUFFICES ASSUME found PROVE First(r.impls, i).lib \in LibIds(r.libs)
      OBVIOUS
    <3>2. \E k \in Listed(r.impls, i) : First(r.impls, i) = r.impls[k]
      BY <2>1, <3>1, FirstListed DEF Sound, Good, ListState
    <3> QED
      BY <2>1, <3>2 DEF Sound, Listed
  <2>4. SetLists(r)
    BY <2>2, <2>3 DEF CreateSession
  <2>5. Sound(Current)' /\ fault' = "none" /\ impls' = r.impls
    BY <2>1, <2>4, SetListsSound
  <2>6. needFull' => ~r.ok
    BY <2>2 DEF RefreshFlags
  <2> QED
    BY <2>1, <2>2, <2>5, <2>6 DEF SoundInv
<1>10. CASE UNCHANGED vars
  BY <1>1, <1>2, <1>10 DEF vars, lists, flags
<1> QED
  BY <1>3, <1>4, <1>5, <1>6, <1>7, <1>8, <1>9, <1>10 DEF Next, LowLatencyCall

\* A loader never used in low latency mode reaches no deleted library and no missing
\* description, whatever fails to load and however often the load is tried again; it
\* calls a null pointer only with a 2.x library in its list that does not export one of
\* the two functions that nothing tests before the call.
THEOREM SafeWithoutLowLatency == Spec /\ [][~LowLatencyCall]_vars => []MemorySafe
<1>1. Init => SoundInv
  <2> SUFFICES ASSUME Init PROVE SoundInv
    OBVIOUS
  <2>1. TypeOK /\ IndexInv
    BY InitOK
  <2>2. Good(Current)
    BY <2>1, CurrentGood
  <2>3. libs = <<>> /\ impls = <<>> /\ fault = "none"
    BY DEF Init
  <2>4. Current.libs \in Seq(LiveLib) /\ DOMAIN Current.impls = {} /\ Current.fault = "none"
    BY <2>3, EmptySeq DEF Current
  <2> QED
    BY <2>2, <2>3, <2>4 DEF SoundInv, Sound
<1>2. TypeOK /\ IndexInv /\ SoundInv /\ [Next]_vars /\ [~LowLatencyCall]_vars => SoundInv'
  <2>1. ASSUME TypeOK, IndexInv, SoundInv, UNCHANGED vars PROVE SoundInv'
    <3>1. /\ Current' = Current /\ needFull' = needFull /\ open' = open
          /\ impls' = impls /\ libs' = libs
          /\ fault' = fault
      BY <2>1 DEF vars, lists, flags, Current
    <3> QED
      BY <2>1, <3>1 DEF SoundInv, Sound, Good
  <2> QED
    BY <2>1, SoundKept
<1>3. SoundInv => MemorySafe
  BY DEF SoundInv, MemorySafe
<1> QED
  BY Invariance, <1>1, <1>2, <1>3, PTL DEF Spec

\* every runtime exports the two functions that are called without a test
CompleteRuntimes == \A f \in File : Lacks[f] = {}

\* Where every runtime exports these two functions, a loader never used in low latency
\* mode runs into no fault at all.
COROLLARY FaultlessWithCompleteRuntimes ==
    ASSUME CompleteRuntimes
    PROVE  Spec /\ [][~LowLatencyCall]_vars => [](fault = "none")
<1>1. TypeOK /\ MemorySafe => fault = "none"
  <2> SUFFICES ASSUME TypeOK, NEW k \in DOMAIN libs, Lacks[libs[k].file] # {} PROVE FALSE
    BY DEF MemorySafe
  <2>1. libs[k] \in LibInfo
    BY Element DEF TypeOK
  <2> QED
    BY <2>1 DEF LibInfo, CompleteRuntimes
<1> QED
  BY TypeCorrectness, SafeWithoutLowLatency, <1>1, PTL

-----------------------------------------------------------------------------
(* The order of implementations: once the list is up to date, the indices  *)
(* of what can be chosen are 0, 1, ... without a gap, and they follow the  *)
(* documented priority, however the list came about.                       *)

\* the positions of what can be chosen
Choosable(I) == {k \in DOMAIN I : I[k].valid >= 0}

\* indices without a gap, in list order
Numbered(I) ==
    /\ {I[k].valid : k \in Choosable(I)} = 0..(Cardinality(Choosable(I)) - 1)
    /\ \A j, k \in Choosable(I) : j < k => I[j].valid < I[k].valid

\* what can be chosen is in the order of priority, given by the libraries L
Ranked(L, I) ==
    /\ \A k \in Choosable(I) : I[k].lib \in LibIds(L)
    /\ \A j, k \in Choosable(I) : j < k =>
          \/ IsSpecial(L, I[j])
          \/ ~IsSpecial(L, I[k]) /\ Before(L, I[j], I[k])

\* the orders that the sorts by search path, version and accelerator leave
ByPath(L, m, n) == LibOf(L, m).prio <= LibOf(L, n).prio
ByVersion(L, m, n) ==
    \/ DescOf(m).ver > DescOf(n).ver
    \/ DescOf(m).ver = DescOf(n).ver /\ ByPath(L, m, n)
OnVSI(m) == DescOf(m).AccelerationMode = "HDDLUNITE"
ByAccelerator(L, m, n) ==
    \/ ~OnVSI(m) /\ OnVSI(n)
    \/ (OnVSI(m) <=> OnVSI(n)) /\ ByVersion(L, m, n)

-----------------------------------------------------------------------------
\* A stable sort of a list that can be sorted, with the result named.
LEMMA SortOrders ==
    ASSUME NEW L, NEW G, Sortable(L, G), NEW key \in [DOMAIN G -> Int],
           NEW S, S = SortBy(G, key)
    PROVE  \A x, y \in DOMAIN S : x < y =>
              \E a, b \in DOMAIN G :
                 /\ S[x] = G[a] /\ S[y] = G[b]
                 /\ key[a] < key[b] \/ (key[a] = key[b] /\ a < b)
<1>1. G \in Seq(ImplInfo)
  BY DEF Sortable
<1> QED
  BY <1>1, SortByOrders

\* The four stable sorts, from the last criterion to the first, leave the list in
\* the order of all of them.
LEMMA SortGeneralOrders ==
    ASSUME NEW L \in Seq(LibInfo), NEW G, Sortable(L, G), Len(G) >= 2,
           NEW j \in DOMAIN SortGeneral(L, G), NEW k \in DOMAIN SortGeneral(L, G), j < k
    PROVE  Before(L, SortGeneral(L, G)[j], SortGeneral(L, G)[k])
<1> DEFINE k1 == [i \in DOMAIN G |-> LibOf(L, G[i]).prio]
           G1 == SortBySearchPath(L, G)
           k2 == [i \in DOMAIN G1 |-> -DescOf(G1[i]).ver]
           G2 == SortByVersion(G1)
           k3 == [i \in DOMAIN G2 |-> IF DescOf(G2[i]).AccelerationMode = "HDDLUNITE" THEN 1 ELSE 0]
           G3 == SortByAccelerator(G2)
           k4 == [i \in DOMAIN G3 |-> IF DescOf(G3[i]).Impl = "HW" THEN 0 ELSE 1]
           G4 == SortByImpl(G3)
<1>1. /\ G1 = SortBy(G, k1) /\ G2 = SortBy(G1, k2)
      /\ G3 = SortBy(G2, k3) /\ G4 = SortBy(G3, k4)
  BY DEF SortBySearchPath, SortByVersion, SortByAccelerator, SortByImpl
<1>2. SortGeneral(L, G) = G4
  <2>1. G \in Seq(ImplInfo)
    BY DEF Sortable
  <2>2. ~(Len(G) < 2)
    BY <2>1, LenProperties
  <2> QED
    BY <2>2 DEF SortGeneral
<1>3. k1 \in [DOMAIN G -> Int]
  BY LibOfType DEF Sortable
<1> HIDE DEF G1, G2, G3, G4
<1>4. Sortable(L, G1)
  BY <1>1, <1>3, SortKeeps
<1>5. \A i \in DOMAIN G1 : DescOf(G1[i]).ver \in Nat
  <2> TAKE i \in DOMAIN G1
  <2>1. G1[i] \in ImplInfo /\ Known(G1[i])
    BY <1>4, Element DEF Sortable
  <2> QED
    BY <2>1, KnownVersion DEF ImplInfo
<1>6. k2 \in [DOMAIN G1 -> Int]
  BY <1>5
<1>7. Sortable(L, G2)
  BY <1>1, <1>4, <1>6, SortKeeps
<1>8. k3 \in [DOMAIN G2 -> Int]
  OBVIOUS
<1>9. Sortable(L, G3)
  BY <1>1, <1>7, <1>8, SortKeeps
<1>10. k4 \in [DOMAIN G3 -> Int]
  OBVIOUS
<1>11. /\ \A i \in DOMAIN G : k1[i] = LibOf(L, G[i]).prio
       /\ \A i \in DOMAIN G1 : k2[i] = -DescOf(G1[i]).ver
       /\ \A i \in DOMAIN G2 : k3[i] = IF OnVSI(G2[i]) THEN 1 ELSE 0
       /\ \A i \in DOMAIN G3 : k4[i] = IF DescOf(G3[i]).Impl = "HW" THEN 0 ELSE 1
  BY DEF OnVSI
<1> HIDE DEF k1, k2, k3, k4
<1>12. ASSUME NEW x \in DOMAIN G1, NEW y \in DOMAIN G1, x < y
       PROVE  ByPath(L, G1[x], G1[y])
  <2>1. PICK a \in DOMAIN G, b \in DOMAIN G :
            /\ G1[x] = G[a] /\ G1[y] = G[b]
            /\ k1[a] < k1[b] \/ (k1[a] = k1[b] /\ a < b)
    <3>1. Sortable(L, G) /\ G1 = SortBy(G, k1)
      BY <1>1
    <3>2. \A u, v \in DOMAIN G1 : u < v =>
             \E a, b \in DOMAIN G :
                /\ G1[u] = G[a] /\ G1[v] = G[b]
                /\ k1[a] < k1[b] \/ (k1[a] = k1[b] /\ a < b)
      BY <1>3, <3>1, SortOrders, SMTT(30)
    <3> QED
      BY <1>12, <3>2
  <2>2. k1[a] \in Int /\ k1[b] \in Int
    BY <1>3
  <2>3. k1[a] <= k1[b]
    BY <2>1, <2>2
  <2> QED
    BY <1>11, <2>1, <2>3 DEF ByPath
<1>13. ASSUME NEW x \in DOMAIN G2, NEW y \in DOMAIN G2, x < y
       PROVE  ByVersion(L, G2[x], G2[y])
  <2>1. PICK a \in DOMAIN G1, b \in DOMAIN G1 :
            /\ G2[x] = G1[a] /\ G2[y] = G1[b]
            /\ k2[a] < k2[b] \/ (k2[a] = k2[b] /\ a < b)
    BY <1>1, <1>4, <1>6, <1>13, SortOrders
  <2>2. /\ k2[a] = -DescOf(G1[a]).ver /\ k2[b] = -DescOf(G1[b]).ver
        /\ DescOf(G1[a]).ver \in Nat /\ DescOf(G1[b]).ver \in Nat
    BY <1>5, <1>11
  <2>3. CASE k2[a] < k2[b]
    BY <2>1, <2>2, <2>3 DEF ByVersion
  <2>4. CASE k2[a] = k2[b] /\ a < b
    <3>1. ByPath(L, G1[a], G1[b])
      BY <1>12, <2>4
    <3> QED
      BY <2>1, <2>2, <2>4, <3>1 DEF ByVersion
  <2> QED
    BY <2>1, <2>3, <2>4
<1>14. ASSUME NEW x \in DOMAIN G3, NEW y \in DOMAIN G3, x < y
       PROVE  ByAccelerator(L, G3[x], G3[y])
  <2>1. PICK a \in DOMAIN G2, b \in DOMAIN G2 :
            /\ G3[x] = G2[a] /\ G3[y] = G2[b]
            /\ k3[a] < k3[b] \/ (k3[a] = k3[b] /\ a < b)
    BY <1>1, <1>7, <1>8, <1>14, SortOrders
  <2>2. k3[a] = (IF OnVSI(G2[a]) THEN 1 ELSE 0) /\ k3[b] = (IF OnVSI(G2[b]) THEN 1 ELSE 0)
    BY <1>11
  <2>3. CASE k3[a] < k3[b]
    BY <2>1, <2>2, <2>3 DEF ByAccelerator
  <2>4. CASE k3[a] = k3[b] /\ a < b
    <3>1. ByVersion(L, G2[a], G2[b])
      BY <1>13, <2>4
    <3> QED
      BY <2>1, <2>2, <2>4, <3>1 DEF ByAccelerator
  <2> QED
    BY <2>1, <2>3, <2>4
<1>15. ASSUME NEW x \in DOMAIN G4, NEW y \in DOMAIN G4, x < y
       PROVE  Before(L, G4[x], G4[y])
  <2>1. PICK a \in DOMAIN G3, b \in DOMAIN G3 :
            /\ G4[x] = G3[a] /\ G4[y] = G3[b]
            /\ k4[a] < k4[b] \/ (k4[a] = k4[b] /\ a < b)
    BY <1>1, <1>9, <1>10, <1>15, SortOrders
  <2>2. /\ k4[a] = (IF DescOf(G3[a]).Impl = "HW" THEN 0 ELSE 1)
        /\ k4[b] = (IF DescOf(G3[b]).Impl = "HW" THEN 0 ELSE 1)
    BY <1>11
  <2>3. CASE k4[a] < k4[b]
    BY <2>1, <2>2, <2>3 DEF Before
  <2>4. CASE k4[a] = k4[b] /\ a < b
    <3>1. ByAccelerator(L, G3[a], G3[b])
      BY <1>14, <2>4
    <3>2. (DescOf(G3[a]).Impl = "HW") = (DescOf(G3[b]).Impl = "HW")
      BY <2>2, <2>4
    <3> QED
      BY <2>1, <3>1, <3>2 DEF Before, ByAccelerator, ByVersion, ByPath, OnVSI
  <2> QED
    BY <2>1, <2>3, <2>4
<1> QED
  BY <1>2, <1>15

\* Renumber gives what can be chosen the numbers 0, 1, ... in list order.
LEMMA RenumberNumbers ==
    ASSUME NEW I \in Seq(ImplInfo)
    PROVE  Numbered(Renumber(I))
<1> DEFINE n == Len(I)
           V == Choosable(I)
           c == Cardinality(V)
           Earlier(k) == {j \in 1..(k - 1) : I[j].valid >= 0}
           R == Renumber(I)
           f == [k \in V |-> Cardinality(Earlier(k))]
<1>1. n \in Nat /\ DOMAIN I = 1..n /\ IsFiniteSet(1..n)
  BY LenProperties, Positions
<1>2. V \in SUBSET (1..n) /\ IsFiniteSet(V) /\ c \in Nat
  BY <1>1, FS_Subset, FS_CardinalityType DEF Choosable
<1>3. Choosable(R) = V
  BY RenumberElements DEF Choosable, Same
<1>4. \A k \in V : R[k].valid = Cardinality(Earlier(k))
  <2> TAKE k \in V
  <2>1. k \in DOMAIN I /\ I[k].valid >= 0 /\ I[k] \in ImplInfo
    BY Element DEF Choosable
  <2>2. R[k] = [I[k] EXCEPT !.valid = Cardinality(Earlier(k))]
    BY <2>1 DEF Renumber
  <2> HIDE DEF R, Earlier
  <2> QED
    BY <2>1, <2>2 DEF ImplInfo
<1>5. \A k \in V : /\ Earlier(k) \subseteq V /\ k \notin Earlier(k)
                   /\ \A j \in V : j < k => j \in Earlier(k) /\ Earlier(j) \subseteq Earlier(k)
  BY <1>1, <1>2 DEF Choosable
<1>6. \A k \in V : k \in Int /\ k \notin Earlier(k)
  BY <1>2
<1> HIDE DEF V, Earlier, R
<1>7. \A k \in V : Cardinality(Earlier(k)) \in Nat /\ IsFiniteSet(Earlier(k))
  BY <1>2, <1>5, FS_Subset, FS_CardinalityType
<1>8. \A k \in V : Cardinality(Earlier(k)) < c
  <2> TAKE k \in V
  <2>1. Earlier(k) # V /\ Earlier(k) \subseteq V
    BY <1>5
  <2>2. Cardinality(Earlier(k)) <= c /\ Cardinality(Earlier(k)) # c
    BY <1>2, <2>1, FS_Subset
  <2> QED
    BY <1>2, <1>7, <2>2
<1>9. \A j, k \in V : j < k => Cardinality(Earlier(j)) < Cardinality(Earlier(k))
  <2> SUFFICES ASSUME NEW j \in V, NEW k \in V, j < k
               PROVE  Cardinality(Earlier(j)) < Cardinality(Earlier(k))
    OBVIOUS
  <2>1. Earlier(j) \subseteq Earlier(k) /\ Earlier(j) # Earlier(k)
    BY <1>5
  <2>2. /\ Cardinality(Earlier(j)) <= Cardinality(Earlier(k))
        /\ Cardinality(Earlier(j)) # Cardinality(Earlier(k))
    BY <1>7, <2>1, FS_Subset
  <2> QED
    BY <1>7, <2>2
<1>10. \A k \in V : f[k] \in 0..(c - 1)
  BY <1>2, <1>7, <1>8
<1>11. \A j, k \in V : f[j] = f[k] => j = k
  <2> SUFFICES ASSUME NEW j \in V, NEW k \in V, f[j] = f[k], j # k PROVE FALSE
    OBVIOUS
  <2>1. j < k \/ k < j
    BY <1>6
  <2>2. Cardinality(Earlier(j)) = Cardinality(Earlier(k))
    OBVIOUS
  <2> QED
    BY <1>7, <1>9, <2>1, <2>2
<1>12. f \in Injection(V, 0..(c - 1))
  BY <1>10, <1>11 DEF Injection, IsInjective
<1>13. IsFiniteSet(0..(c - 1)) /\ Cardinality(0..(c - 1)) = c
  <2>1. c - 1 \in Int /\ 0 \in Int
    BY <1>2
  <2>2. /\ IsFiniteSet(0..(c - 1))
        /\ Cardinality(0..(c - 1)) = IF 0 > c - 1 THEN 0 ELSE (c - 1) - 0 + 1
    BY <2>1, FS_Interval
  <2> QED
    BY <1>2, <2>2
<1>14. f \in Surjection(V, 0..(c - 1))
  BY <1>2, <1>12, <1>13, FS_Injection
<1>15. {R[k].valid : k \in V} = 0..(c - 1)
  <2>1. \A k \in V : R[k].valid = f[k]
    BY <1>4
  <2>2. \A i \in 0..(c - 1) : \E k \in V : f[k] = i
    BY <1>14 DEF Surjection
  <2> HIDE DEF f
  <2> QED
    BY <1>10, <2>1, <2>2
<1>16. \A j, k \in V : j < k => R[j].valid < R[k].valid
  BY <1>4, <1>9
<1> QED
  BY <1>3, <1>15, <1>16 DEF Numbered, R

\* Whether an implementation is of the priority path, and where it belongs, does
\* not depend on its index.
LEMMA SameOrder ==
    ASSUME NEW L, NEW a, NEW b, NEW c, NEW d, Same(a, c), Same(b, d)
    PROVE  /\ IsSpecial(L, a) <=> IsSpecial(L, c)
           /\ a.lib = c.lib
           /\ Before(L, a, b) <=> Before(L, c, d)
<1>1. /\ LibOf(L, a) = LibOf(L, c) /\ LibOf(L, b) = LibOf(L, d)
      /\ DescOf(a) = DescOf(c) /\ DescOf(b) = DescOf(d) /\ a.lib = c.lib
  BY DEF Same, LibOf, DescOf
<1> QED
  BY <1>1 DEF IsSpecial, Before

\* Ranking puts what can be chosen in the order of priority and numbers it.
LEMMA PrioritizeOrders ==
    ASSUME NEW L \in Seq(LibInfo), NEW I \in Seq(ImplInfo),
           \A k \in DOMAIN I : I[k].lib \in LibIds(L),
           \A k \in DOMAIN I : I[k].desc => Known(I[k]),
           ~NullDescCompared(L, I)
    PROVE  /\ Numbered(PrioritizeImplList(L, I))
           /\ Ranked(L, PrioritizeImplList(L, I))
<1> DEFINE A == {k \in DOMAIN I : IsSpecial(L, I[k])}
           B == {k \in DOMAIN I : ~IsSpecial(L, I[k])}
           U == Unsorted(L, I)
           G == General(L, I)
           S == SortGeneral(L, G)
           J == U \o S
           R == PrioritizeImplList(L, I)
<1>1. U = Pick(I, A) /\ G = Pick(I, B) /\ A \subseteq DOMAIN I /\ B \subseteq DOMAIN I
  BY DEF Unsorted, General
<1>2. /\ \A k \in A : IsSpecial(L, I[k]) /\ k \in DOMAIN I
      /\ \A k \in B : ~IsSpecial(L, I[k]) /\ k \in DOMAIN I
  OBVIOUS
<1> HIDE DEF A, B, U, G
<1>3. /\ U \in Seq(ImplInfo)
      /\ \A k \in DOMAIN U : IsSpecial(L, U[k]) /\ U[k].lib \in LibIds(L)
  <2>1. U \in Seq(ImplInfo) /\ \A k \in DOMAIN U : \E i \in A : U[k] = I[i]
    BY <1>1, PickElements
  <2> QED
    BY <1>2, <2>1
<1>4. /\ G \in Seq(ImplInfo)
      /\ \A k \in DOMAIN G : /\ ~IsSpecial(L, G[k])
                             /\ G[k].lib \in LibIds(L)
                             /\ G[k].desc => Known(G[k])
  <2>1. G \in Seq(ImplInfo) /\ \A k \in DOMAIN G : \E i \in B : G[k] = I[i]
    BY <1>1, PickElements
  <2> QED
    BY <1>2, <2>1
<1>5. Len(G) \in Nat /\ DOMAIN G = 1..Len(G) /\ Len(U) \in Nat /\ DOMAIN U = 1..Len(U)
  BY <1>3, <1>4, LenProperties
<1>6. /\ S \in Seq(ImplInfo)
      /\ \A k \in DOMAIN S : ~IsSpecial(L, S[k]) /\ S[k].lib \in LibIds(L)
      /\ \A j, k \in DOMAIN S : j < k => Before(L, S[j], S[k])
  <2>1. CASE Len(G) < 2
    <3>1. S = G
      BY <2>1 DEF SortGeneral
    <3>2. \A j, k \in DOMAIN G : ~(j < k)
      BY <1>5, <2>1
    <3> QED
      BY <1>4, <3>1, <3>2
  <2>2. CASE ~(Len(G) < 2)
    <3>1. Len(G) > 1 /\ Len(G) >= 2
      BY <1>5, <2>2
    <3>2. \A k \in DOMAIN G : G[k].desc
      BY <3>1 DEF NullDescCompared, G
    <3>3. Sortable(L, G)
      BY <1>4, <3>2 DEF Sortable
    <3>4. S \in Seq(ImplInfo) /\ From(S, G)
      BY <3>3, SortGeneralElements
    <3>5. \A j, k \in DOMAIN S : j < k => Before(L, S[j], S[k])
      BY <3>1, <3>3, SortGeneralOrders
    <3> QED
      BY <1>4, <3>4, <3>5 DEF From
  <2> QED
    BY <2>1, <2>2
<1> HIDE DEF S
<1>7. /\ J \in Seq(ImplInfo)
      /\ Len(J) = Len(U) + Len(S)
      /\ \A k \in 1..(Len(U) + Len(S)) : J[k] = IF k <= Len(U) THEN U[k] ELSE S[k - Len(U)]
  BY <1>3, <1>6, ConcatProperties
<1>8. Len(S) \in Nat /\ DOMAIN S = 1..Len(S) /\ DOMAIN J = 1..(Len(U) + Len(S))
  BY <1>5, <1>6, <1>7, LenProperties
<1> HIDE DEF J
<1>9. \A k \in DOMAIN J : \/ k \in DOMAIN U /\ J[k] = U[k]
                          \/ /\ k > Len(U) /\ k - Len(U) \in DOMAIN S
                             /\ J[k] = S[k - Len(U)]
  BY <1>5, <1>7, <1>8
<1>10. \A k \in DOMAIN J : J[k].lib \in LibIds(L)
  BY <1>3, <1>6, <1>9
<1>11. ASSUME NEW j \in DOMAIN J, NEW k \in DOMAIN J, j < k
       PROVE  IsSpecial(L, J[j]) \/ (~IsSpecial(L, J[k]) /\ Before(L, J[j], J[k]))
  <2>1. CASE j \in DOMAIN U /\ J[j] = U[j]
    BY <1>3, <2>1
  <2>2. CASE j > Len(U) /\ j - Len(U) \in DOMAIN S /\ J[j] = S[j - Len(U)]
    <3>1. k > Len(U) /\ k \notin DOMAIN U /\ j - Len(U) < k - Len(U)
      BY <1>5, <1>8, <1>11, <2>2
    <3>2. k - Len(U) \in DOMAIN S /\ J[k] = S[k - Len(U)]
      BY <1>9, <3>1
    <3> QED
      BY <1>6, <2>2, <3>1, <3>2
  <2> QED
    BY <1>9, <2>1, <2>2
<1>12. R = Renumber(J)
  BY DEF PrioritizeImplList, U, G, S, J
<1> HIDE DEF R
<1>13. DOMAIN R = DOMAIN J /\ \A k \in DOMAIN J : Same(R[k], J[k])
  BY <1>7, <1>12, RenumberElements
<1>14. Ranked(L, R)
  <2>1. \A k \in Choosable(R) : k \in DOMAIN J
    BY <1>13 DEF Choosable
  <2>2. \A k \in Choosable(R) : R[k].lib \in LibIds(L)
    BY <1>10, <1>13, <2>1 DEF Same
  <2>3. ASSUME NEW j \in Choosable(R), NEW k \in Choosable(R), j < k
        PROVE  IsSpecial(L, R[j]) \/ (~IsSpecial(L, R[k]) /\ Before(L, R[j], R[k]))
    <3>1. Same(R[j], J[j]) /\ Same(R[k], J[k])
      BY <1>13, <2>1
    <3>2. /\ IsSpecial(L, R[j]) <=> IsSpecial(L, J[j])
          /\ IsSpecial(L, R[k]) <=> IsSpecial(L, J[k])
          /\ Before(L, R[j], R[k]) <=> Before(L, J[j], J[k])
      BY <3>1, SameOrder
    <3> QED
      BY <1>11, <2>1, <2>3, <3>2
  <2> QED
    BY <2>2, <2>3 DEF Ranked
<1> QED
  BY <1>7, <1>12, <1>14, RenumberNumbers DEF R

-----------------------------------------------------------------------------
\* Where nothing can be chosen there is no order to keep.
LEMMA NothingToOrder ==
    ASSUME NEW L, NEW I, Choosable(I) = {}
    PROVE  Numbered(I) /\ Ranked(L, I)
<1>1. Cardinality(Choosable(I)) = 0
  BY FS_EmptySet
<1>2. {I[k].valid : k \in Choosable(I)} = {} /\ 0..(0 - 1) = {}
  OBVIOUS
<1> QED
  BY <1>1, <1>2 DEF Numbered, Ranked

\* When UpdateValidImplList returns, the list is in order.
LEMMA UpdateValidImplListOrders ==
    ASSUME NEW r, Good(r), UpdateValidImplList(r).ok
    PROVE  /\ Numbered(UpdateValidImplList(r).impls)
           /\ Ranked(UpdateValidImplList(r).libs, UpdateValidImplList(r).impls)
<1> DEFINE gone == {k \in DOMAIN r.impls : r.impls[k].lib \notin LibIds(r.libs)}
           I == ApplyFilters(r.impls)
           R == PrioritizeImplList(r.libs, I)
<1>1. /\ r \in ListState /\ r.libs \in Seq(LibInfo) /\ r.impls \in Seq(ImplInfo)
      /\ r.next \in Nat /\ WellIndexed(r.impls, r.next)
  BY DEF Good, ListState
<1>2. /\ I \in Seq(ImplInfo)
      /\ DOMAIN I = DOMAIN r.impls
      /\ WellIndexed(I, r.next)
      /\ \A k \in DOMAIN r.impls : I[k].lib = r.impls[k].lib
  BY <1>1, ApplyFiltersWellIndexed
<1> HIDE DEF I
<1>3. \A what : ~Faulty(r, what).ok
  BY <1>1 DEF Faulty, ListState
<1>4. ~(\E k \in gone : Len(r.impls) > 1 \/ r.impls[k].valid # -1)
  BY <1>3 DEF UpdateValidImplList
<1>5. CASE gone # {}
  <2>1. PICK g \in gone : ~(Len(r.impls) > 1) /\ r.impls[g].valid = -1
    BY <1>4, <1>5
  <2>2. Len(r.impls) \in Nat /\ DOMAIN r.impls = 1..Len(r.impls)
    BY <1>1, LenProperties
  <2>3. \A k \in DOMAIN r.impls : k = g
    BY <2>1, <2>2
  <2>4. Choosable(r.impls) = {}
    BY <2>1, <2>3 DEF Choosable
  <2>5. UpdateValidImplList(r) = r
    BY <1>4, <1>5 DEF UpdateValidImplList
  <2> QED
    BY <2>4, <2>5, NothingToOrder
<1>6. CASE gone = {}
  <2>1. ~NullDescCompared(r.libs, I)
    BY <1>3, <1>4, <1>6 DEF UpdateValidImplList, I
  <2>2. \A k \in DOMAIN I : I[k].lib \in LibIds(r.libs)
    BY <1>2, <1>6
  <2>3. \A k \in DOMAIN I : I[k].desc => Known(I[k])
    BY <1>2 DEF WellIndexed
  <2>4. Numbered(R) /\ Ranked(r.libs, R)
    BY <1>1, <1>2, <2>1, <2>2, <2>3, PrioritizeOrders
  <2>5. UpdateValidImplList(r) = [r EXCEPT !.impls = R]
    BY <1>4, <1>6, <2>1 DEF UpdateValidImplList, I
  <2> HIDE DEF R
  <2>6. UpdateValidImplList(r).impls = R /\ UpdateValidImplList(r).libs = r.libs
    BY <1>1, <2>5 DEF ListState
  <2> QED
    BY <2>4, <2>6
<1> QED
  BY <1>5, <1>6

\* So it is when the load or the filters ran; nothing changes in a list that is up
\* to date.
LEMMA RefreshOrders ==
    ASSUME NEW r, Good(r), NEW up, Refresh(r, up).ok, needFull \/ needUpdate
    PROVE  /\ Numbered(Refresh(r, up).impls)
           /\ Ranked(Refresh(r, up).libs, Refresh(r, up).impls)
<1> DEFINE r1 == IF needFull THEN FullLoadAndQuery(r, up) ELSE r
<1>1. Good(r1)
  BY FullLoadAndQueryGood
<1>2. Refresh(r, up) = IF r1.ok /\ (needFull \/ needUpdate) THEN UpdateValidImplList(r1) ELSE r1
  BY DEF Refresh
<1> HIDE DEF r1
<1>3. Refresh(r, up) = UpdateValidImplList(r1)
  BY <1>2
<1> QED
  BY <1>1, <1>3, UpdateValidImplListOrders

\* A library added with a new id changes nothing about the order of the others.
LEMMA AddedLibrary ==
    ASSUME NEW L \in Seq(LibInfo), NEW I \in Seq(ImplInfo), Ranked(L, I),
           NEW l \in LibInfo, \A id \in LibIds(L) : l.id # id
    PROVE  Ranked(Append(L, l), I)
<1> DEFINE M == Append(L, l)
<1>1. /\ M \in Seq(LibInfo)
      /\ Len(M) = Len(L) + 1
      /\ \A k \in 1..Len(L) : M[k] = L[k]
      /\ M[Len(L) + 1] = l
  BY AppendProperties
<1>2. Len(L) \in Nat /\ DOMAIN L = 1..Len(L) /\ DOMAIN M = 1..(Len(L) + 1)
  BY <1>1, LenProperties
<1> HIDE DEF M
<1>3. \A k \in DOMAIN L : k \in DOMAIN M /\ M[k] = L[k]
  BY <1>1, <1>2
<1>4. \A k \in DOMAIN M : k \in DOMAIN L \/ M[k] = l
  BY <1>1, <1>2
<1>5. LibIds(L) \subseteq LibIds(M)
  BY <1>3 DEF LibIds
<1>6. ASSUME NEW m, m.lib \in LibIds(L)
      PROVE  LibOf(M, m) = LibOf(L, m)
  <2>1. \A k : (k \in DOMAIN L /\ L[k].id = m.lib) <=> (k \in DOMAIN M /\ M[k].id = m.lib)
    BY <1>3, <1>4, <1>6
  <2>2. (CHOOSE k \in DOMAIN L : L[k].id = m.lib) = CHOOSE k \in DOMAIN M : M[k].id = m.lib
    BY <2>1
  <2>3. \E k \in DOMAIN L : L[k].id = m.lib
    BY <1>6 DEF LibIds
  <2> DEFINE p == CHOOSE k \in DOMAIN L : L[k].id = m.lib
  <2>4. p \in DOMAIN L
    BY <2>3
  <2>5. LibOf(L, m) = L[p] /\ LibOf(M, m) = M[p]
    BY <2>2 DEF LibOf
  <2> HIDE DEF p
  <2> QED
    BY <1>3, <2>4, <2>5
<1>7. \A m, n : m.lib \in LibIds(L) /\ n.lib \in LibIds(L) =>
        (/\ IsSpecial(M, m) <=> IsSpecial(L, m)
         /\ Before(M, m, n) <=> Before(L, m, n))
  BY <1>6 DEF IsSpecial, Before
<1>8. \A k \in Choosable(I) : I[k].lib \in LibIds(L)
  BY DEF Ranked
<1> QED
  BY <1>5, <1>7, <1>8 DEF Ranked, M

\* A library of low latency mode is one, with an id no other library has.
LEMMA LowLatLibNew ==
    ASSUME NEW L \in Seq(LibInfo), NEW I \in Seq(ImplInfo), NEW file \in File,
           NEW type \in {"vpl", "msdk"}, NEW works \in BOOLEAN
    PROVE  /\ LowLatLib(L, I, file, type, works) \in LibInfo
           /\ \A id \in LibIds(L) : LowLatLib(L, I, file, type, works).id # id
<1> DEFINE n == LastId(L, I) + 1
           l == LowLatLib(L, I, file, type, works)
<1>1. /\ LastId(L, I) \in Nat
      /\ \A id \in LibIds(L) : id \in Nat /\ id <= LastId(L, I)
  BY LastIdGreatest
<1>2. n \in Nat /\ \A id \in LibIds(L) : n # id
  BY <1>1
<1> DEFINE prio == IF type = "vpl" THEN PrioLowLatency ELSE PrioLegacy
           m == NewLib(n, file, prio, type, works)
<1>3. prio \in Nat
  BY DEF PrioLowLatency, PrioLegacy
<1> HIDE DEF n, prio
<1>4. m \in LibInfo /\ m.id = n
  BY <1>2, <1>3 DEF NewLib, LibInfo
<1>5. l = [m EXCEPT !.live = works]
  BY DEF LowLatLib, n, prio
<1> HIDE DEF m
<1>6. l \in LibInfo /\ l.id = n
  BY <1>4, <1>5 DEF LibInfo
<1> QED
  BY <1>2, <1>6

\* The low latency load, also one that fails and leaves libraries in the list, keeps
\* what was in order in order.
LEMMA LoadLibsLowLatencyOrders ==
    ASSUME NEW r, Good(r), NEW found \in SUBSET File, NEW up, Ranked(r.libs, r.impls)
    PROVE  Ranked(LoadLibsLowLatency(r, found, up).lists.libs, r.impls)
<1> DEFINE vplOk == LowLatVPL \in found \cap up
           msdkOk == LowLatMSDK \in found \cap up /\ Kind[LowLatMSDK] = "msdk"
           L1 == IF LowLatVPL \notin found THEN r.libs
                 ELSE Append(r.libs, LowLatLib(r.libs, r.impls, LowLatVPL, "vpl", vplOk))
           L2 == IF vplOk \/ LowLatMSDK \notin found THEN L1
                 ELSE Append(L1, LowLatLib(L1, r.impls, LowLatMSDK, "msdk", msdkOk))
           r1 == [r EXCEPT !.libs = L2, !.ok = vplOk \/ msdkOk]
<1>1. r \in ListState /\ r.libs \in Seq(LibInfo) /\ r.impls \in Seq(ImplInfo)
  BY DEF Good, ListState
<1>2. vplOk \in BOOLEAN /\ msdkOk \in BOOLEAN
  OBVIOUS
<1>3. LoadLibsLowLatency(r, found, up) =
        [lists |-> r1, configs |-> IF ~vplOk /\ msdkOk THEN RenameFilters(configs) ELSE configs]
  BY DEF LoadLibsLowLatency
<1> HIDE DEF vplOk, msdkOk
<1>4. L1 \in Seq(LibInfo) /\ Ranked(L1, r.impls)
  <2>1. CASE LowLatVPL \notin found
    BY <1>1, <2>1
  <2>2. CASE LowLatVPL \in found
    <3> DEFINE l == LowLatLib(r.libs, r.impls, LowLatVPL, "vpl", vplOk)
    <3>1. LowLatVPL \in File
      BY <2>2
    <3>2. l \in LibInfo /\ \A id \in LibIds(r.libs) : l.id # id
      BY <1>1, <1>2, <3>1, LowLatLibNew
    <3>3. L1 = Append(r.libs, l)
      BY <2>2
    <3> HIDE DEF l
    <3> QED
      BY <1>1, <3>2, <3>3, AddedLibrary, AppendProperties
  <2> QED
    BY <2>1, <2>2
<1> HIDE DEF L1
<1>5. Ranked(L2, r.impls)
  <2>1. CASE vplOk \/ LowLatMSDK \notin found
    BY <1>4, <2>1
  <2>2. CASE ~(vplOk \/ LowLatMSDK \notin found)
    <3> DEFINE l == LowLatLib(L1, r.impls, LowLatMSDK, "msdk", msdkOk)
    <3>1. LowLatMSDK \in File
      BY <2>2
    <3>2. l \in LibInfo /\ \A id \in LibIds(L1) : l.id # id
      BY <1>1, <1>2, <1>4, <3>1, LowLatLibNew
    <3>3. L2 = Append(L1, l)
      BY <2>2
    <3> HIDE DEF l
    <3> QED
      BY <1>1, <1>4, <3>2, <3>3, AddedLibrary
  <2> QED
    BY <2>1, <2>2
<1> HIDE DEF L2
<1>6. r1.libs = L2
  BY <1>1 DEF ListState
<1> HIDE DEF r1
<1> QED
  BY <1>3, <1>5, <1>6

\* Creating a session leaves the lists as the load left them.
LEMMA CreateSessionLists ==
    ASSUME NEW r, Good(r), NEW ll, NEW i, NEW starts, CreateSession(r, ll, i, starts)
    PROVE  libs' = r.libs /\ impls' = r.impls
<1>1. r \in ListState
  BY DEF Good
<1>2. /\ Faulty(r, "use_after_free").libs = r.libs
      /\ Faulty(r, "use_after_free").impls = r.impls
  BY <1>1 DEF Faulty, ListState
<1> QED
  BY <1>2 DEF CreateSession, SetLists

-----------------------------------------------------------------------------
\* Whenever the list is up to date, it is in order.
OrderInv == UpToDate => Numbered(impls) /\ Ranked(libs, impls)

\* Every call keeps the order, or leaves a list that is not up to date.
LEMMA OrderKept ==
    ASSUME TypeOK, IndexInv, OrderInv, [Next]_vars
    PROVE  OrderInv'
<1>1. Good(Current) /\ Current.impls = impls /\ Current.libs = libs
  BY CurrentGood DEF Current
<1>2. ASSUME MFXLoad \/ MFXUnload \/ \E k \in 1..MaxConfig, s \in Setting :
                                        MFXSetConfigFilterProperty(k, s)
      PROVE  OrderInv'
  <2>1. ~UpToDate'
    BY <1>2 DEF UpToDate, MFXLoad, MFXUnload, MFXSetConfigFilterProperty
  <2> QED
    BY <2>1 DEF OrderInv
<1>3. ASSUME UNCHANGED <<lists, open, flags, fault>>
      PROVE  OrderInv'
  <2>1. UpToDate' = UpToDate /\ impls' = impls /\ libs' = libs
    BY <1>3 DEF UpToDate, lists, flags
  <2>2. Numbered(impls)' = Numbered(impls) /\ Ranked(libs, impls)' = Ranked(libs, impls)
    BY <2>1 DEF Numbered, Ranked, Choosable, IsSpecial, Before, LibOf
  <2> QED
    BY <2>1, <2>2 DEF OrderInv
<1>4. ASSUME NEW r, libs' = r.libs, impls' = r.impls,
             UpToDate' => Numbered(r.impls) /\ Ranked(r.libs, r.impls)
      PROVE  OrderInv'
  BY <1>4 DEF OrderInv
<1>5. ASSUME NEW k \in 1..MaxConfig, NEW p \in PtrProperty, MFXSetConfigFilterPropertyNull(k, p)
      PROVE  OrderInv'
  BY <1>3, <1>5 DEF MFXSetConfigFilterPropertyNull
<1>6. ASSUME NEW i \in 0..MaxIndex, NEW up \in Working, MFXEnumImplementations(i, up)
      PROVE  OrderInv'
  <2> DEFINE unload == needFull /\ lowLatency /\ ~needLowLat
             r0 == IF unload THEN UnloadAllLibraries(Current) ELSE Current
             r == Refresh(r0, up)
  <2>1. Good(r0) /\ (~needFull => r0 = Current)
    BY <1>1, UnloadGood
  <2> HIDE DEF r0
  <2>2. /\ r.ok /\ (needFull \/ needUpdate) => Numbered(r.impls) /\ Ranked(r.libs, r.impls)
        /\ ~needFull /\ ~needUpdate => r = r0
    BY <2>1, RefreshGood, RefreshOrders
  <2> HIDE DEF r
  <2>3. SetLists(r) /\ RefreshFlags(r) /\ UNCHANGED open /\ Calling
    BY <1>6 DEF MFXEnumImplementations, r, r0
  <2>4. libs' = r.libs /\ impls' = r.impls
    BY <2>3 DEF SetLists
  <2>5. UpToDate' => Numbered(r.impls) /\ Ranked(r.libs, r.impls)
    BY <1>1, <2>1, <2>2, <2>3 DEF OrderInv, UpToDate, RefreshFlags, Calling
  <2> QED
    BY <1>4, <2>4, <2>5
<1>7. ASSUME NEW i \in 0..MaxIndex, NEW up \in Working, NEW starts \in BOOLEAN,
             MFXCreateSessionFull(i, up, starts)
      PROVE  OrderInv'
  <2> DEFINE r == Refresh(Current, up)
  <2>1. /\ Good(r)
        /\ r.ok /\ (needFull \/ needUpdate) => Numbered(r.impls) /\ Ranked(r.libs, r.impls)
        /\ ~needFull /\ ~needUpdate => r = Current
    BY <1>1, RefreshGood, RefreshOrders
  <2> HIDE DEF r
  <2>2. RefreshFlags(r) /\ CreateSession(r, FALSE, i, starts) /\ UNCHANGED open /\ Calling
    BY <1>7 DEF MFXCreateSessionFull, r
  <2>3. libs' = r.libs /\ impls' = r.impls
    BY <2>1, <2>2, CreateSessionLists
  <2>4. UpToDate' => Numbered(r.impls) /\ Ranked(r.libs, r.impls)
    BY <1>1, <2>1, <2>2 DEF OrderInv, UpToDate, RefreshFlags, Calling
  <2> QED
    BY <1>4, <2>3, <2>4
<1>8. ASSUME NEW i \in 0..MaxIndex, NEW found \in Working, NEW up \in Working, NEW answers \in Working,
             NEW starts \in BOOLEAN, MFXCreateSessionLowLatency(i, found, up, answers, starts)
      PROVE  OrderInv'
  <2> DEFINE l == LoadLibsLowLatency(Current, found, up)
  <2>1. /\ Good(l.lists)
        /\ l.lists.impls = impls
        /\ Ranked(libs, impls) => Ranked(l.lists.libs, impls)
    BY <1>1, LoadLibsLowLatencyGood, LoadLibsLowLatencyOrders DEF Working
  <2> HIDE DEF l
  <2>2. CASE needLowLat /\ ~l.lists.ok
    <3>1. CreateSession(l.lists, TRUE, i, starts)
      BY <1>8, <2>2 DEF MFXCreateSessionLowLatency, l
    <3>2. libs' = l.lists.libs /\ impls' = impls
      BY <2>1, <3>1, CreateSessionLists
    <3>3. UpToDate' => UpToDate
      BY <1>8, <2>2 DEF MFXCreateSessionLowLatency, UpToDate, Calling
    <3> QED
      BY <1>4, <2>1, <3>2, <3>3 DEF OrderInv
  <2>3. CASE ~needLowLat \/ l.lists.ok
    <3>1. lowLatency' /\ ~needLowLat'
      BY <1>8, <2>3 DEF MFXCreateSessionLowLatency, l
    <3> QED
      BY <3>1 DEF OrderInv, UpToDate
  <2> QED
    BY <2>2, <2>3
<1>9. CASE UNCHANGED vars
  BY <1>3, <1>9 DEF vars
<1>10. CASE MFXCreateConfig
  BY <1>3, <1>10 DEF MFXCreateConfig
<1> QED
  BY <1>2, <1>5, <1>6, <1>7, <1>8, <1>9, <1>10 DEF Next

\* A loader starts without a list.
LEMMA OrderAtInit == Init => OrderInv
BY DEF Init, OrderInv, UpToDate

\* The order follows from the order of positions and of indices.
LEMMA OrderSuffices == TypeOK /\ OrderInv => DenseIndices /\ PriorityOrder
<1> SUFFICES ASSUME TypeOK, OrderInv PROVE DenseIndices /\ PriorityOrder
  OBVIOUS
<1>1. Valid = Choosable(impls)
  BY DEF Valid, Choosable
<1>2. DenseIndices
  BY <1>1 DEF OrderInv, DenseIndices, Numbered
<1>3. PriorityOrder
  <2> SUFFICES ASSUME UpToDate, NEW j \in Choosable(impls), NEW k \in Choosable(impls),
                      impls[j].valid < impls[k].valid
               PROVE  \/ IsSpecial(libs, impls[j])
                      \/ ~IsSpecial(libs, impls[k]) /\ Before(libs, impls[j], impls[k])
    BY <1>1 DEF PriorityOrder
  <2>1. Numbered(impls) /\ Ranked(libs, impls)
    BY DEF OrderInv
  <2>2. /\ j \in DOMAIN impls /\ k \in DOMAIN impls /\ impls \in Seq(ImplInfo)
        /\ impls[j].valid \in Int /\ impls[k].valid \in Int
    <3>1. j \in DOMAIN impls /\ k \in DOMAIN impls /\ impls \in Seq(ImplInfo)
      BY DEF TypeOK, Choosable
    <3>2. impls[j] \in ImplInfo /\ impls[k] \in ImplInfo
      BY <3>1, Element
    <3>3. impls[j].valid \in Int
      BY <3>2 DEF ImplInfo
    <3>4. impls[k].valid \in Int
      BY <3>2 DEF ImplInfo
    <3> QED
      BY <3>1, <3>3, <3>4
  <2>3. j \in Int /\ k \in Int
    BY <2>2, LenProperties
  <2>4. ~(k < j) /\ j # k
    BY <2>1, <2>2 DEF Numbered
  <2>5. j < k
    BY <2>3, <2>4
  <2> QED
    BY <2>1, <2>5 DEF Ranked
<1> QED
  BY <1>2, <1>3

\* The inductive invariant of the order, with the types and indices it rests on.
THEOREM OrderInvariance == Spec => [](TypeOK /\ IndexInv /\ OrderInv)
<1>1. TypeOK /\ IndexInv /\ OrderInv /\ [Next]_vars => (TypeOK /\ IndexInv /\ OrderInv)'
  BY TypesKept, OrderKept
<1> QED
  BY InitOK, OrderAtInit, <1>1, PTL DEF Spec

\* An application that calls MFXEnumImplementations with 0, 1, ... until it fails sees
\* every implementation it can choose: the indices have no gap (PrioritizeImplList,
\* whatever was loaded, hidden or filtered before).
THEOREM IndicesHaveNoGap == Spec => []DenseIndices
<1>1. TypeOK /\ IndexInv /\ OrderInv => DenseIndices
  BY OrderSuffices
<1> QED
  BY OrderInvariance, <1>1, PTL

\* A smaller index is of higher documented priority: priority path, hardware, general
\* accelerators, higher versions, earlier search path.
THEOREM NumberedByPriority == Spec => []PriorityOrder
<1>1. TypeOK /\ IndexInv /\ OrderInv => PriorityOrder
  BY OrderSuffices
<1> QED
  BY OrderInvariance, <1>1, PTL
=============================================================================
