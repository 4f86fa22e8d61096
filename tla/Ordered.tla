------------------------------ MODULE Ordered ------------------------------
(***************************************************************************)
(* Finite sets of integer pairs in lexicographic order, and the two list   *)
(* operations of the dispatcher built on it: erasing elements of a         *)
(* std::list while iterating over it, and std::list::sort, which is        *)
(* stable.  No definition is recursive, so that what they return can be    *)
(* proved for lists of every length (Ordered_proofs).                      *)
(***************************************************************************)
EXTENDS Integers, Sequences, FiniteSets

\* x comes before y, or is y
Precedes(x, y) == x[1] < y[1] \/ (x[1] = y[1] /\ x[2] <= y[2])

\* how many elements of S do not come after x: the place of x in the order
Rank(S, x) == Cardinality({y \in S : Precedes(y, x)})

\* the elements of the finite set S of pairs, in increasing order
InOrder(S) == [k \in 1..Cardinality(S) |-> CHOOSE x \in S : Rank(S, x) = k]

\* the elements of list s at the positions in I: what is left of s when an
\* iteration over it erases all others
Pick(s, I) ==
    LET o == InOrder({0} \X I)
    IN  [k \in DOMAIN o |-> s[o[k][2]]]

\* list s sorted by increasing key, equal keys keeping their order
SortBy(s, key) ==
    LET o == InOrder({<<key[i], i>> : i \in DOMAIN s})
    IN  [k \in DOMAIN o |-> s[o[k][2]]]
=============================================================================
