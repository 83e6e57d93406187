------------------------------ MODULE Ordering ------------------------------
(***************************************************************************)
(* Lists cut and put in order: Python's sorted() and list comprehensions,  *)
(* as the services use them, without recursion.                            *)
(*                                                                         *)
(* What is sorted is the set of a list's positions, and its order a        *)
(* function: before[i] are the positions that come before i.  A sort is    *)
(* stable when equal elements keep the order of their positions.           *)
(***************************************************************************)
EXTENDS Naturals, Sequences, FiniteSets

IsOrder(before) ==
    LET S == DOMAIN before
    IN  /\ \A x \in S : before[x] \subseteq S \ {x}
        /\ \A x, y \in S : x # y => x \in before[y] \/ y \in before[x]
        /\ \A x, y \in S : x \in before[y] => before[x] \subseteq before[y]

\* The elements in order: the one at n has n - 1 before it.
InOrder(before) ==
    [n \in 1..Cardinality(DOMAIN before) |->
        CHOOSE x \in DOMAIN before : Cardinality(before[x]) = n - 1]

\* The elements of seq at the positions of a list.
Through(seq, positions) == [n \in DOMAIN positions |-> seq[positions[n]]]

Ascending(P) == [i \in P |-> {j \in P : j < i}]

\* [x for x in seq if ...]: the elements of seq at a set of positions.
Picked(seq, P) == Through(seq, InOrder(Ascending(P)))

\* seq[:n]
Upto(seq, n) == SubSeq(seq, 1, IF Len(seq) < n THEN Len(seq) ELSE n)

\* seq.index(x), the length of seq when it is not there.
PlaceIn(seq, x) == Cardinality({n \in DOMAIN seq : \A m \in 1..n : seq[m] # x})
=============================================================================
