--------------------------- MODULE OrderingProofs ---------------------------
(***************************************************************************)
(* What sorting and cutting a list give.  The elements of a set have as    *)
(* many places before them as there are elements less one, no two the same *)
(* number: by counting, each place is taken.                               *)
(***************************************************************************)
EXTENDS Ordering, FiniteSetTheorems, SequenceTheorems, TLAPS

\* Each element has its place, and what comes before it a lower one.
LEMMA PlacesAscend ==
    ASSUME NEW before, IsFiniteSet(DOMAIN before), IsOrder(before)
    PROVE  /\ \A x \in DOMAIN before :
                 Cardinality(before[x]) \in 0..(Cardinality(DOMAIN before) - 1)
           /\ \A x, y \in DOMAIN before :
                 x \in before[y] => Cardinality(before[x]) < Cardinality(before[y])
<1> DEFINE S == DOMAIN before
<1>1. ASSUME NEW x \in S
      PROVE  /\ IsFiniteSet(before[x]) /\ Cardinality(before[x]) \in Nat
             /\ Cardinality(before[x]) <= Cardinality(S) - 1
  <2>1. before[x] \in SUBSET (S \ {x})
    BY DEF IsOrder
  <2>2. IsFiniteSet(S \ {x}) /\ Cardinality(S \ {x}) = Cardinality(S) - 1
    BY FS_RemoveElement
  <2> QED
    BY <2>1, <2>2, FS_Subset, FS_CardinalityType
<1>2. ASSUME NEW x \in S, NEW y \in S, x \in before[y]
      PROVE  Cardinality(before[x]) < Cardinality(before[y])
  <2>1. before[x] \in SUBSET before[y] /\ before[x] # before[y]
    BY <1>2 DEF IsOrder
  <2>2. /\ Cardinality(before[x]) <= Cardinality(before[y])
        /\ Cardinality(before[x]) # Cardinality(before[y])
    BY <1>1, <2>1, FS_Subset
  <2> QED
    BY <1>1, <2>2
<1>3. Cardinality(S) \in Nat
  BY FS_CardinalityType
<1> QED
  BY <1>1, <1>2, <1>3

\* Every place is taken.
LEMMA PlacesAreTaken ==
    ASSUME NEW before, IsFiniteSet(DOMAIN before), IsOrder(before),
           NEW n \in 0..(Cardinality(DOMAIN before) - 1)
    PROVE  \E x \in DOMAIN before : Cardinality(before[x]) = n
<1> DEFINE S == DOMAIN before
           N == Cardinality(S)
           place == [x \in S |-> Cardinality(before[x])]
<1>1. N \in Nat
  BY FS_CardinalityType
<1>2. place \in Injection(S, 0..(N - 1))
  <2>1. place \in [S -> 0..(N - 1)]
    BY PlacesAscend
  <2>2. ASSUME NEW x \in S, NEW y \in S, x # y
        PROVE  place[x] # place[y]
    <3>1. x \in before[y] \/ y \in before[x]
      BY <2>2 DEF IsOrder
    <3>2. place[x] \in Nat /\ place[y] \in Nat
      BY <2>1, <1>1
    <3> QED
      BY <3>1, <3>2, PlacesAscend
  <2> QED
    BY <2>1, <2>2 DEF Injection, IsInjective
<1>3. IsFiniteSet(0..(N - 1)) /\ Cardinality(0..(N - 1)) = N
  BY <1>1, FS_Interval
<1>4. place \in Surjection(S, 0..(N - 1))
  BY <1>2, <1>3, FS_Injection
<1> QED
  BY <1>4 DEF Surjection

\* A sorted list is in order, and has every element.
LEMMA SortedInOrder ==
    ASSUME NEW before, IsFiniteSet(DOMAIN before), IsOrder(before)
    PROVE  LET n == Cardinality(DOMAIN before)
               sorted == InOrder(before)
           IN  /\ n \in Nat
               /\ DOMAIN sorted = 1..n
               /\ sorted \in [1..n -> DOMAIN before]
               /\ \A x \in DOMAIN before : \E i \in 1..n : sorted[i] = x
               /\ \A i, j \in 1..n : i < j => sorted[i] \in before[sorted[j]]
<1> DEFINE S == DOMAIN before
           N == Cardinality(S)
           sorted == InOrder(before)
<1>1. N \in Nat
  BY FS_CardinalityType
<1>2. ASSUME NEW i \in 1..N
      PROVE  sorted[i] \in S /\ Cardinality(before[sorted[i]]) = i - 1
  <2>1. i - 1 \in 0..(N - 1)
    BY <1>1
  <2>2. \E x \in S : Cardinality(before[x]) = i - 1
    BY <2>1, PlacesAreTaken
  <2>3. sorted[i] = CHOOSE x \in S : Cardinality(before[x]) = i - 1
    BY DEF InOrder
  <2> QED
    BY <2>2, <2>3
<1>3. DOMAIN sorted = 1..N /\ sorted \in [1..N -> S]
  BY <1>2 DEF InOrder
<1>4. ASSUME NEW x \in S, NEW y \in S, Cardinality(before[x]) = Cardinality(before[y])
      PROVE  x = y
  <2>1. Cardinality(before[x]) \in Nat
    BY <1>1, PlacesAscend
  <2>2. SUFFICES ASSUME x # y PROVE FALSE
    OBVIOUS
  <2>3. x \in before[y] \/ y \in before[x]
    BY <2>2 DEF IsOrder
  <2> QED
    BY <1>4, <2>1, <2>3, PlacesAscend
<1>5. ASSUME NEW x \in S
      PROVE  \E i \in 1..N : sorted[i] = x
  <2> DEFINE i == Cardinality(before[x]) + 1
  <2>1. i \in 1..N /\ i - 1 = Cardinality(before[x])
    BY <1>1, PlacesAscend
  <2> HIDE DEF i
  <2>2. sorted[i] \in S /\ Cardinality(before[sorted[i]]) = Cardinality(before[x])
    BY <2>1, <1>2
  <2> HIDE DEF sorted
  <2>3. sorted[i] = x
    BY <2>2, <1>4
  <2> QED
    BY <2>1, <2>3
<1>6. ASSUME NEW i \in 1..N, NEW j \in 1..N, i < j
      PROVE  sorted[i] \in before[sorted[j]]
  <2>1. sorted[i] # sorted[j]
    BY <1>2, <1>6
  <2>2. sorted[j] \notin before[sorted[i]]
    BY <1>2, <1>6, PlacesAscend
  <2> QED
    BY <2>1, <2>2, <1>2 DEF IsOrder
<1> QED
  BY <1>1, <1>3, <1>5, <1>6

-----------------------------------------------------------------------------
(* Cutting a list.                                                         *)

LEMMA AscendingIsOrder ==
    ASSUME NEW P \in SUBSET Nat
    PROVE  DOMAIN Ascending(P) = P /\ IsOrder(Ascending(P))
<1> DEFINE before == Ascending(P)
<1>1. DOMAIN before = P /\ \A i \in P : before[i] = {j \in P : j < i}
  BY DEF Ascending
<1> HIDE DEF before
<1>2. \A i, j \in P : i \in Int /\ (i # j => i < j \/ j < i)
  OBVIOUS
<1>3. \A i, j, k \in P : i < j /\ j < k => i < k
  OBVIOUS
<1>4. \A i \in P : before[i] \subseteq P \ {i}
  BY <1>1, <1>2
<1>5. \A i, j \in P : i # j => i \in before[j] \/ j \in before[i]
  BY <1>1, <1>2
<1>6. ASSUME NEW i \in P, NEW j \in P, i \in before[j], NEW k \in before[i]
      PROVE  k \in before[j]
  <2>1. k \in P /\ k < i /\ i < j
    BY <1>1, <1>6
  <2> QED
    BY <1>1, <1>3, <2>1
<1>7. IsOrder(before)
  BY <1>1, <1>4, <1>5, <1>6 DEF IsOrder
<1> QED
  BY <1>1, <1>7 DEF before

\* A list through positions of it is a list of the same elements.
LEMMA ThroughIsSeq ==
    ASSUME NEW U, NEW seq \in Seq(U), NEW n \in Nat,
           NEW positions \in [1..n -> DOMAIN seq]
    PROVE  /\ Through(seq, positions) \in Seq(U)
           /\ Len(Through(seq, positions)) = n
           /\ DOMAIN Through(seq, positions) = 1..n
           /\ \A i \in 1..n : Through(seq, positions)[i] = seq[positions[i]]
BY DEF Through

\* What is picked are the elements at the positions, each once, in their order.
LEMMA PickedKeepsOrder ==
    ASSUME NEW U, NEW seq \in Seq(U), NEW P \in SUBSET DOMAIN seq
    PROVE  LET picked == Picked(seq, P)
               at == InOrder(Ascending(P))
           IN  /\ picked \in Seq(U)
               /\ DOMAIN picked = DOMAIN at
               /\ \A i \in DOMAIN picked : at[i] \in P /\ picked[i] = seq[at[i]]
               /\ \A i, j \in DOMAIN picked : i < j => at[i] < at[j]
               /\ \A p \in P : \E i \in DOMAIN picked : at[i] = p
<1> DEFINE before == Ascending(P)
           at == InOrder(before)
           n == Cardinality(P)
<1>1. IsFiniteSet(P) /\ P \in SUBSET Nat
  <2>1. IsFiniteSet(DOMAIN seq)
    BY FS_Interval, LenProperties
  <2> QED
    BY <2>1, FS_Subset
<1>2. DOMAIN before = P /\ IsOrder(before)
  BY <1>1, AscendingIsOrder
<1>3. /\ n \in Nat /\ DOMAIN at = 1..n
      /\ at \in [1..n -> P]
      /\ \A p \in P : \E i \in 1..n : at[i] = p
      /\ \A i, j \in 1..n : i < j => at[i] \in before[at[j]]
  BY <1>1, <1>2, SortedInOrder
<1>4. at \in [1..n -> DOMAIN seq]
  BY <1>3
<1>5. \A x \in P : \A y \in before[x] : y < x
  BY DEF Ascending
<1> HIDE DEF at, before, n
<1>6. /\ Through(seq, at) \in Seq(U) /\ DOMAIN Through(seq, at) = 1..n
      /\ \A i \in 1..n : Through(seq, at)[i] = seq[at[i]]
  BY <1>3, <1>4, ThroughIsSeq
<1>7. Picked(seq, P) = Through(seq, at)
  BY DEF Picked, at, before
<1>8. \A i, j \in 1..n : i < j => at[i] < at[j]
  BY <1>3, <1>5
<1> QED
  BY <1>3, <1>6, <1>7, <1>8 DEF at, before

\* seq[:n]
LEMMA UptoIsPrefix ==
    ASSUME NEW U, NEW seq \in Seq(U), NEW n \in Nat
    PROVE  /\ Upto(seq, n) \in Seq(U)
           /\ Len(Upto(seq, n)) <= n /\ Len(Upto(seq, n)) <= Len(seq)
           /\ \A i \in 1..Len(Upto(seq, n)) : Upto(seq, n)[i] = seq[i]
<1> DEFINE m == IF Len(seq) < n THEN Len(seq) ELSE n
<1>1. m \in Int /\ 0 <= m /\ m <= Len(seq) /\ m <= n /\ Len(seq) \in Nat
  OBVIOUS
<1>2. \A i \in 1..m : seq[i] \in U
  BY <1>1, ElementOfSeq
<1> HIDE DEF m
<1>3. /\ SubSeq(seq, 1, m) \in Seq(U)
      /\ Len(SubSeq(seq, 1, m)) = m
      /\ \A i \in 1..m : SubSeq(seq, 1, m)[i] = seq[i]
  BY <1>1, <1>2, SubSeqProperties
<1> QED
  BY <1>1, <1>3 DEF Upto, m

\* seq.index(x): a place in the list when x is there; what is found sooner has the
\* lower one.
LEMMA PlaceInOrder ==
    ASSUME NEW U, NEW seq \in Seq(U)
    PROVE  /\ \A x : PlaceIn(seq, x) \in 0..Len(seq)
           /\ \A i \in DOMAIN seq : PlaceIn(seq, seq[i]) < i
           /\ \A y : \A i \in DOMAIN seq :
                 (\A j \in 1..i : seq[j] # y) => PlaceIn(seq, seq[i]) < PlaceIn(seq, y)
<1> DEFINE unmet(x) == {n \in DOMAIN seq : \A m \in 1..n : seq[m] # x}
<1>1. Len(seq) \in Nat /\ DOMAIN seq = 1..Len(seq)
  BY LenProperties
<1>2. IsFiniteSet(DOMAIN seq) /\ Cardinality(DOMAIN seq) = Len(seq)
  BY <1>1, FS_Interval
<1>3. ASSUME NEW x
      PROVE  /\ unmet(x) \in SUBSET DOMAIN seq /\ PlaceIn(seq, x) = Cardinality(unmet(x))
             /\ IsFiniteSet(unmet(x)) /\ PlaceIn(seq, x) \in 0..Len(seq)
  <2>1. unmet(x) \in SUBSET DOMAIN seq /\ PlaceIn(seq, x) = Cardinality(unmet(x))
    BY DEF PlaceIn
  <2> QED
    BY <1>1, <1>2, <2>1, FS_Subset, FS_CardinalityType
<1>4. ASSUME NEW i \in DOMAIN seq
      PROVE  PlaceIn(seq, seq[i]) < i
  <2>1. unmet(seq[i]) \in SUBSET (1..(i - 1))
    BY <1>1
  <2>2. IsFiniteSet(1..(i - 1)) /\ Cardinality(1..(i - 1)) = i - 1
    <3> DEFINE k == i - 1
    <3>1. 1 \in Int /\ k \in Int /\ k >= 0
      BY <1>1
    <3> HIDE DEF k
    <3>2. IsFiniteSet(1..k) /\ Cardinality(1..k) = k
      BY <3>1, FS_Interval
    <3> QED
      BY <3>2 DEF k
  <2>3. Cardinality(unmet(seq[i])) <= i - 1
    BY <2>1, <2>2, FS_Subset
  <2> QED
    BY <1>1, <1>3, <2>3
<1>5. ASSUME NEW i \in DOMAIN seq, NEW y, \A j \in 1..i : seq[j] # y
      PROVE  PlaceIn(seq, seq[i]) < PlaceIn(seq, y)
  <2>0. PlaceIn(seq, seq[i]) \in 0..Len(seq) /\ PlaceIn(seq, seq[i]) < i
    <3>1. PlaceIn(seq, seq[i]) \in 0..Len(seq)
      BY <1>3
    <3>2. PlaceIn(seq, seq[i]) < i
      BY <1>4
    <3> QED
      BY <3>1, <3>2
  <2>1. 1..i \in SUBSET unmet(y)
    BY <1>1, <1>5
  <2>2. Cardinality(1..i) = i
    BY <1>1, FS_Interval
  <2>3. i <= Cardinality(unmet(y))
    BY <1>3, <2>1, <2>2, FS_Subset
  <2>4. PlaceIn(seq, y) = Cardinality(unmet(y)) /\ PlaceIn(seq, y) \in 0..Len(seq)
    BY <1>3
  <2> QED
    BY <1>1, <2>0, <2>3, <2>4
<1> QED
  BY <1>3, <1>4, <1>5

-----------------------------------------------------------------------------
(* A list in strict order has what comes before an element before it: the   *)
(* elements and the order tell the list.                                     *)

\* list is in the order R, a set of pairs.
Follows(list, R) ==
    \A i, j \in DOMAIN list : i < j => <<list[i], list[j]>> \in R

LEMMA PlaceInStrictList ==
    ASSUME NEW S, NEW list \in Seq(S), NEW R,
           \A x, y \in S : <<x, y>> \in R => <<y, x>> \notin R,
           Follows(list, R), NEW n \in DOMAIN list
    PROVE  Cardinality({x \in {list[i] : i \in DOMAIN list} : <<x, list[n]>> \in R}) = n - 1
<1> DEFINE before == {x \in {list[i] : i \in DOMAIN list} : <<x, list[n]>> \in R}
           k == n - 1
           f == [i \in 1..k |-> list[i]]
<1>1. /\ DOMAIN list = 1..Len(list) /\ Len(list) \in Nat /\ n \in 1..Len(list)
      /\ \A i \in DOMAIN list : list[i] \in S
  BY ElementOfSeq
<1>2. k \in Nat /\ k < n /\ k + 1 = n
  BY <1>1
<1> HIDE DEF k
<1>3. \A i, j \in DOMAIN list : i < j => list[i] # list[j]
  BY <1>1 DEF Follows
<1>4. f \in [1..k -> before]
  <2>1. \A i \in 1..k : i \in DOMAIN list /\ i < n
    BY <1>1, <1>2
  <2>2. \A i \in 1..k : <<list[i], list[n]>> \in R
    BY <2>1 DEF Follows
  <2> QED
    BY <2>1, <2>2
<1>5. ASSUME NEW i \in 1..k, NEW j \in 1..k, f[i] = f[j] PROVE i = j
  <2>1. i \in DOMAIN list /\ j \in DOMAIN list /\ list[i] = list[j]
    BY <1>1, <1>2, <1>5
  <2> QED
    BY <1>1, <1>3, <2>1
<1>6. ASSUME NEW x \in before PROVE \E i \in 1..k : f[i] = x
  <2>1. PICK i \in DOMAIN list : x = list[i] /\ <<list[i], list[n]>> \in R
    OBVIOUS
  <2>2. ~(n < i)
    BY <1>1, <2>1 DEF Follows
  <2>3. i # n
    BY <1>1, <2>1
  <2>4. i \in 1..k
    BY <1>1, <1>2, <2>2, <2>3
  <2> QED
    BY <2>1, <2>4
<1>7. f \in Bijection(1..k, before)
  BY <1>4, <1>5, <1>6 DEF Bijection, Injection, Surjection, IsInjective
<1>8. ExistsBijection(1..k, before)
  BY <1>7 DEF ExistsBijection
<1>9. IsFiniteSet(1..k) /\ Cardinality(1..k) = k
  BY <1>2, FS_Interval
<1>10. Cardinality(before) = k
  <2> HIDE DEF before
  <2> QED
    BY <1>8, <1>9, FS_Bijection
<1> QED
  BY <1>10 DEF k

\* Two lists of the same elements in the same strict order are one.
LEMMA StrictListsAgree ==
    ASSUME NEW S, NEW a \in Seq(S), NEW b \in Seq(S), NEW R,
           \A x, y \in S : <<x, y>> \in R => <<y, x>> \notin R,
           Follows(a, R), Follows(b, R),
           {a[i] : i \in DOMAIN a} = {b[i] : i \in DOMAIN b}
    PROVE  a = b
<1>1. /\ DOMAIN a = 1..Len(a) /\ Len(a) \in Nat
      /\ DOMAIN b = 1..Len(b) /\ Len(b) \in Nat
  OBVIOUS
<1>2. ASSUME NEW i \in DOMAIN a, NEW j \in DOMAIN b, a[i] = b[j] PROVE i = j
  <2>1. Cardinality({x \in {a[n] : n \in DOMAIN a} : <<x, a[i]>> \in R}) = i - 1
    BY PlaceInStrictList, SMTT(40)
  <2>2. Cardinality({x \in {b[n] : n \in DOMAIN b} : <<x, b[j]>> \in R}) = j - 1
    BY PlaceInStrictList, SMTT(40)
  <2>3. i - 1 = j - 1
    BY <1>2, <2>1, <2>2
  <2> QED
    BY <1>1, <2>3
<1>3. ASSUME NEW i \in DOMAIN a PROVE i \in DOMAIN b /\ a[i] = b[i]
  <2>1. PICK j \in DOMAIN b : a[i] = b[j]
    OBVIOUS
  <2> QED
    BY <1>2, <2>1
<1>4. ASSUME NEW j \in DOMAIN b PROVE j \in DOMAIN a
  <2>1. PICK i \in DOMAIN a : a[i] = b[j]
    OBVIOUS
  <2> QED
    BY <1>2, <2>1
<1>5. DOMAIN a = DOMAIN b
  BY <1>3, <1>4
<1> QED
  BY <1>1, <1>3, <1>5
=============================================================================
