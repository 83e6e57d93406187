---------------------------- MODULE FollowProofs ----------------------------
(***************************************************************************)
(* Proofs about Follow and the choice of uploads it makes.                 *)
(***************************************************************************)
EXTENDS Follow, OrderingProofs

-----------------------------------------------------------------------------
(* The choice of uploads.                                                  *)

LEMMA RankType ==
    ASSUME NEW priority \in Seq(ToSet(Alphabet)), NEW l
    PROVE  Rank(l, priority) \in Nat
<1>1. Alphabet \in Seq(STRING)
  BY UploadsAssumption
<1>2. PlaceIn(priority, l) \in 0..Len(priority) /\ Len(priority) \in Nat
  BY PlaceInOrder
<1>3. PlaceIn(Alphabet, l) \in 0..Len(Alphabet) /\ Len(Alphabet) \in Nat
  BY <1>1, PlaceInOrder
<1> QED
  BY <1>2, <1>3 DEF Rank

\* A language that beats another has the lower rank.
LEMMA BeatsIsRanked ==
    ASSUME NEW priority \in Seq(ToSet(Alphabet)), NEW m, NEW l, Beats(m, l, priority)
    PROVE  Rank(m, priority) < Rank(l, priority)
<1> DEFINE p == Len(priority)
           best == priority \o Alphabet
<1>1. Alphabet \in Seq(STRING) /\ priority \in Seq(STRING)
  BY UploadsAssumption DEF ToSet
<1>2. p \in Nat /\ Len(Alphabet) \in Nat
      /\ DOMAIN priority = 1..p /\ DOMAIN Alphabet = 1..Len(Alphabet)
  BY <1>1
<1>3. DOMAIN best = 1..(p + Len(Alphabet))
      /\ \A i \in DOMAIN best : best[i] = IF i <= p THEN priority[i] ELSE Alphabet[i - p]
  BY <1>1
<1> HIDE DEF best
<1>4. PICK i \in DOMAIN best : best[i] = m /\ \A j \in 1..i : best[j] # l
  BY DEF Beats, best
<1> DEFINE a == PlaceIn(priority, m)
           b == PlaceIn(priority, l)
           c == PlaceIn(Alphabet, m)
           d == PlaceIn(Alphabet, l)
<1>5. a \in 0..p /\ b \in 0..p /\ c \in 0..Len(Alphabet) /\ d \in 0..Len(Alphabet)
  BY <1>1, PlaceInOrder
<1>6. Rank(m, priority) = (IF m \in ToSet(priority) THEN a ELSE p + c)
      /\ Rank(l, priority) = (IF l \in ToSet(priority) THEN b ELSE p + d)
  BY DEF Rank
<1>7. m \in ToSet(priority) => a < p
  <2>1. SUFFICES ASSUME m \in ToSet(priority) PROVE a < p
    OBVIOUS
  <2>2. PICK k \in DOMAIN priority : priority[k] = m
    BY <2>1 DEF ToSet
  <2>3. a < k
    BY <1>1, <2>2, PlaceInOrder
  <2> QED
    BY <1>2, <1>5, <2>2, <2>3
<1>8. CASE i <= p
  <2>1. i \in DOMAIN priority /\ priority[i] = m /\ \A j \in 1..i : priority[j] # l
    BY <1>2, <1>3, <1>4, <1>8
  <2>2. a < b
    BY <1>1, <2>1, PlaceInOrder
  <2>3. m \in ToSet(priority)
    BY <2>1 DEF ToSet
  <2> HIDE DEF a, b, c, d
  <2> QED
    BY <1>2, <1>5, <1>6, <1>7, <2>2, <2>3
<1>9. CASE ~(i <= p)
  <2>1. l \notin ToSet(priority)
    BY <1>2, <1>3, <1>4, <1>9 DEF ToSet
  <2>2. i - p \in DOMAIN Alphabet /\ Alphabet[i - p] = m
    BY <1>2, <1>3, <1>4, <1>9
  <2>3. ASSUME NEW j \in 1..(i - p)
        PROVE  Alphabet[j] # l
    <3>1. j + p \in 1..i /\ j + p \in DOMAIN best /\ ~(j + p <= p) /\ (j + p) - p = j
      BY <1>2, <1>3, <1>4, <1>9
    <3>2. best[j + p] = Alphabet[j]
      BY <1>3, <3>1
    <3> QED
      BY <1>4, <3>1, <3>2
  <2>4. c < d
    BY <1>1, <2>2, <2>3, PlaceInOrder
  <2> HIDE DEF a, b, c, d
  <2> QED
    BY <1>2, <1>5, <1>6, <1>7, <2>1, <2>4
<1> QED
  BY <1>8, <1>9

\* The stable sort's order.
LEMMA PreferredIsOrder ==
    ASSUME NEW seq \in Seq(Uploads), NEW priority \in Seq(ToSet(Alphabet))
    PROVE  LET before == Preferred(seq, priority)
           IN  /\ DOMAIN before = Kept(seq) /\ IsFiniteSet(Kept(seq))
               /\ Kept(seq) \in SUBSET DOMAIN seq
               /\ IsOrder(before)
               /\ \A i \in Kept(seq) :
                     before[i] = {j \in Kept(seq) : Before(seq, priority, j, i)}
<1> DEFINE before == Preferred(seq, priority)
           K == Kept(seq)
           rank(i) == Rank(LanguageOf[seq[i]], priority)
<1>1. K \in SUBSET DOMAIN seq /\ DOMAIN seq = 1..Len(seq) /\ Len(seq) \in Nat
  BY DEF Kept
<1>2. IsFiniteSet(K)
  <2>1. IsFiniteSet(DOMAIN seq)
    BY <1>1, FS_Interval
  <2> QED
    BY <1>1, <2>1, FS_Subset
<1>3. DOMAIN before = K /\ \A i \in K : before[i] = {j \in K : Before(seq, priority, j, i)}
  BY DEF Preferred
<1>4. \A i \in K : rank(i) \in Nat /\ i \in Nat
  BY <1>1, RankType
<1>5. \A i, j \in K : Before(seq, priority, i, j)
                      <=> rank(i) < rank(j) \/ (rank(i) = rank(j) /\ i < j)
  BY DEF Before
<1> HIDE DEF before, K, rank
<1>6. \A i, j \in K : i # j => Before(seq, priority, i, j) \/ Before(seq, priority, j, i)
  BY <1>4, <1>5
<1>7. \A i \in K : ~Before(seq, priority, i, i)
  BY <1>4, <1>5
<1>8. ASSUME NEW i \in K, NEW j \in K, NEW k \in K,
             Before(seq, priority, i, j), Before(seq, priority, j, k)
      PROVE  Before(seq, priority, i, k)
  BY <1>4, <1>5, <1>8
<1>9. \A i \in K : before[i] \subseteq K \ {i}
  BY <1>3, <1>7
<1>10. \A i, j \in K : i # j => i \in before[j] \/ j \in before[i]
  BY <1>3, <1>6
<1>11. \A i, j \in K : i \in before[j] => before[i] \subseteq before[j]
  BY <1>3, <1>8
<1>12. IsOrder(before)
  BY <1>3, <1>9, <1>10, <1>11 DEF IsOrder
<1> QED
  BY <1>1, <1>2, <1>3, <1>12 DEF before, K

\* What _list_selected keeps: one upload of each number the library allows, wanted
\* by its readers, for every list and every priority.
LEMMA ListSelectedIsBest ==
    ASSUME NEW seq \in Seq(Uploads), NEW priority \in Seq(ToSet(Alphabet))
    PROVE  LET found == list_selected(seq, priority)
           IN  /\ found \in Seq(Uploads)
               /\ \A i, j \in DOMAIN found : NumberOf[found[i]] = NumberOf[found[j]] => i = j
               /\ ToSet(found) \subseteq Wanted(seq, priority)
               /\ {NumberOf[u] : u \in ToSet(found)}
                  = {NumberOf[u] : u \in {v \in ToSet(seq) : Allowed(v)}}
<1> DEFINE before == Preferred(seq, priority)
           K == Kept(seq)
           N == Cardinality(K)
           order == InOrder(before)
           sel == select_chapters(seq, priority)
           F == Firsts(sel)
           at == InOrder(Ascending(F))
           found == list_selected(seq, priority)
           rank(i) == Rank(LanguageOf[seq[i]], priority)
\* The sorted list.
<1>1. /\ DOMAIN before = K /\ IsFiniteSet(K) /\ K \in SUBSET DOMAIN seq /\ IsOrder(before)
      /\ \A i \in K : before[i] = {j \in K : Before(seq, priority, j, i)}
  BY PreferredIsOrder
<1>2. /\ N \in Nat /\ DOMAIN order = 1..N /\ order \in [1..N -> K]
      /\ \A x \in K : \E i \in 1..N : order[i] = x
      /\ \A i, j \in 1..N : i < j => order[i] \in before[order[j]]
  <2> HIDE DEF before, K
  <2> QED
    BY <1>1, SortedInOrder
<1>3. sel = Through(seq, order)
  BY DEF select_chapters
<1> HIDE DEF order, N, sel
<1>4. /\ sel \in Seq(Uploads) /\ DOMAIN sel = 1..N
      /\ \A i \in 1..N : sel[i] = seq[order[i]]
  <2>1. order \in [1..N -> DOMAIN seq]
    BY <1>1, <1>2
  <2> QED
    BY <1>2, <1>3, <2>1, ThroughIsSeq
\* The first of each number.
<1>5. F \in SUBSET DOMAIN sel
  BY DEF Firsts
<1>6. found = Picked(sel, F)
  BY DEF list_selected, sel
<1>7. /\ found \in Seq(Uploads) /\ DOMAIN found = DOMAIN at
      /\ \A i \in DOMAIN found : at[i] \in F /\ found[i] = sel[at[i]]
      /\ \A i, j \in DOMAIN found : i < j => at[i] < at[j]
      /\ \A p \in F : \E i \in DOMAIN found : at[i] = p
  <2> HIDE DEF F, at, found
  <2>1. LET picked == Picked(sel, F)
            here == InOrder(Ascending(F))
        IN  /\ picked \in Seq(Uploads)
            /\ DOMAIN picked = DOMAIN here
            /\ \A i \in DOMAIN picked : here[i] \in F /\ picked[i] = sel[here[i]]
            /\ \A i, j \in DOMAIN picked : i < j => here[i] < here[j]
            /\ \A p \in F : \E i \in DOMAIN picked : here[i] = p
    <3>1. sel \in Seq(Uploads)
      BY <1>4
    <3> QED
      BY <1>5, <3>1, PickedKeepsOrder
  <2> QED
    BY <1>6, <2>1 DEF at
<1>8. \A p \in F : p \in 1..N /\ \A q \in 1..(p - 1) : NumberOf[sel[q]] # NumberOf[sel[p]]
  BY <1>4 DEF Firsts
<1>9. \A p, q \in 1..N : p < q => p \in 1..(q - 1)
  BY <1>2
<1> HIDE DEF F, at, found, K, before
\* One of each number.
<1>10. \A p, q \in F : NumberOf[sel[p]] = NumberOf[sel[q]] => p = q
  <2> SUFFICES ASSUME NEW p \in F, NEW q \in F, NumberOf[sel[p]] = NumberOf[sel[q]], p # q
               PROVE  FALSE
    OBVIOUS
  <2>1. p \in 1..N /\ q \in 1..N
    BY <1>8
  <2>2. p < q \/ q < p
    BY <1>2, <2>1
  <2> QED
    BY <1>8, <1>9, <2>1, <2>2
<1>11. ASSUME NEW i \in DOMAIN found, NEW j \in DOMAIN found,
              NumberOf[found[i]] = NumberOf[found[j]]
       PROVE  i = j
  <2>1. at[i] = at[j]
    BY <1>7, <1>10, <1>11
  <2>2. i \in Nat /\ j \in Nat
    BY <1>7
  <2>3. ~(i < j) /\ ~(j < i)
    <3>1. at[i] \in 1..N /\ at[j] \in 1..N
      BY <1>7, <1>8
    <3> QED
      BY <1>2, <1>7, <2>1, <3>1
  <2> QED
    BY <2>2, <2>3
\* Each of them wanted.
<1>12. ASSUME NEW i \in DOMAIN found
       PROVE  found[i] \in Wanted(seq, priority)
  <2> DEFINE p == at[i]
             k == order[p]
  <2>1. p \in F /\ p \in 1..N /\ k \in K /\ k \in DOMAIN seq
        /\ found[i] = seq[k] /\ sel[p] = seq[k]
    BY <1>1, <1>2, <1>4, <1>7, <1>8
  <2> HIDE DEF p, k
  <2>2. ASSUME NEW j \in DOMAIN seq, Allowed(seq[j]), NumberOf[seq[j]] = NumberOf[seq[k]]
        PROVE  j = k \/ Before(seq, priority, k, j)
    <3>1. j \in K
      BY <2>2 DEF Kept, K
    <3>2. PICK q \in 1..N : order[q] = j
      BY <1>2, <3>1
    <3>3. ~(q < p)
      BY <1>4, <1>8, <1>9, <2>1, <2>2, <3>2
    <3>4. CASE q = p
      BY <3>2, <3>4 DEF k
    <3>5. CASE p < q
      <4>1. k \in before[j]
        BY <1>2, <2>1, <3>2, <3>5 DEF k
      <4> QED
        BY <1>1, <3>1, <4>1
    <3> QED
      BY <1>2, <2>1, <3>3, <3>4, <3>5
  <2>3. Allowed(seq[k])
    BY <2>1 DEF Kept, K
  <2>4. ASSUME NEW j \in DOMAIN seq, Allowed(seq[j]), NumberOf[seq[j]] = NumberOf[seq[k]]
        PROVE  /\ ~Beats(LanguageOf[seq[j]], LanguageOf[seq[k]], priority)
               /\ j < k => LanguageOf[seq[j]] # LanguageOf[seq[k]]
    <3>1. rank(j) \in Nat /\ rank(k) \in Nat /\ j \in Nat /\ k \in Nat
      BY <2>1, RankType
    <3>2. j = k \/ rank(k) < rank(j) \/ (rank(k) = rank(j) /\ k < j)
      BY <2>2, <2>4 DEF Before
    <3>3. Beats(LanguageOf[seq[j]], LanguageOf[seq[k]], priority) => rank(j) < rank(k)
      BY BeatsIsRanked
    <3>4. LanguageOf[seq[j]] = LanguageOf[seq[k]] => rank(j) = rank(k)
      OBVIOUS
    <3> HIDE DEF rank
    <3> QED
      BY <3>1, <3>2, <3>3, <3>4
  <2> QED
    BY <2>1, <2>3, <2>4 DEF Wanted
\* No number left out: a number met is met for a first time.
<1>13. ASSUME NEW p \in 1..N
       PROVE  \E i \in DOMAIN found : NumberOf[found[i]] = NumberOf[sel[p]]
  <2> DEFINE same == {q \in 1..N : NumberOf[sel[q]] = NumberOf[sel[p]]}
             low == InOrder(Ascending(same))
  <2>1. /\ DOMAIN low = 1..Cardinality(same) /\ Cardinality(same) \in Nat
        /\ low \in [1..Cardinality(same) -> same]
        /\ \A q \in same : \E n \in 1..Cardinality(same) : low[n] = q
        /\ \A m, n \in 1..Cardinality(same) : m < n => low[m] \in Ascending(same)[low[n]]
    <3>0. N \in Nat
      BY <1>2
    <3>1. same \in SUBSET Nat /\ same \in SUBSET (1..N) /\ IsFiniteSet(1..N)
      BY <3>0, FS_Interval
    <3>2. IsFiniteSet(same)
      BY <3>1, FS_Subset
    <3> HIDE DEF same
    <3>3. DOMAIN Ascending(same) = same /\ IsOrder(Ascending(same))
      BY <3>1, AscendingIsOrder
    <3> QED
      BY <3>2, <3>3, SortedInOrder
  <2>2. p \in same /\ \A q \in same : q \in 1..N
    OBVIOUS
  <2>3. \A r \in same : Ascending(same)[r] = {q \in same : q < r}
    BY DEF Ascending
  <2> HIDE DEF low
  <2>4. 1 \in 1..Cardinality(same) /\ low[1] \in same
    BY <2>1, <2>2
  <2>5. \A q \in same : ~(q < low[1])
    <3> SUFFICES ASSUME NEW q \in same PROVE ~(q < low[1])
      OBVIOUS
    <3>1. PICK n \in 1..Cardinality(same) : low[n] = q
      BY <2>1
    <3>2. n = 1 \/ 1 < n
      BY <2>1, <3>1
    <3>3. q = low[1] \/ low[1] < q
      BY <2>1, <2>3, <2>4, <3>1, <3>2
    <3>4. q \in Int /\ low[1] \in Int
      BY <2>2, <2>4
    <3> QED
      BY <3>3, <3>4
  <2>6. low[1] \in F
    <3>1. low[1] \in 1..N /\ NumberOf[sel[low[1]]] = NumberOf[sel[p]]
      BY <2>4
    <3>2. ASSUME NEW q \in 1..(low[1] - 1)
          PROVE  NumberOf[sel[q]] # NumberOf[sel[low[1]]]
      <4>1. q \in 1..N /\ q < low[1]
        BY <1>2, <3>1
      <4> QED
        BY <2>5, <3>1, <4>1
    <3> QED
      BY <1>4, <3>1, <3>2 DEF Firsts, F
  <2>7. PICK i \in DOMAIN found : at[i] = low[1]
    BY <1>7, <2>6
  <2> QED
    BY <1>7, <2>4, <2>7
<1>14. {NumberOf[u] : u \in ToSet(found)} = {NumberOf[u] : u \in {v \in ToSet(seq) : Allowed(v)}}
  <2>1. ASSUME NEW u \in ToSet(found)
        PROVE  u \in ToSet(seq) /\ Allowed(u)
    <3>1. PICK i \in DOMAIN found : found[i] = u
      BY DEF ToSet
    <3> QED
      BY <1>12, <3>1 DEF Wanted, ToSet
  <2>2. ASSUME NEW v \in ToSet(seq), Allowed(v)
        PROVE  \E u \in ToSet(found) : NumberOf[u] = NumberOf[v]
    <3>1. PICK k \in DOMAIN seq : seq[k] = v
      BY DEF ToSet
    <3>2. k \in K
      BY <2>2, <3>1 DEF Kept, K
    <3>3. PICK p \in 1..N : order[p] = k
      BY <1>2, <3>2
    <3>4. PICK i \in DOMAIN found : NumberOf[found[i]] = NumberOf[sel[p]]
      BY <1>13
    <3> QED
      BY <1>4, <3>1, <3>3, <3>4 DEF ToSet
  <2> QED
    BY <2>1, <2>2
<1>15. ToSet(found) \subseteq Wanted(seq, priority)
  BY <1>12 DEF ToSet
<1> QED
  BY <1>7, <1>11, <1>14, <1>15 DEF found

-----------------------------------------------------------------------------
(* The missing chapters, and the queue they go to.                         *)

LEMMA HigherIsOrder ==
    ASSUME NEW seq \in Seq(Uploads)
    PROVE  /\ DOMAIN Higher(seq) = DOMAIN seq /\ IsFiniteSet(DOMAIN seq)
           /\ IsOrder(Higher(seq))
<1> DEFINE before == Higher(seq)
           D == DOMAIN seq
           number(i) == NumberOf[seq[i]]
           above(j, i) == number(j) > number(i) \/ (number(j) = number(i) /\ j < i)
<1>1. D = 1..Len(seq) /\ Len(seq) \in Nat
  OBVIOUS
<1>2. IsFiniteSet(D)
  BY <1>1, FS_Interval
<1>3. DOMAIN before = D /\ \A i \in D : before[i] = {j \in D : above(j, i)}
  BY DEF Higher
<1>4. \A i \in D : number(i) \in Nat /\ i \in Nat
  BY <1>1, UploadsAssumption
<1> HIDE DEF before, D, number
<1>5. \A i \in D : before[i] \subseteq D \ {i}
  BY <1>3, <1>4
<1>6. \A i, j \in D : i # j => i \in before[j] \/ j \in before[i]
  BY <1>3, <1>4
<1>7. ASSUME NEW i \in D, NEW j \in D, i \in before[j], NEW k \in before[i]
      PROVE  k \in before[j]
  <2>1. k \in D /\ above(k, i) /\ above(i, j)
    BY <1>3, <1>7
  <2>2. above(k, j)
    BY <1>4, <2>1
  <2> QED
    BY <1>3, <2>1, <2>2
<1>8. IsOrder(before)
  BY <1>3, <1>5, <1>6, <1>7 DEF IsOrder
<1> QED
  BY <1>2, <1>3, <1>8 DEF before, D

LEMMA CutType ==
    ASSUME NEW c \in Callers, call[c] \in CallType, NEW seq \in Seq(Uploads)
    PROVE  Cut(c, seq) \in Seq(Uploads)
<1>1. call[c].count \in Nat
  BY DEF CallType
<1> DEFINE before == Higher(seq)
           down == Through(seq, InOrder(before))
<1>2. DOMAIN before = DOMAIN seq /\ IsFiniteSet(DOMAIN before) /\ IsOrder(before)
  BY HigherIsOrder
<1> HIDE DEF before
<1>3. PICK n \in Nat : InOrder(before) \in [1..n -> DOMAIN seq]
  BY <1>2, SortedInOrder
<1>4. down \in Seq(Uploads)
  BY <1>3, ThroughIsSeq
<1> HIDE DEF down
<1>5. Upto(down, call[c].count) \in Seq(Uploads)
  BY <1>1, <1>4, UptoIsPrefix
<1> QED
  BY <1>5 DEF Cut, down, before

\* What a call enqueues fits into the queue.
LEMMA AcceptedFits ==
    ASSUME NEW c \in Callers, call[c] \in CallType, queue \in Seq(Uploads),
           Len(queue) <= QueueSize
    PROVE  /\ Accepted(c) \in Seq(Uploads)
           /\ Len(Accepted(c)) \in Nat
           /\ queue \o Accepted(c) \in Seq(Uploads)
           /\ Len(queue \o Accepted(c)) <= QueueSize
<1> DEFINE found == call[c].found
           P == {n \in DOMAIN found : found[n] \notin stored}
<1>1. found \in Seq(Uploads)
  BY DEF CallType
<1>2. P \in SUBSET DOMAIN found
  OBVIOUS
<1> HIDE DEF found, P
<1>3. Picked(found, P) \in Seq(Uploads)
  BY <1>1, <1>2, PickedKeepsOrder
<1>4. Missing(c) = Cut(c, Picked(found, P))
  BY DEF Missing, found, P
<1>5. Missing(c) \in Seq(Uploads)
  BY <1>3, <1>4, CutType
<1>6. Room \in Nat /\ Len(queue) \in Nat /\ Room = QueueSize - Len(queue) /\ QueueSize \in Nat
  BY FollowAssumption DEF Room
<1> DEFINE accepted == Upto(Missing(c), Room)
<1>7. accepted \in Seq(Uploads) /\ Len(accepted) <= Room
  BY <1>5, <1>6, UptoIsPrefix
<1> HIDE DEF accepted
<1>8. queue \o accepted \in Seq(Uploads) /\ Len(queue \o accepted) = Len(queue) + Len(accepted)
      /\ Len(accepted) \in Nat
  BY <1>7
<1> QED
  BY <1>6, <1>7, <1>8 DEF Accepted, accepted

\* A cut by count and the queue's room leave out no higher number than they keep.
LEMMA AcceptedAreLatest ==
    ASSUME NEW c \in Callers, call[c] \in CallType, call[c].count > 0,
           queue \in Seq(Uploads), Len(queue) <= QueueSize,
           NEW n \in DOMAIN Accepted(c),
           NEW v \in ToSet(call[c].found), v \notin stored,
           \A m \in DOMAIN Accepted(c) : Accepted(c)[m] # v
    PROVE  NumberOf[Accepted(c)[n]] >= NumberOf[v]
<1> DEFINE found == call[c].found
           P == {i \in DOMAIN found : found[i] \notin stored}
           seq == Picked(found, P)
           at == InOrder(Ascending(P))
           before == Higher(seq)
           hi == InOrder(before)
           down == Through(seq, hi)
           missing == Upto(down, call[c].count)
           accepted == Upto(missing, Room)
<1>1. found \in Seq(Uploads) /\ call[c].count \in Nat
  BY DEF CallType
<1>2. P \in SUBSET DOMAIN found
  OBVIOUS
<1>3. PICK p \in P : found[p] = v
  BY DEF ToSet
<1>4. accepted = Accepted(c)
  BY DEF Accepted, Missing, Cut
<1> HIDE DEF found, P
<1>5. /\ seq \in Seq(Uploads) /\ DOMAIN seq = DOMAIN at
      /\ \A i \in DOMAIN seq : seq[i] = found[at[i]]
      /\ \E i \in DOMAIN seq : at[i] = p
  BY <1>1, <1>2, PickedKeepsOrder
<1> HIDE DEF seq, at
<1>6. PICK i \in DOMAIN seq : seq[i] = v
  BY <1>3, <1>5
<1>7. DOMAIN before = DOMAIN seq /\ IsFiniteSet(DOMAIN before) /\ IsOrder(before)
  BY <1>5, HigherIsOrder
<1>8. \A j, k \in DOMAIN seq : j \in before[k] => NumberOf[seq[j]] >= NumberOf[seq[k]]
  <2>1. \A j \in DOMAIN seq : NumberOf[seq[j]] \in Nat
    BY <1>5, UploadsAssumption
  <2> QED
    BY <2>1 DEF Higher
<1> HIDE DEF before
<1>9. PICK N \in Nat : /\ hi \in [1..N -> DOMAIN seq]
                      /\ \A x \in DOMAIN seq : \E m \in 1..N : hi[m] = x
                      /\ \A j, k \in 1..N : j < k => hi[j] \in before[hi[k]]
  BY <1>7, SortedInOrder
<1> HIDE DEF hi
<1>10. /\ down \in Seq(Uploads) /\ Len(down) = N
       /\ \A k \in 1..N : down[k] = seq[hi[k]]
  <2>1. seq \in Seq(Uploads) /\ hi \in [1..N -> DOMAIN seq]
    BY <1>5, <1>9
  <2> QED
    BY <2>1, ThroughIsSeq
<1> HIDE DEF down
<1>11. /\ missing \in Seq(Uploads) /\ Len(missing) <= N
       /\ \A k \in 1..Len(missing) : missing[k] = down[k]
  BY <1>1, <1>10, UptoIsPrefix
<1> HIDE DEF missing
<1>12. Room \in Nat
  BY FollowAssumption DEF Room
<1>13. /\ accepted \in Seq(Uploads) /\ Len(accepted) <= Len(missing)
       /\ \A k \in 1..Len(accepted) : accepted[k] = missing[k]
  BY <1>11, <1>12, UptoIsPrefix
<1>14. n \in DOMAIN accepted /\ \A m \in DOMAIN accepted : accepted[m] # v
  BY <1>4
<1> HIDE DEF accepted
<1>15. /\ Len(accepted) \in Nat /\ Len(missing) \in Nat /\ DOMAIN accepted = 1..Len(accepted)
       /\ \A k \in 1..Len(accepted) : k \in 1..N /\ accepted[k] = seq[hi[k]]
  BY <1>10, <1>11, <1>13
<1>16. PICK k \in 1..N : hi[k] = i
  BY <1>6, <1>9
<1>17. n < k
  BY <1>6, <1>14, <1>15, <1>16
<1>18. NumberOf[seq[hi[n]]] >= NumberOf[seq[hi[k]]]
  BY <1>8, <1>9, <1>14, <1>15, <1>17
<1> QED
  BY <1>4, <1>6, <1>14, <1>15, <1>16, <1>18

-----------------------------------------------------------------------------
(* The tasks that the logs in the sessions count, as pairs.                *)

Tasks(counts) == UNION {{c} \X (1..counts[c]) : c \in Callers}

\* A caller that counts n tasks where it counted others.
LEMMA TasksRecounted ==
    ASSUME NEW counts \in [Callers -> Nat], IsFiniteSet(Tasks(counts)),
           NEW c \in Callers, NEW n \in Nat
    PROVE  LET new == [counts EXCEPT ![c] = n]
           IN  /\ IsFiniteSet(Tasks(new))
               /\ Cardinality(Tasks(new)) = (Cardinality(Tasks(counts)) - counts[c]) + n
<1> DEFINE others == UNION {{d} \X (1..counts[d]) : d \in Callers \ {c}}
           new == [counts EXCEPT ![c] = n]
           own(k) == {c} \X (1..k)
<1>1. ASSUME NEW k \in Nat
      PROVE  IsFiniteSet(own(k)) /\ Cardinality(own(k)) = k /\ own(k) \cap others = {}
  <2>1. IsFiniteSet({c}) /\ Cardinality({c}) = 1
    BY FS_Singleton
  <2>2. IsFiniteSet(1..k) /\ Cardinality(1..k) = k
    BY FS_Interval, SMTT(30)
  <2> DEFINE one == {c}
             upto == 1..k
             a == Cardinality(one)
             b == Cardinality(upto)
  <2>3. IsFiniteSet(one) /\ a = 1 /\ IsFiniteSet(upto) /\ b = k
    BY <2>1, <2>2
  <2> HIDE DEF one, upto
  <2>4. IsFiniteSet(one \X upto) /\ Cardinality(one \X upto) = a * b
    BY <2>3, FS_Product
  <2> HIDE DEF a, b
  <2>5. IsFiniteSet(one \X upto) /\ Cardinality(one \X upto) = k
    BY <2>3, <2>4
  <2>6. own(k) \cap others = {}
    OBVIOUS
  <2> QED
    BY <2>5, <2>6 DEF one, upto
<1>2. Tasks(counts) = others \cup own(counts[c])
  BY DEF Tasks
<1>3. Tasks(new) = others \cup own(n)
  <2>1. \A d \in Callers \ {c} : {d} \X (1..new[d]) = {d} \X (1..counts[d])
    OBVIOUS
  <2>2. {c} \X (1..new[c]) = own(n)
    OBVIOUS
  <2> HIDE DEF new
  <2>3. Tasks(new) = (UNION {{d} \X (1..new[d]) : d \in Callers \ {c}}) \cup {c} \X (1..new[c])
    BY DEF Tasks
  <2> QED
    BY <2>1, <2>2, <2>3
<1>4. IsFiniteSet(others)
  BY <1>2, FS_Subset
<1> HIDE DEF others, own, new
<1>5. \A k \in Nat : IsFiniteSet(others \cup own(k))
                     /\ Cardinality(others \cup own(k)) = Cardinality(others) + k
  <2> SUFFICES ASSUME NEW k \in Nat
               PROVE  IsFiniteSet(others \cup own(k))
                      /\ Cardinality(others \cup own(k)) = Cardinality(others) + k
    OBVIOUS
  <2>1. others \cap own(k) = {} /\ IsFiniteSet(own(k)) /\ Cardinality(own(k)) = k
    BY <1>1
  <2>2. Cardinality({}) = 0 /\ Cardinality(others) \in Nat
    BY <1>4, FS_EmptySet, FS_CardinalityType
  <2> DEFINE mine == own(k)
  <2> HIDE DEF mine
  <2>3. IsFiniteSet(mine) /\ Cardinality(mine) = k /\ others \cap mine = {}
    BY <2>1 DEF mine
  <2>4. /\ IsFiniteSet(others \cup mine)
        /\ Cardinality(others \cup mine)
           = Cardinality(others) + Cardinality(mine) - Cardinality(others \cap mine)
    BY <1>4, <2>3, FS_Union
  <2> DEFINE a == Cardinality(others)
             b == Cardinality(others \cap mine)
             m == Cardinality(others \cup mine)
  <2>6. b = 0 /\ a \in Nat /\ m = a + k - b
    BY <2>2, <2>3, <2>4
  <2> HIDE DEF a, b, m
  <2>7. m = a + k
    BY <2>6
  <2>5. IsFiniteSet(others \cup mine) /\ Cardinality(others \cup mine) = Cardinality(others) + k
    BY <2>4, <2>7 DEF a, m
  <2> QED
    BY <2>5 DEF mine
<1>6. counts[c] \in Nat /\ Cardinality(others) \in Nat
  BY <1>4, FS_CardinalityType
<1>7. /\ Cardinality(Tasks(counts)) = Cardinality(others) + counts[c]
      /\ Cardinality(Tasks(new)) = Cardinality(others) + n
      /\ IsFiniteSet(Tasks(new))
  BY <1>2, <1>3, <1>5, <1>6
<1>8. Cardinality(Tasks(new)) = (Cardinality(Tasks(counts)) - counts[c]) + n
  BY <1>6, <1>7
<1> QED
  BY <1>7, <1>8 DEF new

-----------------------------------------------------------------------------
(* The inductive invariant.                                                *)

Count(r, s) == IF r.logs[s] = None THEN 0 ELSE r.logs[s]

LoggedIn(r) == {s \in Series : r.logs[s] # None}

InHand(r) == IF r.pc \in {"list", "diff"} THEN {r.series} ELSE {}

\* What a sweep or a check began with is still to do, in hand, logged or an error, and
\* only one of them.
CallOK(r) ==
    /\ InHand(r) \subseteq Series \ r.left
    /\ LoggedIn(r) \cap (r.left \cup InHand(r)) = {}
    /\ r.kind = "backfill" \/ r.pc = "idle" => LoggedIn(r) = {}
    /\ r.kind = "backfill" => r.pc # "commit"
    /\ r.pc = "commit" => r.left = {}
    /\ \/ r.pc = "idle" \/ r.kind = "backfill"
       \/ r.first = r.left \cup InHand(r) \cup LoggedIn(r) \cup r.errors
    /\ r.errors \cap (r.left \cup InHand(r) \cup LoggedIn(r)) = {}
    /\ r.kind = "check" => \A x, y \in r.first : x = y

FollowInv ==
    /\ TypeOK
    /\ \A c \in Callers : CallOK(call[c])
    /\ \A s \in Series : IsFiniteSet(LoggedTasks(s))
    /\ LogsCountTasks

LEMMA DefaultPriorityType == DEFAULT_PRIORITY \in Seq(ToSet(Alphabet))
BY UploadsAssumption DEF DEFAULT_PRIORITY

LEMMA RestingOK ==
    Resting \in CallType /\ CallOK(Resting) /\ LoggedIn(Resting) = {}
<1>1. Resting \in CallType
  BY DefaultPriorityType DEF Resting, CallType, NoLogs
<1>2. LoggedIn(Resting) = {}
  BY DEF LoggedIn, Resting, NoLogs
<1>3. CallOK(Resting)
  BY <1>2 DEF CallOK, InHand, Resting
<1> QED
  BY <1>1, <1>2, <1>3

LEMMA CountType ==
    ASSUME NEW r \in CallType, NEW s \in Series
    PROVE  Count(r, s) \in Nat /\ (s \notin LoggedIn(r) => Count(r, s) = 0)
BY DEF Count, CallType, LoggedIn

LEMMA LoggedTasksAreTasks ==
    ASSUME NEW s \in Series
    PROVE  LoggedTasks(s) = Tasks([c \in Callers |-> Counted(c, s)])
BY DEF LoggedTasks, Tasks

\* A step of one call: the history counts what the call's logs gained or lost.
LEMMA CallReplaced ==
    ASSUME FollowInv, NEW c \in Callers, NEW new \in CallType, CallOK(new),
           call' = [call EXCEPT ![c] = new],
           unlogged' = [s \in Series |-> (unlogged[s] - Counted(c, s)) + Count(new, s)]
    PROVE  /\ call' \in [Callers -> CallType]
           /\ unlogged' \in [Series -> Nat]
           /\ \A d \in Callers : CallOK(call'[d])
           /\ \A s \in Series : IsFiniteSet(LoggedTasks(s)')
           /\ LogsCountTasks'
<1>1. call \in [Callers -> CallType]
  BY DEF FollowInv, TypeOK
<1>2. \A d \in Callers : call'[d] = IF d = c THEN new ELSE call[d]
  BY <1>1
<1>3. \A d \in Callers : CallOK(call'[d])
  <2>1. \A d \in Callers : CallOK(call[d])
    BY DEF FollowInv
  <2> QED
    BY <1>2, <2>1
<1>4. ASSUME NEW s \in Series
      PROVE  /\ IsFiniteSet(LoggedTasks(s)')
             /\ Cardinality(LoggedTasks(s)') = unlogged'[s]
             /\ unlogged'[s] \in Nat
  <2> DEFINE counts == [d \in Callers |-> Counted(d, s)]
             recounted == [counts EXCEPT ![c] = Count(new, s)]
  <2>1. \A d \in Callers : Counted(d, s) = Count(call[d], s) /\ Counted(d, s) \in Nat
    BY <1>1, CountType DEF Counted, Count
  <2>2. counts \in [Callers -> Nat] /\ counts[c] = Counted(c, s)
    BY <2>1
  <2>3. Count(new, s) \in Nat
    BY CountType
  <2>4. IsFiniteSet(Tasks(counts)) /\ unlogged[s] = Cardinality(Tasks(counts))
    BY LoggedTasksAreTasks DEF FollowInv, LogsCountTasks
  <2>5. LoggedTasks(s)' = Tasks(recounted)
    <3>1. \A d \in Callers : Counted(d, s)' = recounted[d]
      BY <1>2 DEF Counted, Count
    <3>2. LoggedTasks(s)' = UNION {{d} \X (1..Counted(d, s)') : d \in Callers}
      BY DEF LoggedTasks
    <3> HIDE DEF recounted
    <3> QED
      BY <3>1, <3>2 DEF Tasks
  <2>6. unlogged'[s] = (unlogged[s] - Counted(c, s)) + Count(new, s)
    OBVIOUS
  <2> HIDE DEF counts
  <2>7. /\ IsFiniteSet(Tasks(recounted))
        /\ Cardinality(Tasks(recounted))
           = (Cardinality(Tasks(counts)) - counts[c]) + Count(new, s)
    BY <2>2, <2>3, <2>4, TasksRecounted
  <2> HIDE DEF recounted
  <2> QED
    BY <2>2, <2>4, <2>5, <2>6, <2>7, FS_CardinalityType
<1>5. unlogged' = [s \in Series |-> unlogged'[s]]
  OBVIOUS
<1>6. unlogged' \in [Series -> Nat]
  BY <1>4, <1>5
<1> QED
  BY <1>1, <1>3, <1>4, <1>6 DEF LogsCountTasks

\* A step of one call that changes only the queue and the failures besides.
LEMMA CallSteps ==
    ASSUME FollowInv, NEW c \in Callers, NEW new \in CallType, CallOK(new),
           call' = [call EXCEPT ![c] = new],
           \A s \in Series : unlogged'[s] = (unlogged[s] - Counted(c, s)) + Count(new, s),
           unlogged' = [s \in Series |-> unlogged'[s]],
           UNCHANGED <<listing, deleted, stored>>, due' \subseteq due,
           queue' \in Seq(Uploads), Len(queue') <= QueueSize, faults' \in 0..MaxFaults
    PROVE  FollowInv'
<1>1. unlogged' = [s \in Series |-> (unlogged[s] - Counted(c, s)) + Count(new, s)]
  OBVIOUS
<1>2. /\ call' \in [Callers -> CallType]
      /\ unlogged' \in [Series -> Nat]
      /\ \A d \in Callers : CallOK(call'[d])
      /\ \A s \in Series : IsFiniteSet(LoggedTasks(s)')
      /\ LogsCountTasks'
  BY <1>1, CallReplaced
<1>3. TypeOK'
  BY <1>2 DEF TypeOK, FollowInv
<1> QED
  BY <1>2, <1>3 DEF FollowInv

\* The same for a step that leaves the history alone: the logs of the call count as before.
LEMMA UncountedSteps ==
    ASSUME FollowInv, NEW c \in Callers, NEW new \in CallType, CallOK(new),
           call' = [call EXCEPT ![c] = new], unlogged' = unlogged,
           \A s \in Series : Count(new, s) = Counted(c, s),
           UNCHANGED <<listing, deleted, due, stored>>,
           queue' \in Seq(Uploads), Len(queue') <= QueueSize, faults' \in 0..MaxFaults
    PROVE  FollowInv'
<1>1. unlogged \in [Series -> Nat] /\ call[c] \in CallType
  BY DEF FollowInv, TypeOK
<1>2. \A s \in Series : Counted(c, s) \in Nat
  BY <1>1, CountType DEF Counted, Count
<1>3. \A s \in Series : unlogged'[s] = (unlogged[s] - Counted(c, s)) + Count(new, s)
  BY <1>1, <1>2
<1>4. unlogged' = [s \in Series |-> unlogged'[s]]
  BY <1>1
<1> QED
  BY <1>3, <1>4, CallSteps

LEMMA BeginStep ==
    ASSUME FollowInv, NEW c \in Callers, NEW kind \in {"sweep", "check", "backfill"},
           NEW first \in SUBSET Series, kind = "backfill" => first # {},
           kind = "check" => \A x, y \in first : x = y,
           NEW priority \in Seq(ToSet(Alphabet)), NEW count \in Nat,
           Begin(c, kind, first, priority, count)
    PROVE  FollowInv'
<1> DEFINE new == [Resting EXCEPT
                     !.pc = IF first = {} THEN "commit" ELSE "load",
                     !.kind = kind, !.first = first, !.left = first,
                     !.priority = priority, !.count = count]
<1>1. new \in CallType /\ LoggedIn(new) = {}
  BY RestingOK DEF CallType, LoggedIn, Resting, NoLogs
<1>2. CallOK(new)
  BY <1>1 DEF CallOK, InHand, Resting
<1>3. LoggedIn(call[c]) = {} /\ call[c] \in CallType
  BY DEF Begin, FollowInv, CallOK, TypeOK
<1>4. call' = [call EXCEPT ![c] = new]
  BY DEF Begin
<1> HIDE DEF new
<1>5. \A s \in Series : Count(new, s) = Counted(c, s)
  <2>1. \A s \in Series : Count(new, s) = 0
    BY <1>1, CountType
  <2>2. \A s \in Series : Count(call[c], s) = 0
    BY <1>3, CountType
  <2> QED
    BY <2>1, <2>2 DEF Count, Counted
<1> QED
  BY <1>1, <1>2, <1>4, <1>5, UncountedSteps DEF Begin, world, FollowInv, TypeOK

LEMMA LoadStep ==
    ASSUME FollowInv, NEW c \in Callers, NEW s \in Series, Load(c, s)
    PROVE  FollowInv'
<1> DEFINE r == call[c]
           new == [r EXCEPT !.pc = "list", !.series = s, !.left = @ \ {s}]
<1>1. r \in CallType /\ CallOK(r) /\ r.pc = "load" /\ s \in r.left
  BY DEF Load, FollowInv, TypeOK
<1>2. call' = [call EXCEPT ![c] = new]
  BY <1>1 DEF Load, FollowInv, TypeOK, CallType
<1> HIDE DEF r
<1>3. new \in CallType /\ LoggedIn(new) = LoggedIn(r) /\ new.logs = r.logs
  BY <1>1 DEF CallType, LoggedIn
<1>4. CallOK(new)
  <2>1. /\ new.left = r.left \ {s} /\ new.pc = "list" /\ new.series = s /\ new.kind = r.kind
        /\ new.first = r.first /\ new.errors = r.errors
    BY <1>1 DEF CallType
  <2> HIDE DEF new
  <2>2. InHand(new) = {s} /\ InHand(r) = {}
    BY <1>1, <2>1 DEF InHand
  <2>3. s \in r.left /\ r.left \cap LoggedIn(r) = {}
    BY <1>1 DEF CallOK
  <2> QED
    BY <1>1, <1>3, <2>1, <2>2, <2>3 DEF CallOK
<1> HIDE DEF new
<1>5. \A x \in Series : Count(new, x) = Counted(c, x)
  BY <1>3 DEF Count, Counted, r
<1> QED
  BY <1>2, <1>3, <1>4, <1>5, UncountedSteps DEF Load, world, FollowInv, TypeOK

\* The call once a series is done, where After does not end it.
LEMMA AfterOK ==
    ASSUME NEW c \in Callers, call[c] \in CallType, call[c].kind # "backfill",
           NEW left \in SUBSET Series
    PROVE  LET r == call[c]
               new == After(c, left)
           IN  /\ new \in CallType
               /\ new.pc = (IF left = {} THEN "commit" ELSE "load") /\ new.left = left
               /\ new.kind = r.kind /\ new.first = r.first /\ new.errors = r.errors
               /\ new.logs = r.logs /\ LoggedIn(new) = LoggedIn(r)
               /\ InHand(new) = {}
<1> DEFINE r == call[c]
           pc == IF left = {} THEN "commit" ELSE "load"
           new == [r EXCEPT !.pc = pc, !.left = left, !.series = None, !.found = <<>>]
<1>1. After(c, left) = new
  BY DEF After
<1> HIDE DEF r
<1>2. r \in CallType /\ pc \in {"load", "commit"}
  BY DEF r
<1> HIDE DEF pc
<1>3. /\ new.pc = pc /\ new.left = left /\ new.kind = r.kind /\ new.first = r.first
      /\ new.errors = r.errors /\ new.logs = r.logs
  BY <1>2 DEF CallType
<1>4. new \in CallType
  <2>1. <<>> \in Seq(Uploads)
    OBVIOUS
  <2> QED
    BY <1>2, <2>1 DEF CallType
<1> HIDE DEF new
<1>5. LoggedIn(new) = LoggedIn(r) /\ InHand(new) = {}
  BY <1>2, <1>3 DEF LoggedIn, InHand
<1> QED
  BY <1>1, <1>3, <1>4, <1>5 DEF r, pc

\* A series that is not loaded, because it was deleted or for an error.
LEMMA NotLoadedStep ==
    ASSUME FollowInv, NEW c \in Callers, NEW s \in Series,
           SeriesNotFound(c, s) \/ LoadFails(c, s)
    PROVE  FollowInv'
<1> DEFINE r == call[c]
           after == After(c, r.left \ {s})
           new == IF r.kind # "sweep" THEN Resting
                  ELSE [after EXCEPT !.errors = r.errors \cup {s}]
<1>1. r \in CallType /\ CallOK(r) /\ r.pc = "load" /\ s \in r.left
  BY DEF SeriesNotFound, LoadFails, FollowInv, TypeOK
<1>2. call' = [call EXCEPT ![c] = new]
  BY DEF SeriesNotFound, LoadFails, NotLoaded
<1>3. /\ UNCHANGED <<listing, deleted, due, stored, unlogged>> /\ faults' \in 0..MaxFaults
      /\ queue' \in Seq(Uploads) /\ Len(queue') <= QueueSize
  BY FollowAssumption DEF SeriesNotFound, LoadFails, world, FollowInv, TypeOK
<1>4. CASE r.kind # "sweep"
  <2>1. LoggedIn(r) = {}
    <3>1. r.kind = "check" \/ r.kind = "backfill"
      BY <1>1, <1>4 DEF CallType
    <3>2. CASE r.kind = "check"
      <4>1. /\ \A x, y \in r.first : x = y
            /\ r.first = r.left \cup InHand(r) \cup LoggedIn(r) \cup r.errors
            /\ LoggedIn(r) \cap r.left = {}
        BY <1>1, <3>2 DEF CallOK
      <4> QED
        BY <1>1, <4>1
    <3>3. CASE r.kind = "backfill"
      BY <1>1, <3>3 DEF CallOK
    <3> QED
      BY <3>1, <3>2, <3>3
  <2>2. new = Resting /\ new \in CallType /\ CallOK(new) /\ LoggedIn(new) = {}
    BY <1>4, RestingOK
  <2> HIDE DEF new
  <2>3. \A x \in Series : Count(new, x) = Counted(c, x)
    <3>1. \A x \in Series : Count(new, x) = 0 /\ Count(r, x) = 0
      BY <1>1, <2>1, <2>2, CountType
    <3> QED
      BY <3>1 DEF Count, Counted
  <2> QED
    BY <1>2, <1>3, <2>2, <2>3, UncountedSteps
<1>5. CASE r.kind = "sweep"
  <2>1. r.left \ {s} \in SUBSET Series /\ r.kind # "backfill"
    BY <1>1, <1>5 DEF CallType
  <2>2. /\ after \in CallType
        /\ after.pc = (IF r.left \ {s} = {} THEN "commit" ELSE "load")
        /\ after.left = r.left \ {s}
        /\ after.kind = r.kind /\ after.first = r.first /\ after.errors = r.errors
        /\ after.logs = r.logs /\ LoggedIn(after) = LoggedIn(r)
        /\ InHand(after) = {}
    BY <1>1, <2>1, AfterOK
  <2>3. new = [after EXCEPT !.errors = r.errors \cup {s}]
    BY <1>5
  <2> HIDE DEF after, new, r
  <2>4. /\ new \in CallType /\ new.errors = r.errors \cup {s}
        /\ new.pc = after.pc /\ new.left = r.left \ {s} /\ new.kind = r.kind
        /\ new.first = r.first /\ new.logs = r.logs
        /\ LoggedIn(new) = LoggedIn(r) /\ InHand(new) = {}
    BY <1>1, <2>2, <2>3 DEF CallType, LoggedIn, InHand
  <2>5. r.first = r.left \cup LoggedIn(r) \cup r.errors
    BY <1>1, <1>5 DEF CallOK, InHand
  <2>6. CallOK(new)
    BY <1>1, <1>5, <2>2, <2>4, <2>5 DEF CallOK
  <2>7. \A x \in Series : Count(new, x) = Counted(c, x)
    BY <2>4 DEF Count, Counted, r
  <2> QED
    BY <1>2, <1>3, <2>4, <2>6, <2>7, UncountedSteps
<1> QED
  BY <1>4, <1>5

LEMMA ListStep ==
    ASSUME FollowInv, NEW c \in Callers, List(c)
    PROVE  FollowInv'
<1> DEFINE r == call[c]
           found == list_selected(listing[r.series], r.priority)
           new == [r EXCEPT !.pc = "diff", !.found = found]
<1>1. r \in CallType /\ CallOK(r) /\ r.pc = "list"
  BY DEF List, FollowInv, TypeOK
<1>2. r.series \in Series /\ r.priority \in Seq(ToSet(Alphabet))
  BY <1>1 DEF CallOK, InHand, CallType
<1>3. listing[r.series] \in Seq(Uploads)
  BY <1>2 DEF FollowInv, TypeOK
<1>4. found \in Seq(Uploads)
  BY <1>2, <1>3, ListSelectedIsBest
<1> HIDE DEF found
<1>5. call' = [call EXCEPT ![c] = new]
  <2>1. call' = [call EXCEPT ![c].pc = "diff", ![c].found = found]
    BY DEF List, found
  <2> QED
    BY <1>1, <2>1 DEF FollowInv, TypeOK, CallType
<1> HIDE DEF r
<1>6. /\ new \in CallType /\ new.logs = r.logs /\ LoggedIn(new) = LoggedIn(r)
      /\ InHand(new) = {r.series} /\ InHand(r) = {r.series}
      /\ new.pc = "diff" /\ new.left = r.left /\ new.kind = r.kind
      /\ new.first = r.first /\ new.errors = r.errors
  BY <1>1, <1>4 DEF CallType, LoggedIn, InHand
<1> HIDE DEF new
<1>7. CallOK(new)
  BY <1>1, <1>6 DEF CallOK
<1>8. \A x \in Series : Count(new, x) = Counted(c, x)
  BY <1>6 DEF Count, Counted, r
<1> QED
  BY <1>5, <1>6, <1>7, <1>8, UncountedSteps DEF List, world, FollowInv, TypeOK

\* A check's log is the first of its series in the session.
LEMMA LoggedOK ==
    ASSUME FollowInv, NEW c \in Callers, call[c].pc \in {"list", "diff"}, NEW n \in Nat
    PROVE  LET r == call[c]
               new == Logged(c, n)
           IN  /\ new \in CallType /\ CallOK(new)
               /\ r.kind # "backfill" => r.series \in Series
               /\ \A s \in Series : Counted(c, s) \in Nat
               /\ \A s \in Series :
                     Count(new, s) = Counted(c, s)
                        + (IF r.kind # "backfill" /\ s = r.series THEN n ELSE 0)
<1> DEFINE r == call[c]
           after == After(c, r.left)
           new == Logged(c, n)
<1>1. /\ r \in CallType /\ CallOK(r) /\ r.pc \in {"list", "diff"}
      /\ r.left \in SUBSET Series
  BY DEF FollowInv, TypeOK, CallType
<1>2. InHand(r) = {r.series} /\ r.series \in Series \ r.left /\ r.series \notin LoggedIn(r)
  BY <1>1 DEF CallOK, InHand
<1>3. \A s \in Series : Counted(c, s) = Count(r, s) /\ Counted(c, s) \in Nat
  BY <1>1, CountType DEF Counted, Count
<1>4. CASE r.kind = "backfill"
  <2>1. new = Resting
    BY <1>4 DEF Logged
  <2>2. \A s \in Series : Count(new, s) = 0 /\ Count(r, s) = 0
    BY <1>1, <1>4, <2>1, RestingOK, CountType DEF CallOK
  <2> QED
    BY <1>3, <1>4, <2>1, <2>2, RestingOK
<1>5. CASE r.kind # "backfill"
  <2>1. /\ after \in CallType
        /\ after.pc = (IF r.left = {} THEN "commit" ELSE "load")
        /\ after.left = r.left
        /\ after.kind = r.kind /\ after.first = r.first /\ after.errors = r.errors
        /\ after.logs = r.logs /\ LoggedIn(after) = LoggedIn(r)
        /\ InHand(after) = {}
    BY <1>1, <1>5, AfterOK
  <2>2. new = [after EXCEPT !.logs[r.series] = n]
    BY <1>5 DEF Logged
  <2> HIDE DEF after, new, r
  <2>3. after.logs \in [Series -> Nat \cup {None}] /\ None \notin Nat
    BY <2>1, FollowAssumption DEF CallType
  <2>4. /\ new.pc = after.pc /\ new.left = r.left /\ new.kind = r.kind
        /\ new.first = r.first /\ new.errors = r.errors
        /\ new.logs = [r.logs EXCEPT ![r.series] = n]
    BY <2>1, <2>2 DEF CallType
  <2>5. new \in CallType
    BY <1>2, <2>1, <2>2, <2>3 DEF CallType
  <2>6. \A s \in Series : new.logs[s] = IF s = r.series THEN n ELSE r.logs[s]
    BY <1>2, <2>1, <2>3, <2>4
  <2>7. LoggedIn(new) = LoggedIn(r) \cup {r.series}
    BY <1>2, <2>3, <2>6 DEF LoggedIn
  <2>8. InHand(new) = {}
    BY <2>1, <2>4 DEF InHand
  <2>9. r.first = r.left \cup {r.series} \cup LoggedIn(r) \cup r.errors
    BY <1>1, <1>2, <1>5 DEF CallOK
  <2>10. CallOK(new)
    BY <1>1, <1>2, <1>5, <2>1, <2>4, <2>7, <2>8, <2>9 DEF CallOK
  <2>11. ASSUME NEW s \in Series
         PROVE  Count(new, s) = Count(r, s) + (IF s = r.series THEN n ELSE 0)
    <3>1. Count(r, s) \in Nat /\ (s = r.series => Count(r, s) = 0)
      BY <1>1, <1>2, CountType
    <3>2. Count(new, s) = IF s = r.series THEN n ELSE Count(r, s)
      BY <2>3, <2>6 DEF Count
    <3> QED
      BY <3>1, <3>2
  <2>12. /\ new \in CallType /\ CallOK(new) /\ r.series \in Series
         /\ \A s \in Series : Count(new, s) = Counted(c, s) + (IF s = r.series THEN n ELSE 0)
    BY <1>2, <1>3, <2>5, <2>10, <2>11
  <2> QED
    BY <1>3, <1>5, <2>12 DEF r, new
<1> QED
  BY <1>4, <1>5

LEMMA ListFailsStep ==
    ASSUME FollowInv, NEW c \in Callers, ListFails(c)
    PROVE  FollowInv'
<1> DEFINE new == Logged(c, 0)
<1>1. call[c].pc \in {"list", "diff"} /\ call' = [call EXCEPT ![c] = new]
  BY DEF ListFails
<1>2. /\ new \in CallType /\ CallOK(new)
      /\ \A s \in Series : Count(new, s) = Counted(c, s)
  BY <1>1, LoggedOK
<1> HIDE DEF new
<1>3. faults' \in 0..MaxFaults
  BY FollowAssumption DEF ListFails, FollowInv, TypeOK
<1> QED
  BY <1>1, <1>2, <1>3, UncountedSteps DEF ListFails, world, FollowInv, TypeOK

LEMMA EnqueueMissingStep ==
    ASSUME FollowInv, NEW c \in Callers, EnqueueMissing(c)
    PROVE  FollowInv'
<1> DEFINE r == call[c]
           n == Len(Accepted(c))
           new == Logged(c, n)
<1>1. /\ r \in CallType /\ queue \in Seq(Uploads) /\ Len(queue) <= QueueSize
      /\ unlogged \in [Series -> Nat]
  BY DEF FollowInv, TypeOK
<1>2. n \in Nat /\ queue' \in Seq(Uploads) /\ Len(queue') <= QueueSize
  BY <1>1, AcceptedFits DEF EnqueueMissing
<1> HIDE DEF n
<1>3. r.pc \in {"list", "diff"} /\ call' = [call EXCEPT ![c] = new]
  BY DEF EnqueueMissing, n
<1>4. /\ new \in CallType /\ CallOK(new)
      /\ r.kind # "backfill" => r.series \in Series
      /\ \A s \in Series : Counted(c, s) \in Nat
      /\ \A s \in Series :
            Count(new, s) = Counted(c, s)
               + (IF r.kind # "backfill" /\ s = r.series THEN n ELSE 0)
  BY <1>2, <1>3, LoggedOK
<1>5. unlogged' = IF r.kind = "backfill" THEN unlogged
                  ELSE [unlogged EXCEPT ![r.series] = @ + n]
  BY DEF EnqueueMissing, n
<1> HIDE DEF r, new
<1>6. \A s \in Series : unlogged'[s]
         = unlogged[s] + (IF r.kind # "backfill" /\ s = r.series THEN n ELSE 0)
  BY <1>1, <1>2, <1>4, <1>5
<1>7. unlogged' = [s \in Series |-> unlogged'[s]]
  BY <1>1, <1>5
<1>8. \A s \in Series : unlogged'[s] = (unlogged[s] - Counted(c, s)) + Count(new, s)
  BY <1>1, <1>2, <1>4, <1>6
<1> QED
  BY <1>2, <1>3, <1>4, <1>7, <1>8, CallSteps DEF EnqueueMissing, world, FollowInv, TypeOK

LEMMA CommitStep ==
    ASSUME FollowInv, NEW c \in Callers, Commit(c) \/ CommitFails(c)
    PROVE  FollowInv'
<1>1. call' = [call EXCEPT ![c] = Resting]
  BY DEF Commit, CommitFails
<1>2. unlogged' = [s \in Series |-> unlogged[s] - Counted(c, s)]
  BY DEF Commit, CommitFails
<1>3. /\ Resting \in CallType /\ CallOK(Resting)
      /\ \A s \in Series : Count(Resting, s) = 0
  BY RestingOK, CountType
<1>4. unlogged \in [Series -> Nat] /\ call[c] \in CallType
  BY DEF FollowInv, TypeOK
<1>5. \A s \in Series : Counted(c, s) \in Nat
  BY <1>4, CountType DEF Counted, Count
<1>6. \A s \in Series : unlogged'[s] = (unlogged[s] - Counted(c, s)) + Count(Resting, s)
  BY <1>2, <1>3, <1>4, <1>5
<1>7. unlogged' = [s \in Series |-> unlogged'[s]]
  BY <1>2
<1>8. /\ UNCHANGED <<listing, deleted, stored>> /\ due' \subseteq due
      /\ queue' \in Seq(Uploads) /\ Len(queue') <= QueueSize /\ faults' \in 0..MaxFaults
  BY FollowAssumption DEF Commit, CommitFails, world, FollowInv, TypeOK
<1> QED
  BY <1>1, <1>3, <1>6, <1>7, <1>8, CallSteps

\* A step of no call.
LEMMA QuietSteps ==
    ASSUME FollowInv, UNCHANGED <<call, unlogged>>, TypeOK'
    PROVE  FollowInv'
<1>1. \A c \in Callers : CallOK(call'[c])
  BY DEF FollowInv
<1>2. \A s \in Series : LoggedTasks(s)' = LoggedTasks(s)
  BY DEF LoggedTasks, Counted
<1>3. (\A s \in Series : IsFiniteSet(LoggedTasks(s)')) /\ LogsCountTasks'
  BY <1>2 DEF FollowInv, LogsCountTasks
<1> QED
  BY <1>1, <1>3 DEF FollowInv

LEMMA DownloadStep ==
    ASSUME FollowInv, Download \/ DownloadFails
    PROVE  FollowInv'
<1>1. queue \in Seq(Uploads) /\ queue # <<>> /\ Len(queue) <= QueueSize /\ queue' = Tail(queue)
  BY DEF FollowInv, TypeOK, Download, DownloadFails
<1>2. queue' \in Seq(Uploads) /\ Len(queue') <= QueueSize /\ Head(queue) \in Uploads
  BY <1>1, FollowAssumption
<1>3. stored' \subseteq Uploads
  BY <1>2 DEF FollowInv, TypeOK, Download, DownloadFails, world
<1>4. faults' \in 0..MaxFaults
  BY FollowAssumption DEF FollowInv, TypeOK, Download, DownloadFails
<1>5. UNCHANGED <<call, unlogged, listing, deleted, due>>
  BY DEF Download, DownloadFails, world
<1>6. TypeOK'
  BY <1>2, <1>3, <1>4, <1>5 DEF FollowInv, TypeOK
<1> QED
  BY <1>5, <1>6, QuietSteps

LEMMA PublishStep ==
    ASSUME FollowInv, NEW u \in Uploads, Publish(u)
    PROVE  FollowInv'
<1> DEFINE s == SeriesOf[u]
<1>1. s \in Series /\ listing \in [Series -> Seq(Uploads)]
  BY FollowAssumption DEF FollowInv, TypeOK
<1> HIDE DEF s
<1>2. listing[s] \in Seq(Uploads)
  BY <1>1
<1>3. Append(listing[s], u) \in Seq(Uploads) /\ <<u>> \o listing[s] \in Seq(Uploads)
  BY <1>2
<1>4. PICK more \in Seq(Uploads) : listing' = [listing EXCEPT ![s] = more]
  BY <1>3 DEF Publish, s
<1>5. listing' \in [Series -> Seq(Uploads)]
  BY <1>1, <1>4
<1>6. UNCHANGED <<deleted, due, stored, queue, call, unlogged, faults>>
  BY DEF Publish
<1>7. TypeOK'
  BY <1>5, <1>6 DEF FollowInv, TypeOK
<1> QED
  BY <1>6, <1>7, QuietSteps

LEMMA SettingSteps ==
    ASSUME FollowInv, NEW s \in Series, (s \in Deletable /\ Delete(s)) \/ ComeDue(s)
    PROVE  FollowInv'
<1>1. /\ UNCHANGED <<listing, stored, queue, call, unlogged, faults>>
      /\ deleted' \subseteq Series /\ due' \subseteq Series
  BY DEF Delete, ComeDue, FollowInv, TypeOK
<1>2. TypeOK'
  BY <1>1 DEF FollowInv, TypeOK
<1> QED
  BY <1>1, <1>2, QuietSteps

\* No call holds a log: nothing is counted.
LEMMA NothingLogged ==
    ASSUME call = [c \in Callers |-> Resting], unlogged = [s \in Series |-> 0]
    PROVE  /\ \A c \in Callers : call[c] \in CallType /\ CallOK(call[c])
           /\ \A s \in Series : IsFiniteSet(LoggedTasks(s))
           /\ LogsCountTasks
<1>1. \A c \in Callers : call[c] = Resting
  OBVIOUS
<1>2. ASSUME NEW s \in Series
      PROVE  LoggedTasks(s) = {}
  <2>1. \A c \in Callers : Counted(c, s) = 0
    BY <1>1, RestingOK, CountType DEF Counted, Count
  <2> QED
    BY <2>1 DEF LoggedTasks
<1>3. \A s \in Series : IsFiniteSet(LoggedTasks(s)) /\ unlogged[s] = Cardinality(LoggedTasks(s))
  BY <1>2, FS_EmptySet
<1> QED
  BY <1>1, <1>3, RestingOK DEF LogsCountTasks

LEMMA FollowInit == Init => FollowInv
<1> SUFFICES ASSUME Init PROVE FollowInv
  OBVIOUS
<1>1. /\ \A c \in Callers : call[c] \in CallType /\ CallOK(call[c])
      /\ \A s \in Series : IsFiniteSet(LoggedTasks(s))
      /\ LogsCountTasks
  BY NothingLogged DEF Init
<1>2. TypeOK
  BY <1>1, FollowAssumption DEF Init, TypeOK
<1> QED
  BY <1>1, <1>2 DEF FollowInv

LEMMA RestartStep ==
    ASSUME FollowInv, Restart
    PROVE  FollowInv'
<1>1. /\ \A c \in Callers : call'[c] \in CallType /\ CallOK(call'[c])
      /\ \A s \in Series : IsFiniteSet(LoggedTasks(s)')
      /\ LogsCountTasks'
  <2>1. (call = [c \in Callers |-> Resting] /\ unlogged = [s \in Series |-> 0]
         => /\ \A c \in Callers : call[c] \in CallType /\ CallOK(call[c])
            /\ \A s \in Series : IsFiniteSet(LoggedTasks(s))
            /\ LogsCountTasks)'
    BY NothingLogged, PTL
  <2> QED
    BY <2>1 DEF Restart
<1>2. TypeOK'
  BY <1>1, FollowAssumption DEF Restart, FollowInv, TypeOK, world
<1> QED
  BY <1>1, <1>2 DEF FollowInv

LEMMA FollowStep == FollowInv /\ [Next]_vars => FollowInv'
<1> SUFFICES ASSUME FollowInv, [Next]_vars PROVE FollowInv'
  OBVIOUS
<1>1. CASE \E c \in Crons : Sweep(c)
  <2>1. PICK c \in Crons : Sweep(c)
    BY <1>1
  <2>2. c \in Callers /\ DueSeries \in SUBSET Series
    BY DEF Callers, DueSeries, FollowInv, TypeOK
  <2> QED
    BY <2>1, <2>2, BeginStep, DefaultPriorityType DEF Sweep
<1>2. CASE \E r \in Requests, s \in Series : Check(r, s)
  <2>1. PICK r \in Requests, s \in Series : Check(r, s)
    BY <1>2
  <2>2. r \in Callers /\ {s} \in SUBSET Series
    BY DEF Callers
  <2> QED
    BY <2>1, <2>2, BeginStep, DefaultPriorityType DEF Check
<1>3. CASE \E r \in Requests, s \in Series, priority \in Priorities, count \in Counts :
               Backfill(r, s, priority, count)
  <2>1. PICK r \in Requests, s \in Series, priority \in Priorities, count \in Counts :
               Backfill(r, s, priority, count)
    BY <1>3
  <2>2. /\ r \in Callers /\ {s} \in SUBSET Series /\ {s} # {}
        /\ priority \in Seq(ToSet(Alphabet)) /\ count \in Nat
    BY FollowAssumption DEF Callers
  <2> QED
    BY <2>1, <2>2, BeginStep DEF Backfill
<1>4. CASE \E c \in Callers : CallStep(c)
  BY <1>4, LoadStep, NotLoadedStep, ListStep, ListFailsStep, EnqueueMissingStep,
     CommitStep DEF CallStep
<1>5. CASE Download \/ DownloadFails
  BY <1>5, DownloadStep
<1>6. CASE Restart
  BY <1>6, RestartStep
<1>7. CASE \E s \in Deletable : Delete(s)
  BY <1>7, SettingSteps, FollowAssumption
<1>8. CASE \E u \in Uploads : Publish(u)
  BY <1>8, PublishStep
<1>9. CASE \E s \in Series : ComeDue(s)
  BY <1>9, SettingSteps
<1>10. CASE UNCHANGED vars
  BY <1>10, QuietSteps DEF vars, FollowInv, TypeOK
<1> QED
  BY <1>1, <1>2, <1>3, <1>4, <1>5, <1>6, <1>7, <1>8, <1>9, <1>10 DEF Next

LEMMA FollowHolds == Spec => []FollowInv
BY FollowInit, FollowStep, PTL DEF Spec

-----------------------------------------------------------------------------
(* The errors of a sweep: those of its series that were not deleted have     *)
(* each cost a failure.                                                      *)

Unexplained(c) == call[c].errors \ deleted

ErrorsPaid == \A c \in Callers : IsFiniteSet(Unexplained(c)) /\ Cardinality(Unexplained(c)) <= faults

\* A step that adds no such error to any call.
LEMMA NoMoreErrors ==
    ASSUME ErrorsPaid, faults \in Nat, faults' \in Nat, faults <= faults',
           \A d \in Callers : Unexplained(d)' \subseteq Unexplained(d)
    PROVE  ErrorsPaid'
<1> SUFFICES ASSUME NEW d \in Callers
             PROVE  IsFiniteSet(Unexplained(d)') /\ Cardinality(Unexplained(d)') <= faults'
  BY DEF ErrorsPaid
<1> DEFINE old == Unexplained(d)
           new == Unexplained(d)'
<1>1. IsFiniteSet(old) /\ Cardinality(old) <= faults /\ new \subseteq old
  BY DEF ErrorsPaid
<1> HIDE DEF old, new
<1>2. IsFiniteSet(new) /\ Cardinality(new) <= Cardinality(old)
  BY <1>1, FS_Subset
<1>3. Cardinality(new) \in Nat /\ Cardinality(old) \in Nat
  BY <1>1, <1>2, FS_CardinalityType
<1>4. IsFiniteSet(new) /\ Cardinality(new) <= faults'
  BY <1>1, <1>2, <1>3
<1> QED
  BY <1>4 DEF new

LEMMA NotLoadedErrors ==
    ASSUME NEW c \in Callers, call[c] \in CallType, NEW s
    PROVE  NotLoaded(c, s).errors \subseteq call[c].errors \cup {s}
<1> DEFINE after == After(c, call[c].left \ {s})
<1>1. CASE call[c].kind # "sweep"
  BY <1>1 DEF NotLoaded, Resting
<1>2. CASE call[c].kind = "sweep"
  <2>1. after = [call[c] EXCEPT !.pc = IF call[c].left \ {s} = {} THEN "commit" ELSE "load",
                                !.left = call[c].left \ {s}, !.series = None, !.found = <<>>]
    BY <1>2 DEF After
  <2>2. [after EXCEPT !.errors = call[c].errors \cup {s}].errors = call[c].errors \cup {s}
    BY <2>1 DEF CallType
  <2>3. NotLoaded(c, s) = [after EXCEPT !.errors = call[c].errors \cup {s}]
    BY <1>2 DEF NotLoaded
  <2> QED
    BY <2>2, <2>3
<1> QED
  BY <1>1, <1>2

\* An error of the database adds one, and is a failure.
LEMMA LoadFailsPays ==
    ASSUME FollowInv, ErrorsPaid, NEW c \in Callers, NEW s \in Series, LoadFails(c, s)
    PROVE  ErrorsPaid'
<1> DEFINE r == call[c]
           new == NotLoaded(c, s)
<1>1. /\ r \in CallType /\ call \in [Callers -> CallType] /\ s \in r.left /\ faults \in Nat
      /\ faults' = faults + 1 /\ call' = [call EXCEPT ![c] = new] /\ UNCHANGED deleted
  BY FollowAssumption DEF LoadFails, FollowInv, TypeOK, world
<1>2. new.errors \subseteq r.errors \cup {s}
  BY <1>1, NotLoadedErrors
<1> HIDE DEF new
<1> SUFFICES ASSUME NEW d \in Callers
             PROVE  IsFiniteSet(Unexplained(d)') /\ Cardinality(Unexplained(d)') <= faults'
  BY DEF ErrorsPaid
<1> DEFINE old == Unexplained(d)
           next == Unexplained(d)'
<1>3. IsFiniteSet(old) /\ Cardinality(old) <= faults
  BY DEF ErrorsPaid
<1>4. next \subseteq old \cup {s}
  <2>1. call'[d] = IF d = c THEN new ELSE call[d]
    BY <1>1
  <2> QED
    BY <1>1, <1>2, <2>1 DEF Unexplained
<1> HIDE DEF old, next
<1>5. /\ IsFiniteSet(old \cup {s}) /\ Cardinality(old) \in Nat
      /\ Cardinality(old \cup {s}) <= Cardinality(old) + 1
  <2>1. IsFiniteSet(old \cup {s}) /\ Cardinality(old \cup {s})
           = IF s \in old THEN Cardinality(old) ELSE Cardinality(old) + 1
    BY <1>3, FS_AddElement
  <2>2. Cardinality(old) \in Nat
    BY <1>3, FS_CardinalityType
  <2> QED
    BY <2>1, <2>2
<1>6. IsFiniteSet(next) /\ Cardinality(next) <= Cardinality(old \cup {s})
  BY <1>4, <1>5, FS_Subset
<1>7. Cardinality(next) \in Nat /\ Cardinality(old \cup {s}) \in Nat
  BY <1>5, <1>6, FS_CardinalityType
<1>8. IsFiniteSet(next) /\ Cardinality(next) <= faults'
  BY <1>1, <1>3, <1>5, <1>6, <1>7
<1> QED
  BY <1>8 DEF next

\* A step of a call that adds only errors of series that were deleted.
LEMMA OneCallErrors ==
    ASSUME FollowInv, ErrorsPaid, NEW c \in Callers, NEW new, call' = [call EXCEPT ![c] = new],
           new.errors \subseteq call[c].errors \cup deleted,
           UNCHANGED deleted, faults' \in {faults, faults + 1}
    PROVE  ErrorsPaid'
<1>1. call \in [Callers -> CallType] /\ faults \in Nat
  BY FollowAssumption DEF FollowInv, TypeOK
<1>2. \A d \in Callers : call'[d] = IF d = c THEN new ELSE call[d]
  BY <1>1
<1>3. \A d \in Callers : Unexplained(d)' \subseteq Unexplained(d)
  BY <1>2 DEF Unexplained
<1> QED
  BY <1>1, <1>3, NoMoreErrors

LEMMA CallErrors ==
    ASSUME FollowInv, ErrorsPaid, NEW c \in Callers, CallStep(c)
    PROVE  ErrorsPaid'
<1> DEFINE r == call[c]
<1>1. r \in CallType /\ call \in [Callers -> CallType] /\ faults \in Nat
  BY FollowAssumption DEF FollowInv, TypeOK
<1>2. Resting.errors = {}
  BY DEF Resting
<1>3. \A left : After(c, left).errors \in {r.errors, {}}
  BY <1>1, <1>2 DEF After, CallType
<1>4. \A n : Logged(c, n).errors \in {r.errors, {}}
  <2> SUFFICES ASSUME NEW n PROVE Logged(c, n).errors \in {r.errors, {}}
    OBVIOUS
  <2>1. CASE r.kind = "backfill"
    BY <1>2, <2>1 DEF Logged
  <2>2. CASE r.kind # "backfill"
    BY <1>1, <2>2 DEF Logged, After, CallType
  <2> QED
    BY <2>1, <2>2
<1>5. CASE \E s \in Series : Load(c, s)
  <2>1. PICK s \in Series : Load(c, s)
    BY <1>5
  <2> DEFINE new == [r EXCEPT !.pc = "list", !.series = s, !.left = @ \ {s}]
  <2>2. call' = [call EXCEPT ![c] = new] /\ UNCHANGED <<deleted, faults>>
    BY <1>1, <2>1 DEF Load, CallType, world
  <2>3. new.errors = r.errors
    BY <1>1 DEF CallType
  <2> HIDE DEF new
  <2> QED
    BY <2>2, <2>3, OneCallErrors
<1>6. CASE \E s \in Series : SeriesNotFound(c, s)
  <2>1. PICK s \in Series : SeriesNotFound(c, s)
    BY <1>6
  <2> DEFINE new == NotLoaded(c, s)
  <2>2. call' = [call EXCEPT ![c] = new] /\ UNCHANGED <<deleted, faults>> /\ s \in deleted
    BY <2>1 DEF SeriesNotFound, world
  <2>3. new.errors \subseteq r.errors \cup {s}
    BY <1>1, NotLoadedErrors
  <2> HIDE DEF new
  <2> QED
    BY <2>2, <2>3, OneCallErrors
<1>7. CASE List(c)
  <2> DEFINE found == list_selected(listing[r.series], r.priority)
             new == [r EXCEPT !.pc = "diff", !.found = found]
  <2>1. call' = [call EXCEPT ![c].pc = "diff", ![c].found = found] /\ UNCHANGED <<deleted, faults>>
    BY <1>7 DEF List, world
  <2> HIDE DEF found
  <2>2. call' = [call EXCEPT ![c] = new] /\ new.errors = r.errors
    BY <1>1, <2>1 DEF CallType
  <2> HIDE DEF new
  <2> QED
    BY <2>1, <2>2, OneCallErrors
<1>8. CASE ListFails(c) \/ EnqueueMissing(c)
  <2>1. PICK n : call' = [call EXCEPT ![c] = Logged(c, n)] /\ UNCHANGED deleted
                 /\ faults' \in {faults, faults + 1}
    BY <1>8 DEF ListFails, EnqueueMissing, world
  <2> DEFINE new == Logged(c, n)
  <2>2. call' = [call EXCEPT ![c] = new] /\ new.errors \in {r.errors, {}}
    BY <1>4, <2>1
  <2> HIDE DEF new
  <2> QED
    BY <2>1, <2>2, OneCallErrors
<1>9. CASE Commit(c) \/ CommitFails(c)
  <2>1. call' = [call EXCEPT ![c] = Resting] /\ faults' \in {faults, faults + 1} /\ UNCHANGED deleted
    BY <1>9 DEF Commit, CommitFails, world
  <2> QED
    BY <1>2, <2>1, OneCallErrors
<1>10. CASE \E s \in Series : LoadFails(c, s)
  BY <1>10, LoadFailsPays
<1> QED
  BY <1>5, <1>6, <1>7, <1>8, <1>9, <1>10 DEF CallStep

LEMMA ErrorsPaidStep == FollowInv /\ ErrorsPaid /\ [Next]_vars => ErrorsPaid'
<1> SUFFICES ASSUME FollowInv, ErrorsPaid, [Next]_vars PROVE ErrorsPaid'
  OBVIOUS
<1>1. call \in [Callers -> CallType] /\ faults \in Nat
  BY FollowAssumption DEF FollowInv, TypeOK
<1>2. ASSUME NEW c \in Callers, NEW kind, NEW first, NEW priority, NEW count,
             Begin(c, kind, first, priority, count)
      PROVE  ErrorsPaid'
  <2> DEFINE new == [Resting EXCEPT
                       !.pc = IF first = {} THEN "commit" ELSE "load",
                       !.kind = kind, !.first = first, !.left = first,
                       !.priority = priority, !.count = count]
  <2>1. call' = [call EXCEPT ![c] = new] /\ UNCHANGED <<deleted, faults>>
    BY <1>2 DEF Begin, world
  <2>2. new.errors = {}
    BY DEF Resting
  <2> HIDE DEF new
  <2>3. \A d \in Callers : Unexplained(d)' \subseteq Unexplained(d)
    BY <1>1, <2>1, <2>2 DEF Unexplained
  <2> QED
    BY <1>1, <2>1, <2>3, NoMoreErrors
<1>3. CASE \/ \E c \in Crons : Sweep(c)
           \/ \E r \in Requests, s \in Series :
                 \/ Check(r, s)
                 \/ \E priority \in Priorities, count \in Counts : Backfill(r, s, priority, count)
  BY <1>2, <1>3 DEF Sweep, Check, Backfill, Callers
<1>4. CASE \E c \in Callers : CallStep(c)
  BY <1>4, CallErrors
<1>5. CASE Restart
  <2>1. /\ faults' = faults + 1 /\ UNCHANGED deleted
        /\ \A d \in Callers : call'[d].errors = {}
    BY <1>5 DEF Restart, Resting, world
  <2>2. \A d \in Callers : Unexplained(d)' \subseteq Unexplained(d)
    BY <2>1 DEF Unexplained
  <2> QED
    BY <1>1, <2>1, <2>2, NoMoreErrors
<1>6. CASE UNCHANGED call /\ deleted \subseteq deleted' /\ faults' \in {faults, faults + 1}
  <2>1. \A d \in Callers : Unexplained(d)' \subseteq Unexplained(d)
    BY <1>6 DEF Unexplained
  <2> QED
    BY <1>1, <1>6, <2>1, NoMoreErrors
<1>7. CASE \/ Download \/ DownloadFails
           \/ \E s \in Deletable : Delete(s)
           \/ \E u \in Uploads : Publish(u)
           \/ \E s \in Series : ComeDue(s)
           \/ UNCHANGED vars
  BY <1>6, <1>7 DEF Download, DownloadFails, Delete, Publish, ComeDue, vars, world
<1> QED
  BY <1>3, <1>4, <1>5, <1>7 DEF Next

LEMMA ErrorsArePaid == Spec => []ErrorsPaid
<1>1. Init => ErrorsPaid
  <2> SUFFICES ASSUME Init, NEW c \in Callers
               PROVE  IsFiniteSet(Unexplained(c)) /\ Cardinality(Unexplained(c)) <= faults
    BY DEF ErrorsPaid
  <2>1. Unexplained(c) = {} /\ faults = 0
    BY DEF Init, Resting, Unexplained
  <2> QED
    BY <2>1, FS_EmptySet
<1> QED
  BY <1>1, ErrorsPaidStep, FollowHolds, PTL DEF Spec

-----------------------------------------------------------------------------
(* The theorems.                                                           *)

\* Every variable keeps its shape; the queue never exceeds its bound, whatever calls
\* enqueue at once.
THEOREM FollowTypeCorrect == Spec => []TypeOK
BY FollowHolds, PTL DEF FollowInv

\* The logs of the sessions count the tasks that were accepted, one for one, for any
\* number of sweeps, checks and backfills at once.
THEOREM LogsAreTrue == Spec => []LogsCountTasks
BY FollowHolds, PTL DEF FollowInv

\* A sweep or a check that commits has a log of every series it began with, but for those
\* that were deleted or met a database error when they were loaded, which have none; and
\* each such error cost one of them at most.
THEOREM NoSeriesIsSkipped == Spec => []SweepsCheckAll
<1>1. FollowInv /\ ErrorsPaid => SweepsCheckAll
  <2> SUFFICES ASSUME FollowInv, ErrorsPaid, NEW c \in Callers, call[c].pc = "commit"
               PROVE  /\ call[c].first = {s \in Series : call[c].logs[s] # None}
                                         \cup call[c].errors
                      /\ \A s \in call[c].errors : call[c].logs[s] = None
                      /\ Cardinality(call[c].errors \ deleted) <= faults
    BY DEF SweepsCheckAll
  <2>1. CallOK(call[c]) /\ call[c].errors \subseteq Series
    BY DEF FollowInv, TypeOK, CallType
  <2>2. call[c].first = {s \in Series : call[c].logs[s] # None} \cup call[c].errors
    BY <2>1 DEF CallOK, InHand, LoggedIn
  <2>3. \A s \in call[c].errors : call[c].logs[s] = None
    BY <2>1 DEF CallOK, LoggedIn
  <2>4. Cardinality(call[c].errors \ deleted) <= faults
    BY DEF ErrorsPaid, Unexplained
  <2> QED
    BY <2>2, <2>3, <2>4
<1> QED
  BY <1>1, FollowHolds, ErrorsArePaid, PTL

\* Whatever a source lists and in whatever order, a call keeps the best upload of each
\* number and leaves no number out.
THEOREM BestIsSelected == Spec => SelectsBest
<1> DEFINE best(c) == LET listed == listing[call[c].series]
                          found == call'[c].found
                      IN  /\ \A i, j \in DOMAIN found :
                                NumberOf[found[i]] = NumberOf[found[j]] => i = j
                          /\ ToSet(found) \subseteq Wanted(listed, call[c].priority)
                          /\ {NumberOf[u] : u \in ToSet(found)}
                             = {NumberOf[u] : u \in {v \in ToSet(listed) : Allowed(v)}}
<1>1. ASSUME FollowInv, NEW c \in Callers, List(c)
      PROVE  best(c)
  <2> DEFINE r == call[c]
             found == list_selected(listing[r.series], r.priority)
  <2>1. r \in CallType /\ CallOK(r) /\ r.pc = "list"
    BY <1>1 DEF List, FollowInv, TypeOK
  <2>2. r.series \in Series /\ r.priority \in Seq(ToSet(Alphabet))
    BY <2>1 DEF CallOK, InHand, CallType
  <2>3. listing[r.series] \in Seq(Uploads)
    BY <1>1, <2>2 DEF FollowInv, TypeOK
  <2>4. /\ \A i, j \in DOMAIN found : NumberOf[found[i]] = NumberOf[found[j]] => i = j
        /\ ToSet(found) \subseteq Wanted(listing[r.series], r.priority)
        /\ {NumberOf[u] : u \in ToSet(found)}
           = {NumberOf[u] : u \in {v \in ToSet(listing[r.series]) : Allowed(v)}}
    BY <2>2, <2>3, ListSelectedIsBest
  <2> HIDE DEF found
  <2>5. call'[c].found = found
    <3>1. call' = [call EXCEPT ![c].pc = "diff", ![c].found = found]
      BY <1>1 DEF List, found
    <3> QED
      BY <1>1, <2>1, <3>1 DEF FollowInv, TypeOK, CallType
  <2> QED
    BY <2>4, <2>5
<1>2. FollowInv /\ [Next]_vars => [\A c \in Callers : List(c) => best(c)]_vars
  BY <1>1
<1> QED
  BY <1>2, FollowHolds, PTL DEF Spec, SelectsBest

\* A backfill with a count enqueues the latest of the missing chapters: what it leaves out,
\* for the count or for a queue that fills up, has no higher number.
THEOREM BackfillIsLatest == Spec => BackfillsLatest
<1> DEFINE latest(c) ==
              LET enqueued == {queue'[n] : n \in DOMAIN queue' \ DOMAIN queue}
              IN  \A u \in enqueued, v \in ToSet(call[c].found) \ (stored \cup enqueued) :
                     NumberOf[u] >= NumberOf[v]
<1>1. ASSUME FollowInv, NEW c \in Callers, EnqueueMissing(c), call[c].count > 0
      PROVE  latest(c)
  <2> DEFINE accepted == Accepted(c)
             enqueued == {queue'[n] : n \in DOMAIN queue' \ DOMAIN queue}
  <2>1. call[c] \in CallType /\ queue \in Seq(Uploads) /\ Len(queue) <= QueueSize
    BY <1>1 DEF FollowInv, TypeOK
  <2>2. accepted \in Seq(Uploads) /\ queue' = queue \o accepted
    BY <1>1, <2>1, AcceptedFits DEF EnqueueMissing
  <2>3. \A n \in DOMAIN accepted, v \in ToSet(call[c].found) :
           v \notin stored /\ (\A m \in DOMAIN accepted : accepted[m] # v)
              => NumberOf[accepted[n]] >= NumberOf[v]
    BY <1>1, <2>1, AcceptedAreLatest
  <2> HIDE DEF accepted
  <2>4. /\ DOMAIN queue = 1..Len(queue) /\ DOMAIN accepted = 1..Len(accepted)
        /\ Len(queue) \in Nat /\ Len(accepted) \in Nat
        /\ DOMAIN queue' = 1..(Len(queue) + Len(accepted))
        /\ \A i \in 1..(Len(queue) + Len(accepted)) :
              queue'[i] = IF i <= Len(queue) THEN queue[i] ELSE accepted[i - Len(queue)]
    BY <2>1, <2>2, ConcatProperties
  <2>5. \A u \in enqueued : \E n \in DOMAIN accepted : accepted[n] = u
    BY <2>4
  <2>6. \A n \in DOMAIN accepted : accepted[n] \in enqueued
    <3> SUFFICES ASSUME NEW n \in DOMAIN accepted PROVE accepted[n] \in enqueued
      OBVIOUS
    <3>1. Len(queue) + n \in DOMAIN queue' \ DOMAIN queue /\ queue'[Len(queue) + n] = accepted[n]
      BY <2>4
    <3> QED
      BY <3>1
  <2> HIDE DEF enqueued
  <2>7. \A u \in enqueued, v \in ToSet(call[c].found) \ (stored \cup enqueued) :
           NumberOf[u] >= NumberOf[v]
    BY <2>3, <2>5, <2>6
  <2> QED
    BY <2>7 DEF enqueued
<1>2. FollowInv /\ [Next]_vars
        => [\A c \in Callers : EnqueueMissing(c) /\ call[c].count > 0 => latest(c)]_vars
  BY <1>1
<1> QED
  BY <1>2, FollowHolds, PTL DEF Spec, BackfillsLatest

-----------------------------------------------------------------------------
(* When one CBZ per number holds: what a call takes, the queue holds and    *)
(* the engine stores is allowed and listed, and a list only grows.          *)

\* The uploads the library allows that the source lists.
Offered == {u \in Uploads : Allowed(u) /\ u \in ToSet(listing[SeriesOf[u]])}

FromLists ==
    /\ \A s \in Series : \A u \in ToSet(listing[s]) : SeriesOf[u] = s
    /\ stored \subseteq Offered
    /\ queue \in Seq(Offered)
    /\ \A c \in Callers : call[c].found \in Seq(Offered)

\* Of uploads all in a set, what a call enqueues is in it.
LEMMA AcceptedOffered ==
    ASSUME NEW c \in Callers, call[c] \in CallType, queue \in Seq(Uploads),
           Len(queue) <= QueueSize, NEW G \in SUBSET Uploads, call[c].found \in Seq(G)
    PROVE  Accepted(c) \in Seq(G)
<1> DEFINE found == call[c].found
           P == {n \in DOMAIN found : found[n] \notin stored}
           seq == Picked(found, P)
           before == Higher(seq)
           down == Through(seq, InOrder(before))
<1>1. call[c].count \in Nat
  BY DEF CallType
<1>2. found \in Seq(G) /\ P \in SUBSET DOMAIN found
  OBVIOUS
<1>3. Missing(c) = IF call[c].count = 0 THEN seq ELSE Upto(down, call[c].count)
  BY DEF Missing, Cut
<1> HIDE DEF found, P
<1>4. seq \in Seq(G)
  BY <1>2, PickedKeepsOrder
<1> HIDE DEF seq
<1>5. seq \in Seq(Uploads)
  BY <1>4
<1>6. DOMAIN before = DOMAIN seq /\ IsFiniteSet(DOMAIN before) /\ IsOrder(before)
  BY <1>5, HigherIsOrder
<1> HIDE DEF before
<1>7. PICK n \in Nat : InOrder(before) \in [1..n -> DOMAIN seq]
  BY <1>6, SortedInOrder
<1>8. down \in Seq(G)
  BY <1>4, <1>7, ThroughIsSeq
<1> HIDE DEF down
<1>9. Missing(c) \in Seq(G)
  <2>1. Upto(down, call[c].count) \in Seq(G)
    BY <1>1, <1>8, UptoIsPrefix
  <2> QED
    BY <1>3, <1>4, <2>1
<1>10. Room \in Nat
  BY FollowAssumption DEF Room
<1> QED
  BY <1>9, <1>10, UptoIsPrefix DEF Accepted

\* What _list_selected takes of a list is in it and allowed.
LEMMA FoundIsOffered ==
    ASSUME FollowInv, FromLists, NEW c \in Callers, List(c)
    PROVE  call'[c].found \in Seq(Offered)
<1> DEFINE r == call[c]
           listed == listing[r.series]
           found == list_selected(listed, r.priority)
<1>1. r \in CallType /\ CallOK(r) /\ r.pc = "list"
  BY DEF List, FollowInv, TypeOK
<1>2. r.series \in Series /\ r.priority \in Seq(ToSet(Alphabet))
  BY <1>1 DEF CallOK, InHand, CallType
<1>3. listed \in Seq(Uploads)
  BY <1>2 DEF FollowInv, TypeOK
<1>4. found \in Seq(Uploads) /\ ToSet(found) \subseteq Wanted(listed, r.priority)
  BY <1>2, <1>3, ListSelectedIsBest
<1>5. ASSUME NEW u \in Wanted(listed, r.priority)
      PROVE  u \in Offered
  <2>1. u \in ToSet(listed) /\ Allowed(u)
    BY DEF Wanted, ToSet
  <2>2. u \in Uploads
    BY <1>3, <2>1 DEF ToSet
  <2> QED
    BY <1>2, <2>1, <2>2 DEF Offered, FromLists
<1> HIDE DEF found
<1>6. \A n \in 1..Len(found) : found[n] \in Offered
  BY <1>4, <1>5 DEF ToSet
<1>7. found \in Seq(Offered)
  BY <1>4, <1>6
<1>8. call'[c].found = found
  <2>1. call' = [call EXCEPT ![c].pc = "diff", ![c].found = found]
    BY DEF List, found
  <2> QED
    BY <1>1, <2>1 DEF FollowInv, TypeOK, CallType
<1> QED
  BY <1>7, <1>8

\* Each step of a call keeps what was found, drops it, or finds what is offered.
LEMMA CallsHoldOffered ==
    ASSUME FollowInv, FromLists, NEW c \in Callers, CallStep(c)
    PROVE  \A d \in Callers : call'[d].found \in Seq(Offered)
<1> DEFINE r == call[c]
<1>1. call \in [Callers -> CallType] /\ \A d \in Callers : call[d].found \in Seq(Offered)
  BY DEF FollowInv, TypeOK, FromLists
<1>2. r \in CallType /\ r.found \in Seq(Offered) /\ <<>> \in Seq(Offered)
  BY <1>1
<1>3. Resting.found = <<>>
  BY DEF Resting
<1>4. \A left : After(c, left).found \in {r.found, <<>>}
  BY <1>2, <1>3 DEF After, CallType
<1>5. \A n : Logged(c, n).found \in {r.found, <<>>}
  <2> SUFFICES ASSUME NEW n PROVE Logged(c, n).found \in {r.found, <<>>}
    OBVIOUS
  <2>1. CASE r.kind = "backfill"
    BY <1>3, <2>1 DEF Logged
  <2>2. CASE r.kind # "backfill"
    <3>1. After(c, r.left) = [r EXCEPT !.pc = IF r.left = {} THEN "commit" ELSE "load",
                                       !.left = r.left, !.series = None, !.found = <<>>]
      BY <2>2 DEF After
    <3>2. [After(c, r.left) EXCEPT !.logs[r.series] = n].found = <<>>
      BY <1>2, <3>1 DEF CallType
    <3> QED
      BY <2>2, <3>2 DEF Logged
  <2> QED
    BY <2>1, <2>2
<1>6. CASE List(c)
  <2>1. call'[c].found \in Seq(Offered)
    BY <1>6, FoundIsOffered
  <2>2. \A d \in Callers \ {c} : call'[d] = call[d]
    BY <1>1, <1>6 DEF List
  <2> QED
    BY <1>1, <2>1, <2>2
<1>7. CASE ~List(c)
  <2>1. \E new : call' = [call EXCEPT ![c] = new] /\ new.found \in {r.found, <<>>}
    <3>1. CASE \E s \in Series : Load(c, s)
      <4>1. PICK s \in Series : Load(c, s)
        BY <3>1
      <4>2. call' = [call EXCEPT ![c] = [r EXCEPT !.pc = "list", !.series = s, !.left = @ \ {s}]]
        BY <1>1, <4>1 DEF Load, CallType
      <4>3. [r EXCEPT !.pc = "list", !.series = s, !.left = @ \ {s}].found = r.found
        BY <1>2 DEF CallType
      <4> QED
        BY <4>2, <4>3
    <3>2. CASE \E s \in Series : SeriesNotFound(c, s) \/ LoadFails(c, s)
      <4>1. PICK s \in Series : SeriesNotFound(c, s) \/ LoadFails(c, s)
        BY <3>2
      <4> DEFINE on == After(c, r.left \ {s})
                 new == IF r.kind # "sweep" THEN Resting
                        ELSE [on EXCEPT !.errors = r.errors \cup {s}]
      <4>2. call' = [call EXCEPT ![c] = new]
        BY <4>1 DEF SeriesNotFound, LoadFails, NotLoaded
      <4>3. new.found \in {r.found, <<>>}
        <5>1. CASE r.kind # "sweep"
          BY <1>3, <5>1
        <5>2. CASE r.kind = "sweep"
          BY <1>2, <5>2 DEF After, CallType
        <5> QED
          BY <5>1, <5>2
      <4> QED
        BY <4>2, <4>3
    <3>3. CASE ListFails(c) \/ EnqueueMissing(c)
      BY <1>5, <3>3 DEF ListFails, EnqueueMissing
    <3>4. CASE Commit(c) \/ CommitFails(c)
      BY <1>3, <3>4 DEF Commit, CommitFails
    <3> QED
      BY <1>7, <3>1, <3>2, <3>3, <3>4 DEF CallStep
  <2> QED
    BY <1>1, <1>2, <2>1
<1> QED
  BY <1>6, <1>7

LEMMA ListGrows ==
    ASSUME NEW U, NEW seq \in Seq(U), NEW u \in U
    PROVE  /\ ToSet(Append(seq, u)) = ToSet(seq) \cup {u}
           /\ ToSet(<<u>> \o seq) = ToSet(seq) \cup {u}
<1> DEFINE N == Len(seq)
<1>1. N \in Nat /\ DOMAIN seq = 1..N
  OBVIOUS
<1>2. ToSet(Append(seq, u)) = ToSet(seq) \cup {u}
  <2>1. /\ DOMAIN Append(seq, u) = 1..(N + 1) /\ Append(seq, u)[N + 1] = u
        /\ \A i \in 1..N : Append(seq, u)[i] = seq[i]
    BY AppendProperties
  <2> QED
    BY <1>1, <2>1 DEF ToSet
<1>3. ToSet(<<u>> \o seq) = ToSet(seq) \cup {u}
  <2> DEFINE more == <<u>> \o seq
  <2>1. DOMAIN more = 1..(N + 1) /\ more[1] = u /\ \A i \in 1..N : more[i + 1] = seq[i]
    BY <1>1
  <2> HIDE DEF more
  <2>2. \A i \in 1..(N + 1) : i = 1 \/ (i - 1 \in 1..N /\ more[i] = seq[i - 1])
    BY <1>1, <2>1
  <2>3. \A i \in 1..N : i + 1 \in 1..(N + 1)
    BY <1>1
  <2>4. ToSet(more) \subseteq ToSet(seq) \cup {u}
    BY <1>1, <2>1, <2>2 DEF ToSet
  <2>5. u \in ToSet(more)
    BY <1>1, <2>1 DEF ToSet
  <2>6. ToSet(seq) \subseteq ToSet(more)
    BY <1>1, <2>1, <2>3 DEF ToSet
  <2> QED
    BY <2>4, <2>5, <2>6 DEF more
<1> QED
  BY <1>2, <1>3

LEMMA FromListsStep == FollowInv /\ FromLists /\ [Next]_vars => FromLists'
<1> SUFFICES ASSUME FollowInv, FromLists, [Next]_vars PROVE FromLists'
  OBVIOUS
<1>1. /\ queue \in Seq(Uploads) /\ Len(queue) <= QueueSize /\ call \in [Callers -> CallType]
      /\ listing \in [Series -> Seq(Uploads)]
  BY DEF FollowInv, TypeOK
<1>2. /\ \A s \in Series : \A u \in ToSet(listing[s]) : SeriesOf[u] = s
      /\ stored \subseteq Offered /\ queue \in Seq(Offered)
      /\ \A c \in Callers : call[c].found \in Seq(Offered)
  BY DEF FromLists
<1>3. ASSUME UNCHANGED listing, stored' \subseteq Offered, queue' \in Seq(Offered),
             \A c \in Callers : call'[c].found \in Seq(Offered)
      PROVE  FromLists'
  <2>1. Offered' = Offered
    BY <1>3 DEF Offered
  <2> QED
    BY <1>2, <1>3, <2>1 DEF FromLists
<1>4. Resting.found = <<>> /\ <<>> \in Seq(Offered)
  BY DEF Resting
<1>5. ASSUME NEW c \in Callers, NEW kind, NEW first, NEW priority, NEW count,
             Begin(c, kind, first, priority, count)
      PROVE  FromLists'
  <2> DEFINE new == [Resting EXCEPT
                       !.pc = IF first = {} THEN "commit" ELSE "load",
                       !.kind = kind, !.first = first, !.left = first,
                       !.priority = priority, !.count = count]
  <2>1. call' = [call EXCEPT ![c] = new] /\ UNCHANGED <<listing, stored, queue>>
    BY <1>5 DEF Begin, world
  <2>2. new.found = <<>>
    BY DEF Resting
  <2> HIDE DEF new
  <2>3. \A d \in Callers : call'[d].found \in Seq(Offered)
    BY <1>1, <1>2, <1>4, <2>1, <2>2
  <2> QED
    BY <1>2, <1>3, <2>1, <2>3
<1>6. CASE \/ \E c \in Crons : Sweep(c)
           \/ \E r \in Requests, s \in Series :
                 \/ Check(r, s)
                 \/ \E priority \in Priorities, count \in Counts : Backfill(r, s, priority, count)
  BY <1>5, <1>6 DEF Sweep, Check, Backfill, Callers
<1>7. ASSUME NEW c \in Callers, CallStep(c) PROVE FromLists'
  <2>1. \A d \in Callers : call'[d].found \in Seq(Offered)
    BY <1>7, CallsHoldOffered
  <2>2. UNCHANGED <<listing, stored>> /\ (UNCHANGED queue \/ EnqueueMissing(c))
    <3>1. ASSUME NEW s \in Series, Load(c, s) \/ SeriesNotFound(c, s) \/ LoadFails(c, s)
          PROVE  UNCHANGED <<listing, stored, queue>>
      BY <3>1 DEF Load, SeriesNotFound, LoadFails, world
    <3>2. CASE List(c) \/ ListFails(c)
      BY <3>2 DEF List, ListFails, world
    <3>3. CASE Commit(c) \/ CommitFails(c)
      BY <3>3 DEF Commit, CommitFails, world
    <3>4. CASE EnqueueMissing(c)
      BY <3>4 DEF EnqueueMissing, world
    <3> QED
      BY <1>7, <3>1, <3>2, <3>3, <3>4 DEF CallStep
  <2>3. CASE EnqueueMissing(c)
    <3>1. Offered \in SUBSET Uploads
      BY DEF Offered
    <3>2. Accepted(c) \in Seq(Offered)
      BY <1>1, <1>2, <3>1, AcceptedOffered
    <3>3. queue' = queue \o Accepted(c)
      BY <2>3 DEF EnqueueMissing
    <3>4. queue' \in Seq(Offered)
      BY <1>2, <3>2, <3>3
    <3> QED
      BY <1>2, <1>3, <2>1, <2>2, <3>4
  <2>4. CASE UNCHANGED queue
    BY <1>2, <1>3, <2>1, <2>2, <2>4
  <2> QED
    BY <2>2, <2>3, <2>4
<1>8. CASE Download \/ DownloadFails
  <2>1. /\ queue # <<>> /\ queue' = Tail(queue) /\ UNCHANGED <<listing, call>>
        /\ stored' \subseteq stored \cup {Head(queue)}
    BY <1>8 DEF Download, DownloadFails, world
  <2>2. Head(queue) \in Offered /\ queue' \in Seq(Offered)
    BY <1>2, <2>1
  <2> QED
    BY <1>2, <1>3, <2>1, <2>2
<1>9. CASE Restart
  BY <1>2, <1>3, <1>4, <1>9 DEF Restart, world
<1>10. CASE (\E s \in Series : Delete(s) \/ ComeDue(s)) \/ UNCHANGED vars
  BY <1>2, <1>3, <1>10 DEF Delete, ComeDue, vars
<1>11. ASSUME NEW u \in Uploads, Publish(u) PROVE FromLists'
  <2> DEFINE s == SeriesOf[u]
  <2>1. s \in Series
    BY FollowAssumption
  <2>2. /\ listing[s] \in Seq(Uploads) /\ UNCHANGED <<stored, queue, call>>
        /\ \/ listing' = [listing EXCEPT ![s] = Append(listing[s], u)]
           \/ listing' = [listing EXCEPT ![s] = <<u>> \o listing[s]]
    BY <1>1, <1>11, <2>1 DEF Publish
  <2>3. /\ ToSet(Append(listing[s], u)) = ToSet(listing[s]) \cup {u}
        /\ ToSet(<<u>> \o listing[s]) = ToSet(listing[s]) \cup {u}
    BY <2>2, ListGrows
  <2>4. \A t \in Series : ToSet(listing'[t]) = IF t = s THEN ToSet(listing[t]) \cup {u}
                                               ELSE ToSet(listing[t])
    BY <1>1, <2>2, <2>3
  <2>5. Offered \subseteq Offered'
    BY <2>4, FollowAssumption DEF Offered
  <2>6. \A t \in Series : \A v \in ToSet(listing'[t]) : SeriesOf[v] = t
    BY <1>2, <2>4
  <2>7. /\ stored' \subseteq Offered' /\ queue' \in Seq(Offered')
        /\ \A c \in Callers : call'[c].found \in Seq(Offered')
    BY <1>2, <2>2, <2>5
  <2> QED
    BY <2>6, <2>7 DEF FromLists
<1> QED
  BY <1>6, <1>7, <1>8, <1>9, <1>10, <1>11, FollowAssumption DEF Next

LEMMA FromListsHold == Spec => []FromLists
<1>1. Init => FromLists
  <2> SUFFICES ASSUME Init PROVE FromLists
    OBVIOUS
  <2>1. \A s \in Series : ToSet(listing[s]) = {}
    BY DEF Init, ToSet
  <2>2. \A c \in Callers : call[c].found = <<>>
    BY DEF Init, Resting
  <2>3. stored = {} /\ queue = <<>> /\ <<>> \in Seq(Offered)
    BY DEF Init
  <2> QED
    BY <2>1, <2>2, <2>3 DEF FromLists
<1> QED
  BY <1>1, FromListsStep, FollowHolds, PTL DEF Spec

\* A chapter in a language that an Italian-first library does not take is never fetched
\* for it, whatever priority a backfill asks for and whatever is listed, enqueued, lost
\* or retried meanwhile: the filter is passed by all that the engine stores.
THEOREM OnlyAllowedIsStored == Spec => [](\A u \in stored : Allowed(u))
<1>1. FromLists => \A u \in stored : Allowed(u)
  BY DEF FromLists, Offered
<1> QED
  BY <1>1, FromListsHold, PTL

\* The source adds a chapter that the library takes only under a number it does not list yet
\* in such a language.
NewNumber ==
    \A u \in Uploads : Publish(u) /\ Allowed(u) =>
        \A v \in ToSet(listing[SeriesOf[u]]) : Allowed(v) => NumberOf[v] # NumberOf[u]

NumbersComeOnce == [][NewNumber]_vars

OfferedOnce ==
    \A u, v \in Offered : SeriesOf[u] = SeriesOf[v] /\ NumberOf[u] = NumberOf[v] => u = v

LEMMA OfferedOnceStep == FollowInv /\ OfferedOnce /\ [Next]_vars /\ NewNumber => OfferedOnce'
<1> SUFFICES ASSUME FollowInv, OfferedOnce, [Next]_vars, NewNumber PROVE OfferedOnce'
  OBVIOUS
<1>1. CASE UNCHANGED listing
  BY <1>1 DEF OfferedOnce, Offered
<1>2. ASSUME NEW u \in Uploads, Publish(u) PROVE OfferedOnce'
  <2> DEFINE s == SeriesOf[u]
  <2>1. s \in Series /\ listing \in [Series -> Seq(Uploads)] /\ listing[s] \in Seq(Uploads)
    BY FollowAssumption DEF FollowInv, TypeOK
  <2>2. \/ listing' = [listing EXCEPT ![s] = Append(listing[s], u)]
        \/ listing' = [listing EXCEPT ![s] = <<u>> \o listing[s]]
    BY <1>2 DEF Publish
  <2>3. /\ ToSet(Append(listing[s], u)) = ToSet(listing[s]) \cup {u}
        /\ ToSet(<<u>> \o listing[s]) = ToSet(listing[s]) \cup {u}
    BY <2>1, ListGrows
  <2>4. \A t \in Series : ToSet(listing'[t]) = IF t = s THEN ToSet(listing[t]) \cup {u}
                                               ELSE ToSet(listing[t])
    BY <2>1, <2>2, <2>3
  <2>5. Offered' \subseteq Offered \cup {u}
    BY <2>4, FollowAssumption DEF Offered
  <2>6. ASSUME NEW v \in Offered, SeriesOf[v] = s, u \in Offered'
        PROVE  NumberOf[v] # NumberOf[u]
    BY <1>2, <2>6 DEF NewNumber, Offered
  <2> QED
    BY <2>5, <2>6 DEF OfferedOnce
<1>3. UNCHANGED listing \/ \E u \in Uploads : Publish(u)
  <2>1. ASSUME NEW c \in Callers, CallStep(c) PROVE UNCHANGED listing
    <3>1. ASSUME NEW s \in Series, Load(c, s) \/ SeriesNotFound(c, s) \/ LoadFails(c, s)
          PROVE  UNCHANGED listing
      BY <3>1 DEF Load, SeriesNotFound, LoadFails, world
    <3> QED
      BY <2>1, <3>1 DEF CallStep, List, ListFails, EnqueueMissing, Commit, CommitFails, world
  <2>2. CASE \/ \E c \in Crons : Sweep(c)
             \/ \E r \in Requests, s \in Series :
                   \/ Check(r, s)
                   \/ \E priority \in Priorities, count \in Counts :
                         Backfill(r, s, priority, count)
    <3>1. ASSUME NEW c, NEW kind, NEW first, NEW priority, NEW count,
                 Begin(c, kind, first, priority, count)
          PROVE  UNCHANGED listing
      BY <3>1 DEF Begin, world
    <3> QED
      BY <2>2, <3>1 DEF Sweep, Check, Backfill
  <2>3. ASSUME NEW s \in Series, Delete(s) \/ ComeDue(s) PROVE UNCHANGED listing
    BY <2>3 DEF Delete, ComeDue
  <2>4. CASE Download \/ DownloadFails \/ Restart \/ UNCHANGED vars
    BY <2>4 DEF Download, DownloadFails, Restart, vars, world
  <2> QED
    BY <2>1, <2>2, <2>3, <2>4, FollowAssumption DEF Next
<1> QED
  BY <1>1, <1>2, <1>3

\* One CBZ per number: as long as the source never adds a second upload of a number in a
\* language that the library takes, no number is stored twice, whatever priorities checks and
\* backfills ask for, however they overlap, and whatever fails or restarts meanwhile.
THEOREM NumbersOnceStoredOnce == Spec /\ NumbersComeOnce => []OneCBZPerNumber
<1>1. Init => OfferedOnce
  <2> SUFFICES ASSUME Init PROVE Offered = {}
    BY DEF OfferedOnce
  <2>1. \A s \in Series : ToSet(listing[s]) = {}
    BY DEF Init, ToSet
  <2> QED
    BY <2>1, FollowAssumption DEF Offered
<1>2. FollowInv /\ OfferedOnce /\ [Next]_vars /\ [NewNumber]_vars => OfferedOnce'
  <2>1. FollowInv /\ OfferedOnce /\ [Next]_vars /\ NewNumber => OfferedOnce'
    BY OfferedOnceStep
  <2>2. OfferedOnce /\ UNCHANGED vars => OfferedOnce'
    BY DEF OfferedOnce, Offered, vars
  <2> QED
    BY <2>1, <2>2
<1>3. FromLists /\ OfferedOnce => OneCBZPerNumber
  BY DEF FromLists, OfferedOnce, OneCBZPerNumber
<1> QED
  BY <1>1, <1>2, <1>3, FromListsHold, FollowHolds, PTL DEF Spec, NumbersComeOnce
=============================================================================
