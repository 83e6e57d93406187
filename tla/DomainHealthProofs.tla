------------------------- MODULE DomainHealthProofs -------------------------
(* Theorems of the domain registry, for any source, any number of sweeps and *)
(* of admin requests, and any number of database errors.                     *)
EXTENDS DomainHealth, SequenceTheorems, TLAPS

-----------------------------------------------------------------------------
(* The inductive invariant. FlipsUnlessRaced is not inductive: a commit      *)
(* writes what it read, so what was read must still be in the table wherever *)
(* the domain was not raced, and at most one may be about to write it.       *)

\* A row is never deleted: what was read as a row is one still.
RowsStay ==
    /\ \A s \in Sweeps :
          sweep[s].pc = "commit" /\ sweep[s].seen # None => table[Domain(s)] # None
    /\ \A a \in Admins : admin[a] # None =>
          \A d \in Domains : admin[a][d] # None => table[d] # None

\* What somebody read of a domain that was not raced is what the table holds.
SeenIsCurrent ==
    /\ \A s \in Sweeps :
          sweep[s].pc = "commit" /\ Domain(s) \notin raced =>
              sweep[s].seen = table[Domain(s)]
    /\ \A a \in Admins : admin[a] # None =>
          \A d \in Domains \ raced : admin[a][d] = table[d]

\* At most one is about to write the row of a domain that was not raced.
OneHolder ==
    /\ \A s, t \in Sweeps :
          /\ s # t
          /\ sweep[s].pc = "commit" /\ sweep[t].pc = "commit"
          /\ Domain(s) = Domain(t)
          => Domain(s) \in raced
    /\ \A s \in Sweeps, a \in Admins :
          sweep[s].pc = "commit" /\ admin[a] # None => Domain(s) \in raced
    /\ \A a, b \in Admins :
          a # b /\ admin[a] # None /\ admin[b] # None => Domains \subseteq raced

\* The row of a domain that was not raced counts its streak.
RowCounts(d) ==
    IF table[d] = None THEN streak[d] = 0
    ELSE /\ table[d].fails = streak[d]
         /\ table[d].healthy <=> streak[d] < FlipAt

RowsCount == \A d \in Domains \ raced : RowCounts(d)

HealthInv == TypeOK /\ RowsStay /\ SeenIsCurrent /\ OneHolder /\ RowsCount

-----------------------------------------------------------------------------
LEMMA OneMoreType ==
    ASSUME NEW n \in 0..MaxFails
    PROVE  OneMore(n) \in 0..MaxFails
  BY CountsAssumption DEF OneMore

LEMMA RecordedType ==
    ASSUME NEW outcome, NEW row \in Row
    PROVE  Recorded(outcome, row) \in Row /\ Succeeded(row) \in Row
<1>1. Succeeded(row) \in Row
  <2>1. 0 \in 0..MaxFails
    BY CountsAssumption
  <2> QED
    BY <2>1 DEF Succeeded, Row
<1>2. Failed(row) \in Row
  <2>1. OneMore(row.fails) \in 0..MaxFails /\ row.healthy \in BOOLEAN
    BY OneMoreType DEF Row
  <2>2. (row.healthy /\ OneMore(row.fails) < FlipAt) \in BOOLEAN
    OBVIOUS
  <2> QED
    BY <2>1, <2>2 DEF Failed, Row
<1> QED
  BY <1>1, <1>2 DEF Recorded

LEMMA UpdatedType ==
    ASSUME NEW row \in Row, NEW seen, NEW new \in Row
    PROVE  Updated(row, seen, new) \in Row
  BY DEF Updated, Row

\* Nobody wrote the row since it was read: the row becomes what was computed.
LEMMA UpdatedCurrent ==
    ASSUME NEW row \in Row, NEW new \in Row
    PROVE  Updated(row, row, new) = new
  BY DEF Updated, Row

\* What is computed from a row that counts its streak counts the next one.
LEMMA RecordedCounts ==
    ASSUME NEW outcome, NEW row \in Row, NEW n \in 0..MaxFails,
           row.fails = n, row.healthy <=> n < FlipAt
    PROVE  /\ Recorded(outcome, row).fails = NewStreak(outcome, n)
           /\ Recorded(outcome, row).healthy <=> NewStreak(outcome, n) < FlipAt
<1>1. CASE outcome = "up"
  BY <1>1 DEF Recorded, Succeeded, NewStreak, Row, FlipAt
<1>2. CASE outcome # "up"
  <2>1. Recorded(outcome, row) =
          [fails |-> OneMore(row.fails),
           healthy |-> row.healthy /\ OneMore(row.fails) < FlipAt]
    BY <1>2 DEF Recorded, Failed
  <2>2. OneMore(n) < FlipAt => n < FlipAt
    BY CountsAssumption DEF OneMore, FlipAt
  <2>3. NewStreak(outcome, n) = OneMore(n)
    BY <1>2 DEF NewStreak
  <2>4. /\ Recorded(outcome, row).fails = OneMore(n)
        /\ Recorded(outcome, row).healthy = (row.healthy /\ OneMore(n) < FlipAt)
    BY <2>1
  <2> QED
    BY <2>2, <2>3, <2>4
<1> QED
  BY <1>1, <1>2

LEMMA FreshCounts == Fresh \in Row /\ Fresh.fails = 0 /\ Fresh.healthy
  BY CountsAssumption DEF Fresh, Row

\* A sweep under way has a domain to work on.
LEMMA DomainType ==
    ASSUME TypeOK, NEW s \in Sweeps, sweep[s].pc # "idle"
    PROVE  Domain(s) \in Domains
<1>1. sweep[s].left \in Seq(Domains) /\ sweep[s].left # <<>>
  BY DEF TypeOK, SweepType
<1> QED
  BY <1>1, HeadTailProperties DEF Domain

LEMMA RestingType ==
    /\ Resting \in SweepType
    /\ Resting.pc = "idle" /\ Resting.left = <<>>
  BY DEF Resting, SweepType, Outcomes, Seen

LEMMA AdvancedType ==
    ASSUME TypeOK, NEW s \in Sweeps, sweep[s].pc # "idle"
    PROVE  /\ Advanced(s) \in SweepType
           /\ Advanced(s).pc = "idle" <=> Advanced(s).left = <<>>
           /\ Advanced(s).pc # "commit"
<1> DEFINE l == sweep[s].left
<1>1. l \in Seq(Domains) /\ l # <<>>
  BY DEF TypeOK, SweepType
<1>2. Tail(l) \in Seq(Domains) /\ Len(Tail(l)) = Len(l) - 1
  BY <1>1, HeadTailProperties
<1>3. CASE Len(l) = 1
  BY <1>3, RestingType DEF Advanced
<1>4. CASE Len(l) # 1
  <2>1. Tail(l) # <<>>
    <3>1. Len(l) \in Nat /\ Len(l) # 0
      BY <1>1, EmptySeq
    <3>2. Len(Tail(l)) # 0
      BY <1>2, <1>4, <3>1
    <3> HIDE DEF l
    <3> QED
      BY <1>2, <3>2, EmptySeq
  <2>2. Advanced(s) = [Resting EXCEPT !.pc = "ping", !.left = Tail(l)]
    BY <1>4 DEF Advanced
  <2> HIDE DEF l
  <2> QED
    BY <1>2, <2>1, <2>2 DEF Resting, SweepType, Outcomes, Seen
<1> QED
  BY <1>3, <1>4

-----------------------------------------------------------------------------
LEMMA InitHealth == Init => HealthInv
<1> SUFFICES ASSUME Init PROVE HealthInv
  OBVIOUS
<1>1. table \in [Domains -> Seen]
  BY FreshCounts DEF Init, Seen
<1>2. \A s \in Sweeps : sweep[s] = Resting
  BY DEF Init
<1>3. TypeOK
  <2>1. sweep \in [Sweeps -> SweepType]
    BY RestingType DEF Init
  <2>2. \A s \in Sweeps : sweep[s].pc = "idle" <=> sweep[s].left = <<>>
    BY <1>2, RestingType
  <2>3. streak \in [Domains -> 0..MaxFails] /\ faults \in 0..MaxFaults
    BY CountsAssumption DEF Init
  <2> QED
    BY <1>1, <2>1, <2>2, <2>3 DEF Init, TypeOK
<1>4. RowsStay /\ SeenIsCurrent /\ OneHolder
  <2>1. \A s \in Sweeps : sweep[s].pc # "commit"
    BY <1>2, RestingType
  <2>2. \A a \in Admins : admin[a] = None
    BY DEF Init
  <2> QED
    BY <2>1, <2>2 DEF RowsStay, SeenIsCurrent, OneHolder
<1>5. RowsCount
  <2> SUFFICES ASSUME NEW d \in Domains PROVE RowCounts(d)
    BY DEF RowsCount
  <2>1. table[d] \in {None, Fresh} /\ streak[d] = 0
    BY DEF Init
  <2>2. 0 < FlipAt
    BY DEF FlipAt
  <2> QED
    BY <2>1, <2>2, FreshCounts DEF RowCounts
<1> QED
  BY <1>3, <1>4, <1>5 DEF HealthInv

\* A step that leaves the table and the admins alone, takes no domain, and
\* gives a sweep a stack that is not at its commit.
LEMMA LocalStep ==
    ASSUME HealthInv, NEW s \in Sweeps, NEW stack \in SweepType,
           stack.pc = "idle" <=> stack.left = <<>>,
           stack.pc # "commit",
           sweep' = [sweep EXCEPT ![s] = stack],
           UNCHANGED <<alive, table, streak, raced, admin>>,
           faults' \in 0..MaxFaults
    PROVE  HealthInv'
<1>1. sweep' \in [Sweeps -> SweepType]
  BY DEF HealthInv, TypeOK
<1>2. \A t \in Sweeps : sweep'[t] = IF t = s THEN stack ELSE sweep[t]
  BY DEF HealthInv, TypeOK
<1>3. TypeOK'
  BY <1>1, <1>2 DEF HealthInv, TypeOK
<1>4. \A t \in Sweeps : sweep'[t].pc = "commit" => sweep'[t] = sweep[t] /\ t # s
  BY <1>2
<1>5. RowsStay' /\ SeenIsCurrent' /\ OneHolder'
  BY <1>4 DEF HealthInv, RowsStay, SeenIsCurrent, OneHolder, Domain
<1>6. RowsCount'
  BY DEF HealthInv, RowsCount, RowCounts
<1> QED
  BY <1>3, <1>5, <1>6 DEF HealthInv

LEMMA RecordingRaisesStep ==
    ASSUME HealthInv, NEW s \in Sweeps, sweep[s].pc # "idle",
           RecordingRaises(s), faults' \in 0..MaxFaults
    PROVE  HealthInv'
<1> DEFINE again == [sweep[s] EXCEPT !.pc = "read", !.outcome = "error", !.seen = None]
<1>1. /\ again \in SweepType
      /\ again.pc = "read" /\ again.left # <<>>
  BY DEF HealthInv, TypeOK, SweepType, Outcomes, Seen
<1>2. sweep' = [sweep EXCEPT ![s] = IF sweep[s].outcome = "error" THEN Resting ELSE again]
  BY DEF RecordingRaises
<1> HIDE DEF again
<1>3. CASE sweep[s].outcome = "error"
  BY <1>2, <1>3, RestingType, LocalStep DEF RecordingRaises
<1>4. CASE sweep[s].outcome # "error"
  BY <1>1, <1>2, <1>4, LocalStep DEF RecordingRaises
<1> QED
  BY <1>3, <1>4

LEMMA ReadStep ==
    ASSUME HealthInv, NEW s \in Sweeps, Read(s)
    PROVE  HealthInv'
<1> DEFINE stack == [sweep[s] EXCEPT !.pc = "commit", !.seen = table[Domain(s)]]
           d == Domain(s)
<1>1. d \in Domains /\ table[d] \in Seen
  BY DomainType DEF HealthInv, Read, TypeOK
<1>2. /\ stack \in SweepType
      /\ stack.pc = "commit" /\ stack.left = sweep[s].left /\ stack.seen = table[d]
      /\ stack.left # <<>>
  BY <1>1 DEF HealthInv, TypeOK, Read, SweepType
<1>3. \A t \in Sweeps : sweep'[t] = IF t = s THEN stack ELSE sweep[t]
  BY DEF HealthInv, TypeOK, Read
<1> HIDE DEF stack
<1>4. TypeOK'
  <2>1. sweep' \in [Sweeps -> SweepType]
    <3>1. sweep' = [sweep EXCEPT ![s] = stack]
      BY DEF Read, stack
    <3> QED
      BY <1>2, <3>1 DEF HealthInv, TypeOK
  <2>2. raced' \subseteq Domains
    BY <1>1 DEF HealthInv, TypeOK, Read
  <2> QED
    BY <1>2, <1>3, <2>1, <2>2 DEF HealthInv, TypeOK, Read
<1>5. /\ Domain(s)' = d
      /\ \A t \in Sweeps : t # s => Domain(t)' = Domain(t)
  BY <1>2, <1>3 DEF Domain
<1>6. /\ raced \subseteq raced'
      /\ d \notin raced' => d \notin Held
  BY DEF Read
<1>7. UNCHANGED <<table, streak, admin>>
  BY DEF Read
<1>8. RowsStay' /\ SeenIsCurrent'
  BY <1>2, <1>3, <1>5, <1>6, <1>7 DEF HealthInv, RowsStay, SeenIsCurrent
<1>9. OneHolder'
  <2>1. \A t \in Sweeps : t # s /\ sweep[t].pc = "commit" /\ Domain(t) = d => d \in raced'
    BY <1>6 DEF Held
  <2>2. \A a \in Admins : admin[a] # None => d \in raced'
    BY <1>1, <1>6 DEF Held
  <2> QED
    BY <1>2, <1>3, <1>5, <1>6, <1>7, <2>1, <2>2 DEF HealthInv, OneHolder
<1>10. RowsCount'
  BY <1>6, <1>7 DEF HealthInv, RowsCount, RowCounts
<1> QED
  BY <1>4, <1>8, <1>9, <1>10 DEF HealthInv

\* A commit that writes the row computed from the row it read.
LEMMA CommitStep ==
    ASSUME HealthInv, NEW s \in Sweeps, sweep[s].pc = "commit",
           NEW row \in Row, Commit(s, row),
           Domain(s) \notin raced =>
               /\ row.fails = NewStreak(sweep[s].outcome, streak[Domain(s)])
               /\ row.healthy <=> NewStreak(sweep[s].outcome, streak[Domain(s)]) < FlipAt
    PROVE  HealthInv'
<1> DEFINE d == Domain(s)
           n == NewStreak(sweep[s].outcome, streak[d])
<1>1. d \in Domains
  BY DomainType DEF HealthInv
<1>2. n \in 0..MaxFails
  BY <1>1, OneMoreType, CountsAssumption DEF HealthInv, TypeOK, NewStreak
<1>3. \A t \in Sweeps : sweep'[t] = IF t = s THEN Advanced(s) ELSE sweep[t]
  BY DEF HealthInv, TypeOK, Commit
<1>4. /\ table' = [table EXCEPT ![d] = row]
      /\ streak' = [streak EXCEPT ![d] = n]
      /\ UNCHANGED <<alive, raced, admin, faults>>
  BY DEF Commit
<1>5. /\ \A e \in Domains : table'[e] = IF e = d THEN row ELSE table[e]
      /\ \A e \in Domains : streak'[e] = IF e = d THEN n ELSE streak[e]
  BY <1>1, <1>4 DEF HealthInv, TypeOK
<1>6. TypeOK'
  <2>1. table' \in [Domains -> Seen] /\ streak' \in [Domains -> 0..MaxFails]
    BY <1>2, <1>4 DEF HealthInv, TypeOK, Seen
  <2>2. sweep' \in [Sweeps -> SweepType]
    BY AdvancedType DEF HealthInv, TypeOK, Commit
  <2>3. \A t \in Sweeps : sweep'[t].pc = "idle" <=> sweep'[t].left = <<>>
    BY <1>3, AdvancedType DEF HealthInv, TypeOK
  <2> QED
    BY <1>4, <2>1, <2>2, <2>3 DEF HealthInv, TypeOK
<1>7. \A t \in Sweeps : sweep'[t].pc = "commit" =>
        /\ t # s /\ sweep'[t] = sweep[t]
        /\ Domain(t)' = Domain(t) /\ Domain(t) \in Domains
  BY <1>3, AdvancedType, DomainType DEF HealthInv, Domain
<1>8. row # None
  BY NoneAssumption
<1> HIDE DEF d, n
<1>9. RowsStay'
  BY <1>4, <1>5, <1>7, <1>8 DEF HealthInv, RowsStay
<1>10. SeenIsCurrent'
  <2>1. \A t \in Sweeps : t # s /\ sweep[t].pc = "commit" /\ Domain(t) = d => d \in raced
    BY DEF HealthInv, OneHolder, d
  <2>2. \A a \in Admins : admin[a] # None => d \in raced
    BY DEF HealthInv, OneHolder, d
  <2> QED
    BY <1>4, <1>5, <1>7, <2>1, <2>2 DEF HealthInv, SeenIsCurrent
<1>11. OneHolder'
  BY <1>4, <1>7 DEF HealthInv, OneHolder
<1>12. RowsCount'
  BY <1>4, <1>5, <1>8 DEF HealthInv, RowsCount, RowCounts, d, n
<1> QED
  BY <1>6, <1>9, <1>10, <1>11, <1>12 DEF HealthInv

LEMMA InsertRowStep ==
    ASSUME HealthInv, NEW s \in Sweeps, InsertRow(s)
    PROVE  HealthInv'
<1> DEFINE d == Domain(s)
           row == Recorded(sweep[s].outcome, Fresh)
<1>1. d \in Domains /\ sweep[s].pc = "commit" /\ table[d] = None
  BY DomainType DEF HealthInv, InsertRow
<1>2. row \in Row
  BY FreshCounts, RecordedType
<1>3. d \notin raced => streak[d] = 0
  BY <1>1 DEF HealthInv, RowsCount, RowCounts
<1>4. 0 \in 0..MaxFails /\ (Fresh.healthy <=> 0 < FlipAt)
  BY FreshCounts, CountsAssumption DEF FlipAt
<1>5. d \notin raced =>
        /\ row.fails = NewStreak(sweep[s].outcome, streak[d])
        /\ row.healthy <=> NewStreak(sweep[s].outcome, streak[d]) < FlipAt
  BY <1>3, <1>4, FreshCounts, RecordedCounts
<1>6. Commit(s, row)
  BY DEF InsertRow
<1> HIDE DEF row
<1> QED
  BY <1>1, <1>2, <1>5, <1>6, CommitStep

LEMMA UpdateRowStep ==
    ASSUME HealthInv, NEW s \in Sweeps, UpdateRow(s)
    PROVE  HealthInv'
<1> DEFINE d == Domain(s)
           seen == sweep[s].seen
           new == Recorded(sweep[s].outcome, seen)
           row == Updated(table[d], seen, new)
<1>1. d \in Domains /\ sweep[s].pc = "commit" /\ seen # None
  BY DomainType DEF HealthInv, UpdateRow
<1>2. table[d] \in Row /\ seen \in Row /\ streak[d] \in 0..MaxFails
  BY <1>1 DEF HealthInv, TypeOK, RowsStay, SweepType, Seen
<1>3. new \in Row
  BY <1>2, RecordedType
<1>4. row \in Row
  BY <1>2, <1>3, UpdatedType
<1>5. d \notin raced =>
        /\ row.fails = NewStreak(sweep[s].outcome, streak[d])
        /\ row.healthy <=> NewStreak(sweep[s].outcome, streak[d]) < FlipAt
  <2> SUFFICES ASSUME d \notin raced
               PROVE  /\ row.fails = NewStreak(sweep[s].outcome, streak[d])
                      /\ row.healthy <=> NewStreak(sweep[s].outcome, streak[d]) < FlipAt
    OBVIOUS
  <2>1. seen = table[d]
    BY <1>1 DEF HealthInv, SeenIsCurrent
  <2>2. row = new
    BY <1>2, <1>3, <2>1, UpdatedCurrent
  <2>3. seen.fails = streak[d] /\ (seen.healthy <=> streak[d] < FlipAt)
    BY <1>1, <2>1 DEF HealthInv, RowsCount, RowCounts
  <2> QED
    BY <1>2, <2>2, <2>3, RecordedCounts
<1>6. Commit(s, row)
  BY DEF UpdateRow
<1> HIDE DEF row
<1> QED
  BY <1>1, <1>4, <1>5, <1>6, CommitStep

LEMMA SweepStepHealth ==
    ASSUME HealthInv, NEW s \in Sweeps, Begin(s) \/ SweepStep(s)
    PROVE  HealthInv'
<1>0. faults \in 0..MaxFaults
  BY DEF HealthInv, TypeOK
<1>1. CASE Begin(s)
  <2> DEFINE stack == [Resting EXCEPT !.pc = "ping", !.left = Order]
  <2>1. /\ stack \in SweepType
        /\ stack.pc = "ping" /\ stack.left # <<>>
    BY DomainsAssumption DEF Resting, SweepType, Outcomes, Seen
  <2>2. sweep' = [sweep EXCEPT ![s] = stack]
    BY <1>1 DEF Begin
  <2> HIDE DEF stack
  <2> QED
    BY <1>0, <1>1, <2>1, <2>2, LocalStep DEF Begin
<1>2. CASE Ping(s)
  <2>1. PICK outcome \in Outcomes :
          sweep' = [sweep EXCEPT ![s].pc = "read", ![s].outcome = outcome]
    BY <1>2 DEF Ping
  <2> DEFINE stack == [sweep[s] EXCEPT !.pc = "read", !.outcome = outcome]
  <2>2. /\ stack \in SweepType
        /\ stack.pc = "read" /\ stack.left # <<>>
    BY <1>2 DEF HealthInv, TypeOK, SweepType, Ping
  <2>3. sweep' = [sweep EXCEPT ![s] = stack]
    BY <2>1 DEF HealthInv, TypeOK
  <2> HIDE DEF stack
  <2> QED
    BY <1>0, <1>2, <2>2, <2>3, LocalStep DEF Ping
<1>3. CASE Read(s)
  BY <1>3, ReadStep
<1>4. CASE InsertRow(s)
  BY <1>4, InsertRowStep
<1>5. CASE UpdateRow(s)
  BY <1>5, UpdateRowStep
<1>6. CASE RowTaken(s)
  BY <1>0, <1>6, RecordingRaisesStep DEF RowTaken
<1>7. CASE DatabaseError(s)
  <2>1. faults' \in 0..MaxFaults
    BY <1>0, <1>7, CountsAssumption DEF DatabaseError
  <2> QED
    BY <1>7, <2>1, RecordingRaisesStep DEF DatabaseError
<1> QED
  BY <1>1, <1>2, <1>3, <1>4, <1>5, <1>6, <1>7 DEF SweepStep

LEMMA LoadRowsStep ==
    ASSUME HealthInv, NEW a \in Admins, LoadRows(a)
    PROVE  HealthInv'
<1>1. \A b \in Admins : admin'[b] = IF b = a THEN table ELSE admin[b]
  BY DEF HealthInv, TypeOK, LoadRows
<1>2. \A s \in Sweeps : sweep[s].pc = "commit" => Domain(s) \in Domains
  BY DomainType DEF HealthInv
<1>3. /\ UNCHANGED <<alive, table, streak, sweep, faults>>
      /\ raced' = raced \cup Held
      /\ \A s \in Sweeps : Domain(s)' = Domain(s)
  BY DEF LoadRows, Domain
<1>4. TypeOK'
  <2>1. raced' \subseteq Domains
    BY <1>2, <1>3 DEF HealthInv, TypeOK, Held
  <2>2. admin' \in [Admins -> [Domains -> Seen] \cup {None}]
    BY DEF HealthInv, TypeOK, LoadRows
  <2> QED
    BY <1>3, <2>1, <2>2 DEF HealthInv, TypeOK
<1>5. RowsStay' /\ SeenIsCurrent'
  BY <1>1, <1>3 DEF HealthInv, RowsStay, SeenIsCurrent
<1>6. OneHolder'
  <2>1. \A s \in Sweeps : sweep[s].pc = "commit" => Domain(s) \in raced'
    BY <1>3 DEF Held
  <2>2. \A b \in Admins : b # a /\ admin[b] # None => Domains \subseteq raced'
    BY <1>3 DEF Held
  <2>3. \A b, c \in Admins : b # c /\ admin'[b] # None /\ admin'[c] # None
          => Domains \subseteq raced'
    BY <1>1, <1>3, <2>2 DEF HealthInv, OneHolder
  <2> QED
    BY <1>3, <2>1, <2>3 DEF HealthInv, OneHolder
<1>7. RowsCount'
  BY <1>3 DEF HealthInv, RowsCount, RowCounts
<1> QED
  BY <1>4, <1>5, <1>6, <1>7 DEF HealthInv

LEMMA ResetStep ==
    ASSUME HealthInv, NEW a \in Admins, Reset(a)
    PROVE  HealthInv'
<1> DEFINE seen == admin[a]
<1>1. seen \in [Domains -> Seen] /\ seen # None
  BY DEF HealthInv, TypeOK, Reset
<1>2. \A b \in Admins : admin'[b] = IF b = a THEN None ELSE admin[b]
  BY DEF HealthInv, TypeOK, Reset
<1>3. UNCHANGED <<alive, raced, sweep, faults>> /\ \A s \in Sweeps : Domain(s)' = Domain(s)
  BY DEF Reset, Domain
<1>4. \A d \in Domains :
        /\ table'[d] = IF seen[d] = None THEN table[d]
                       ELSE Updated(table[d], seen[d], Succeeded(seen[d]))
        /\ streak'[d] = IF seen[d] = None THEN streak[d] ELSE 0
  BY DEF Reset
<1>5. \A d \in Domains : seen[d] # None =>
        /\ seen[d] \in Row /\ table[d] \in Row
        /\ Succeeded(seen[d]) \in Row /\ table'[d] \in Row
  <2> SUFFICES ASSUME NEW d \in Domains, seen[d] # None
               PROVE  /\ seen[d] \in Row /\ table[d] \in Row
                      /\ Succeeded(seen[d]) \in Row /\ table'[d] \in Row
    OBVIOUS
  <2>1. seen[d] \in Row /\ table[d] \in Row
    BY <1>1 DEF HealthInv, TypeOK, RowsStay, Seen
  <2>2. Succeeded(seen[d]) \in Row
    BY <2>1, RecordedType
  <2> QED
    BY <1>4, <2>1, <2>2, UpdatedType
<1>6. \A d \in Domains : seen[d] = None => table'[d] = table[d] /\ streak'[d] = streak[d]
  BY <1>4
<1>7. TypeOK'
  <2>1. \A d \in Domains : table'[d] \in Seen /\ streak'[d] \in 0..MaxFails
    BY <1>4, <1>5, <1>6, CountsAssumption DEF HealthInv, TypeOK, Seen
  <2>2. table' \in [Domains -> Seen] /\ streak' \in [Domains -> 0..MaxFails]
    BY <2>1 DEF Reset
  <2>3. admin' \in [Admins -> [Domains -> Seen] \cup {None}]
    BY DEF HealthInv, TypeOK, Reset
  <2> QED
    BY <1>3, <2>2, <2>3 DEF HealthInv, TypeOK
<1>8. \A d \in Domains : table[d] # None => table'[d] # None
  BY <1>5, <1>6, NoneAssumption
<1>9. RowsStay'
  <2>1. \A s \in Sweeps : sweep[s].pc = "commit" => Domain(s) \in Domains
    BY DomainType DEF HealthInv
  <2> QED
    BY <1>2, <1>3, <1>8, <2>1 DEF HealthInv, RowsStay
<1>10. SeenIsCurrent'
  <2>1. \A s \in Sweeps : sweep[s].pc = "commit" => Domain(s) \in raced
    BY <1>1 DEF HealthInv, OneHolder
  <2>2. \A b \in Admins : b # a /\ admin[b] # None => Domains \subseteq raced
    BY <1>1 DEF HealthInv, OneHolder
  <2> QED
    BY <1>2, <1>3, <2>1, <2>2 DEF HealthInv, SeenIsCurrent
<1>11. OneHolder'
  BY <1>2, <1>3 DEF HealthInv, OneHolder
<1>12. RowsCount'
  <2> SUFFICES ASSUME NEW d \in Domains, d \notin raced
               PROVE  RowCounts(d)'
    BY <1>3 DEF RowsCount
  <2>1. CASE seen[d] = None
    BY <1>6, <2>1 DEF HealthInv, RowsCount, RowCounts
  <2>2. CASE seen[d] # None
    <3>1. seen[d] = table[d]
      BY <1>1 DEF HealthInv, SeenIsCurrent
    <3>2. table'[d] = Succeeded(table[d]) /\ streak'[d] = 0
      BY <1>4, <1>5, <2>2, <3>1, UpdatedCurrent
    <3>3. Succeeded(table[d]).fails = 0 /\ Succeeded(table[d]).healthy
      BY <1>5, <2>2 DEF Succeeded, Row
    <3>4. table'[d] # None
      BY <1>5, <2>2, NoneAssumption
    <3> QED
      BY <3>2, <3>3, <3>4 DEF RowCounts, FlipAt
  <2> QED
    BY <2>1, <2>2
<1> QED
  BY <1>7, <1>9, <1>10, <1>11, <1>12 DEF HealthInv

LEMMA ResetFailsStep ==
    ASSUME HealthInv, NEW a \in Admins, ResetFails(a)
    PROVE  HealthInv'
<1>1. \A b \in Admins : admin'[b] = IF b = a THEN None ELSE admin[b]
  BY DEF HealthInv, TypeOK, ResetFails
<1>2. /\ UNCHANGED <<alive, table, streak, raced, sweep>>
      /\ \A s \in Sweeps : Domain(s)' = Domain(s)
  BY DEF ResetFails, Domain
<1>3. TypeOK'
  <2>1. faults' \in 0..MaxFaults
    BY CountsAssumption DEF HealthInv, TypeOK, ResetFails
  <2>2. admin' \in [Admins -> [Domains -> Seen] \cup {None}]
    BY DEF HealthInv, TypeOK, ResetFails
  <2> QED
    BY <1>2, <2>1, <2>2 DEF HealthInv, TypeOK
<1>4. RowsStay' /\ SeenIsCurrent' /\ OneHolder'
  BY <1>1, <1>2 DEF HealthInv, RowsStay, SeenIsCurrent, OneHolder
<1>5. RowsCount'
  BY <1>2 DEF HealthInv, RowsCount, RowCounts
<1> QED
  BY <1>3, <1>4, <1>5 DEF HealthInv

LEMMA IdleHealth ==
    ASSUME HealthInv, UNCHANGED <<table, streak, raced, sweep, admin, faults>>,
           alive' \subseteq Domains
    PROVE  HealthInv'
<1>1. TypeOK'
  BY DEF HealthInv, TypeOK
<1>2. RowsStay' /\ SeenIsCurrent' /\ OneHolder' /\ RowsCount'
  BY DEF HealthInv, RowsStay, SeenIsCurrent, OneHolder, RowsCount, RowCounts, Domain
<1> QED
  BY <1>1, <1>2 DEF HealthInv

LEMMA NextHealth == HealthInv /\ [Next]_vars => HealthInv'
<1> SUFFICES ASSUME HealthInv, [Next]_vars PROVE HealthInv'
  OBVIOUS
<1>1. ASSUME NEW s \in Sweeps, Begin(s) \/ SweepStep(s) PROVE HealthInv'
  BY <1>1, SweepStepHealth
<1>2. ASSUME NEW a \in Admins, AdminStep(a) PROVE HealthInv'
  BY <1>2, LoadRowsStep, ResetStep, ResetFailsStep DEF AdminStep
<1>3. ASSUME NEW d \in Domains, Turn(d) PROVE HealthInv'
  BY <1>3, IdleHealth DEF Turn, HealthInv, TypeOK
<1>4. CASE UNCHANGED vars
  BY <1>4, IdleHealth DEF vars, HealthInv, TypeOK
<1> QED
  BY <1>1, <1>2, <1>3, <1>4 DEF Next

LEMMA HealthInvariant == Spec => []HealthInv
  BY InitHealth, NextHealth, PTL DEF Spec

\* Every variable of the registry keeps its shape: a row once read as one can
\* still be updated, and no sweep loses its place in the list of domains.
THEOREM HealthTypeCorrect == Spec => []TypeOK
<1>1. HealthInv => TypeOK
  BY DEF HealthInv
<1> QED
  BY <1>1, HealthInvariant, PTL

\* A domain is healthy exactly while fewer than three failures in a row have been
\* committed for it, unless two of the sweeps and resets that read a row before
\* they write it (DomainRegistry._update, reset_provider_health) overlapped there.
THEOREM UnracedDomainsFlip == Spec => []FlipsUnlessRaced
<1>1. HealthInv => FlipsUnlessRaced
  BY DEF HealthInv, RowsCount, RowCounts, FlipsUnlessRaced, FlagAgrees
<1> QED
  BY <1>1, HealthInvariant, PTL

-----------------------------------------------------------------------------
(* What the flag asks of those who write it.                                *)

\* No row is read, to be written, while somebody has read it and not yet committed.
ReadsApart ==
    /\ \A s \in Sweeps : Read(s) => Domain(s) \notin Held
    /\ \A a \in Admins : LoadRows(a) => Held = {}

RecordingsApart == [][ReadsApart]_vars

LEMMA NoneRaced ==
    ASSUME raced = {}, [Next]_vars, ReadsApart
    PROVE  raced' = {}
<1>1. ASSUME NEW s \in Sweeps, Read(s) PROVE raced' = {}
  <2>1. Domain(s) \notin Held
    BY <1>1 DEF ReadsApart
  <2>2. raced' = raced \cup (Held \cap {Domain(s)})
    BY <1>1 DEF Read
  <2> QED
    BY <2>1, <2>2
<1>2. ASSUME NEW a \in Admins, LoadRows(a) PROVE raced' = {}
  <2>1. Held = {}
    BY <1>2 DEF ReadsApart
  <2> QED
    BY <1>2, <2>1 DEF LoadRows
<1>3. ASSUME NEW s \in Sweeps, Begin(s) \/ SweepStep(s), ~Read(s) PROVE raced' = raced
  BY <1>3 DEF Begin, SweepStep, Ping, InsertRow, UpdateRow, Commit, RowTaken, DatabaseError,
     RecordingRaises
<1>4. ASSUME NEW a \in Admins, AdminStep(a), ~LoadRows(a) PROVE raced' = raced
  BY <1>4 DEF AdminStep, Reset, ResetFails
<1>5. ASSUME (\E d \in Domains : Turn(d)) \/ UNCHANGED vars PROVE raced' = raced
  BY <1>5 DEF Turn, vars
<1> QED
  BY <1>1, <1>2, <1>3, <1>4, <1>5 DEF Next

\* The flag of every domain flips with its third failure in a row, and not before, for any
\* sweeps, resets and database errors, as long as no row is read while another has read it
\* and not yet committed: nothing else that the code does makes the flag and the failures
\* disagree.
THEOREM ApartDomainsFlip == Spec /\ RecordingsApart => []FlipsAfterThree
<1>1. Init => raced = {}
  BY DEF Init
<1>2. raced = {} /\ [Next]_vars /\ [ReadsApart]_vars => (raced = {})'
  <2>1. raced = {} /\ [Next]_vars /\ ReadsApart => raced' = {}
    BY NoneRaced
  <2>2. raced = {} /\ UNCHANGED vars => raced' = {}
    BY DEF vars
  <2> QED
    BY <2>1, <2>2
<1>3. raced = {} /\ FlipsUnlessRaced => FlipsAfterThree
  BY DEF FlipsUnlessRaced, FlipsAfterThree
<1> QED
  BY <1>1, <1>2, <1>3, UnracedDomainsFlip, PTL DEF Spec, RecordingsApart

\* So it does where the cron's sweep is the only one that records, never started twice.
THEOREM OneSweepFlips ==
    ASSUME \A s, t \in Sweeps : s = t, Admins = {}
    PROVE  Spec => []FlipsAfterThree
<1>1. [Next]_vars => [ReadsApart]_vars
  <2> SUFFICES ASSUME NEW s \in Sweeps, Read(s) PROVE Domain(s) \notin Held
    BY DEF ReadsApart
  <2>1. \A t \in Sweeps : sweep[t].pc # "commit"
    BY DEF Read
  <2> QED
    BY <2>1 DEF Held
<1>2. Spec => RecordingsApart
  BY <1>1, PTL DEF Spec, RecordingsApart
<1> QED
  BY <1>2, ApartDomainsFlip
=============================================================================
