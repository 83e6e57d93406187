---------------------------- MODULE ServiceProofs ----------------------------
(***************************************************************************)
(* Theorems of the rows of series, of the requests that add, refresh and   *)
(* rename them, of the records their metadata is merged from, and of the   *)
(* live list of jobs.                                                      *)
(***************************************************************************)
EXTENDS Catalog, JobFeed, Merger, OrderingProofs

-----------------------------------------------------------------------------
(* The inductive invariant of Catalog.                                     *)

\* The row an add inserts.
Fresh(r) == [title |-> SourceTitle[r.id], deleted |-> FALSE, genres |-> {}]

\* What a request holds at each point, n rows being in the table.
HoldsAt(r, n) ==
    /\ r.pc = "idle" => r = Quiet
    /\ r.pc # "idle" => r.kind # "none"
    /\ r.pc \in {"scrape", "insert", "map"} => r.kind = "add"
    /\ r.kind = "add" => r.id \in ExternalIds
    /\ r.plan # "none" => r.kind = "add"
    /\ r.pc = "scrape" => r.s = 0 /\ r.new = NoRow
    /\ r.pc = "insert" => r.s <= n + 1 /\ r.new = Fresh(r)
    /\ r.pc \in {"map", "fetch", "apply", "commit"} => r.s \in 1..(n + 1)
    /\ r.pc \in {"fetch", "apply"} => r.s <= n
    /\ r.pc = "map" /\ r.s <= n => r.new = NoRow
    /\ r.pc = "apply" => r.new # NoRow

\* Who inserted a row that is not committed yet.
Inserting(r, n) == r.pc \in {"map", "commit"} /\ r.s = n + 1

\* A refresh has loaded the genres of its series and may write them.
Loaded(r) == r.pc \in {"fetch", "apply"} \/ (r.pc = "commit" /\ r.new # NoRow)

RequestOK(c) ==
    LET r == req[c]
        n == Len(series)
    IN  /\ HoldsAt(r, n)
        /\ Inserting(r, n) => lock = c /\ r.kind = "add" /\ r.new = Fresh(r)
        /\ lock = c /\ r.pc = "map" => r.s = n + 1
        /\ Loaded(r) /\ r.kind # "patch" /\ r.s <= n /\ ~r.late
              => r.seen.genres = series[r.s].genres

Asked(r) == SourceTitle[r.id]

\* The adds that found no series of their title: there is room for their rows, and each is
\* still alone with its title, or the title is excused.
CreatingOK ==
    /\ IsFiniteSet(Creating)
    /\ Len(series) + Cardinality(Creating) <= MaxSeries
    /\ \A c, d \in Creating :
          c # d /\ Asked(req[c]) = Asked(req[d]) => Asked(req[c]) \in excused
    /\ \A c \in Creating, s \in DOMAIN series :
          series[s].title = Asked(req[c]) => Asked(req[c]) \in excused

CatalogInv ==
    /\ CatalogTypeOK
    /\ \A c \in Clients : RequestOK(c)
    /\ CreatingOK
    /\ OneSeriesPerTitle
    /\ GenresOfOneMerge
    /\ \A s \in SeriesIds \ DOMAIN series : merged[s] = {}

-----------------------------------------------------------------------------
(* The steps that write no row.                                            *)

IsCreating(r, n) == r.kind = "add" /\ (r.pc = "insert" \/ r.s = n + 1)

LEMMA CreatingSet == Creating = {c \in Clients : IsCreating(req[c], Len(series))}
BY DEF Creating, IsNew, IsCreating

\* An add that creates a series has room for it.
LEMMA CreatingHasRoom ==
    ASSUME CatalogInv, NEW c \in Clients, IsCreating(req[c], Len(series))
    PROVE  Len(series) + 1 <= MaxSeries
<1>1. c \in Creating /\ IsFiniteSet(Creating) /\ Len(series) + Cardinality(Creating) <= MaxSeries
  BY CreatingSet DEF CatalogInv, CreatingOK
<1>2. Cardinality(Creating) \in Nat /\ Cardinality(Creating) # 0
  BY <1>1, FS_EmptySet, FS_CardinalityType
<1>3. Len(series) \in Nat /\ MaxSeries \in Nat
  BY CatalogAssumption DEF CatalogInv, CatalogTypeOK
<1> QED
  BY <1>1, <1>2, <1>3


LEMMA CatalogStart == CatalogInit => CatalogInv
<1> SUFFICES ASSUME CatalogInit PROVE CatalogInv
  OBVIOUS
<1>1. Len(series) = 0 /\ DOMAIN series = {} /\ MaxSeries \in Nat /\ MaxRequests \in Nat
  BY CatalogAssumption DEF CatalogInit
<1>2. \A c \in Clients : req[c] = Quiet
  BY DEF CatalogInit
<1>3. Quiet \in ReqType
  BY <1>1 DEF Quiet, ReqType, ReqPCs, Kinds
<1>4. CatalogTypeOK
  BY <1>1, <1>3 DEF CatalogInit, CatalogTypeOK, SeriesIds
<1>5. \A c \in Clients : RequestOK(c)
  <2>1. HoldsAt(Quiet, 0)
    BY DEF HoldsAt, Quiet
  <2>2. ~Inserting(Quiet, 0) /\ ~Loaded(Quiet)
    BY DEF Inserting, Loaded, Quiet
  <2> QED
    BY <1>1, <1>2, <2>1, <2>2, CatalogAssumption DEF RequestOK, CatalogInit
<1>6. Creating = {}
  BY <1>1, <1>2, CreatingSet DEF IsCreating, Quiet
<1>7. CreatingOK
  BY <1>1, <1>6, FS_EmptySet DEF CreatingOK
<1> QED
  BY <1>1, <1>4, <1>5, <1>7 DEF CatalogInv, CatalogInit, OneSeriesPerTitle, GenresOfOneMerge

\* A step of one request that commits no row.
StepOf(c, new) ==
    /\ req' = [req EXCEPT ![c] = new]
    /\ UNCHANGED <<series, merged, mixed>>
    /\ eids' \subseteq (DOMAIN series) \X ExternalIds
    /\ made' \in 0..MaxRequests
    /\ lock' = lock \/ (lock \in {Nobody, c} /\ lock' \in {Nobody, c})
    /\ lock' = c => new.pc \in {"map", "commit"}

\* What the step leaves the request with.
LeavesOK(c, new) ==
    /\ HoldsAt(new, Len(series))
    /\ Inserting(new, Len(series)) => lock' = c /\ new.kind = "add" /\ new.new = Fresh(new)
    /\ lock' = c /\ new.pc = "map" => new.s = Len(series) + 1
    /\ Loaded(new) /\ new.kind # "patch" /\ new.s <= Len(series) /\ ~new.late
          => new.seen.genres = series[new.s].genres

\* The type, the requests and the histories, whether or not the request starts creating.
LEMMA RequestGoesOn ==
    ASSUME CatalogInv, NEW c \in Clients, NEW new \in ReqType, StepOf(c, new), LeavesOK(c, new),
           excused \subseteq excused', excused' \subseteq Titles
    PROVE  /\ CatalogTypeOK'
           /\ \A d \in Clients : RequestOK(d)'
           /\ OneSeriesPerTitle' /\ GenresOfOneMerge'
           /\ \A s \in SeriesIds \ DOMAIN series' : merged'[s] = {}
<1>1. req \in [Clients -> ReqType] /\ Nobody \notin Clients
  BY CatalogAssumption DEF CatalogInv, CatalogTypeOK
<1>2. \A d \in Clients : req'[d] = IF d = c THEN new ELSE req[d]
  BY <1>1 DEF StepOf
<1>3. CatalogTypeOK'
  <2>1. lock' # Nobody => req'[lock'].pc \in {"map", "commit"}
    BY <1>1, <1>2 DEF CatalogInv, CatalogTypeOK, StepOf
  <2>2. lock' \in Clients \cup {Nobody}
    BY DEF CatalogInv, CatalogTypeOK, StepOf
  <2>3. req' \in [Clients -> ReqType]
    BY <1>1 DEF StepOf
  <2> QED
    BY <2>1, <2>2, <2>3 DEF CatalogInv, CatalogTypeOK, StepOf
<1>4. \A d \in Clients : RequestOK(d)'
  <2> SUFFICES ASSUME NEW d \in Clients PROVE RequestOK(d)'
    OBVIOUS
  <2>1. CASE d = c
    <3>1. req'[d] = new /\ series' = series
      BY <1>2, <2>1 DEF StepOf
    <3> QED
      BY <2>1, <3>1 DEF RequestOK, LeavesOK
  <2>2. CASE d # c
    <3>1. req'[d] = req[d] /\ RequestOK(d) /\ series' = series
      BY <1>2, <2>2 DEF CatalogInv, StepOf
    <3>2. lock = d <=> lock' = d
      BY <1>1, <2>2 DEF StepOf
    <3> QED
      BY <3>1, <3>2 DEF RequestOK
  <2> QED
    BY <2>1, <2>2
<1>5. OneSeriesPerTitle' /\ GenresOfOneMerge'
      /\ \A s \in SeriesIds \ DOMAIN series' : merged'[s] = {}
  BY DEF CatalogInv, OneSeriesPerTitle, GenresOfOneMerge, StepOf
<1> QED
  BY <1>3, <1>4, <1>5

\* A step after which no more requests create than before.
LEMMA RequestSteps ==
    ASSUME CatalogInv, NEW c \in Clients, NEW new \in ReqType, StepOf(c, new), LeavesOK(c, new),
           excused' = excused,
           IsCreating(new, Len(series))
               => IsCreating(req[c], Len(series)) /\ new.id = req[c].id
    PROVE  CatalogInv'
<1>1. \A d \in Clients : req'[d] = IF d = c THEN new ELSE req[d]
  BY DEF CatalogInv, CatalogTypeOK, StepOf
<1>2. Creating' = {d \in Clients : IsCreating(req'[d], Len(series))}
  BY DEF Creating, IsNew, IsCreating, StepOf
<1>3. \A d \in Creating' : d \in Creating /\ Asked(req'[d]) = Asked(req[d])
  BY <1>1, <1>2, CreatingSet DEF Asked
<1>4. CreatingOK
  BY DEF CatalogInv
<1>5. IsFiniteSet(Creating') /\ Cardinality(Creating') <= Cardinality(Creating)
  BY <1>3, <1>4, FS_Subset DEF CreatingOK
<1>6. Len(series) \in Nat /\ MaxSeries \in Nat /\ Cardinality(Creating) \in Nat
      /\ Cardinality(Creating') \in Nat
  BY <1>4, <1>5, FS_CardinalityType, CatalogAssumption DEF CatalogInv, CatalogTypeOK, CreatingOK
<1>7. Len(series) + Cardinality(Creating') <= MaxSeries
  BY <1>4, <1>5, <1>6 DEF CreatingOK
<1>8. CreatingOK'
  BY <1>3, <1>4, <1>5, <1>7 DEF CreatingOK, StepOf
<1>9. excused \subseteq excused' /\ excused' \subseteq Titles
  BY DEF CatalogInv, CatalogTypeOK
<1>10. /\ CatalogTypeOK'
       /\ \A d \in Clients : RequestOK(d)'
       /\ OneSeriesPerTitle' /\ GenresOfOneMerge'
       /\ \A s \in SeriesIds \ DOMAIN series' : merged'[s] = {}
  BY <1>9, RequestGoesOn
<1> QED
  BY <1>8, <1>10 DEF CatalogInv

\* What the invariant says of one request.
LEMMA RequestFacts ==
    ASSUME CatalogInv, NEW c \in Clients
    PROVE  /\ req[c] \in ReqType /\ RequestOK(c) /\ Len(series) \in Nat /\ c # Nobody
           /\ DOMAIN series = 1..Len(series) /\ made \in 0..MaxRequests
           /\ eids \subseteq (DOMAIN series) \X ExternalIds
           /\ (lock = c => req[c].pc \in {"map", "commit"})
           /\ MaxSeries \in Nat /\ MaxRequests \in Nat /\ Len(series) <= MaxSeries
BY CatalogAssumption DEF CatalogInv, CatalogTypeOK

LEMMA QuietType == Quiet \in ReqType
BY CatalogAssumption DEF Quiet, ReqType, ReqPCs, Kinds

LEMMA QuietOK ==
    ASSUME NEW n \in Nat
    PROVE  HoldsAt(Quiet, n) /\ ~Inserting(Quiet, n) /\ ~Loaded(Quiet) /\ ~IsCreating(Quiet, n)
BY DEF HoldsAt, Inserting, Loaded, IsCreating, Quiet

\* Every answer: ScrapeFails, TitleAmbiguous, NothingFetched, Rejected, LockTimeout.
LEMMA AnswerStep ==
    ASSUME CatalogInv, NEW c \in Clients, Answer(c)
    PROVE  CatalogInv'
<1>1. Len(series) \in Nat /\ c # Nobody /\ made \in 0..MaxRequests
      /\ eids \subseteq (DOMAIN series) \X ExternalIds
  BY RequestFacts
<1>2. StepOf(c, Quiet)
  BY <1>1 DEF Answer, StepOf
<1>3. LeavesOK(c, Quiet)
  <2>1. Quiet.pc = "idle"
    BY DEF Quiet
  <2> QED
    BY <1>1, <2>1, QuietOK DEF LeavesOK
<1> QED
  BY <1>1, <1>2, <1>3, QuietType, QuietOK, RequestSteps DEF Answer

LEMMA AddSeriesStep ==
    ASSUME CatalogInv, NEW c \in Clients, NEW x \in ExternalIds, AddSeries(c, x)
    PROVE  CatalogInv'
<1> DEFINE new == [Quiet EXCEPT !.pc = "scrape", !.kind = "add", !.id = x]
<1>1. Len(series) \in Nat /\ c # Nobody /\ made \in 0..MaxRequests /\ MaxRequests \in Nat
      /\ eids \subseteq (DOMAIN series) \X ExternalIds
      /\ (lock = c => req[c].pc \in {"map", "commit"})
  BY RequestFacts
<1>2. new \in ReqType
  BY QuietType DEF ReqType, ReqPCs, Kinds
<1>3. new.pc = "scrape" /\ new.kind = "add" /\ new.id = x /\ new.s = 0 /\ new.new = NoRow
      /\ new.plan = "none" /\ new.late = FALSE
  BY DEF Quiet
<1>4. req[c].pc = "idle" /\ made' = made + 1 /\ made < MaxRequests /\ req' = [req EXCEPT ![c] = new]
      /\ UNCHANGED <<series, eids, lock, excused, merged, mixed>>
  BY DEF AddSeries, Begins
<1> HIDE DEF new
<1>5. lock # c
  BY <1>1, <1>4
<1>6. made' \in 0..MaxRequests
  BY <1>1, <1>4
<1>7. StepOf(c, new)
  BY <1>1, <1>4, <1>5, <1>6 DEF StepOf
<1>8. LeavesOK(c, new) /\ ~IsCreating(new, Len(series))
  BY <1>1, <1>3 DEF LeavesOK, HoldsAt, Inserting, Loaded, IsCreating
<1> QED
  BY <1>2, <1>4, <1>7, <1>8, RequestSteps

LEMMA RefreshStep ==
    ASSUME CatalogInv, NEW c \in Clients, NEW s \in SeriesIds, Refresh(c, s)
    PROVE  CatalogInv'
<1> DEFINE new == [Quiet EXCEPT !.pc = "fetch", !.kind = "refresh", !.s = s, !.seen = series[s]]
<1>1. Len(series) \in Nat /\ c # Nobody /\ made \in 0..MaxRequests /\ MaxRequests \in Nat
      /\ eids \subseteq (DOMAIN series) \X ExternalIds
      /\ (lock = c => req[c].pc \in {"map", "commit"}) /\ MaxSeries \in Nat
      /\ DOMAIN series = 1..Len(series)
  BY RequestFacts
<1>2. s \in 1..Len(series) /\ series[s] \in SeriesRow
  BY <1>1 DEF Refresh, Live, CatalogInv, CatalogTypeOK
<1>3. new \in ReqType
  <2>1. s \in 0..MaxSeries /\ series[s] \in SeriesRow \cup {NoRow}
    BY <1>1, <1>2 DEF SeriesIds
  <2> DEFINE begun == [Quiet EXCEPT !.pc = "fetch", !.kind = "refresh"]
  <2>2. begun \in ReqType
    BY QuietType DEF ReqType, ReqPCs, Kinds
  <2> HIDE DEF begun
  <2>3. [begun EXCEPT !.s = s, !.seen = series[s]] \in ReqType
    BY <2>1, <2>2 DEF ReqType
  <2> QED
    BY <2>3 DEF begun
<1>4. new.pc = "fetch" /\ new.kind = "refresh" /\ new.s = s /\ new.seen = series[s]
      /\ new.plan = "none"
  BY DEF Quiet
<1>5. req[c].pc = "idle" /\ made' = made + 1 /\ made < MaxRequests /\ req' = [req EXCEPT ![c] = new]
      /\ UNCHANGED <<series, eids, lock, excused, merged, mixed>>
  BY DEF Refresh, Begins
<1> HIDE DEF new
<1>6. lock # c /\ made' \in 0..MaxRequests
  BY <1>1, <1>5
<1>7. StepOf(c, new)
  BY <1>1, <1>5, <1>6 DEF StepOf
<1>8. LeavesOK(c, new) /\ ~IsCreating(new, Len(series))
  BY <1>1, <1>2, <1>4 DEF LeavesOK, HoldsAt, Inserting, Loaded, IsCreating
<1> QED
  BY <1>3, <1>5, <1>7, <1>8, RequestSteps

LEMMA PatchStep ==
    ASSUME CatalogInv, NEW c \in Clients, NEW s \in SeriesIds, Patch(c, s)
    PROVE  CatalogInv'
<1>1. Len(series) \in Nat /\ c # Nobody /\ made \in 0..MaxRequests /\ MaxRequests \in Nat
      /\ eids \subseteq (DOMAIN series) \X ExternalIds
      /\ (lock = c => req[c].pc \in {"map", "commit"}) /\ MaxSeries \in Nat
      /\ DOMAIN series = 1..Len(series)
  BY RequestFacts
<1>2. s \in 1..Len(series) /\ series[s] \in SeriesRow
  BY <1>1 DEF Patch, Live, CatalogInv, CatalogTypeOK
<1>3. PICK row \in {[series[s] EXCEPT !.title = t] : t \in Titles}
                   \cup {[series[s] EXCEPT !.deleted = TRUE]} :
          req' = [req EXCEPT ![c] =
             [Quiet EXCEPT !.pc = "commit", !.kind = "patch", !.s = s, !.seen = series[s], !.new = row]]
  BY DEF Patch
<1>4. row \in SeriesRow
  BY <1>2, <1>3 DEF SeriesRow
<1> DEFINE new == [Quiet EXCEPT !.pc = "commit", !.kind = "patch", !.s = s, !.seen = series[s], !.new = row]
<1>5. new \in ReqType
  <2>1. s \in 0..MaxSeries /\ {series[s], row} \subseteq SeriesRow \cup {NoRow}
    BY <1>1, <1>2, <1>4 DEF SeriesIds
  <2> DEFINE begun == [Quiet EXCEPT !.pc = "commit", !.kind = "patch"]
  <2>2. begun \in ReqType
    BY QuietType DEF ReqType, ReqPCs, Kinds
  <2> HIDE DEF begun
  <2>3. [begun EXCEPT !.s = s, !.seen = series[s], !.new = row] \in ReqType
    BY <2>1, <2>2 DEF ReqType
  <2> QED
    BY <2>3 DEF begun
<1>6. new.pc = "commit" /\ new.kind = "patch" /\ new.s = s /\ new.seen = series[s]
      /\ new.plan = "none"
  BY DEF Quiet
<1>7. req[c].pc = "idle" /\ made' = made + 1 /\ made < MaxRequests /\ req' = [req EXCEPT ![c] = new]
      /\ UNCHANGED <<series, eids, lock, excused, merged, mixed>>
  BY <1>3 DEF Patch, Begins
<1> HIDE DEF new
<1>8. lock # c /\ made' \in 0..MaxRequests
  BY <1>1, <1>7
<1>9. StepOf(c, new)
  BY <1>1, <1>7, <1>8 DEF StepOf
<1>10. LeavesOK(c, new) /\ ~IsCreating(new, Len(series))
  BY <1>1, <1>2, <1>6 DEF LeavesOK, HoldsAt, Inserting, Loaded, IsCreating
<1> QED
  BY <1>5, <1>7, <1>9, <1>10, RequestSteps

\* The title is there: the add goes on with its series.
LEMMA TitleFoundStep ==
    ASSUME CatalogInv, NEW c \in Clients, FindTitle(c),
           Matches(SourceTitle[req[c].id]) # {}
    PROVE  CatalogInv'
<1>1. PICK s \in Matches(SourceTitle[req[c].id]) :
          req' = [req EXCEPT ![c].pc = "map", ![c].s = s]
  BY DEF FindTitle
<1> DEFINE new == [req[c] EXCEPT !.pc = "map", !.s = s]
<1>2. /\ req[c] \in ReqType /\ Len(series) \in Nat /\ made \in 0..MaxRequests
      /\ eids \subseteq (DOMAIN series) \X ExternalIds
      /\ lock # c \/ req[c].pc \in {"map", "commit"}
      /\ MaxSeries \in Nat /\ Len(series) <= MaxSeries /\ DOMAIN series = 1..Len(series)
      /\ HoldsAt(req[c], Len(series))
  BY RequestFacts DEF RequestOK
<1>3. s \in 1..Len(series) /\ s \in 0..MaxSeries
  BY <1>2 DEF Matches
<1>4. new \in ReqType
  BY <1>2, <1>3 DEF ReqType, ReqPCs
<1>5. req[c].pc = "scrape" /\ UNCHANGED <<series, eids, lock, made, excused, merged, mixed>>
  BY DEF FindTitle
<1>6. new.pc = "map" /\ new.s = s /\ new.kind = req[c].kind /\ new.id = req[c].id
      /\ new.new = req[c].new /\ new.plan = req[c].plan
  BY <1>2 DEF ReqType
<1>7. req' = [req EXCEPT ![c] = new]
  BY <1>1
<1> HIDE DEF new
<1>8. StepOf(c, new)
  BY <1>2, <1>5, <1>6, <1>7 DEF StepOf
<1>9. LeavesOK(c, new) /\ ~IsCreating(new, Len(series))
  BY <1>2, <1>3, <1>5, <1>6 DEF LeavesOK, HoldsAt, Inserting, Loaded, IsCreating
<1> QED
  BY <1>4, <1>5, <1>8, <1>9, RequestSteps

LEMMA InsertSeriesStep ==
    ASSUME CatalogInv, NEW c \in Clients, InsertSeries(c)
    PROVE  CatalogInv'
<1> DEFINE new == [req[c] EXCEPT !.pc = "map", !.s = Len(series) + 1]
<1>1. /\ req[c] \in ReqType /\ Len(series) \in Nat /\ made \in 0..MaxRequests
      /\ eids \subseteq (DOMAIN series) \X ExternalIds
      /\ MaxSeries \in Nat /\ HoldsAt(req[c], Len(series))
  BY RequestFacts DEF RequestOK
<1>2. req[c].pc = "insert" /\ lock = Nobody /\ lock' = c
      /\ UNCHANGED <<series, eids, made, excused, merged, mixed>>
      /\ req' = [req EXCEPT ![c] = new]
  BY DEF InsertSeries
<1>3. IsCreating(req[c], Len(series))
  BY <1>1, <1>2 DEF HoldsAt, IsCreating
<1>4. Len(series) + 1 \in 0..MaxSeries
  BY <1>1, <1>3, CreatingHasRoom
<1>5. new \in ReqType
  BY <1>1, <1>4 DEF ReqType, ReqPCs
<1>6. new.pc = "map" /\ new.s = Len(series) + 1 /\ new.kind = req[c].kind /\ new.id = req[c].id
      /\ new.new = req[c].new /\ new.plan = req[c].plan
  BY <1>1 DEF ReqType
<1> HIDE DEF new
<1>7. StepOf(c, new)
  BY <1>1, <1>2, <1>6 DEF StepOf
<1>8. LeavesOK(c, new)
  BY <1>1, <1>2, <1>6 DEF LeavesOK, HoldsAt, Inserting, Loaded, Fresh
<1> QED
  BY <1>2, <1>3, <1>5, <1>6, <1>7, <1>8, RequestSteps

LEMMA MapExternalIdStep ==
    ASSUME CatalogInv, NEW c \in Clients, MapExternalId(c)
    PROVE  CatalogInv'
<1> DEFINE pc == IF req[c].s \in Live /\ IdsOfSeries(req[c].s) # {} THEN "fetch" ELSE "commit"
           seen == IF req[c].s \in Live THEN series[req[c].s] ELSE NoRow
<1>1. PICK plan \in {"skip", "insert", "update"} :
          req' = [req EXCEPT ![c].plan = plan, ![c].pc = pc, ![c].seen = seen]
  <2>1. CASE \E t \in DOMAIN series \ {req[c].s} : <<t, req[c].id>> \in eids
    BY <2>1 DEF MapExternalId
  <2>2. CASE ~(\E t \in DOMAIN series \ {req[c].s} : <<t, req[c].id>> \in eids)
    <3>1. CASE {y \in IdsOfSeries(req[c].s) : ProviderOf[y] = ProviderOf[req[c].id]} = {}
      BY <2>2, <3>1 DEF MapExternalId
    <3>2. CASE {y \in IdsOfSeries(req[c].s) : ProviderOf[y] = ProviderOf[req[c].id]} # {}
      BY <2>2, <3>2 DEF MapExternalId
    <3> QED
      BY <3>1, <3>2
  <2> QED
    BY <2>1, <2>2
<1> DEFINE new == [req[c] EXCEPT !.plan = plan, !.pc = pc, !.seen = seen]
<1>2. /\ req[c] \in ReqType /\ Len(series) \in Nat /\ made \in 0..MaxRequests
      /\ eids \subseteq (DOMAIN series) \X ExternalIds
      /\ DOMAIN series = 1..Len(series) /\ RequestOK(c)
  BY RequestFacts
<1>3. pc \in {"fetch", "commit"} /\ seen \in SeriesRow \cup {NoRow}
  BY DEF Live, CatalogInv, CatalogTypeOK
<1>4. pc = "fetch" => req[c].s \in 1..Len(series) /\ seen = series[req[c].s]
  BY <1>2 DEF Live
<1> HIDE DEF pc, seen
<1>5. req' = [req EXCEPT ![c] = new] /\ req[c].pc = "map"
      /\ UNCHANGED <<series, eids, lock, made, excused, merged, mixed>>
  <2>1. req' = [req EXCEPT ![c] = new]
    BY <1>1
  <2> QED
    BY <2>1 DEF MapExternalId
<1>6. new \in ReqType
  BY <1>2, <1>3 DEF ReqType, ReqPCs
<1>7. new.pc = pc /\ new.s = req[c].s /\ new.kind = req[c].kind /\ new.id = req[c].id
      /\ new.new = req[c].new /\ new.plan = plan /\ new.seen = seen
  BY <1>2 DEF ReqType
<1> HIDE DEF new
<1>8. StepOf(c, new)
  BY <1>2, <1>3, <1>4, <1>5, <1>7 DEF StepOf, RequestOK
<1>9. HoldsAt(req[c], Len(series)) /\ (Inserting(req[c], Len(series))
          => lock = c /\ req[c].kind = "add" /\ req[c].new = Fresh(req[c]))
  BY <1>2 DEF RequestOK
<1>10. HoldsAt(new, Len(series))
  BY <1>2, <1>3, <1>4, <1>5, <1>7, <1>9 DEF HoldsAt, Fresh
<1>11. Inserting(new, Len(series)) => lock' = c /\ new.kind = "add" /\ new.new = Fresh(new)
  BY <1>2, <1>3, <1>5, <1>7, <1>9 DEF Inserting, Fresh
<1>12. Loaded(new) /\ new.s <= Len(series) => new.seen.genres = series[new.s].genres
  BY <1>2, <1>3, <1>4, <1>5, <1>7, <1>9 DEF Loaded, HoldsAt
<1>13. LeavesOK(c, new)
  BY <1>3, <1>7, <1>10, <1>11, <1>12 DEF LeavesOK
<1>14. IsCreating(new, Len(series)) => IsCreating(req[c], Len(series))
  BY <1>3, <1>5, <1>7 DEF IsCreating
<1> QED
  BY <1>5, <1>6, <1>7, <1>8, <1>13, <1>14, RequestSteps

LEMMA NothingFetchedStep ==
    ASSUME CatalogInv, NEW c \in Clients, NothingFetched(c)
    PROVE  CatalogInv'
<1>1. CASE req[c].kind = "refresh"
  BY <1>1, AnswerStep DEF NothingFetched
<1>2. CASE req[c].kind # "refresh"
  <2> DEFINE new == [req[c] EXCEPT !.pc = "commit"]
  <2>1. /\ req[c] \in ReqType /\ Len(series) \in Nat /\ made \in 0..MaxRequests
        /\ eids \subseteq (DOMAIN series) \X ExternalIds /\ RequestOK(c)
    BY RequestFacts
  <2>2. req' = [req EXCEPT ![c] = new] /\ req[c].pc = "fetch"
        /\ UNCHANGED <<series, eids, lock, made, excused, merged, mixed>>
    BY <1>2 DEF NothingFetched
  <2>3. new \in ReqType
    BY <2>1 DEF ReqType, ReqPCs
  <2>4. new.pc = "commit" /\ new.s = req[c].s /\ new.kind = req[c].kind /\ new.id = req[c].id
        /\ new.new = req[c].new /\ new.plan = req[c].plan /\ new.seen = req[c].seen
        /\ new.late = req[c].late
    BY <2>1 DEF ReqType
  <2> HIDE DEF new
  <2>5. StepOf(c, new)
    BY <2>1, <2>2, <2>4 DEF StepOf
  <2>6. HoldsAt(new, Len(series)) /\ ~Inserting(new, Len(series))
    BY <2>1, <2>2, <2>4 DEF RequestOK, HoldsAt, Inserting
  <2>7. LeavesOK(c, new) /\ ~IsCreating(new, Len(series))
    BY <2>1, <2>2, <2>4, <2>6 DEF LeavesOK, RequestOK, HoldsAt, Loaded, IsCreating
  <2> QED
    BY <2>2, <2>3, <2>5, <2>7, RequestSteps
<1> QED
  BY <1>1, <1>2

LEMMA FetchedStep ==
    ASSUME CatalogInv, NEW c \in Clients, Fetched(c)
    PROVE  CatalogInv'
<1>1. PICK title \in Titles, genres \in SUBSET Genres :
          req' = [req EXCEPT ![c].pc = "apply",
                     ![c].new = [title |-> title, deleted |-> FALSE, genres |-> genres]]
  BY DEF Fetched
<1> DEFINE row == [title |-> title, deleted |-> FALSE, genres |-> genres]
<1> DEFINE new == [req[c] EXCEPT !.pc = "apply", !.new = row]
<1>2. /\ req[c] \in ReqType /\ Len(series) \in Nat /\ made \in 0..MaxRequests
      /\ eids \subseteq (DOMAIN series) \X ExternalIds /\ RequestOK(c)
      /\ lock # c \/ req[c].pc \in {"map", "commit"}
  BY RequestFacts
<1>3. row \in SeriesRow /\ row # NoRow
  BY CatalogAssumption DEF SeriesRow, NoRow
<1>4. req' = [req EXCEPT ![c] = new] /\ req[c].pc = "fetch"
      /\ UNCHANGED <<series, eids, lock, made, excused, merged, mixed>>
  BY <1>1 DEF Fetched
<1> HIDE DEF row
<1>5. new \in ReqType
  BY <1>2, <1>3 DEF ReqType, ReqPCs
<1>6. new.pc = "apply" /\ new.s = req[c].s /\ new.kind = req[c].kind /\ new.id = req[c].id
      /\ new.new = row /\ new.plan = req[c].plan /\ new.seen = req[c].seen
      /\ new.late = req[c].late
  BY <1>2 DEF ReqType
<1> HIDE DEF new
<1>8. HoldsAt(new, Len(series)) /\ ~Inserting(new, Len(series))
  BY <1>2, <1>3, <1>4, <1>6 DEF RequestOK, HoldsAt, Inserting
<1>9. LeavesOK(c, new) /\ ~IsCreating(new, Len(series))
  BY <1>2, <1>4, <1>6, <1>8 DEF LeavesOK, RequestOK, HoldsAt, Loaded, IsCreating
<1>10. StepOf(c, new)
  BY <1>2, <1>4, <1>6 DEF StepOf
<1> QED
  BY <1>4, <1>5, <1>9, <1>10, RequestSteps

LEMMA ApplyMergedStep ==
    ASSUME CatalogInv, NEW c \in Clients, ApplyMerged(c)
    PROVE  CatalogInv'
<1> DEFINE new == [req[c] EXCEPT !.pc = "commit"]
<1>1. /\ req[c] \in ReqType /\ Len(series) \in Nat /\ made \in 0..MaxRequests
      /\ eids \subseteq (DOMAIN series) \X ExternalIds /\ RequestOK(c)
  BY RequestFacts
<1>2. req' = [req EXCEPT ![c] = new] /\ req[c].pc = "apply" /\ lock = Nobody /\ lock' = c
      /\ UNCHANGED <<series, eids, made, excused, merged, mixed>>
  BY DEF ApplyMerged
<1>3. new \in ReqType
  BY <1>1 DEF ReqType, ReqPCs
<1>4. new.pc = "commit" /\ new.s = req[c].s /\ new.kind = req[c].kind /\ new.id = req[c].id
      /\ new.new = req[c].new /\ new.plan = req[c].plan /\ new.seen = req[c].seen
      /\ new.late = req[c].late
  BY <1>1 DEF ReqType
<1> HIDE DEF new
<1>5. StepOf(c, new)
  BY <1>1, <1>2, <1>4 DEF StepOf
<1>6. HoldsAt(new, Len(series)) /\ ~Inserting(new, Len(series))
  BY <1>1, <1>2, <1>4 DEF RequestOK, HoldsAt, Inserting
<1>7. LeavesOK(c, new) /\ ~IsCreating(new, Len(series))
  BY <1>1, <1>2, <1>4, <1>6 DEF LeavesOK, RequestOK, HoldsAt, Loaded, IsCreating
<1> QED
  BY <1>2, <1>3, <1>5, <1>7, RequestSteps

\* No series has the title: the add is one more that creates, alone or excused.
LEMMA TitleMissingStep ==
    ASSUME CatalogInv, NEW c \in Clients, FindTitle(c),
           Matches(SourceTitle[req[c].id]) = {}
    PROVE  CatalogInv'
<1> DEFINE row == [title |-> SourceTitle[req[c].id], deleted |-> FALSE, genres |-> {}]
           new == [req[c] EXCEPT !.pc = "insert", !.s = Len(series) + 1, !.new = row]
<1>1. /\ req[c].pc = "scrape" /\ req' = [req EXCEPT ![c] = new]
      /\ Len(series) + Cardinality(Creating) < MaxSeries
      /\ excused' = IF Rivals(c, Asked(req[c])) = {} THEN excused
                    ELSE excused \cup {Asked(req[c])}
      /\ UNCHANGED <<series, eids, lock, made, merged, mixed>>
  BY DEF FindTitle, Asked
<1>2. /\ req[c] \in ReqType /\ Len(series) \in Nat /\ made \in 0..MaxRequests
      /\ eids \subseteq (DOMAIN series) \X ExternalIds /\ RequestOK(c)
      /\ MaxSeries \in Nat /\ Len(series) <= MaxSeries
      /\ lock # c \/ req[c].pc \in {"map", "commit"}
  BY RequestFacts
<1>3. CreatingOK
  BY DEF CatalogInv
<1>4. Cardinality(Creating) \in Nat
  BY <1>3, FS_CardinalityType DEF CreatingOK
<1>5. Len(series) + 1 \in 0..MaxSeries
  BY <1>1, <1>2, <1>4
<1>6. req[c].kind = "add" /\ req[c].id \in ExternalIds /\ req[c].s = 0
  BY <1>1, <1>2 DEF RequestOK, HoldsAt
<1>7. Asked(req[c]) \in Titles /\ row \in SeriesRow
  BY <1>6, CatalogAssumption DEF Asked, SeriesRow
<1>8. row = Fresh(req[c])
  BY DEF Fresh
<1> HIDE DEF row
<1>9. new \in ReqType
  BY <1>2, <1>5, <1>7 DEF ReqType, ReqPCs
<1>10. new.pc = "insert" /\ new.s = Len(series) + 1 /\ new.kind = "add" /\ new.id = req[c].id
       /\ new.new = row /\ new.plan = req[c].plan /\ Asked(new) = Asked(req[c])
       /\ Fresh(new) = Fresh(req[c])
  BY <1>2, <1>6 DEF ReqType, Asked, Fresh
<1> HIDE DEF new
<1>11. StepOf(c, new)
  BY <1>1, <1>2, <1>10 DEF StepOf
<1>12. LeavesOK(c, new)
  BY <1>1, <1>2, <1>6, <1>8, <1>10 DEF LeavesOK, HoldsAt, Inserting, Loaded
<1>13. excused \subseteq excused' /\ excused' \subseteq Titles
  BY <1>1, <1>7 DEF CatalogInv, CatalogTypeOK
<1>14. \A d \in Clients : req'[d] = IF d = c THEN new ELSE req[d]
  BY <1>1 DEF CatalogInv, CatalogTypeOK
<1>15. Creating' = Creating \cup {c} /\ c \notin Creating
  <2>1. Creating' = {d \in Clients : IsCreating(req'[d], Len(series))}
    BY <1>1 DEF Creating, IsNew, IsCreating
  <2>2. IsCreating(new, Len(series)) /\ ~IsCreating(req[c], Len(series))
    BY <1>1, <1>2, <1>6, <1>10 DEF IsCreating
  <2> QED
    BY <1>14, <2>1, <2>2, CreatingSet
<1>16. CreatingOK'
  <2>1. IsFiniteSet(Creating') /\ Cardinality(Creating') = Cardinality(Creating) + 1
    BY <1>3, <1>15, FS_AddElement DEF CreatingOK
  <2>2. Len(series') + Cardinality(Creating') <= MaxSeries
    BY <1>1, <1>2, <1>4, <2>1
  <2>3. \A d \in Creating' : Asked(req'[d]) = Asked(req[d])
    BY <1>10, <1>14, <1>15, CreatingSet
  <2>4. \A d \in Creating : Asked(req[d]) = Asked(req[c]) => Asked(req[c]) \in excused'
    BY <1>1, <1>15 DEF Rivals, Asked
  <2>5. \A d, e \in Creating' :
           d # e /\ Asked(req'[d]) = Asked(req'[e]) => Asked(req'[d]) \in excused'
    BY <1>3, <1>13, <1>15, <2>3, <2>4 DEF CreatingOK
  <2>6. \A s \in DOMAIN series : series[s].title # Asked(req[c])
    BY DEF Matches, Asked
  <2>7. \A d \in Creating', s \in DOMAIN series' :
           series'[s].title = Asked(req'[d]) => Asked(req'[d]) \in excused'
    BY <1>1, <1>3, <1>13, <1>15, <2>3, <2>6 DEF CreatingOK
  <2> QED
    BY <2>1, <2>2, <2>5, <2>7 DEF CreatingOK
<1>17. /\ CatalogTypeOK'
       /\ \A d \in Clients : RequestOK(d)'
       /\ OneSeriesPerTitle' /\ GenresOfOneMerge'
       /\ \A s \in SeriesIds \ DOMAIN series' : merged'[s] = {}
  BY <1>9, <1>11, <1>12, <1>13, RequestGoesOn
<1> QED
  BY <1>16, <1>17 DEF CatalogInv

\* What a commit writes is a row, and its ids are of rows.
LEMMA WrittenIsRow ==
    ASSUME CatalogInv, NEW c \in Clients, req[c].s \in DOMAIN series, req[c].new # NoRow
    PROVE  Written(c) \in SeriesRow
<1>1. series[req[c].s] \in SeriesRow /\ req[c].new \in SeriesRow /\ req[c].seen \in SeriesRow \cup {NoRow}
  BY DEF CatalogInv, CatalogTypeOK, ReqType
<1> QED
  BY <1>1 DEF Written, SeriesRow, GenresWritten

LEMMA NewIdsAreOfRows ==
    ASSUME CatalogInv, NEW c \in Clients, NEW rows, DOMAIN series \subseteq rows, req[c].s \in rows
    PROVE  NewIds(c) \subseteq rows \X ExternalIds
<1>1. req[c].plan # "none" => req[c].id \in ExternalIds
  BY DEF CatalogInv, RequestOK, HoldsAt
<1>2. eids \subseteq rows \X ExternalIds
  BY DEF CatalogInv, CatalogTypeOK
<1>3. CASE req[c].plan = "insert"
  BY <1>1, <1>2, <1>3 DEF NewIds
<1>4. CASE req[c].plan = "update"
  BY <1>1, <1>2, <1>4 DEF NewIds
<1>5. CASE req[c].plan \notin {"insert", "update"}
  BY <1>2, <1>5 DEF NewIds
<1> QED
  BY <1>3, <1>4, <1>5

\* The commit of a request that writes no row: only its ids.
LEMMA CommitIdsStep ==
    ASSUME CatalogInv, NEW c \in Clients, CommitRequest(c), ~IsNew(c), req[c].new = NoRow
    PROVE  CatalogInv'
<1>1. /\ Len(series) \in Nat /\ made \in 0..MaxRequests /\ c # Nobody
      /\ DOMAIN series = 1..Len(series) /\ RequestOK(c)
  BY RequestFacts
<1>2. ~Refreshed(c)
  BY DEF Refreshed
<1>3. /\ req[c].pc = "commit" /\ lock \in {Nobody, c} /\ lock' = Nobody
      /\ UNCHANGED <<series, excused, merged, mixed, made>> /\ eids' = NewIds(c)
      /\ req' = [d \in Clients |-> IF d = c THEN Quiet ELSE req[d]]
  BY <1>2 DEF CommitRequest, CanWrite
<1>4. req[c].s \in DOMAIN series
  BY <1>1, <1>3 DEF RequestOK, HoldsAt, IsNew, Inserting
<1>5. eids' \subseteq (DOMAIN series) \X ExternalIds
  BY <1>3, <1>4, NewIdsAreOfRows
<1>6. req' = [req EXCEPT ![c] = Quiet]
  BY <1>3 DEF CatalogInv, CatalogTypeOK
<1>7. StepOf(c, Quiet)
  BY <1>1, <1>3, <1>5, <1>6 DEF StepOf
<1>8. Quiet.pc = "idle"
  BY DEF Quiet
<1>9. LeavesOK(c, Quiet)
  BY <1>1, <1>8, QuietOK DEF LeavesOK
<1> QED
  BY <1>1, <1>3, <1>7, <1>9, QuietType, QuietOK, RequestSteps

\* The commit of a row that was inserted.
LEMMA CommitNewStep ==
    ASSUME CatalogInv, NEW c \in Clients, CommitRequest(c), IsNew(c)
    PROVE  CatalogInv'
<1> DEFINE n == Len(series)
<1>1. /\ n \in Nat /\ made \in 0..MaxRequests /\ c # Nobody /\ MaxSeries \in Nat
      /\ DOMAIN series = 1..n /\ RequestOK(c) /\ series \in Seq(SeriesRow)
      /\ req[c] \in ReqType
  BY RequestFacts DEF CatalogInv, CatalogTypeOK
<1>2. ~Refreshed(c)
  BY DEF Refreshed
<1>3. /\ req[c].pc = "commit" /\ lock \in {Nobody, c} /\ lock' = Nobody
      /\ UNCHANGED <<excused, merged, mixed, made>> /\ eids' = NewIds(c)
      /\ series' = Append(series, req[c].new)
      /\ req' = [d \in Clients |-> IF d = c THEN Quiet ELSE req[d]]
  BY <1>2 DEF CommitRequest, CanWrite
<1>4. /\ req[c].kind = "add" /\ req[c].s = n + 1 /\ req[c].new = Fresh(req[c])
      /\ req[c].id \in ExternalIds /\ lock = c /\ c \in Creating
  BY <1>1, <1>3, CreatingSet DEF IsNew, RequestOK, HoldsAt, Inserting, IsCreating
<1>5. Fresh(req[c]) \in SeriesRow /\ Asked(req[c]) \in Titles
      /\ Fresh(req[c]).title = Asked(req[c]) /\ Fresh(req[c]).genres = {}
  BY <1>4, CatalogAssumption DEF Fresh, SeriesRow, Asked
<1>6. n + 1 <= MaxSeries
  BY <1>1, <1>4, CreatingHasRoom DEF IsCreating
<1>7. /\ series' \in Seq(SeriesRow) /\ Len(series') = n + 1 /\ DOMAIN series' = 1..(n + 1)
      /\ series'[n + 1] = Fresh(req[c]) /\ \A s \in 1..n : series'[s] = series[s]
  BY <1>1, <1>3, <1>4, <1>5
<1>8. \A d \in Clients : req'[d] = IF d = c THEN Quiet ELSE req[d]
  BY <1>3
<1> HIDE DEF n
\* The other requests, none of which holds the lock.
<1>9. ASSUME NEW d \in Clients, d # c
      PROVE  /\ req'[d] = req[d] /\ RequestOK(d) /\ lock # d /\ req[d].s <= n + 1
             /\ req[d].s \in Nat /\ ~Inserting(req[d], n)
  <2>1. req'[d] = req[d] /\ RequestOK(d) /\ lock # d
    BY <1>4, <1>8, <1>9 DEF CatalogInv
  <2>2. HoldsAt(req[d], n) /\ ~Inserting(req[d], n)
    BY <2>1 DEF RequestOK, n
  <2>3. req[d] \in ReqType /\ MaxSeries \in Nat
    BY RequestFacts
  <2>4. req[d].pc \in ReqPCs /\ req[d].s \in Nat
    BY <2>3 DEF ReqType
  <2>5. req[d].s <= n + 1
    BY <1>1, <2>2, <2>4 DEF HoldsAt, ReqPCs, Quiet
  <2> QED
    BY <2>1, <2>2, <2>4, <2>5
<1>10. CatalogTypeOK'
  <2>1. eids' \subseteq (DOMAIN series') \X ExternalIds
    BY <1>1, <1>3, <1>4, <1>7, NewIdsAreOfRows
  <2>2. req' \in [Clients -> ReqType]
    BY <1>3, <1>9, QuietType, RequestFacts
  <2> QED
    BY <1>1, <1>3, <1>6, <1>7, <2>1, <2>2 DEF CatalogInv, CatalogTypeOK
<1>11. \A d \in Clients : RequestOK(d)'
  <2> SUFFICES ASSUME NEW d \in Clients PROVE RequestOK(d)'
    OBVIOUS
  <2>1. CASE d = c
    <3>1. req'[d] = Quiet /\ Quiet.pc = "idle"
      BY <1>8, <2>1 DEF Quiet
    <3>2. n + 1 \in Nat
      BY <1>1
    <3>3. HoldsAt(Quiet, n + 1) /\ ~Inserting(Quiet, n + 1) /\ ~Loaded(Quiet)
      BY <3>2, QuietOK
    <3> QED
      BY <1>7, <3>1, <3>3 DEF RequestOK
  <2>2. CASE d # c
    <3>1. /\ req'[d] = req[d] /\ RequestOK(d) /\ lock # d /\ req[d].s <= n + 1
          /\ req[d].s \in Nat /\ ~Inserting(req[d], n)
      BY <1>9, <2>2
    <3>2. HoldsAt(req[d], n) /\ (Loaded(req[d]) /\ req[d].kind # "patch" /\ req[d].s <= n
             /\ ~req[d].late => req[d].seen.genres = series[req[d].s].genres)
      BY <3>1 DEF RequestOK, n
    <3>3. HoldsAt(req[d], n + 1)
      BY <1>1, <3>1, <3>2 DEF HoldsAt, Inserting
    <3>4. ~Inserting(req[d], n + 1)
      BY <1>1, <3>1 DEF Inserting
    <3>5. Loaded(req[d]) => req[d].s \in 1..n
      BY <1>1, <3>1, <3>2 DEF Loaded, HoldsAt, Inserting
    <3>6. lock' # d
      BY <1>3, RequestFacts
    <3> QED
      BY <1>7, <3>1, <3>2, <3>3, <3>4, <3>5, <3>6 DEF RequestOK
  <2> QED
    BY <2>1, <2>2
<1>12. Creating' = Creating \ {c}
  <2>1. Creating' = {d \in Clients : IsCreating(req'[d], n + 1)}
    BY <1>7 DEF Creating, IsNew, IsCreating
  <2>2. Creating = {d \in Clients : IsCreating(req[d], n)}
    BY CreatingSet DEF n
  <2>3. ~IsCreating(req'[c], n + 1)
    BY <1>1, <1>8, QuietOK
  <2>4. ASSUME NEW d \in Clients, d # c
        PROVE  IsCreating(req'[d], n + 1) <=> IsCreating(req[d], n)
    <3>1. /\ req'[d] = req[d] /\ RequestOK(d) /\ req[d].s <= n + 1
          /\ req[d].s \in Nat /\ ~Inserting(req[d], n) /\ req[d] \in ReqType
      BY <1>9, <2>4, RequestFacts
    <3>2. HoldsAt(req[d], n) /\ req[d].pc \in ReqPCs
      BY <3>1 DEF RequestOK, n, ReqType
    <3>3. req[d].kind = "add" /\ req[d].s = n + 1 => req[d].pc = "insert"
      BY <1>1, <3>1, <3>2 DEF HoldsAt, Inserting, ReqPCs, Quiet
    <3> QED
      BY <1>1, <3>1, <3>3 DEF IsCreating
  <2> QED
    BY <2>1, <2>2, <2>3, <2>4
<1>13. CreatingOK
  BY DEF CatalogInv
<1>14. CreatingOK'
  <2>1. IsFiniteSet(Creating') /\ Cardinality(Creating') = Cardinality(Creating) - 1
    BY <1>4, <1>12, <1>13, FS_RemoveElement DEF CreatingOK
  <2>2. Len(series') + Cardinality(Creating') <= MaxSeries
    BY <1>1, <1>7, <1>13, <2>1, FS_CardinalityType DEF CreatingOK, n
  <2>3. \A d \in Creating' : d \in Creating /\ d # c /\ req'[d] = req[d]
    BY <1>9, <1>12, CreatingSet
  <2>4. \A d \in Creating', s \in DOMAIN series' :
           series'[s].title = Asked(req'[d]) => Asked(req'[d]) \in excused
    BY <1>1, <1>4, <1>5, <1>7, <1>13, <2>3 DEF CreatingOK
  <2>5. \A d, e \in Creating' :
           d # e /\ Asked(req'[d]) = Asked(req'[e]) => Asked(req'[d]) \in excused
    BY <1>13, <2>3 DEF CreatingOK
  <2> QED
    BY <1>3, <2>1, <2>2, <2>4, <2>5 DEF CreatingOK
<1>15. OneSeriesPerTitle'
  <2>1. \A s \in 1..n : series[s].title = Asked(req[c]) => Asked(req[c]) \in excused
    BY <1>1, <1>4, <1>13 DEF CreatingOK
  <2> QED
    BY <1>1, <1>3, <1>5, <1>7, <2>1 DEF CatalogInv, OneSeriesPerTitle
<1>16. GenresOfOneMerge' /\ \A s \in SeriesIds \ DOMAIN series' : merged'[s] = {}
  <2>1. merged[n + 1] = {}
    BY <1>1, <1>6 DEF CatalogInv, SeriesIds
  <2>2. merged' = merged /\ mixed' = mixed
    BY <1>3
  <2>3. \A s \in 1..n : s \in mixed' \/ series'[s].genres = merged'[s]
    BY <1>1, <1>7, <2>2 DEF CatalogInv, GenresOfOneMerge
  <2>4. series'[n + 1].genres = merged'[n + 1]
    BY <1>5, <1>7, <2>1, <2>2
  <2>5. \A s \in DOMAIN series' : s \in 1..n \/ s = n + 1
    BY <1>1, <1>7
  <2>6. GenresOfOneMerge'
    BY <2>3, <2>4, <2>5 DEF GenresOfOneMerge
  <2>7. \A s \in SeriesIds \ DOMAIN series' : s \in SeriesIds \ DOMAIN series
    BY <1>1, <1>7
  <2> QED
    BY <2>2, <2>6, <2>7 DEF CatalogInv
<1> QED
  BY <1>10, <1>11, <1>14, <1>15, <1>16 DEF CatalogInv

\* The commit of what a refresh or a patch writes to a row that was there.
LEMMA CommitWrittenStep ==
    ASSUME CatalogInv, NEW c \in Clients, CommitRequest(c), ~IsNew(c), req[c].new # NoRow
    PROVE  CatalogInv'
<1> DEFINE n == Len(series)
           s0 == req[c].s
           row == Written(c)
<1>1. /\ n \in Nat /\ made \in 0..MaxRequests /\ c # Nobody /\ MaxSeries \in Nat
      /\ DOMAIN series = 1..n /\ RequestOK(c) /\ series \in Seq(SeriesRow)
      /\ req \in [Clients -> ReqType] /\ n <= MaxSeries
  BY RequestFacts DEF CatalogInv, CatalogTypeOK
<1>2. req[c].pc = "commit" /\ lock \in {Nobody, c} /\ lock' = Nobody /\ made' = made
      /\ eids' = NewIds(c) /\ series' = [series EXCEPT ![s0] = row]
  BY DEF CommitRequest, CanWrite
<1>3. s0 \in 1..n
  BY <1>1, <1>2 DEF RequestOK, HoldsAt, IsNew, Inserting
<1>4. row \in SeriesRow
  BY <1>1, <1>3, WrittenIsRow
<1>5. row.title = (IF req[c].new.title = req[c].seen.title THEN series[s0].title
                   ELSE req[c].new.title)
      /\ row.genres = IF Refreshed(c) THEN GenresWritten(c, series[s0].genres)
                      ELSE series[s0].genres
  BY DEF Written
<1>6. excused' = IF req[c].new.title # req[c].seen.title THEN excused \cup {req[c].new.title}
                 ELSE excused
  BY DEF CommitRequest
<1>7. /\ merged' = IF Refreshed(c) THEN [merged EXCEPT ![s0] = req[c].new.genres] ELSE merged
      /\ mixed' = IF ~Refreshed(c) THEN mixed
                  ELSE IF req[c].late THEN mixed \cup {s0} ELSE mixed \ {s0}
  BY DEF CommitRequest
<1>8. req' = [d \in Clients |->
             IF d = c THEN Quiet
             ELSE IF Refreshed(c) /\ req[d].s = s0 /\ req[d].pc \in {"fetch", "apply", "commit"}
             THEN [req[d] EXCEPT !.late = TRUE]
             ELSE req[d]]
  BY DEF CommitRequest
<1>9. req[c].new \in SeriesRow
  BY <1>1 DEF ReqType
<1> HIDE DEF row, s0, n
<1>10. /\ series' \in Seq(SeriesRow) /\ Len(series') = n /\ DOMAIN series' = 1..n
       /\ series'[s0] = row /\ \A s \in 1..n : s # s0 => series'[s] = series[s]
  BY <1>1, <1>2, <1>3, <1>4 DEF n
<1>11. excused \subseteq excused' /\ excused' \subseteq Titles
  BY <1>6, <1>9 DEF CatalogInv, CatalogTypeOK, SeriesRow
\* A row keeps its title or takes one that is excused.
<1>12. \A s \in 1..n : series'[s].title = series[s].title \/ series'[s].title \in excused'
  BY <1>5, <1>6, <1>10
<1>13. ASSUME NEW d \in Clients, d # c
       PROVE  /\ req'[d] = req[d] \/ req'[d] = [req[d] EXCEPT !.late = TRUE]
              /\ Refreshed(c) /\ req[d].s = s0 /\ req[d].pc \in {"fetch", "apply", "commit"}
                    => req'[d] = [req[d] EXCEPT !.late = TRUE]
  BY <1>8, <1>13
<1>14. ASSUME NEW d \in Clients, d # c
       PROVE  /\ req'[d] \in ReqType
              /\ req'[d].pc = req[d].pc /\ req'[d].kind = req[d].kind /\ req'[d].id = req[d].id
              /\ req'[d].s = req[d].s /\ req'[d].plan = req[d].plan /\ req'[d].seen = req[d].seen
              /\ req'[d].new = req[d].new
              /\ req'[d] # req[d] => req[d].pc # "idle" 
              /\ ~req'[d].late => ~req[d].late
              /\ Refreshed(c) /\ req[d].s = s0 /\ Loaded(req[d]) => req'[d].late
  <2>1. req[d] \in ReqType
    BY <1>1
  <2>2. req'[d] \in ReqType
    BY <1>13, <1>14, <2>1 DEF ReqType
  <2>3. /\ req'[d].pc = req[d].pc /\ req'[d].kind = req[d].kind /\ req'[d].id = req[d].id
        /\ req'[d].s = req[d].s /\ req'[d].plan = req[d].plan /\ req'[d].seen = req[d].seen
        /\ req'[d].new = req[d].new
    BY <1>13, <1>14, <2>1 DEF ReqType
  <2>4. req'[d] # req[d] => req[d].pc # "idle"
    BY <1>8, <1>14
  <2>5. ~req'[d].late => ~req[d].late
    BY <1>13, <1>14, <2>1 DEF ReqType
  <2>6. Refreshed(c) /\ req[d].s = s0 /\ Loaded(req[d]) => req'[d].late
    BY <1>13, <1>14, <2>1 DEF ReqType, Loaded
  <2> QED
    BY <2>2, <2>3, <2>4, <2>5, <2>6
<1>15. req'[c] = Quiet
  BY <1>8
<1>16. CatalogTypeOK'
  <2>1. eids' \subseteq (DOMAIN series') \X ExternalIds
    BY <1>1, <1>2, <1>3, <1>10, NewIdsAreOfRows DEF s0
  <2>2. req' \in [Clients -> ReqType]
    BY <1>8, <1>14, <1>15, QuietType
  <2>3. merged' \in [SeriesIds -> SUBSET Genres] /\ mixed' \subseteq SeriesIds
    BY <1>1, <1>3, <1>7, <1>9 DEF CatalogInv, CatalogTypeOK, SeriesRow, SeriesIds
  <2> QED
    BY <1>1, <1>2, <1>10, <1>11, <2>1, <2>2, <2>3 DEF CatalogTypeOK
<1>17. \A d \in Clients : RequestOK(d)'
  <2> SUFFICES ASSUME NEW d \in Clients PROVE RequestOK(d)'
    OBVIOUS
  <2>1. CASE d = c
    <3>1. Quiet.pc = "idle"
      BY DEF Quiet
    <3>2. HoldsAt(Quiet, n) /\ ~Inserting(Quiet, n) /\ ~Loaded(Quiet)
      BY <1>1, QuietOK
    <3> QED
      BY <1>10, <1>15, <2>1, <3>1, <3>2 DEF RequestOK
  <2>2. CASE d # c
    <3>1. RequestOK(d) /\ lock # d /\ lock' # d
      BY <1>1, <1>2, <2>2, RequestFacts DEF CatalogInv
    <3>2. HoldsAt(req[d], n) /\ ~Inserting(req[d], n) /\ (Loaded(req[d]) /\ req[d].kind # "patch"
             /\ req[d].s <= n /\ ~req[d].late => req[d].seen.genres = series[req[d].s].genres)
      BY <3>1 DEF RequestOK, n
    <3>3. HoldsAt(req'[d], n) /\ ~Inserting(req'[d], n)
      BY <1>14, <2>2, <3>2 DEF HoldsAt, Inserting, Fresh
    <3>4. Loaded(req'[d]) => Loaded(req[d]) /\ req[d].s \in 1..(n + 1)
      BY <1>14, <2>2, <3>2 DEF Loaded, HoldsAt
    <3>5. ASSUME Loaded(req'[d]), req'[d].kind # "patch", req'[d].s <= n, ~req'[d].late
          PROVE  req'[d].seen.genres = series'[req'[d].s].genres
      <4>1. req[d].seen.genres = series[req[d].s].genres /\ req[d].s \in 1..n
        BY <1>1, <1>14, <2>2, <3>2, <3>4, <3>5
      <4>2. CASE req[d].s = s0
        BY <1>5, <1>10, <1>14, <2>2, <3>4, <3>5, <4>1, <4>2
      <4>3. CASE req[d].s # s0
        BY <1>10, <1>14, <2>2, <4>1, <4>3
      <4> QED
        BY <4>2, <4>3
    <3> QED
      BY <1>10, <3>1, <3>3, <3>5 DEF RequestOK
  <2> QED
    BY <2>1, <2>2
<1>18. CreatingOK
  BY DEF CatalogInv
<1>19. CreatingOK'
  <2>1. Creating' = {d \in Clients : IsCreating(req'[d], n)}
    BY <1>10 DEF Creating, IsNew, IsCreating
  <2>2. Creating = {d \in Clients : IsCreating(req[d], n)}
    BY CreatingSet DEF n
  <2>3. ~IsCreating(req'[c], n)
    BY <1>1, <1>15, QuietOK
  <2>4. \A d \in Creating' : d \in Creating /\ Asked(req'[d]) = Asked(req[d])
    BY <1>14, <2>1, <2>2, <2>3 DEF IsCreating, Asked
  <2>5. IsFiniteSet(Creating') /\ Cardinality(Creating') <= Cardinality(Creating)
    BY <1>18, <2>4, FS_Subset DEF CreatingOK
  <2>6. Len(series') + Cardinality(Creating') <= MaxSeries
    BY <1>1, <1>10, <1>18, <2>5, FS_CardinalityType DEF CreatingOK, n
  <2>7. \A d, e \in Creating' :
           d # e /\ Asked(req'[d]) = Asked(req'[e]) => Asked(req'[d]) \in excused'
    BY <1>11, <1>18, <2>4 DEF CreatingOK
  <2>8. \A d \in Creating', s \in DOMAIN series' :
           series'[s].title = Asked(req'[d]) => Asked(req'[d]) \in excused'
    BY <1>1, <1>10, <1>11, <1>12, <1>18, <2>4 DEF CreatingOK
  <2> QED
    BY <2>5, <2>6, <2>7, <2>8 DEF CreatingOK
<1>20. OneSeriesPerTitle'
  BY <1>1, <1>10, <1>11, <1>12 DEF CatalogInv, OneSeriesPerTitle
<1>21. GenresOfOneMerge' /\ \A s \in SeriesIds \ DOMAIN series' : merged'[s] = {}
  <2>1. merged \in [SeriesIds -> SUBSET Genres] /\ s0 \in SeriesIds
    BY <1>1, <1>3 DEF CatalogInv, CatalogTypeOK, SeriesIds
  <2>2. \A s \in SeriesIds : s # s0 => merged'[s] = merged[s] /\ (s \in mixed' <=> s \in mixed)
    BY <1>7, <2>1
  <2>3. s0 \in mixed' \/ series'[s0].genres = merged'[s0]
    <3>1. CASE ~Refreshed(c)
      BY <1>1, <1>3, <1>5, <1>7, <1>10, <3>1 DEF CatalogInv, GenresOfOneMerge
    <3>2. CASE Refreshed(c) /\ req[c].late
      BY <1>7, <3>2
    <3>3. CASE Refreshed(c) /\ ~req[c].late
      <4>1. req[c].seen.genres = series[s0].genres
        BY <1>1, <1>2, <1>3, <3>3 DEF RequestOK, Loaded, Refreshed, n, s0
      <4>2. row.genres = req[c].new.genres
        BY <1>5, <3>3, <4>1 DEF GenresWritten
      <4> QED
        BY <1>7, <1>10, <2>1, <3>3, <4>2
    <3> QED
      BY <3>1, <3>2, <3>3
  <2>4. \A s \in 1..n : s \in SeriesIds
    BY <1>1 DEF SeriesIds
  <2>5. GenresOfOneMerge'
    BY <1>1, <1>10, <2>2, <2>3, <2>4 DEF CatalogInv, GenresOfOneMerge
  <2> QED
    BY <1>1, <1>3, <1>10, <2>2, <2>5 DEF CatalogInv
<1> QED
  BY <1>16, <1>17, <1>19, <1>20, <1>21 DEF CatalogInv

LEMMA CatalogSteps == CatalogInv /\ [CatalogNext]_catalogVars => CatalogInv'
<1> SUFFICES ASSUME CatalogInv, [CatalogNext]_catalogVars PROVE CatalogInv'
  OBVIOUS
<1>1. CASE UNCHANGED catalogVars
  <2> USE <1>1 DEF catalogVars
  <2>1. CatalogTypeOK' /\ (\A c \in Clients : RequestOK(c)')
    BY DEF CatalogInv, CatalogTypeOK, RequestOK
  <2>2. Creating' = Creating
    BY DEF Creating, IsNew
  <2>3. CreatingOK'
    BY <2>2 DEF CatalogInv, CreatingOK
  <2> QED
    BY <2>1, <2>3 DEF CatalogInv, OneSeriesPerTitle, GenresOfOneMerge
<1>2. ASSUME NEW c \in Clients, NEW x \in ExternalIds, AddSeries(c, x) PROVE CatalogInv'
  BY <1>2, AddSeriesStep
<1>3. ASSUME NEW c \in Clients, NEW s \in SeriesIds, Refresh(c, s) \/ Patch(c, s)
      PROVE  CatalogInv'
  BY <1>3, RefreshStep, PatchStep
<1>4. ASSUME NEW c \in Clients, RequestStep(c) PROVE CatalogInv'
  <2>1. CASE ScrapeFails(c) \/ TitleAmbiguous(c) \/ Rejected(c) \/ LockTimeout(c)
    BY <2>1, AnswerStep DEF ScrapeFails, TitleAmbiguous, Rejected, LockTimeout
  <2>2. CASE FindTitle(c)
    BY <2>2, TitleFoundStep, TitleMissingStep
  <2>3. CASE InsertSeries(c)
    BY <2>3, InsertSeriesStep
  <2>4. CASE MapExternalId(c)
    BY <2>4, MapExternalIdStep
  <2>5. CASE NothingFetched(c)
    BY <2>5, NothingFetchedStep
  <2>6. CASE Fetched(c)
    BY <2>6, FetchedStep
  <2>7. CASE ApplyMerged(c)
    BY <2>7, ApplyMergedStep
  <2>8. CASE CommitRequest(c)
    BY <2>8, CommitNewStep, CommitIdsStep, CommitWrittenStep
  <2> QED
    BY <1>4, <2>1, <2>2, <2>3, <2>4, <2>5, <2>6, <2>7, <2>8 DEF RequestStep
<1> QED
  BY <1>1, <1>2, <1>3, <1>4 DEF CatalogNext

LEMMA CatalogInvariant == CatalogSpec => []CatalogInv
BY CatalogStart, CatalogSteps, PTL DEF CatalogSpec

\* Every variable of the catalog keeps its shape, and only a request that has flushed holds
\* the write lock (session_scope, refresh_metadata).
THEOREM CatalogTypeCorrect == CatalogSpec => []CatalogTypeOK
<1>1. CatalogInv => CatalogTypeOK
  BY DEF CatalogInv
<1> QED
  BY <1>1, CatalogInvariant, PTL

\* add_series_from_provider makes a second series of a title only when two adds of it
\* overlapped, or a rename or a refresh wrote it, for any number of requests and series.
THEOREM TitlesAreOnce == CatalogSpec => []OneSeriesPerTitle
<1>1. CatalogInv => OneSeriesPerTitle
  BY DEF CatalogInv
<1> QED
  BY <1>1, CatalogInvariant, PTL

\* _replace_collection leaves the genres of one refresh, unless another refresh committed
\* between its load and its commit, for any number of requests and series.
THEOREM GenresAreOfOneRefresh == CatalogSpec => []GenresOfOneMerge
<1>1. CatalogInv => GenresOfOneMerge
  BY DEF CatalogInv
<1> QED
  BY <1>1, CatalogInvariant, PTL
-----------------------------------------------------------------------------
(* JobFeed.  What excuses a shown status is inductive only together with    *)
(* what the queued frames and the answers of the loads under way will show: *)
(* the newest event of a job in the connection and the queue behind it says *)
(* what the row says, and so does every row of an answer that was not       *)
(* overtaken.                                                               *)

OnceEach(list) == \A i, k \in DOMAIN list : list[i].id = list[k].id => i = k

\* FeedTypeOK, the bound on the list's distinct ids stated as OnceEach.
FeedShape ==
    /\ feedTable \in Seq(Statuses) /\ Len(feedTable) <= MaxFeedJobs
    /\ unpublished \subseteq DOMAIN feedTable
    /\ stream \in {"off", "opening", "open"}
    /\ backlog \in Seq(Events) /\ Len(backlog) <= MaxBacklog
    /\ wire \in Seq(Events) /\ Len(wire) <= MaxWire
    /\ stream # "open" => backlog = <<>> /\ wire = <<>>
    /\ items \in Seq(Events) /\ Len(items) <= MaxItems
    /\ loads \in [Loads -> LoadType]
    /\ overtaken \in [Loads -> SUBSET FeedIds]
    /\ missed \subseteq FeedIds

ListsOK ==
    /\ OnceEach(items)
    /\ \A l \in Loads : OnceEach(loads[l].rows) /\ Len(loads[l].rows) <= MaxItems

KnownIds ==
    /\ IdsOf(backlog) \cup IdsOf(wire) \cup IdsOf(items) \subseteq DOMAIN feedTable
    /\ \A l \in Loads : IdsOf(loads[l].rows) \subseteq DOMAIN feedTable

\* An event that says what the row says, or whose job has an excuse.
Truthful(e) == e.status = feedTable[e.id] \/ e.id \in unpublished \cup missed

BacklogOK ==
    \A n \in DOMAIN backlog :
        \/ Truthful(backlog[n])
        \/ \E m \in DOMAIN backlog : m > n /\ backlog[m].id = backlog[n].id

WireOK ==
    \A n \in DOMAIN wire :
        \/ Truthful(wire[n])
        \/ wire[n].id \in IdsOf(backlog)
        \/ \E m \in DOMAIN wire : m > n /\ wire[m].id = wire[n].id

AnswersOK ==
    \A l \in Loads : loads[l].pc = "answered" =>
        \A i \in DOMAIN loads[l].rows :
            LET e == loads[l].rows[i]
            IN  e.id \in overtaken[l] \/ e.status = feedTable[e.id]

FeedInv ==
    /\ FeedShape /\ ListsOK /\ KnownIds
    /\ BacklogOK /\ WireOK /\ AnswersOK /\ ShownUnlessMissed

LEMMA OnceEachCounts ==
    ASSUME NEW list \in Seq(Events), OnceEach(list)
    PROVE  Cardinality(IdsOf(list)) = Len(list)
<1> DEFINE S == IdsOf(list)
           f == [i \in 1..Len(list) |-> list[i].id]
<1>1. DOMAIN list = 1..Len(list) /\ Len(list) \in Nat
  OBVIOUS
<1>2. S = {list[i].id : i \in 1..Len(list)} /\ \A i, k \in 1..Len(list) : list[i].id = list[k].id => i = k
  BY <1>1 DEF IdsOf, OnceEach
<1> HIDE DEF S
<1>3. f \in [1..Len(list) -> S] /\ \A i \in 1..Len(list) : f[i] = list[i].id
  BY <1>2
<1>4. f \in Bijection(1..Len(list), S)
  <2> HIDE DEF f
  <2>1. \A i, k \in 1..Len(list) : f[i] = f[k] => i = k
    BY <1>2, <1>3
  <2>2. \A s \in S : \E i \in 1..Len(list) : f[i] = s
    BY <1>2, <1>3
  <2> QED
    BY <1>3, <2>1, <2>2 DEF Bijection, Injection, IsInjective, Surjection
<1>5. ExistsBijection(1..Len(list), S)
  BY <1>4 DEF ExistsBijection
<1>6. Cardinality(S) = Len(list)
  BY <1>1, <1>5, FS_CountingElements
<1> QED
  BY <1>6 DEF S

LEMMA NewestRows ==
    ASSUME FeedShape
    PROVE  /\ Newest \in Seq(Events) /\ Len(Newest) <= MaxItems
           /\ OnceEach(Newest) /\ IdsOf(Newest) \subseteq DOMAIN feedTable
           /\ \A i \in DOMAIN Newest : Newest[i].status = feedTable[Newest[i].id]
<1> DEFINE n == Len(feedTable)
<1>1. n \in Nat /\ n <= MaxFeedJobs /\ DOMAIN feedTable = 1..n
      /\ \A j \in 1..n : feedTable[j] \in Statuses
  BY DEF FeedShape
<1>2. PICK k \in Nat : k = IF n < LoadLimit THEN n ELSE LoadLimit
  BY <1>1, FeedAssumption
<1>3. k <= n /\ k <= MaxItems
  <2>1. LoadLimit \in Nat /\ MaxItems \in Nat /\ LoadLimit <= MaxItems
    BY FeedAssumption
  <2> HIDE DEF n
  <2> QED
    BY <1>1, <1>2, <2>1
<1>4. Newest = [i \in 1..k |-> [id |-> n + 1 - i, status |-> feedTable[n + 1 - i]]]
  BY <1>2 DEF Newest
<1>5. \A i \in 1..k : n + 1 - i \in 1..n /\ n + 1 - i \in FeedIds
  BY <1>1, <1>3, FeedAssumption DEF FeedIds
<1>6. \A i \in 1..k : [id |-> n + 1 - i, status |-> feedTable[n + 1 - i]] \in Events
  BY <1>1, <1>5 DEF Events
<1>7. DOMAIN Newest = 1..k
      /\ \A i \in 1..k : Newest[i].id = n + 1 - i /\ Newest[i].status = feedTable[n + 1 - i]
  BY <1>4
<1>8. Newest \in Seq(Events) /\ Len(Newest) = k
  <2>1. \A i \in 1..k : Newest[i] \in Events
    BY <1>4, <1>6
  <2>2. Newest \in [1..k -> Events]
    BY <1>4, <2>1
  <2> QED
    BY <2>2, <1>7
<1> HIDE DEF n
<1> QED
  BY <1>1, <1>3, <1>5, <1>7, <1>8 DEF OnceEach, IdsOf

LEMMA UpsertList ==
    ASSUME NEW list \in Seq(Events), OnceEach(list), Len(list) <= MaxItems, NEW e \in Events
    PROVE  /\ Upsert(list, e) \in Seq(Events) /\ Len(Upsert(list, e)) <= MaxItems
           /\ OnceEach(Upsert(list, e))
           /\ \A i \in DOMAIN Upsert(list, e) :
                 \/ Upsert(list, e)[i] = e
                 \/ /\ Upsert(list, e)[i].id # e.id
                    /\ \E k \in DOMAIN list : Upsert(list, e)[i] = list[k]
<1> DEFINE new == Upsert(list, e)
<1>1. DOMAIN list = 1..Len(list) /\ Len(list) \in Nat /\ \A i \in 1..Len(list) : list[i] \in Events
  OBVIOUS
<1>2. CASE e.id \in IdsOf(list)
  <2>1. new = [i \in 1..Len(list) |-> IF list[i].id = e.id THEN e ELSE list[i]]
    BY <1>1, <1>2 DEF Upsert
  <2>2. new \in [1..Len(list) -> Events]
    BY <1>1, <2>1
  <2>3. new \in Seq(Events) /\ Len(new) = Len(list) /\ DOMAIN new = 1..Len(list)
    BY <1>1, <2>1, <2>2
  <2>4. \A i \in 1..Len(list) : new[i].id = list[i].id
                             /\ (new[i] = e \/ (new[i] = list[i] /\ list[i].id # e.id))
    BY <2>1
  <2> HIDE DEF new
  <2>5. OnceEach(new)
    BY <1>1, <2>3, <2>4 DEF OnceEach
  <2>6. \A i \in DOMAIN new :
            new[i] = e \/ (new[i].id # e.id /\ \E k \in DOMAIN list : new[i] = list[k])
    BY <1>1, <2>3, <2>4
  <2> QED
    BY <2>3, <2>5, <2>6 DEF new
<1>3. CASE e.id \notin IdsOf(list)
  <2> DEFINE whole == <<e>> \o list
             all == Len(list) + 1
  <2>1. /\ whole \in Seq(Events) /\ Len(whole) = all
        /\ \A i \in 1..all : whole[i] = IF i <= 1 THEN e ELSE list[i - 1]
    <3>1. <<e>> \in Seq(Events) /\ Len(<<e>>) = 1 /\ <<e>>[1] = e
      OBVIOUS
    <3> QED
      BY <1>1, <3>1, ConcatProperties
  <2>2. PICK m \in Nat : m = IF Len(whole) < MaxItems THEN Len(whole) ELSE MaxItems
    BY <1>1, <2>1, FeedAssumption
  <2> HIDE DEF whole
  <2>3. m <= all /\ m <= MaxItems /\ \A i \in 1..m : whole[i] \in Events
    BY <1>1, <2>1, <2>2, FeedAssumption
  <2>4. new = SubSeq(whole, 1, m)
    BY <1>3, <2>2 DEF Upsert, Prefix, whole
  <2>5. new \in Seq(Events) /\ Len(new) = m /\ \A i \in 1..m : new[i] = whole[i]
    BY <2>3, <2>4, SubSeqProperties
  <2> HIDE DEF new
  <2>6. DOMAIN new = 1..m
        /\ \A i \in 1..m : (i = 1 /\ new[i] = e) \/ (i > 1 /\ i - 1 \in DOMAIN list /\ new[i] = list[i - 1])
    BY <1>1, <2>1, <2>3, <2>5
  <2>7. \A k \in DOMAIN list : list[k].id # e.id
    BY <1>3 DEF IdsOf
  <2>8. OnceEach(new)
    BY <2>6, <2>7 DEF OnceEach
  <2>9. \A i \in DOMAIN new :
            new[i] = e \/ (new[i].id # e.id /\ \E k \in DOMAIN list : new[i] = list[k])
    BY <2>6, <2>7
  <2> QED
    BY <2>3, <2>5, <2>8, <2>9 DEF new
<1> QED
  BY <1>2, <1>3

LEMMA TailOf ==
    ASSUME NEW s \in Seq(Events), s # <<>>
    PROVE  /\ Head(s) = s[1] /\ Head(s) \in Events /\ Tail(s) \in Seq(Events)
           /\ Len(Tail(s)) = Len(s) - 1 /\ Len(s) \in Nat \ {0}
           /\ DOMAIN s = 1..Len(s) /\ DOMAIN Tail(s) = 1..(Len(s) - 1)
           /\ \A i \in DOMAIN Tail(s) : Tail(s)[i] = s[i + 1]
BY HeadTailProperties

LEMMA AppendOf ==
    ASSUME NEW s \in Seq(Events), NEW e \in Events
    PROVE  /\ Append(s, e) \in Seq(Events) /\ Len(Append(s, e)) = Len(s) + 1
           /\ Len(s) \in Nat /\ DOMAIN s = 1..Len(s) /\ DOMAIN Append(s, e) = 1..(Len(s) + 1)
           /\ Append(s, e)[Len(s) + 1] = e
           /\ \A i \in DOMAIN s : Append(s, e)[i] = s[i]
OBVIOUS

LEMMA FeedStart == FeedInit => FeedInv
<1> SUFFICES ASSUME FeedInit PROVE FeedInv
  OBVIOUS
<1>1. FeedShape
  BY FeedAssumption DEF FeedInit, FeedShape, Unasked, LoadType, Requests
<1>2. ListsOK
  BY FeedAssumption DEF FeedInit, ListsOK, OnceEach, Unasked
<1>3. KnownIds
  BY DEF FeedInit, KnownIds, IdsOf, Unasked
<1>4. BacklogOK /\ WireOK /\ AnswersOK /\ ShownUnlessMissed
  BY DEF FeedInit, BacklogOK, WireOK, AnswersOK, ShownUnlessMissed, Unasked
<1> QED
  BY <1>1, <1>2, <1>3, <1>4 DEF FeedInv

\* The rows of the answers under way are in the table.
LEMMA EventsKnown ==
    ASSUME FeedInv
    PROVE  /\ \A n \in DOMAIN backlog : backlog[n].id \in DOMAIN feedTable
           /\ \A n \in DOMAIN wire : wire[n].id \in DOMAIN feedTable
           /\ \A n \in DOMAIN items : items[n].id \in DOMAIN feedTable
           /\ \A l \in Loads : \A n \in DOMAIN loads[l].rows :
                 loads[l].rows[n].id \in DOMAIN feedTable
BY DEF FeedInv, KnownIds, IdsOf

LEMMA ChangedJobs ==
    ASSUME FeedInv, NEW j \in FeedIds, Changed(j)
    PROVE  /\ overtaken' \in [Loads -> SUBSET FeedIds]
           /\ \A l \in Loads : loads[l].pc = "answered" => overtaken'[l] = overtaken[l] \cup {j}
BY DEF FeedInv, FeedShape, Changed

\* What a new status of one job leaves: the job is unpublished, and overtaken.
LEMMA JobChanges ==
    ASSUME FeedInv, NEW j \in FeedIds, Changed(j),
           feedTable' \in Seq(Statuses), Len(feedTable') <= MaxFeedJobs,
           DOMAIN feedTable \subseteq DOMAIN feedTable', j \in DOMAIN feedTable',
           \A i \in DOMAIN feedTable : i # j => feedTable'[i] = feedTable[i],
           unpublished' = unpublished \cup {j},
           UNCHANGED <<stream, backlog, wire, items, loads, missed>>
    PROVE  FeedInv'
<1>1. FeedShape'
  BY ChangedJobs DEF FeedInv, FeedShape
<1>2. ListsOK' /\ KnownIds'
  BY DEF FeedInv, ListsOK, OnceEach, KnownIds, IdsOf
<1>3. \A e : Truthful(e) /\ e.id \in DOMAIN feedTable => Truthful(e)'
  BY DEF Truthful
<1>4. BacklogOK'
  BY <1>3, EventsKnown DEF FeedInv, BacklogOK
<1>5. WireOK'
  BY <1>3, EventsKnown DEF FeedInv, WireOK, IdsOf
<1>6. AnswersOK'
  BY ChangedJobs, EventsKnown DEF FeedInv, AnswersOK
<1>7. ShownUnlessMissed'
  BY EventsKnown DEF FeedInv, ShownUnlessMissed, UnderWay, IdsOf
<1> QED
  BY <1>1, <1>2, <1>4, <1>5, <1>6, <1>7 DEF FeedInv

LEMMA FeedCreateStep ==
    ASSUME FeedInv, FeedCreate
    PROVE  FeedInv'
<1> DEFINE j == Len(feedTable) + 1
<1>1. feedTable \in Seq(Statuses) /\ Len(feedTable) < MaxFeedJobs
  BY DEF FeedInv, FeedShape, FeedCreate
<1>2. j \in FeedIds
  BY <1>1, FeedAssumption DEF FeedIds
<1>3. /\ feedTable' \in Seq(Statuses) /\ Len(feedTable') <= MaxFeedJobs
      /\ DOMAIN feedTable \subseteq DOMAIN feedTable' /\ j \in DOMAIN feedTable'
      /\ \A i \in DOMAIN feedTable : feedTable'[i] = feedTable[i]
  BY <1>1, FeedAssumption DEF FeedCreate, Statuses
<1>4. PICK k \in FeedIds : k = j
  BY <1>2
<1>5. Changed(k) /\ unpublished' = unpublished \cup {k}
  BY <1>4 DEF FeedCreate, Changed
<1> QED
  BY <1>3, <1>4, <1>5, JobChanges DEF FeedCreate

LEMMA FeedEndStep ==
    ASSUME FeedInv, NEW j \in FeedIds, FeedEnd(j)
    PROVE  FeedInv'
<1>1. feedTable \in Seq(Statuses) /\ j \in DOMAIN feedTable
  BY DEF FeedInv, FeedShape, FeedEnd
<1>2. PICK s \in Statuses : feedTable' = [feedTable EXCEPT ![j] = s]
  BY DEF FeedEnd, Statuses
<1>3. /\ feedTable' \in Seq(Statuses) /\ Len(feedTable') = Len(feedTable)
      /\ DOMAIN feedTable' = DOMAIN feedTable
      /\ \A i \in DOMAIN feedTable : i # j => feedTable'[i] = feedTable[i]
  BY <1>1, <1>2
<1> QED
  BY <1>1, <1>3, JobChanges DEF FeedEnd, FeedInv, FeedShape

LEMMA FeedPublishStep ==
    ASSUME FeedInv, NEW j \in FeedIds, FeedPublish(j)
    PROVE  FeedInv'
<1>1. /\ j \in DOMAIN feedTable /\ unpublished' = unpublished \ {j}
      /\ UNCHANGED <<feedTable, stream, wire, items, loads, overtaken>>
  BY DEF FeedPublish, FeedInv, FeedShape
<1>2. ListsOK' /\ AnswersOK'
  BY <1>1 DEF FeedInv, ListsOK, OnceEach, AnswersOK
<1>3. CASE stream = "open" /\ Len(backlog) < MaxBacklog
  <2> DEFINE e == [id |-> j, status |-> feedTable[j]]
             top == Len(backlog) + 1
  <2>1. e \in Events /\ e.id = j /\ e.status = feedTable[j]
    BY <1>1 DEF FeedInv, FeedShape, Events
  <2>2. backlog' = Append(backlog, e) /\ missed' = missed \ {j}
    BY <1>3 DEF FeedPublish
  <2> HIDE DEF e
  <2>3. /\ backlog' \in Seq(Events) /\ Len(backlog') = Len(backlog) + 1
        /\ DOMAIN backlog = 1..Len(backlog) /\ DOMAIN backlog' = 1..top
        /\ Len(backlog) \in Nat
        /\ backlog'[top] = e /\ \A i \in DOMAIN backlog : backlog'[i] = backlog[i]
    BY <2>1, <2>2, AppendOf DEF FeedInv, FeedShape
  <2>4. IdsOf(backlog)' = IdsOf(backlog) \cup {j}
    BY <2>1, <2>3 DEF IdsOf
  <2>5. FeedShape'
    BY <1>1, <1>3, <2>2, <2>3, FeedAssumption DEF FeedInv, FeedShape
  <2>6. KnownIds'
    BY <1>1, <2>4 DEF FeedInv, KnownIds, IdsOf
  <2>7. \A f : Truthful(f) => Truthful(f)' \/ f.id = j
    BY <1>1, <2>2 DEF Truthful
  <2>8. BacklogOK'
    <3> SUFFICES ASSUME NEW n \in DOMAIN backlog'
                 PROVE  \/ backlog'[n].status = feedTable[backlog'[n].id]
                        \/ backlog'[n].id \in unpublished' \cup missed'
                        \/ \E m \in DOMAIN backlog' : m > n /\ backlog'[m].id = backlog'[n].id
      BY <1>1 DEF BacklogOK, Truthful
    <3>1. CASE n = top
      BY <2>1, <2>3, <3>1
    <3>2. CASE n # top /\ backlog'[n].id = j
      BY <2>1, <2>3, <3>2
    <3>3. CASE n # top /\ backlog'[n].id # j
      <4>1. n \in DOMAIN backlog /\ backlog'[n] = backlog[n]
        BY <2>3, <3>3
      <4>2. CASE Truthful(backlog[n])
        BY <1>1, <2>2, <3>3, <4>1, <4>2 DEF Truthful
      <4>3. CASE \E m \in DOMAIN backlog : m > n /\ backlog[m].id = backlog[n].id
        BY <2>3, <4>1, <4>3
      <4> QED
        BY <4>1, <4>2, <4>3 DEF FeedInv, BacklogOK
    <3> QED
      BY <3>1, <3>2, <3>3
  <2>9. WireOK'
    BY <1>1, <2>4, <2>7 DEF FeedInv, WireOK
  <2>10. ShownUnlessMissed'
    BY <1>1, <2>2, <2>4 DEF FeedInv, ShownUnlessMissed, UnderWay
  <2> QED
    BY <1>2, <2>5, <2>6, <2>8, <2>9, <2>10 DEF FeedInv
<1>4. CASE ~(stream = "open" /\ Len(backlog) < MaxBacklog)
  <2>1. missed' = missed \cup {j} /\ UNCHANGED backlog
    BY <1>4 DEF FeedPublish
  <2>2. FeedShape'
    BY <1>1, <2>1 DEF FeedInv, FeedShape
  <2>3. KnownIds'
    BY <1>1, <2>1 DEF FeedInv, KnownIds, IdsOf
  <2>4. \A e : Truthful(e)' <=> Truthful(e) \/ e.id = j
    BY <1>1, <2>1 DEF Truthful
  <2>5. BacklogOK'
    BY <2>1, <2>4 DEF FeedInv, BacklogOK
  <2>6. WireOK'
    BY <1>1, <2>1, <2>4 DEF FeedInv, WireOK, IdsOf
  <2>7. ShownUnlessMissed'
    BY <1>1, <2>1 DEF FeedInv, ShownUnlessMissed, UnderWay, IdsOf
  <2> QED
    BY <1>2, <2>2, <2>3, <2>5, <2>6, <2>7 DEF FeedInv
<1> QED
  BY <1>3, <1>4

LEMMA SendFrameStep ==
    ASSUME FeedInv, SendFrame
    PROVE  FeedInv'
<1> DEFINE h == Head(backlog)
           top == Len(wire) + 1
<1>1. /\ backlog # <<>> /\ Len(wire) < MaxWire
      /\ wire' = Append(wire, h) /\ backlog' = Tail(backlog)
      /\ UNCHANGED <<feedTable, unpublished, stream, items, loads, overtaken, missed>>
  BY DEF SendFrame
<1>2. backlog \in Seq(Events) /\ wire \in Seq(Events) /\ Len(backlog) <= MaxBacklog
  BY DEF FeedInv, FeedShape
<1>3. /\ h = backlog[1] /\ h \in Events /\ backlog' \in Seq(Events)
      /\ Len(backlog') = Len(backlog) - 1 /\ Len(backlog) \in Nat \ {0}
      /\ DOMAIN backlog = 1..Len(backlog) /\ DOMAIN backlog' = 1..(Len(backlog) - 1)
      /\ \A i \in DOMAIN backlog' : backlog'[i] = backlog[i + 1]
  BY <1>1, <1>2, TailOf
<1> HIDE DEF h
<1>4. /\ wire' \in Seq(Events) /\ Len(wire') = Len(wire) + 1 /\ Len(wire) \in Nat
      /\ DOMAIN wire = 1..Len(wire) /\ DOMAIN wire' = 1..top
      /\ wire'[top] = h /\ \A i \in DOMAIN wire : wire'[i] = wire[i]
  BY <1>1, <1>2, <1>3, AppendOf
<1>5. IdsOf(wire)' = IdsOf(wire) \cup {h.id}
  BY <1>4 DEF IdsOf
<1>6. IdsOf(backlog) = IdsOf(backlog)' \cup {h.id}
  <2>1. \A i \in DOMAIN backlog : i = 1 \/ (i - 1 \in DOMAIN backlog' /\ backlog[i] = backlog'[i - 1])
    BY <1>3
  <2>2. \A i \in DOMAIN backlog' : i + 1 \in DOMAIN backlog
    BY <1>3
  <2>3. 1 \in DOMAIN backlog
    BY <1>3
  <2> QED
    BY <1>3, <2>1, <2>2, <2>3 DEF IdsOf
<1>7. FeedShape'
  BY <1>1, <1>2, <1>3, <1>4, FeedAssumption DEF FeedInv, FeedShape
<1>8. ListsOK' /\ AnswersOK'
  BY <1>1 DEF FeedInv, ListsOK, OnceEach, AnswersOK
<1>9. KnownIds'
  <2>1. IdsOf(items)' = IdsOf(items)
    BY <1>1 DEF IdsOf
  <2> QED
    BY <1>1, <1>5, <1>6, <2>1 DEF FeedInv, KnownIds
<1>10. \A e : Truthful(e)' <=> Truthful(e)
  BY <1>1 DEF Truthful
<1>11. BacklogOK'
  <2> SUFFICES ASSUME NEW n \in DOMAIN backlog'
               PROVE  \/ Truthful(backlog'[n])
                      \/ \E m \in DOMAIN backlog' : m > n /\ backlog'[m].id = backlog'[n].id
    BY <1>10 DEF BacklogOK
  <2>1. n + 1 \in DOMAIN backlog /\ backlog'[n] = backlog[n + 1]
    BY <1>3
  <2>2. ASSUME NEW m \in DOMAIN backlog, m > n + 1, backlog[m].id = backlog[n + 1].id
        PROVE  \E k \in DOMAIN backlog' : k > n /\ backlog'[k].id = backlog'[n].id
    <3>1. m - 1 \in DOMAIN backlog' /\ m - 1 > n /\ backlog'[m - 1] = backlog[m]
      BY <1>3, <2>1, <2>2
    <3> QED
      BY <2>1, <2>2, <3>1
  <2> QED
    BY <2>1, <2>2 DEF FeedInv, BacklogOK
<1>12. WireOK'
  <2> SUFFICES ASSUME NEW n \in DOMAIN wire'
               PROVE  \/ Truthful(wire'[n])
                      \/ wire'[n].id \in IdsOf(backlog)'
                      \/ \E m \in DOMAIN wire' : m > n /\ wire'[m].id = wire'[n].id
    BY <1>10 DEF WireOK
  <2>1. CASE n = top
    <3>1. Truthful(h) \/ \E m \in DOMAIN backlog : m > 1 /\ backlog[m].id = h.id
      BY <1>3 DEF FeedInv, BacklogOK
    <3>2. ASSUME NEW m \in DOMAIN backlog, m > 1, backlog[m].id = h.id
          PROVE  h.id \in IdsOf(backlog)'
      <4>1. m - 1 \in DOMAIN backlog' /\ backlog'[m - 1] = backlog[m]
        BY <1>3, <3>2
      <4> QED
        BY <3>2, <4>1 DEF IdsOf
    <3> QED
      BY <1>4, <2>1, <3>1, <3>2
  <2>2. CASE n # top
    <3>1. n \in DOMAIN wire /\ wire'[n] = wire[n] /\ top > n /\ top \in DOMAIN wire'
      BY <1>4, <2>2
    <3>2. \A m \in DOMAIN wire : m \in DOMAIN wire'
      BY <1>4
    <3> QED
      BY <1>4, <1>6, <3>1, <3>2 DEF FeedInv, WireOK
  <2> QED
    BY <2>1, <2>2
<1>13. ShownUnlessMissed'
  BY <1>1, <1>5, <1>6 DEF FeedInv, ShownUnlessMissed, UnderWay
<1> QED
  BY <1>7, <1>8, <1>9, <1>11, <1>12, <1>13 DEF FeedInv

LEMMA ReadFrameStep ==
    ASSUME FeedInv, ReadFrame
    PROVE  FeedInv'
<1> DEFINE h == Head(wire)
<1>1. /\ wire # <<>> /\ items' = Upsert(items, h) /\ wire' = Tail(wire)
      /\ UNCHANGED <<feedTable, unpublished, stream, backlog, loads, overtaken, missed>>
  BY DEF ReadFrame
<1>2. wire \in Seq(Events) /\ items \in Seq(Events) /\ Len(items) <= MaxItems /\ OnceEach(items)
  BY DEF FeedInv, FeedShape, ListsOK
<1>3. /\ h = wire[1] /\ h \in Events /\ wire' \in Seq(Events)
      /\ Len(wire') = Len(wire) - 1 /\ Len(wire) \in Nat \ {0}
      /\ DOMAIN wire = 1..Len(wire) /\ DOMAIN wire' = 1..(Len(wire) - 1)
      /\ \A i \in DOMAIN wire' : wire'[i] = wire[i + 1]
  BY <1>1, <1>2, TailOf
<1> HIDE DEF h
<1>4. /\ items' \in Seq(Events) /\ Len(items') <= MaxItems /\ OnceEach(items')
      /\ \A i \in DOMAIN items' :
            items'[i] = h \/ (items'[i].id # h.id /\ \E k \in DOMAIN items : items'[i] = items[k])
  <2> DEFINE new == Upsert(items, h)
  <2>1. /\ new \in Seq(Events) /\ Len(new) <= MaxItems /\ OnceEach(new)
        /\ \A i \in DOMAIN new :
              new[i] = h \/ (new[i].id # h.id /\ \E k \in DOMAIN items : new[i] = items[k])
    BY <1>2, <1>3, UpsertList
  <2> HIDE DEF new
  <2>2. items' = new
    BY <1>1 DEF new
  <2> QED
    BY <2>1, <2>2
<1>5. IdsOf(wire) = IdsOf(wire)' \cup {h.id}
  <2>1. \A i \in DOMAIN wire : i = 1 \/ (i - 1 \in DOMAIN wire' /\ wire[i] = wire'[i - 1])
    BY <1>3
  <2>2. \A i \in DOMAIN wire' : i + 1 \in DOMAIN wire
    BY <1>3
  <2>3. 1 \in DOMAIN wire
    BY <1>3
  <2> QED
    BY <1>3, <2>1, <2>2, <2>3 DEF IdsOf
<1>6. FeedShape'
  BY <1>1, <1>3, <1>4, FeedAssumption DEF FeedInv, FeedShape
<1>7. ListsOK' /\ AnswersOK'
  <2>1. OnceEach(items)'
    BY <1>4 DEF OnceEach
  <2> QED
    BY <1>1, <2>1 DEF FeedInv, ListsOK, OnceEach, AnswersOK
<1>8. KnownIds'
  <2>1. IdsOf(items)' \subseteq IdsOf(items) \cup {h.id}
    BY <1>4 DEF IdsOf
  <2>2. IdsOf(backlog)' = IdsOf(backlog)
    BY <1>1 DEF IdsOf
  <2> QED
    BY <1>1, <1>5, <2>1, <2>2 DEF FeedInv, KnownIds
<1>9. \A e : Truthful(e)' <=> Truthful(e)
  BY <1>1 DEF Truthful
<1>10. BacklogOK'
  BY <1>1, <1>9 DEF FeedInv, BacklogOK
<1>11. WireOK'
  <2> SUFFICES ASSUME NEW n \in DOMAIN wire'
               PROVE  \/ Truthful(wire'[n])
                      \/ wire'[n].id \in IdsOf(backlog)
                      \/ \E m \in DOMAIN wire' : m > n /\ wire'[m].id = wire'[n].id
    BY <1>1, <1>9 DEF WireOK, IdsOf
  <2>1. n + 1 \in DOMAIN wire /\ wire'[n] = wire[n + 1]
    BY <1>3
  <2>2. ASSUME NEW m \in DOMAIN wire, m > n + 1, wire[m].id = wire[n + 1].id
        PROVE  \E k \in DOMAIN wire' : k > n /\ wire'[k].id = wire'[n].id
    <3>1. m - 1 \in DOMAIN wire' /\ m - 1 > n /\ wire'[m - 1] = wire[m]
      BY <1>3, <2>1, <2>2
    <3> QED
      BY <2>1, <2>2, <3>1
  <2> QED
    BY <2>1, <2>2 DEF FeedInv, WireOK
<1>12. ShownUnlessMissed'
  <2> SUFFICES ASSUME NEW i \in DOMAIN items'
               PROVE  \/ items'[i].status = feedTable[items'[i].id]
                      \/ items'[i].id \in IdsOf(backlog) \cup IdsOf(wire)' \cup unpublished \cup missed
    BY <1>1 DEF ShownUnlessMissed, UnderWay, IdsOf
  <2>1. CASE items'[i] = h
    <3>1. Truthful(h) \/ h.id \in IdsOf(backlog) \/ \E m \in DOMAIN wire : m > 1 /\ wire[m].id = h.id
      BY <1>3 DEF FeedInv, WireOK
    <3>2. ASSUME NEW m \in DOMAIN wire, m > 1, wire[m].id = h.id PROVE h.id \in IdsOf(wire)'
      <4>1. m - 1 \in DOMAIN wire' /\ wire'[m - 1] = wire[m]
        BY <1>3, <3>2
      <4> QED
        BY <3>2, <4>1 DEF IdsOf
    <3> QED
      BY <2>1, <3>1, <3>2 DEF Truthful
  <2>2. ASSUME items'[i].id # h.id, NEW k \in DOMAIN items, items'[i] = items[k]
        PROVE  \/ items'[i].status = feedTable[items'[i].id]
               \/ items'[i].id \in IdsOf(backlog) \cup IdsOf(wire)' \cup unpublished \cup missed
    BY <1>5, <2>2 DEF FeedInv, ShownUnlessMissed, UnderWay
  <2> QED
    BY <1>4, <2>1, <2>2
<1> QED
  BY <1>6, <1>7, <1>8, <1>10, <1>11, <1>12 DEF FeedInv

LEMMA DisconnectStep ==
    ASSUME FeedInv, Disconnect
    PROVE  FeedInv'
<1>1. /\ stream' = "off" /\ missed' = missed \cup UnderWay /\ backlog' = <<>> /\ wire' = <<>>
      /\ UNCHANGED <<feedTable, unpublished, items, loads, overtaken>>
  BY DEF Disconnect
<1>2. UnderWay \subseteq FeedIds
  <2>1. \A n \in DOMAIN backlog : backlog[n] \in Events
    BY DEF FeedInv, FeedShape
  <2>2. \A n \in DOMAIN wire : wire[n] \in Events
    BY DEF FeedInv, FeedShape
  <2> QED
    BY <2>1, <2>2 DEF UnderWay, IdsOf, Events
<1>3. FeedShape'
  BY <1>1, <1>2, FeedAssumption DEF FeedInv, FeedShape
<1>4. ListsOK' /\ AnswersOK' /\ KnownIds'
  BY <1>1 DEF FeedInv, ListsOK, OnceEach, AnswersOK, KnownIds, IdsOf
<1>5. BacklogOK' /\ WireOK'
  BY <1>1 DEF BacklogOK, WireOK
<1>6. ShownUnlessMissed'
  BY <1>1 DEF FeedInv, ShownUnlessMissed
<1> QED
  BY <1>3, <1>4, <1>5, <1>6 DEF FeedInv

LEMMA AnswerArrives ==
    ASSUME FeedInv, NEW l \in Loads, ListJobs(l)
    PROVE  FeedInv'
<1> DEFINE new == [pc |-> "answered", rows |-> Newest]
<1>1. /\ loads' = [loads EXCEPT ![l] = new] /\ overtaken' = [overtaken EXCEPT ![l] = {}]
      /\ UNCHANGED <<feedTable, unpublished, stream, backlog, wire, items, missed>>
  BY DEF ListJobs
<1>2. loads \in [Loads -> LoadType] /\ overtaken \in [Loads -> SUBSET FeedIds]
  BY DEF FeedInv, FeedShape
<1>3. /\ new.rows \in Seq(Events) /\ Len(new.rows) <= MaxItems /\ OnceEach(new.rows)
      /\ IdsOf(new.rows) \subseteq DOMAIN feedTable
      /\ \A i \in DOMAIN new.rows : new.rows[i].status = feedTable[new.rows[i].id]
  BY NewestRows DEF FeedInv
<1>4. new \in LoadType
  BY <1>3 DEF LoadType, Requests
<1> HIDE DEF new
<1>5. /\ loads'[l] = new /\ \A k \in Loads \ {l} : loads'[k] = loads[k]
      /\ \A k \in Loads \ {l} : overtaken'[k] = overtaken[k]
  BY <1>1, <1>2
<1>6. FeedShape'
  BY <1>1, <1>2, <1>4 DEF FeedInv, FeedShape
<1>7. ListsOK'
  BY <1>1, <1>3, <1>5 DEF FeedInv, ListsOK, OnceEach
<1>8. KnownIds'
  BY <1>1, <1>3, <1>5 DEF FeedInv, KnownIds, IdsOf
<1>9. AnswersOK'
  BY <1>1, <1>3, <1>5 DEF FeedInv, AnswersOK
<1>10. BacklogOK' /\ WireOK' /\ ShownUnlessMissed'
  BY <1>1 DEF FeedInv, BacklogOK, WireOK, ShownUnlessMissed, Truthful, UnderWay, IdsOf
<1> QED
  BY <1>6, <1>7, <1>8, <1>9, <1>10 DEF FeedInv

LEMMA ShowStep ==
    ASSUME FeedInv, NEW l \in Loads, Show(l)
    PROVE  FeedInv'
<1> DEFINE rows == loads[l].rows
<1>1. /\ loads[l].pc = "answered" /\ items' = rows /\ loads' = [loads EXCEPT ![l] = Unasked]
      /\ missed' = (missed \cup overtaken[l]) \ Settled(l)
      /\ overtaken' = [overtaken EXCEPT ![l] = {}]
      /\ UNCHANGED <<feedTable, unpublished, stream, backlog, wire>>
  BY DEF Show
<1>2. /\ loads \in [Loads -> LoadType] /\ overtaken \in [Loads -> SUBSET FeedIds]
      /\ rows \in Seq(Events) /\ Len(rows) <= MaxItems /\ OnceEach(rows)
      /\ IdsOf(rows) \subseteq DOMAIN feedTable /\ overtaken[l] \subseteq FeedIds
  BY DEF FeedInv, FeedShape, ListsOK, KnownIds, LoadType
<1>3. \A i \in DOMAIN rows :
         rows[i].id \in overtaken[l] \/ rows[i].status = feedTable[rows[i].id]
  BY <1>1 DEF FeedInv, AnswersOK
<1>4. \A j \in UnderWay : j \in missed => j \in missed'
  BY <1>1 DEF Settled
<1>5. \A j \in overtaken[l] : j \in UnderWay \/ j \in missed'
  BY <1>1 DEF Settled
<1> HIDE DEF rows
<1>6. /\ loads'[l] = Unasked /\ \A k \in Loads \ {l} : loads'[k] = loads[k]
      /\ \A k \in Loads \ {l} : overtaken'[k] = overtaken[k]
  BY <1>1, <1>2
<1>7. FeedShape'
  <2>1. Unasked \in LoadType
    BY DEF Unasked, LoadType, Requests
  <2>2. missed' \subseteq FeedIds
    BY <1>1, <1>2 DEF FeedInv, FeedShape
  <2> QED
    BY <1>1, <1>2, <2>1, <2>2 DEF FeedInv, FeedShape
<1>8. ListsOK'
  BY <1>1, <1>2, <1>6, FeedAssumption DEF FeedInv, ListsOK, OnceEach, Unasked
<1>9. KnownIds'
  BY <1>1, <1>2, <1>6 DEF FeedInv, KnownIds, IdsOf, Unasked
<1>10. AnswersOK'
  BY <1>1, <1>6 DEF FeedInv, AnswersOK, Unasked
<1>11. \A e : e.id \in UnderWay /\ Truthful(e) => Truthful(e)'
  BY <1>1, <1>4 DEF Truthful
<1>12. BacklogOK' /\ WireOK'
  <2>1. \A n \in DOMAIN backlog : backlog[n].id \in UnderWay
    BY DEF UnderWay, IdsOf
  <2>2. \A n \in DOMAIN wire : wire[n].id \in UnderWay
    BY DEF UnderWay, IdsOf
  <2> QED
    BY <1>1, <1>11, <2>1, <2>2 DEF FeedInv, BacklogOK, WireOK, IdsOf
<1>13. ShownUnlessMissed'
  <2>1. UnderWay' = UnderWay
    BY <1>1 DEF UnderWay, IdsOf
  <2> QED
    BY <1>1, <1>3, <1>5, <2>1 DEF ShownUnlessMissed
<1> QED
  BY <1>7, <1>8, <1>9, <1>10, <1>12, <1>13 DEF FeedInv

\* A load is asked for or fails, a subscription is made: nothing shown or queued changes.
LEMMA QuietFeedStep ==
    ASSUME FeedInv,
           \/ Connect \/ Subscribe \/ UNCHANGED feedVars
           \/ \E l \in Loads : Ask(l) \/ LoadFails(l)
    PROVE  FeedInv'
<1>1. UNCHANGED <<feedTable, unpublished, backlog, wire, items, overtaken, missed>>
  BY DEF Connect, Subscribe, Ask, LoadFails, feedVars
<1>2. /\ loads' \in [Loads -> LoadType]
      /\ \A l \in Loads : loads'[l] = loads[l] \/
            (loads'[l].pc # "answered" /\ loads'[l].rows \in {loads[l].rows, <<>>})
  <2>1. loads \in [Loads -> LoadType]
    BY DEF FeedInv, FeedShape
  <2>2. Unasked \in LoadType /\ Unasked.pc = "idle" /\ Unasked.rows = <<>>
    BY DEF Unasked, LoadType, Requests
  <2>3. ASSUME NEW l \in Loads, Ask(l) \/ LoadFails(l), NEW k \in Loads
        PROVE  /\ loads' \in [Loads -> LoadType]
               /\ loads'[k] = loads[k] \/
                    (loads'[k].pc # "answered" /\ loads'[k].rows \in {loads[k].rows, <<>>})
    <3>1. CASE Ask(l)
      <4>1. [loads[l] EXCEPT !.pc = "asked"] \in LoadType
        BY <2>1 DEF LoadType, Requests
      <4>2. loads' = [loads EXCEPT ![l] = [loads[l] EXCEPT !.pc = "asked"]]
        BY <3>1 DEF Ask
      <4>3. [loads[l] EXCEPT !.pc = "asked"].pc = "asked"
            /\ [loads[l] EXCEPT !.pc = "asked"].rows = loads[l].rows
        BY <2>1 DEF LoadType
      <4> QED
        BY <2>1, <4>1, <4>2, <4>3
    <3>2. CASE LoadFails(l)
      <4>1. loads' = [loads EXCEPT ![l] = Unasked]
        BY <3>2 DEF LoadFails
      <4> QED
        BY <2>1, <2>2, <4>1
    <3> QED
      BY <2>3, <3>1, <3>2
  <2>4. loads' = loads \/ \E l \in Loads : Ask(l) \/ LoadFails(l)
    BY DEF Connect, Subscribe, feedVars
  <2> QED
    BY <2>1, <2>3, <2>4
<1>3. stream' = stream \/ (stream' \in {"opening", "open"} /\ stream # "open")
  BY DEF FeedInv, FeedShape, Connect, Subscribe, Ask, LoadFails, feedVars
<1>4. FeedShape'
  BY <1>1, <1>2, <1>3 DEF FeedInv, FeedShape
<1>5. ListsOK'
  BY <1>1, <1>2, FeedAssumption DEF FeedInv, ListsOK, OnceEach
<1>6. KnownIds'
  BY <1>1, <1>2 DEF FeedInv, KnownIds, IdsOf
<1>7. AnswersOK'
  BY <1>1, <1>2 DEF FeedInv, AnswersOK
<1>8. BacklogOK' /\ WireOK' /\ ShownUnlessMissed'
  BY <1>1 DEF FeedInv, BacklogOK, WireOK, ShownUnlessMissed, Truthful, UnderWay, IdsOf
<1> QED
  BY <1>4, <1>5, <1>6, <1>7, <1>8 DEF FeedInv

LEMMA FeedInvariant == FeedSpec => []FeedInv
<1>1. FeedInv /\ [FeedNext]_feedVars => FeedInv'
  BY FeedCreateStep, FeedEndStep, FeedPublishStep, SendFrameStep, ReadFrameStep,
     DisconnectStep, AnswerArrives, ShowStep, QuietFeedStep DEF FeedNext
<1> QED
  BY <1>1, FeedStart, PTL DEF FeedSpec

\* The list and the queues of the feed keep their bounds, and the list shows no job twice
\* (JobEventBus, job_event_stream, the jobs store), for any number of jobs and loads.
THEOREM FeedTypeCorrect == FeedSpec => []FeedTypeOK
<1>1. FeedInv => FeedTypeOK
  BY OnceEachCounts DEF FeedInv, FeedShape, ListsOK, FeedTypeOK
<1> QED
  BY <1>1, FeedInvariant, PTL

\* The view shows a job as its row says, unless its event is still to come or was lost in a
\* way the code accepts, for any number of jobs, any bounds and any number of loads at once.
THEOREM OnlyMissedIsStale == FeedSpec => []ShownUnlessMissed
<1>1. FeedInv => ShownUnlessMissed
  BY DEF FeedInv
<1> QED
  BY <1>1, FeedInvariant, PTL

-----------------------------------------------------------------------------
(* The records of the providers.                                           *)

MetadataRecords == FromAniList \cup FromMangaDex

\* No two records of a list are of one provider.
OnePerProvider(rs) ==
    /\ rs \in Seq(MetadataRecords)
    /\ \A i, j \in DOMAIN rs : i # j => rs[i].provider # rs[j].provider

Precedes == {pair \in MetadataRecords \X MetadataRecords : ComesFirst(pair[1], pair[2])}

\* The sort key tells the records of two providers apart.
LEMMA KeysAreApart ==
    /\ \A r, t \in MetadataRecords : ComesFirst(r, t) => ~ComesFirst(t, r)
    /\ \A r, t \in MetadataRecords :
          r.provider # t.provider => ComesFirst(r, t) \/ ComesFirst(t, r)
    /\ \A r, t, u \in MetadataRecords : ComesFirst(r, t) /\ ComesFirst(t, u) => ComesFirst(r, u)
<1>1. \A r \in MetadataRecords : \/ r.provider = "anilist" /\ r.confidence = 90
                                 \/ r.provider = "mangadex" /\ r.confidence = 85
  BY DEF MetadataRecords, FromAniList, FromMangaDex
<1>2. ProviderRank["anilist"] = 0 /\ ProviderRank["mangadex"] = 1
  BY DEF ProviderRank
<1>3. \A r, t \in MetadataRecords :
          ComesFirst(r, t) <=> r.provider = "anilist" /\ t.provider = "mangadex"
  BY <1>1, <1>2 DEF ComesFirst
<1> QED
  BY <1>1, <1>3

\* Sorted, the records are in the strict order of their keys, and no record is lost.
LEMMA OrderedStrictly ==
    ASSUME NEW rs, OnePerProvider(rs)
    PROVE  /\ Ordered(rs) \in Seq(MetadataRecords)
           /\ Follows(Ordered(rs), Precedes)
           /\ {Ordered(rs)[i] : i \in DOMAIN Ordered(rs)} = {rs[i] : i \in DOMAIN rs}
<1> DEFINE before == ByKey(rs)
           at == InOrder(before)
           n == Cardinality(DOMAIN rs)
<1>1. /\ rs \in Seq(MetadataRecords) /\ DOMAIN rs = 1..Len(rs) /\ Len(rs) \in Nat
      /\ \A i \in DOMAIN rs : i \in Nat /\ rs[i] \in MetadataRecords
      /\ \A i, j \in DOMAIN rs : i # j => rs[i].provider # rs[j].provider
  BY ElementOfSeq DEF OnePerProvider
<1>2. DOMAIN before = DOMAIN rs
  BY DEF ByKey
<1>3. \A i, j \in DOMAIN rs : j \in before[i] <=> ComesFirst(rs[j], rs[i])
  <2>1. \A i, j \in DOMAIN rs :
            j \in before[i] <=> \/ ComesFirst(rs[j], rs[i])
                                \/ ~ComesFirst(rs[i], rs[j]) /\ j < i
    BY DEF ByKey
  <2>2. \A i, j \in DOMAIN rs : i # j => ComesFirst(rs[i], rs[j]) \/ ComesFirst(rs[j], rs[i])
    BY <1>1, KeysAreApart
  <2>3. \A i \in DOMAIN rs : ~(i < i)
    BY <1>1
  <2> QED
    BY <2>1, <2>2, <2>3
<1>4. \A i \in DOMAIN rs : before[i] \subseteq DOMAIN rs
  BY DEF ByKey
<1> HIDE DEF before
<1>5. IsOrder(before)
  <2>1. \A i \in DOMAIN rs : i \notin before[i]
    BY <1>1, <1>3, KeysAreApart
  <2>2. \A i, j \in DOMAIN rs : i # j => i \in before[j] \/ j \in before[i]
    BY <1>1, <1>3, KeysAreApart
  <2>3. \A i, j, k \in DOMAIN rs : k \in before[i] /\ i \in before[j] => k \in before[j]
    BY <1>1, <1>3, KeysAreApart
  <2> QED
    BY <1>2, <1>4, <2>1, <2>2, <2>3 DEF IsOrder
<1>6. /\ n \in Nat /\ DOMAIN at = 1..n
      /\ at \in [1..n -> DOMAIN rs]
      /\ \A x \in DOMAIN rs : \E i \in 1..n : at[i] = x
      /\ \A i, j \in 1..n : i < j => at[i] \in before[at[j]]
  <2>1. IsFiniteSet(DOMAIN before)
    BY <1>1, <1>2, FS_Interval
  <2> QED
    BY <1>2, <1>5, <2>1, SortedInOrder
<1>7. Ordered(rs) = Through(rs, at)
  BY DEF Ordered, before
<1> HIDE DEF at, n
<1> DEFINE sorted == Through(rs, at)
<1>8. /\ sorted \in Seq(MetadataRecords)
      /\ DOMAIN sorted = 1..n
      /\ \A i \in 1..n : sorted[i] = rs[at[i]]
  <2>1. rs \in Seq(MetadataRecords) /\ n \in Nat /\ at \in [1..n -> DOMAIN rs]
    BY <1>1, <1>6
  <2> QED
    BY <2>1, ThroughIsSeq
<1> HIDE DEF sorted
<1>9. ASSUME NEW i \in 1..n, NEW j \in 1..n, i < j
      PROVE  <<rs[at[i]], rs[at[j]]>> \in Precedes
  <2>1. at[i] \in DOMAIN rs /\ at[j] \in DOMAIN rs /\ at[i] \in before[at[j]]
    BY <1>6, <1>9
  <2> QED
    BY <1>1, <1>3, <2>1 DEF Precedes
<1>10. {sorted[i] : i \in DOMAIN sorted} = {rs[i] : i \in DOMAIN rs}
  BY <1>6, <1>8
<1>11. Follows(sorted, Precedes)
  BY <1>8, <1>9 DEF Follows
<1> QED
  BY <1>7, <1>8, <1>10, <1>11, ZenonT(60) DEF sorted

\* However they are arranged, the records sort to one list.
LEMMA OrderedAlike ==
    ASSUME NEW rs, OnePerProvider(rs), NEW arranged \in Bijection(DOMAIN rs, DOMAIN rs)
    PROVE  Ordered(Through(rs, arranged)) = Ordered(rs)
<1> DEFINE other == Through(rs, arranged)
<1>1. /\ rs \in Seq(MetadataRecords) /\ DOMAIN rs = 1..Len(rs) /\ Len(rs) \in Nat
      /\ \A i, j \in DOMAIN rs : i # j => rs[i].provider # rs[j].provider
  BY DEF OnePerProvider
<1>2. /\ arranged \in [1..Len(rs) -> DOMAIN rs]
      /\ \A i, j \in DOMAIN rs : arranged[i] = arranged[j] => i = j
      /\ \A j \in DOMAIN rs : \E i \in DOMAIN rs : arranged[i] = j
  BY <1>1 DEF Bijection, Injection, Surjection, IsInjective
<1>3. /\ other \in Seq(MetadataRecords) /\ DOMAIN other = DOMAIN rs
      /\ \A i \in DOMAIN rs : other[i] = rs[arranged[i]]
  BY <1>1, <1>2, ThroughIsSeq, SMTT(40)
<1> HIDE DEF other
<1>4. OnePerProvider(other)
  <2>1. ASSUME NEW i \in DOMAIN rs, NEW j \in DOMAIN rs, i # j
        PROVE  other[i].provider # other[j].provider
    <3>1. /\ arranged[i] \in DOMAIN rs /\ arranged[j] \in DOMAIN rs
          /\ arranged[i] # arranged[j]
      BY <1>1, <1>2, <2>1
    <3> QED
      BY <1>1, <1>3, <3>1
  <2> QED
    BY <1>3, <2>1 DEF OnePerProvider
<1>5. {other[i] : i \in DOMAIN other} = {rs[i] : i \in DOMAIN rs}
  BY <1>1, <1>2, <1>3, SMTT(40)
<1>6. \A r, t \in MetadataRecords : <<r, t>> \in Precedes => <<t, r>> \notin Precedes
  BY KeysAreApart DEF Precedes
<1> DEFINE a == Ordered(other)
           b == Ordered(rs)
<1>7. /\ a \in Seq(MetadataRecords) /\ Follows(a, Precedes)
      /\ b \in Seq(MetadataRecords) /\ Follows(b, Precedes)
      /\ {a[i] : i \in DOMAIN a} = {b[i] : i \in DOMAIN b}
  BY <1>4, <1>5, OrderedStrictly
<1> HIDE DEF a, b
<1>8. a = b
  BY <1>6, <1>7, StrictListsAgree
<1> QED
  BY <1>8 DEF a, b, other

\* The metadata merged from the answers of the providers does not depend on the order in
\* which a request names them, whatever they say of the series.
THEOREM MergeIsOrderFree == MergeSpec => []MergeIgnoresOrder
<1>1. MergeInit => OnePerProvider(records)
  BY DEF MergeInit, OnePerProvider
<1>2. OnePerProvider(records) /\ [AnswerRecord]_mergeVars => OnePerProvider(records)'
  <2> SUFFICES ASSUME OnePerProvider(records), AnswerRecord PROVE OnePerProvider(records')
    BY DEF mergeVars, OnePerProvider
  <2>1. PICK r \in MetadataRecords :
            /\ \A i \in DOMAIN records : records[i].provider # r.provider
            /\ records' = Append(records, r)
    BY DEF AnswerRecord, MetadataRecords
  <2>2. records \in Seq(MetadataRecords) /\ records' \in Seq(MetadataRecords)
    BY <2>1 DEF OnePerProvider
  <2>3. /\ DOMAIN records' = DOMAIN records \cup {Len(records) + 1}
        /\ \A i \in DOMAIN records : records'[i] = records[i]
        /\ records'[Len(records) + 1] = r
    BY <2>1, <2>2
  <2> QED
    BY <2>1, <2>2, <2>3 DEF OnePerProvider
<1>3. OnePerProvider(records) => MergeIgnoresOrder
  BY OrderedAlike DEF MergeIgnoresOrder, Merged
<1> QED
  BY <1>1, <1>2, <1>3, PTL DEF MergeSpec
=============================================================================
