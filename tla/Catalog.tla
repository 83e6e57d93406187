------------------------------- MODULE Catalog -------------------------------
(***************************************************************************)
(* The series of one library and their external ids: adding one from a     *)
(* source, refreshing its metadata, renaming, soft deleting.               *)
(*                                                                         *)
(* A request is a session of its own.  SQLite begins its transaction, and  *)
(* takes the one write lock, at the first flush that writes; what was read *)
(* before is what others had committed by then.  A refresh keeps the lock  *)
(* while it downloads the cover.                                           *)
(***************************************************************************)
EXTENDS Naturals, Sequences, FiniteSets

CONSTANTS
    Clients,      \* requests under way together
    ExternalIds,  \* (provider, external id) pairs
    ProviderOf,   \* the provider of each
    SourceTitle,  \* the title scraper.get_series gives for it
    Titles,       \* titles, case folded
    Genres,
    MaxSeries,    \* bound: series rows
    MaxRequests,  \* bound: requests made
    Nobody

ASSUME CatalogAssumption ==
    /\ SourceTitle \in [ExternalIds -> Titles]
    /\ DOMAIN ProviderOf = ExternalIds
    /\ {MaxSeries, MaxRequests} \subseteq Nat
    /\ Nobody \notin Clients \cup Titles \cup ExternalIds

VARIABLES
    series,  \* the rows of the library, by id
    eids,    \* series_external_ids: pairs <<series id, external id>>
    lock,    \* who is writing
    req,     \* the stack of each request
    made,    \* history: how many requests were made
    excused, \* history: titles more than one series may have come to have
    merged,  \* history: the genres the last refresh of each series committed
    mixed    \* history: series whose last refresh had loaded its genres before another's commit

catalogVars == <<series, eids, lock, req, made, excused, merged, mixed>>

SeriesIds == 1..MaxSeries
SeriesRow == [title : Titles, deleted : BOOLEAN, genres : SUBSET Genres]
ReqPCs == {"idle", "scrape", "insert", "map", "fetch", "apply", "commit"}
Kinds == {"none", "add", "refresh", "patch"}
NoRow == [title |-> Nobody, deleted |-> FALSE, genres |-> {}]
Quiet == [pc |-> "idle", kind |-> "none", id |-> Nobody, s |-> 0, plan |-> "none",
          seen |-> NoRow, new |-> NoRow, late |-> FALSE]
ReqType ==
    [pc : ReqPCs, kind : Kinds, id : ExternalIds \cup {Nobody}, s : 0..MaxSeries,
     plan : {"none", "skip", "insert", "update"},
     seen : SeriesRow \cup {NoRow}, new : SeriesRow \cup {NoRow}, late : BOOLEAN]

CatalogInit ==
    /\ series = <<>>
    /\ eids = {}
    /\ lock = Nobody
    /\ req = [c \in Clients |-> Quiet]
    /\ made = 0
    /\ excused = {}
    /\ merged = [s \in SeriesIds |-> {}]
    /\ mixed = {}

-----------------------------------------------------------------------------
(* Helpers.                                                                *)

Live == {s \in DOMAIN series : ~series[s].deleted}
IdsOfSeries(s) == {x \in ExternalIds : <<s, x>> \in eids}
IsNew(c) == req[c].kind = "add" /\ req[c].s = Len(series) + 1

\* The requests that have found no series of the title and have not committed theirs.
Creating == {c \in Clients : req[c].kind = "add" /\ (req[c].pc = "insert" \/ IsNew(c))}

\* The write lock is there to be taken, or already held.
CanWrite(c) == lock \in {Nobody, c}

\* Mutant: an error leaves the transaction open.
AnswerKeepsLock(c) ==
    /\ req' = [req EXCEPT ![c] = Quiet]
    /\ UNCHANGED <<series, eids, lock, made, excused, merged, mixed>>

\* The answer, and the end of the session: what was not committed is rolled back.
Answer(c) ==
    /\ req' = [req EXCEPT ![c] = Quiet]
    /\ lock' = IF lock = c THEN Nobody ELSE lock
    /\ UNCHANGED <<series, eids, made, excused, merged, mixed>>

Begins(c) ==
    /\ req[c].pc = "idle"
    /\ made < MaxRequests
    /\ made' = made + 1

-----------------------------------------------------------------------------
(* add_series_from_provider.                                               *)

\* The library is loaded; get_series of the scraper is awaited.
AddSeries(c, x) ==
    /\ Begins(c)
    /\ req' = [req EXCEPT ![c] = [Quiet EXCEPT !.pc = "scrape", !.kind = "add", !.id = x]]
    /\ UNCHANGED <<series, eids, lock, excused, merged, mixed>>

ScrapeFails(c) ==
    /\ req[c].pc = "scrape"
    /\ Answer(c)

\* Mutant: soft deleted series are left out of the search for the title.
MatchesLiveOnly(title) == {s \in Live : series[s].title = title}

\* The rows with the title, soft deleted ones included.
Matches(title) == {s \in DOMAIN series : series[s].title = title}

Rivals(c, title) == {d \in Creating \ {c} : SourceTitle[req[d].id] = title}

FindTitle(c) ==
    LET title == SourceTitle[req[c].id]
    IN /\ req[c].pc = "scrape"
       /\ IF Matches(title) = {}
          THEN /\ Len(series) + Cardinality(Creating) < MaxSeries
               /\ req' = [req EXCEPT ![c].pc = "insert", ![c].s = Len(series) + 1,
                              ![c].new = [title |-> title, deleted |-> FALSE, genres |-> {}]]
               /\ excused' = IF Rivals(c, title) = {} THEN excused ELSE excused \cup {title}
          ELSE /\ \E s \in Matches(title) :
                     /\ Matches(title) = {s}
                     /\ req' = [req EXCEPT ![c].pc = "map", ![c].s = s]
               /\ UNCHANGED excused
       /\ UNCHANGED <<series, eids, lock, made, merged, mixed>>

\* scalar_one_or_none raises MultipleResultsFound.
TitleAmbiguous(c) ==
    /\ req[c].pc = "scrape"
    /\ Cardinality(Matches(SourceTitle[req[c].id])) > 1
    /\ Answer(c)

InsertSeries(c) ==
    /\ req[c].pc = "insert"
    /\ lock = Nobody
    /\ lock' = c
    /\ req' = [req EXCEPT ![c].pc = "map", ![c].s = Len(series) + 1]
    /\ UNCHANGED <<series, eids, made, excused, merged, mixed>>

\* The id held by another series is left alone; the series' id of the provider is
\* replaced, or added.  The mapping stays in the session until the commit, so the
\* refresh that follows finds the ids committed before, and none for a new series.
MapExternalId(c) ==
    LET x == req[c].id
        s == req[c].s
        own == {y \in IdsOfSeries(s) : ProviderOf[y] = ProviderOf[x]}
        plan == IF \E t \in DOMAIN series \ {s} : <<t, x>> \in eids THEN "skip"
                ELSE IF own = {} THEN "insert" ELSE "update"
    IN /\ req[c].pc = "map"
       /\ req' = [req EXCEPT ![c].plan = plan,
                     ![c].pc = IF s \in Live /\ IdsOfSeries(s) # {} THEN "fetch" ELSE "commit",
                     ![c].seen = IF s \in Live THEN series[s] ELSE NoRow]
       /\ UNCHANGED <<series, eids, lock, made, excused, merged, mixed>>

-----------------------------------------------------------------------------
(* refresh_metadata.                                                       *)

Refresh(c, s) ==
    /\ Begins(c)
    /\ s \in Live
    /\ IdsOfSeries(s) # {}
    /\ req' = [req EXCEPT ![c] =
          [Quiet EXCEPT !.pc = "fetch", !.kind = "refresh", !.s = s, !.seen = series[s]]]
    /\ UNCHANGED <<series, eids, lock, excused, merged, mixed>>

\* No provider answered: the series is left untouched.
NothingFetched(c) ==
    /\ req[c].pc = "fetch"
    /\ IF req[c].kind = "refresh" THEN Answer(c)
       ELSE /\ req' = [req EXCEPT ![c].pc = "commit"]
            /\ UNCHANGED <<series, eids, lock, made, excused, merged, mixed>>

\* Some did: what their records merge to.
Fetched(c) ==
    /\ req[c].pc = "fetch"
    /\ \E title \in Titles, genres \in SUBSET Genres :
          req' = [req EXCEPT ![c].pc = "apply",
                     ![c].new = [title |-> title, deleted |-> FALSE, genres |-> genres]]
    /\ UNCHANGED <<series, eids, lock, made, excused, merged, mixed>>

\* The first flush of _replace_collection takes the lock; fetch_and_cache then downloads
\* the cover under it, and whether it fails or not the refresh goes on to the commit.
ApplyMerged(c) ==
    /\ req[c].pc = "apply"
    /\ lock = Nobody
    /\ lock' = c
    /\ req' = [req EXCEPT ![c].pc = "commit"]
    /\ UNCHANGED <<series, eids, made, excused, merged, mixed>>

-----------------------------------------------------------------------------
(* update_series, soft_delete_series.                                      *)

Patch(c, s) ==
    /\ Begins(c)
    /\ s \in Live
    /\ \E new \in {[series[s] EXCEPT !.title = t] : t \in Titles} \cup {[series[s] EXCEPT !.deleted = TRUE]} :
          req' = [req EXCEPT ![c] =
             [Quiet EXCEPT !.pc = "commit", !.kind = "patch", !.s = s, !.seen = series[s], !.new = new]]
    /\ UNCHANGED <<series, eids, lock, excused, merged, mixed>>

-----------------------------------------------------------------------------
(* The commit.                                                             *)

\* The request writes the metadata of an existing series.
Refreshed(c) == req[c].new # NoRow /\ req[c].kind \in {"add", "refresh"} /\ ~IsNew(c)

\* Mutant: the old genres are not cleared.
GenresKept(c, old) == old \cup req[c].new.genres

\* DELETE of the genres that were loaded, INSERT of the merged ones.
GenresWritten(c, old) == (old \ req[c].seen.genres) \cup req[c].new.genres

\* The columns that differ from what was loaded, and the genres of a refresh.
Written(c) ==
    LET r == req[c]
        old == series[r.s]
    IN [title |-> IF r.new.title = r.seen.title THEN old.title ELSE r.new.title,
        deleted |-> old.deleted \/ r.new.deleted,
        genres |-> IF Refreshed(c) THEN GenresWritten(c, old.genres) ELSE old.genres]

NewIds(c) ==
    LET r == req[c]
        own == {y \in ExternalIds : ProviderOf[y] = ProviderOf[r.id]}
    IN CASE r.plan = "insert" -> eids \cup {<<r.s, r.id>>}
         [] r.plan = "update" -> (eids \ {<<r.s, y>> : y \in own}) \cup {<<r.s, r.id>>}
         [] OTHER -> eids

\* uq_provider_external_id, the primary key of series_external_ids, the primary key of
\* series_genres; or uq_series_author, when another refresh has committed since.
Conflict(c) ==
    LET r == req[c]
    IN \/ r.plan \in {"insert", "update"} /\ \E t \in DOMAIN series \ {r.s} : <<t, r.id>> \in eids
       \/ r.plan = "insert" /\ \E y \in IdsOfSeries(r.s) : ProviderOf[y] = ProviderOf[r.id]
       \/ Refreshed(c) /\ (series[r.s].genres \ r.seen.genres) \cap r.new.genres # {}

Rejected(c) ==
    /\ req[c].pc = "commit"
    /\ CanWrite(c)
    /\ Conflict(c) \/ (Refreshed(c) /\ req[c].late)
    /\ Answer(c)

CommitRequest(c) ==
    LET r == req[c]
        refreshed == Refreshed(c)
        renames == r.new # NoRow /\ ~IsNew(c) /\ r.new.title # r.seen.title
    IN /\ r.pc = "commit"
       /\ CanWrite(c)
       /\ ~Conflict(c)
       /\ series' = IF IsNew(c) THEN Append(series, r.new)
                    ELSE IF r.new = NoRow THEN series
                    ELSE [series EXCEPT ![r.s] = Written(c)]
       /\ eids' = NewIds(c)
       /\ lock' = Nobody
       /\ excused' = IF renames THEN excused \cup {r.new.title} ELSE excused
       /\ merged' = IF refreshed THEN [merged EXCEPT ![r.s] = r.new.genres] ELSE merged
       /\ mixed' = IF ~refreshed THEN mixed ELSE IF r.late THEN mixed \cup {r.s} ELSE mixed \ {r.s}
       /\ req' = [d \in Clients |->
             IF d = c THEN Quiet
             ELSE IF refreshed /\ req[d].s = r.s /\ req[d].pc \in {"fetch", "apply", "commit"}
             THEN [req[d] EXCEPT !.late = TRUE]
             ELSE req[d]]
       /\ UNCHANGED made

\* busy_timeout passes while another holds the lock.
LockTimeout(c) ==
    /\ req[c].pc \in {"insert", "apply", "commit"}
    /\ ~CanWrite(c)
    /\ Answer(c)

RequestStep(c) ==
    \/ ScrapeFails(c) \/ FindTitle(c) \/ TitleAmbiguous(c) \/ InsertSeries(c) \/ MapExternalId(c)
    \/ NothingFetched(c) \/ Fetched(c) \/ ApplyMerged(c)
    \/ Rejected(c) \/ CommitRequest(c) \/ LockTimeout(c)

CatalogNext ==
    \E c \in Clients :
        \/ \E x \in ExternalIds : AddSeries(c, x)
        \/ \E s \in SeriesIds : Refresh(c, s) \/ Patch(c, s)
        \/ RequestStep(c)

CatalogSpec == CatalogInit /\ [][CatalogNext]_catalogVars

\* The calls to sources and providers and the cover download have timeouts, a statement
\* a busy timeout.
CatalogFairness == \A c \in Clients : WF_catalogVars(RequestStep(c))

-----------------------------------------------------------------------------
(* Properties.                                                             *)

\* Every variable keeps its shape; only a request that has flushed holds the lock.
CatalogTypeOK ==
    /\ series \in Seq(SeriesRow) /\ Len(series) <= MaxSeries
    /\ eids \subseteq (DOMAIN series) \X ExternalIds
    /\ lock \in Clients \cup {Nobody}
    /\ req \in [Clients -> ReqType]
    /\ lock # Nobody => req[lock].pc \in {"map", "commit"}
    /\ made \in 0..MaxRequests
    /\ excused \subseteq Titles
    /\ merged \in [SeriesIds -> SUBSET Genres]
    /\ mixed \subseteq SeriesIds

\* "If a Series already exists in this library with the same title, reuse it": two
\* series share a title only where two adds of it overlapped, or a rename or a refresh
\* wrote it.  Nothing else doubles one, neither a soft delete and a second add nor a
\* transaction that failed.
OneSeriesPerTitle ==
    \A s, t \in DOMAIN series :
        s # t /\ series[s].title = series[t].title => series[s].title \in excused

\* The genres of a series are those its last refresh merged, whatever adds, renames,
\* deletes and failed refreshes ran beside it, unless another refresh committed between
\* that refresh's load and its commit.
GenresOfOneMerge ==
    \A s \in DOMAIN series : s \in mixed \/ series[s].genres = merged[s]

\* The write lock, held through a download, is given back: by the commit, or because the
\* session of a request that fails rolls back.
LockReleased == \A c \in Clients : lock = c ~> lock # c
=============================================================================
