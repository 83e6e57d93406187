-------------------------------- MODULE Merger --------------------------------
(***************************************************************************)
(* MetadataMerger.merge: the records the providers answered with, in the   *)
(* order the refresh asked for them, made into one.                        *)
(*                                                                         *)
(* A record is its provider, its confidence and a payload: the length of   *)
(* its title (titles of one length are one title), a status, a cover or    *)
(* none, its credits and its genres.  Summary is chosen like the title;    *)
(* country, type and publisher like the status; the metadata block like    *)
(* the cover; alternative titles, languages and tags like the genres; the  *)
(* year is a median, which has no order.  Google Books is asked, raises    *)
(* NotImplementedError and leaves no record.                               *)
(***************************************************************************)
EXTENDS Ordering, SequencesExt

CONSTANT
    Payloads  \* what may be said of the series

VARIABLE
    records  \* MetadataRecords, in the order asked

mergeVars == <<records>>

ProviderRank == [anilist |-> 0, mangadex |-> 1, google_books |-> 2]
Unsaid == "none"

MergeInit == records = <<>>

\* AniList's get_record: staff in any role.
FromAniList == {[provider |-> "anilist", confidence |-> 90, says |-> payload] : payload \in Payloads}

\* MangaDex's get_record: an author is a writer and an artist a penciller.
FromMangaDex ==
    {[provider |-> "mangadex", confidence |-> 85, says |-> payload] :
        payload \in {p \in Payloads : \A c \in ToSet(p.credits) : c.role \in {"writer", "penciller"}}}

\* _fetch of the next provider asked; one that fails leaves no record.
AnswerRecord ==
    \E r \in FromAniList \cup FromMangaDex :
        /\ r.provider \notin {records[i].provider : i \in DOMAIN records}
        /\ records' = Append(records, r)

MergeSpec == MergeInit /\ [][AnswerRecord]_mergeVars

-----------------------------------------------------------------------------
\* The sort key: confidence descending, then the rank of the provider.
ComesFirst(r, t) ==
    \/ r.confidence > t.confidence
    \/ r.confidence = t.confidence /\ ProviderRank[r.provider] < ProviderRank[t.provider]

\* Mutant: the records are taken as they come.
OrderedAsAsked(rs) == rs

\* list.sort is stable.
ByKey(rs) ==
    [i \in DOMAIN rs |-> {j \in DOMAIN rs : \/ ComesFirst(rs[j], rs[i])
                                            \/ ~ComesFirst(rs[i], rs[j]) /\ j < i}]

Ordered(rs) == Through(rs, InOrder(ByKey(rs)))

\* The providers' values one after the other, each kept where it is first seen.
UnionInOrder(lists) ==
    FoldLeft(LAMBDA out, g : IF Contains(out, g) THEN out ELSE Append(out, g),
             <<>>, FlattenSeq(lists))

\* _longest_nonempty: the first of the longest, 0 when all are empty.
LongestTitle(rs) ==
    LET longest == {i \in DOMAIN rs : \A j \in DOMAIN rs : rs[i].says.title >= rs[j].says.title}
    IN rs[CHOOSE i \in longest : \A j \in longest : i <= j].says.title

SumOfConfidence(rs, value) ==
    FoldLeft(LAMBDA sum, r : IF r.says.status = value THEN sum + r.confidence ELSE sum, 0, rs)

\* _vote_attr: the value of the greatest weight; of two, the one met first.
VotedStatus(rs) ==
    LET said == {rs[i].says.status : i \in DOMAIN rs} \ {Unsaid}
        first(v) == CHOOSE i \in DOMAIN rs : /\ rs[i].says.status = v
                                             /\ \A j \in 1..(i - 1) : rs[j].says.status # v
        beats(v, w) == \/ SumOfConfidence(rs, v) > SumOfConfidence(rs, w)
                       \/ SumOfConfidence(rs, v) = SumOfConfidence(rs, w) /\ first(v) <= first(w)
    IN IF said = {} THEN Unsaid ELSE CHOOSE v \in said : \A w \in said : beats(v, w)

\* _winner: the provider of the first of the records that gave the value chosen.
WinnerOf(rs, gave) ==
    IF gave = {} THEN Unsaid ELSE rs[CHOOSE i \in gave : \A j \in gave : i <= j].provider

\* The authority on a role: MangaDex for some, AniList for the others.
Authorities(role) ==
    IF role \in {"letterer", "colorist", "translator"}
    THEN <<"mangadex", "anilist", "google_books">>
    ELSE <<"anilist", "mangadex", "google_books">>

\* _merge_authors: of the providers that credit a role, the first authority's names.
CreditsOfRole(rs, role) ==
    LET names(p) == {c.name : c \in UNION {ToSet(rs[i].says.credits) :
                                  i \in {j \in DOMAIN rs : rs[j].provider = p}}
                                \cap [role : {role}, name : STRING]}
        crediting == SelectSeq(Authorities(role), LAMBDA p : names(p) # {})
    IN IF crediting = <<>> THEN {} ELSE names(Head(crediting))

Roles == UNION {{c.role : c \in ToSet(payload.credits)} : payload \in Payloads}

MergedInOrder(rs) ==
    LET title == LongestTitle(rs)
        status == VotedStatus(rs)
    IN [title |-> title,
        titleFrom |-> WinnerOf(rs, {i \in DOMAIN rs : rs[i].says.title = title}),
        status |-> status,
        statusFrom |-> WinnerOf(rs, {i \in DOMAIN rs : rs[i].says.status = status /\ status # Unsaid}),
        coverFrom |-> WinnerOf(rs, {i \in DOMAIN rs : rs[i].says.cover}),
        credits |-> [role \in Roles |-> CreditsOfRole(rs, role)],
        genres |-> UnionInOrder([i \in DOMAIN rs |-> rs[i].says.genres])]

Merged(records_) == MergedInOrder(Ordered(records_))

-----------------------------------------------------------------------------
(* Properties.                                                             *)

\* What the merge makes of the records does not depend on the order in which a request
\* names the providers: each field is chosen alike from every arrangement of them. (The
\* key of the cover's cache is taken from the first record before they are merged.)
MergeIgnoresOrder ==
    records # <<>> =>
        \A arranged \in Bijection(DOMAIN records, DOMAIN records) :
            Merged(Through(records, arranged)) = Merged(records)
===============================================================================
