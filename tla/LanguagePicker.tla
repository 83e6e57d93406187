--------------------------- MODULE LanguagePicker ---------------------------
(***************************************************************************)
(* The choice of uploads: a source lists a chapter once per language and   *)
(* once per scanlation group; select_chapters filters and orders the list  *)
(* by language, _list_selected keeps the first upload of each number.      *)
(***************************************************************************)
EXTENDS Ordering, SequencesExt

CONSTANTS
    Uploads,         \* what a source may list: (source_id, language)
    NumberOf,        \* the chapter number of an upload
    LanguageOf,      \* its language
    Alphabet,        \* the languages, in alphabetical order
    ItalianPriority  \* libraries.italian_priority

ASSUME UploadsAssumption ==
    /\ NumberOf \in [Uploads -> Nat]
    /\ Alphabet \in Seq(STRING) /\ {"it", "en"} \subseteq ToSet(Alphabet)
    /\ LanguageOf \in [Uploads -> ToSet(Alphabet)]
    /\ ItalianPriority \in BOOLEAN

DEFAULT_PRIORITY == <<"it", "en">>

Allowed(u) == ItalianPriority => LanguageOf[u] \in {"it", "en"}

\* Languages outside the priority come after it, by name.
Rank(language, priority) ==
    IF language \in ToSet(priority) THEN PlaceIn(priority, language)
    ELSE Len(priority) + PlaceIn(Alphabet, language)

\* Mutant: the sort compares languages by name.
BeforeByName(listing, priority, i, j) ==
    LET r == PlaceIn(Alphabet, LanguageOf[listing[i]])
        s == PlaceIn(Alphabet, LanguageOf[listing[j]])
    IN  r < s \/ (r = s /\ i < j)

\* The stable sort puts the upload at i before the one at j.
Before(listing, priority, i, j) ==
    LET r == Rank(LanguageOf[listing[i]], priority)
        s == Rank(LanguageOf[listing[j]], priority)
    IN  r < s \/ (r = s /\ i < j)

Kept(listing) == {i \in DOMAIN listing : Allowed(listing[i])}

Preferred(listing, priority) ==
    [i \in Kept(listing) |-> {j \in Kept(listing) : Before(listing, priority, j, i)}]

select_chapters(listing, priority) ==
    Through(listing, InOrder(Preferred(listing, priority)))

\* Where a number comes for the first time.
Firsts(seq) == {n \in DOMAIN seq : \A m \in 1..(n - 1) : NumberOf[seq[m]] # NumberOf[seq[n]]}

list_selected(listing, priority) ==
    LET selected == select_chapters(listing, priority)
    IN  Picked(selected, Firsts(selected))

-----------------------------------------------------------------------------
\* The reference: the uploads a reader of the library would want, one of each
\* number, in a language no other allowed upload of the number beats, and of
\* those the one listed first.
Beats(m, l, priority) ==
    LET best == priority \o Alphabet
    IN  \E i \in DOMAIN best : best[i] = m /\ \A j \in 1..i : best[j] # l

Wanted(listing, priority) ==
    LET rivals(i) == {j \in DOMAIN listing : Allowed(listing[j])
                        /\ NumberOf[listing[j]] = NumberOf[listing[i]]}
        language(i) == LanguageOf[listing[i]]
        best == {i \in DOMAIN listing :
                  /\ Allowed(listing[i])
                  /\ \A j \in rivals(i) :
                        /\ ~Beats(language(j), language(i), priority)
                        /\ j < i => language(j) # language(i)}
    IN  {listing[i] : i \in best}
=============================================================================
