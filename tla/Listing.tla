------------------------------- MODULE Listing -------------------------------
(***************************************************************************)
(* What a source's pages are read into: the images of a chapter's page     *)
(* into ScrapedPages, and those into the page rows of the download; the    *)
(* rows of a series' page into ScrapedChapters.                            *)
(*                                                                         *)
(* The pages are built up element by element: any document within the      *)
(* bounds is met.  An image stands for its bytes and its URL.              *)
(***************************************************************************)
EXTENDS Ordering, SequencesExt

CONSTANTS
    ImageIds,     \* the N an img's id="page-N" may have
    Unnumbered,   \* an img without such an id
    MaxImages,    \* bound: img elements of a chapter's page
    MaxUploads,   \* bound: chapters of a series' page
    ChapterLimit  \* the limit get_chapters is called with

ASSUME ListingAssumption ==
    /\ ImageIds \subseteq Nat /\ Unnumbered \notin ImageIds
    /\ ChapterLimit \in Nat

VARIABLES
    images,  \* img.page-image, in document order: [id, src]
    uploads  \* div.chapter, newest first: [chapter, linked]

listingVars == <<images, uploads>>

ListingInit == images = <<>> /\ uploads = <<>>

AddImage ==
    /\ Len(images) < MaxImages
    /\ \E id \in ImageIds \cup {Unnumbered}, src \in BOOLEAN :
          images' = Append(images, [id |-> id, src |-> src])
    /\ UNCHANGED uploads

\* The source puts a new chapter on top; a row without a link is passed over.
Upload ==
    /\ Len(uploads) < MaxUploads
    /\ \E linked \in BOOLEAN :
          uploads' = <<[chapter |-> Len(uploads) + 1, linked |-> linked]>> \o uploads
    /\ UNCHANGED images

ListingNext == AddImage \/ Upload

ListingSpec == ListingInit /\ [][ListingNext]_listingVars

-----------------------------------------------------------------------------
(* get_pages.                                                              *)

\* The positions of the images that have a URL.
Pictured == {i \in DOMAIN images : images[i].src}

\* Mutant: an image without an id counts from the start.
IndexOfUncounted(i) == IF images[i].id = Unnumbered THEN 0 ELSE images[i].id

\* The number of the id, else how many pages were read before.
IndexOf(i) ==
    IF images[i].id = Unnumbered THEN Cardinality({j \in Pictured : j < i}) ELSE images[i].id

\* A stable sort by index.
ByIndex == [i \in Pictured |-> {j \in Pictured : \/ IndexOf(j) < IndexOf(i)
                                                 \/ IndexOf(j) = IndexOf(i) /\ j < i}]

\* Unless the first index is 0, the pages get the indexes from 0 on.
PagesOf ==
    LET at == InOrder(ByIndex)
        repack == Pictured # {} /\ IndexOf(at[1]) # 0
    IN  [n \in DOMAIN at |-> [index |-> IF repack THEN n - 1 ELSE IndexOf(at[n]),
                              image |-> at[n]]]

-----------------------------------------------------------------------------
(* _download_chapter: the bytes and URLs are kept by index, and the pages  *)
(* of the file get a row each from what is kept there.                     *)

KeptAt(index) ==
    LET at == {n \in DOMAIN PagesOf : PagesOf[n].index = index}
    IN PagesOf[CHOOSE n \in at : \A m \in at : m <= n].image

PageRows == [n \in DOMAIN PagesOf |->
                [index |-> PagesOf[n].index, image |-> KeptAt(PagesOf[n].index)]]

-----------------------------------------------------------------------------
(* get_chapters.                                                           *)

Linked == Picked(uploads, {i \in DOMAIN uploads : uploads[i].linked})

LinkedOldestFirst == Reverse(Linked)

\* seq[first:first + limit]
Page(seq, first) == SubSeq(seq, first + 1, Len(Upto(seq, first + ChapterLimit)))

\* Mutant: cut while the newest come first.
ChaptersOfCutFirst(offset) == Reverse(Page(Linked, offset))

\* Reversed, then from the offset on and no more than the limit.
ChaptersOf(offset) == Page(LinkedOldestFirst, offset)

-----------------------------------------------------------------------------
(* Properties.                                                             *)

\* The images number themselves apart, or none does.
SanelyNumbered ==
    \/ \A i \in Pictured : images[i].id = Unnumbered
    \/ \A i, j \in Pictured : images[i].id # Unnumbered /\ (i # j => images[i].id # images[j].id)

\* Of a page whose images are all numbered apart or not at all, whatever the numbers start
\* from, skip or come in the wrong order, and whatever images lack a URL: every image
\* becomes a page with an index of its own, so that its row has its bytes and URL and the
\* unique constraint on (chapter_id, index) lets the chapter be stored.
PagesKeepApart ==
    SanelyNumbered =>
        /\ \A n, m \in DOMAIN PageRows : n < m => PageRows[n].index < PageRows[m].index
        /\ {PageRows[n].image : n \in DOMAIN PageRows} = Pictured

\* "Return chapters of a series, oldest first": a chapter once listed stays where it is in
\* the list while the source adds others, so that the checks that read the list again never
\* lose it.  The chapters past the limit are the newest, and are never listed.
ListingIsStable == [][IsPrefix(ChaptersOf(0), ChaptersOf(0)')]_listingVars
=============================================================================
