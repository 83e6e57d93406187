------------------------------ MODULE MCServices ------------------------------
(***************************************************************************)
(* Instances, for TLC, of the components that work beside the downloads:   *)
(* one run, in each behaviour of which one of them works while the others  *)
(* stay as they started.  They share no state.                             *)
(***************************************************************************)
EXTENDS JobFeed, SourceAccess, Catalog, Merger, Listing, ChapterPaths, CoverCache, Setup, TLC

CONSTANTS oneA, oneB, twoA

VARIABLE part

MCIds == {oneA, oneB, twoA}
MCProviderOf == oneA :> "one" @@ oneB :> "one" @@ twoA :> "two"
MCTitle == oneA :> "A" @@ oneB :> "B" @@ twoA :> "A"

Credit(role, name) == [role |-> role, name |-> name]
MCPayloads ==
    {[title |-> 2, status |-> "ongoing", cover |-> TRUE,
      credits |-> <<Credit("writer", "n1"), Credit("letterer", "n2")>>, genres |-> <<"g1", "g2">>],
     [title |-> 2, status |-> "completed", cover |-> TRUE,
      credits |-> <<Credit("writer", "n3")>>, genres |-> <<"g2">>],
     [title |-> 3, status |-> "completed", cover |-> FALSE,
      credits |-> <<Credit("letterer", "n4")>>, genres |-> <<"g3", "g1">>],
     [title |-> 0, status |-> "none", cover |-> FALSE, credits |-> <<>>, genres |-> <<>>]}

Number(int, zeros, decimals) == [int |-> int, zeros |-> zeros, decimals |-> decimals]
One == Number(1, 0, "")
Chapter(manga, number, title, language, volume) ==
    [series |-> manga, number |-> number, title |-> title, language |-> language, volume |-> volume]
MCUploaded ==
    {Chapter("a:b", One, NoTitle, "it", NoVolume),
     Chapter("a:b", One, "t", "en", One),
     Chapter("a:b", Number(1, 0, "5"), NoTitle, "it", NoVolume),
     Chapter("a:b", Number(1, 1, ""), NoTitle, "it", NoVolume),
     Chapter("a?b", One, NoTitle, "it", One),
     Chapter("c", [text |-> "extra"], "t", "it", [text |-> "S1"])}
MCSafeName == "a:b" :> "a_b" @@ "a?b" :> "a_b" @@ "c" :> "c"

servicesVars ==
    <<part, feedVars, accessVars, catalogVars, mergeVars, listingVars, pathVars, coverVars, setupVars>>

ServicesInit ==
    /\ part \in {"feed", "access", "catalog", "merge", "listing", "paths", "covers", "setup"}
    /\ FeedInit /\ AccessInit /\ CatalogInit /\ MergeInit /\ ListingInit /\ PathsInit
    /\ CoverInit /\ SetupInit
    /\ part # "access" => source = "mangadex"

ServicesNext ==
    /\ UNCHANGED part
    /\ IF part = "feed" THEN FeedNext ELSE UNCHANGED feedVars
    /\ IF part = "access" THEN AccessNext ELSE UNCHANGED accessVars
    /\ IF part = "catalog" THEN CatalogNext ELSE UNCHANGED catalogVars
    /\ IF part = "merge" THEN AnswerRecord ELSE UNCHANGED mergeVars
    /\ IF part = "listing" THEN ListingNext ELSE UNCHANGED listingVars
    /\ IF part = "paths" THEN PathsNext ELSE UNCHANGED pathVars
    /\ IF part = "covers" THEN CoverNext ELSE UNCHANGED coverVars
    /\ IF part = "setup" THEN SetupNext ELSE UNCHANGED setupVars

\* A component that stays as it started has no step its fairness asks for.
ServicesSpec ==
    /\ ServicesInit /\ [][ServicesNext]_servicesVars
    /\ FeedFairness /\ HttpFairness /\ CatalogFairness
=============================================================================
