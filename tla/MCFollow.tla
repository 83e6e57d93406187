------------------------------ MODULE MCFollow ------------------------------
(***************************************************************************)
(* Instances of Follow for TLC: a series with a chapter in Italian and in  *)
(* English and one in English alone, and a series with no chapter.         *)
(***************************************************************************)
EXTENDS Follow

CONSTANTS it1, en1, en2, naruto, bleach

MCUploads == {it1, en1, en2}
MCSeries == {naruto, bleach}
MCSeriesOf == it1 :> naruto @@ en1 :> naruto @@ en2 :> naruto
MCNumberOf == it1 :> 1 @@ en1 :> 1 @@ en2 :> 2
MCLanguageOf == it1 :> "it" @@ en1 :> "en" @@ en2 :> "en"
MCAlphabet == <<"en", "it">>
MCPriorities == {<<"en">>}
=============================================================================
