----------------------------- MODULE ChapterPaths -----------------------------
(***************************************************************************)
(* Where a chapter's CBZ goes: the four folder strategies over             *)
(* chapter_filename, volume_folder_name and _pad, and the file_path of the *)
(* rows of one library while its strategy is changed between downloads.    *)
(*                                                                         *)
(* A path is the tuple of its parts.  A number is as the source wrote it:  *)
(* "int" and its zeros in front ("7", "07"), the decimals after the dot or *)
(* "", or, with no integer to be read, its text.                           *)
(***************************************************************************)
EXTENDS Naturals, Sequences, FiniteSets

CONSTANTS
    Uploaded,  \* what may be downloaded: [series, number, title, language, volume]
    SafeName   \* safe_filename of each series title

NoTitle == "no title"
NoVolume == [text |-> "none"]

VARIABLES
    strategy,  \* library.folder_strategy
    filed      \* the rows: pairs <<chapter, file_path>>

pathVars == <<strategy, filed>>

Strategies == {"series_volume_chapter", "series_volume", "chapter_flat", "onefile_per_volume"}

PathsInit ==
    /\ strategy = "series_volume_chapter"
    /\ filed = {}

-----------------------------------------------------------------------------
IsText(number) == DOMAIN number = {"text"}

\* Mutant: the number is read as an integer.
PadTruncating(number) == IF IsText(number) THEN number ELSE [int |-> number.int, decimals |-> ""]

\* _pad, _pad_ch and _pad_vol: three digits and the decimals as they are; text as it is.
Pad(number) ==
    IF IsText(number) THEN number ELSE [int |-> number.int, decimals |-> number.decimals]

\* volume_number or "1".
Folder(c) ==
    LET one == [int |-> 1, zeros |-> 0, decimals |-> ""]
    IN Pad(IF c.volume = NoVolume THEN one ELSE c.volume)

\* chapter_filename.
FileName(c, title) == <<SafeName[c.series], Pad(c.number), title, c.language>>

ResolvePath(s, c) ==
    CASE s = "series_volume_chapter" -> <<SafeName[c.series], Folder(c), FileName(c, c.title)>>
      [] s = "series_volume" -> <<SafeName[c.series], Folder(c), FileName(c, NoTitle)>>
      [] s = "chapter_flat" -> <<SafeName[c.series], FileName(c, c.title)>>
      [] s = "onefile_per_volume" ->
            <<SafeName[c.series], Folder(c), <<SafeName[c.series], Folder(c), Pad(c.number)>>>>

\* A download, or an overwrite: the row gets the path of the strategy of the moment.
FileChapter(c) ==
    /\ filed' = {f \in filed : f[1] # c} \cup {<<c, ResolvePath(strategy, c)>>}
    /\ UNCHANGED strategy

\* update_library.
ChangeStrategy(s) ==
    /\ s # strategy
    /\ strategy' = s
    /\ UNCHANGED filed

PathsNext ==
    \/ \E c \in Uploaded : FileChapter(c)
    \/ \E s \in Strategies : ChangeStrategy(s)

PathsSpec == PathsInit /\ [][PathsNext]_pathVars

-----------------------------------------------------------------------------
(* Properties.                                                             *)

\* Numbers written alike but for zeros in front.
Respelt(n, m) ==
    IF IsText(n) \/ IsText(m) THEN n = m ELSE n.int = m.int /\ n.decimals = m.decimals

NamesNoLanguage(path) == Len(path[Len(path)]) = 3

\* Two rows point to one file, the second download having taken the place of the first's,
\* only for a number that differs in leading zeros at most, in series whose titles make one
\* folder; and then only in one language, unless onefile_per_volume named the file.  No
\* change of strategy between downloads adds a case.
RowsHaveOwnFiles ==
    \A f, g \in filed :
        f[1] # g[1] /\ f[2] = g[2] =>
            /\ SafeName[f[1].series] = SafeName[g[1].series]
            /\ Respelt(f[1].number, g[1].number)
            /\ f[1].language = g[1].language \/ NamesNoLanguage(f[2])
=============================================================================
