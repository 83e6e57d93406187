------------------------------ MODULE CoverCache ------------------------------
(***************************************************************************)
(* fetch_and_cache: the covers on disk, each a hard link to the file that  *)
(* is named by the hash of its bytes.                                      *)
(*                                                                         *)
(* A call awaits the download; what it does to the disk afterwards it does *)
(* without awaiting, so that only the end of the process comes in between. *)
(* The hash of an image is the image.                                      *)
(***************************************************************************)

CONSTANTS
    CoverCalls,  \* fetches under way together
    Covers,      \* (provider, external id)
    Images       \* what a cover's URL may give, now or later

VARIABLES
    byhash,   \* the bytes in the file named by each image's hash
    linked,   \* the image whose file a cover's path is linked to
    fetching, \* per call: the cover being fetched; history: it was not there at the start
    torn,     \* history: hashes whose file a crash cut short
    rewritten \* history: hashes whose file a fetch that overlapped another one wrote through

coverVars == <<byhash, linked, fetching, torn, rewritten>>

Absent == "absent"
Truncated == "truncated"
NoFetch == [cover |-> Absent, first |-> FALSE]

\* A hash of bytes is neither of the marks.
ASSUME CoverAssumption == Images \cap {Absent, Truncated} = {}

CoverInit ==
    /\ byhash = [i \in Images |-> Absent]
    /\ linked = [k \in Covers |-> Absent]
    /\ fetching = [c \in CoverCalls |-> NoFetch]
    /\ torn = {}
    /\ rewritten = {}

-----------------------------------------------------------------------------
\* Mutant: the download begins whether the cover is there or not.
WantsDownloadAlways(k) == TRUE

\* provider_p.exists(): what is cached is returned, and not fetched again.
WantsDownload(k) == linked[k] = Absent

StartFetch(c, k) ==
    /\ fetching[c] = NoFetch
    /\ WantsDownload(k)
    /\ fetching' = [fetching EXCEPT ![c] = [cover |-> k, first |-> linked[k] = Absent]]
    /\ UNCHANGED <<byhash, linked, torn, rewritten>>

\* get_bytes raises: the refresh goes on without a cover.
FetchFails(c) ==
    /\ fetching[c] # NoFetch
    /\ fetching' = [fetching EXCEPT ![c] = NoFetch]
    /\ UNCHANGED <<byhash, linked, torn, rewritten>>

\* The bytes go into the file of their hash, if there is none.
Kept(image) == IF byhash[image] = Absent THEN [byhash EXCEPT ![image] = image] ELSE byhash

\* The cover's path is linked to that file.
StoreCover(c, image) ==
    /\ fetching[c] # NoFetch
    /\ linked[fetching[c].cover] = Absent
    /\ linked' = [linked EXCEPT ![fetching[c].cover] = image]
    /\ byhash' = Kept(image)
    /\ fetching' = [fetching EXCEPT ![c] = NoFetch]
    /\ UNCHANGED <<torn, rewritten>>

\* The path is there by now: os.link fails, and the bytes are written to the path, which
\* is to the file it is linked to.
StoreThroughLink(c, image) ==
    LET f == fetching[c]
    IN /\ f # NoFetch
       /\ linked[f.cover] # Absent
       /\ byhash' = [Kept(image) EXCEPT ![linked[f.cover]] = image]
       /\ rewritten' = IF f.first THEN rewritten \cup {linked[f.cover]} ELSE rewritten
       /\ fetching' = [fetching EXCEPT ![c] = NoFetch]
       /\ UNCHANGED <<linked, torn>>

\* The file a call of fetch_and_cache is writing when it has this image.
Writing(c, image) ==
    LET at == linked[fetching[c].cover] IN IF at = Absent THEN image ELSE at

\* The process ends: while such a file is being written, or at any other moment.
CrashStoring ==
    /\ fetching' = [c \in CoverCalls |-> NoFetch]
    /\ \/ UNCHANGED <<byhash, torn>>
       \/ \E c \in CoverCalls, image \in Images :
             /\ fetching[c] # NoFetch
             /\ linked[fetching[c].cover] = Absent => byhash[image] = Absent
             /\ byhash' = [byhash EXCEPT ![Writing(c, image)] = Truncated]
             /\ torn' = torn \cup {Writing(c, image)}
    /\ UNCHANGED <<linked, rewritten>>

CoverNext ==
    \/ \E c \in CoverCalls :
          \/ \E k \in Covers : StartFetch(c, k)
          \/ FetchFails(c)
          \/ \E image \in Images : StoreCover(c, image) \/ StoreThroughLink(c, image)
    \/ CrashStoring

CoverSpec == CoverInit /\ [][CoverNext]_coverVars

-----------------------------------------------------------------------------
(* Properties.                                                             *)

\* "Content-addressed": the file under a hash, which every provider that points to the same
\* cover shares, has the bytes of that hash, and every cached cover such a file; except where
\* a crash cut the file short, which stays so for ever, or where two fetches of one cover
\* overlapped and its image changed between them.
HashNamesContent ==
    /\ \A i \in Images : byhash[i] \in {Absent, i} \/ i \in torn \cup rewritten
    /\ \A k \in Covers : linked[k] = Absent \/ byhash[linked[k]] # Absent
=============================================================================
