--------------------------- MODULE StorageProofs ---------------------------
(* Theorems of what is kept on disk beside the downloads: the covers, the    *)
(* wizard's and the settings' files, the paths of the chapters.              *)
EXTENDS CoverCache, Setup, ChapterPaths, TLAPS

-----------------------------------------------------------------------------
(* The covers.  HashNamesContent needs that a fetch that finds its path      *)
(* taken when it stores had found it free when it began.                     *)

CoverShape ==
    /\ byhash \in [Images -> Images \cup {Absent, Truncated}]
    /\ linked \in [Covers -> Images \cup {Absent}]
    /\ \A c \in CoverCalls : fetching[c] # NoFetch => fetching[c].cover \in Covers
    /\ DOMAIN fetching = CoverCalls

FetchesBeganFirst == \A c \in CoverCalls : fetching[c] # NoFetch => fetching[c].first

CoverInv == CoverShape /\ FetchesBeganFirst /\ HashNamesContent

\* A step that ends fetches, and may change the files of hashes for a reason recorded.
LEMMA CoverStep ==
    ASSUME CoverInv,
           \A c \in CoverCalls : fetching'[c] \in {fetching[c], NoFetch}, DOMAIN fetching' = CoverCalls,
           linked' \in [Covers -> Images \cup {Absent}],
           byhash' \in [Images -> Images \cup {Absent, Truncated}],
           torn \subseteq torn', rewritten \subseteq rewritten',
           \A i \in Images : byhash'[i] \in {byhash[i], i} \/ i \in torn' \cup rewritten',
           \A i \in Images : byhash[i] # Absent => byhash'[i] # Absent,
           \A k \in Covers : linked'[k] # linked[k] => byhash'[linked'[k]] # Absent
    PROVE  CoverInv'
<1> USE DEF CoverInv
<1>1. CoverShape' /\ FetchesBeganFirst'
  BY DEF CoverShape, FetchesBeganFirst
<1>2. \A i \in Images : byhash'[i] \in {Absent, i} \/ i \in torn' \cup rewritten'
  BY DEF HashNamesContent
<1>3. ASSUME NEW k \in Covers, linked'[k] # Absent
      PROVE  byhash'[linked'[k]] # Absent
  BY <1>3 DEF HashNamesContent, CoverShape
<1> QED
  BY <1>1, <1>2, <1>3 DEF HashNamesContent

LEMMA CoverInvInit == CoverInit => CoverInv
  BY DEF CoverInit, CoverInv, CoverShape, FetchesBeganFirst, HashNamesContent

LEMMA CoverInvNext == CoverInv /\ [CoverNext]_coverVars => CoverInv'
<1> SUFFICES ASSUME CoverInv, [CoverNext]_coverVars
             PROVE  CoverInv'
  OBVIOUS
<1>1. CoverShape /\ FetchesBeganFirst /\ HashNamesContent
  BY DEF CoverInv
<1>2. ASSUME NEW c \in CoverCalls, NEW k \in Covers, StartFetch(c, k)
      PROVE  CoverInv'
  <2>1. /\ fetching' = [fetching EXCEPT ![c] = [cover |-> k, first |-> TRUE]]
        /\ UNCHANGED <<byhash, linked, torn, rewritten>>
    BY <1>2 DEF StartFetch, WantsDownload
  <2>2. \A d \in CoverCalls : fetching'[d] = IF d = c THEN [cover |-> k, first |-> TRUE] ELSE fetching[d]
    BY <1>1, <2>1 DEF CoverShape
  <2> QED
    BY <1>1, <2>1, <2>2 DEF CoverInv, CoverShape, FetchesBeganFirst, HashNamesContent
<1>3. ASSUME NEW c \in CoverCalls, FetchFails(c)
      PROVE  CoverInv'
  <2>1. /\ \A d \in CoverCalls : fetching'[d] \in {fetching[d], NoFetch}
        /\ DOMAIN fetching' = CoverCalls
        /\ UNCHANGED <<byhash, linked, torn, rewritten>>
    BY <1>1, <1>3 DEF FetchFails, CoverShape
  <2> QED
    BY <1>1, <2>1, CoverStep DEF CoverShape
<1>4. ASSUME NEW image \in Images
      PROVE  /\ Kept(image) \in [Images -> Images \cup {Absent, Truncated}]
             /\ Kept(image)[image] # Absent
             /\ \A i \in Images : Kept(image)[i] \in {byhash[i], i}
             /\ \A i \in Images : byhash[i] # Absent => Kept(image)[i] = byhash[i]
  BY <1>1, CoverAssumption DEF Kept, CoverShape
<1>5. ASSUME NEW c \in CoverCalls, NEW image \in Images, StoreCover(c, image)
      PROVE  CoverInv'
  <2>1. /\ \A d \in CoverCalls : fetching'[d] \in {fetching[d], NoFetch}
        /\ DOMAIN fetching' = CoverCalls
        /\ byhash' = Kept(image)
        /\ UNCHANGED <<torn, rewritten>>
    BY <1>1, <1>5 DEF StoreCover, CoverShape
  <2>2. /\ linked' \in [Covers -> Images \cup {Absent}]
        /\ \A k \in Covers : linked'[k] \in {linked[k], image}
    BY <1>1, <1>5 DEF StoreCover, CoverShape
  <2> QED
    BY <1>4, <2>1, <2>2, CoverStep
<1>6. ASSUME NEW c \in CoverCalls, NEW image \in Images, StoreThroughLink(c, image)
      PROVE  CoverInv'
  <2> DEFINE at == linked[fetching[c].cover]
  <2>1. at \in Images /\ fetching[c].first
    BY <1>1, <1>6 DEF StoreThroughLink, CoverShape, FetchesBeganFirst
  <2>2. /\ \A d \in CoverCalls : fetching'[d] \in {fetching[d], NoFetch}
        /\ DOMAIN fetching' = CoverCalls
        /\ byhash' = [Kept(image) EXCEPT ![at] = image]
        /\ rewritten' = rewritten \cup {at}
        /\ UNCHANGED <<linked, torn>>
    BY <1>1, <1>6, <2>1 DEF StoreThroughLink, CoverShape
  <2> HIDE DEF at
  <2>3. /\ byhash' \in [Images -> Images \cup {Absent, Truncated}]
        /\ \A i \in Images : byhash'[i] = IF i = at THEN image ELSE Kept(image)[i]
    BY <1>4, <2>1, <2>2
  <2> QED
    BY <1>1, <1>4, <2>2, <2>3, CoverStep, CoverAssumption DEF CoverShape
<1>7. CASE CrashStoring
  <2>1. /\ \A d \in CoverCalls : fetching'[d] \in {fetching[d], NoFetch}
        /\ DOMAIN fetching' = CoverCalls
        /\ UNCHANGED <<linked, rewritten>>
    BY <1>7 DEF CrashStoring
  <2>2. CASE UNCHANGED <<byhash, torn>>
    BY <1>1, <2>1, <2>2, CoverStep DEF CoverShape
  <2>3. ASSUME NEW c \in CoverCalls, NEW image \in Images, fetching[c] # NoFetch,
               byhash' = [byhash EXCEPT ![Writing(c, image)] = Truncated],
               torn' = torn \cup {Writing(c, image)}
        PROVE  CoverInv'
    <3> DEFINE at == Writing(c, image)
    <3>1. at \in Images
      BY <1>1, <2>3 DEF Writing, CoverShape
    <3>2. byhash' = [byhash EXCEPT ![at] = Truncated] /\ torn' = torn \cup {at}
      BY <2>3
    <3> HIDE DEF at
    <3>3. /\ byhash' \in [Images -> Images \cup {Absent, Truncated}]
          /\ \A i \in Images : byhash'[i] = IF i = at THEN Truncated ELSE byhash[i]
      BY <1>1, <3>1, <3>2 DEF CoverShape
    <3>4. Truncated # Absent
      BY DEF Truncated, Absent
    <3> QED
      BY <1>1, <2>1, <3>2, <3>3, <3>4, CoverStep DEF CoverShape
  <2> QED
    BY <1>7, <2>2, <2>3 DEF CrashStoring
<1>8. CASE UNCHANGED coverVars
  BY <1>8 DEF coverVars, CoverInv, CoverShape, FetchesBeganFirst, HashNamesContent
<1> QED
  BY <1>2, <1>3, <1>5, <1>6, <1>7, <1>8 DEF CoverNext

\* The file fetch_and_cache keeps under a hash has the bytes of that hash, and a cached cover
\* has such a file, but for files cut short by a crash and those two fetches wrote through.
THEOREM CoversNameTheirContent == CoverSpec => []HashNamesContent
<1>1. CoverInv => HashNamesContent
  BY DEF CoverInv
<1> QED
  BY <1>1, CoverInvInit, CoverInvNext, PTL DEF CoverSpec

-----------------------------------------------------------------------------
(* The wizard and the settings.  SavedSettingsReturn needs the shape of what *)
(* can be read of settings.yaml, StartsAsSaved that nothing else is in it.   *)

SetupShape ==
    /\ yaml \in Settings \cup {Missing}
    /\ saved \in [SettingKeys -> Values \cup {Missing}]
    /\ yamlTorn \in BOOLEAN

OnlySavedIsRead == yamlTorn \/ \A k \in DOMAIN ReadYaml : saved[k] # Missing

SetupInv == SetupShape /\ SavedSettingsReturn /\ OnlySavedIsRead

LEMMA SettingsAre ==
    ASSUME NEW f
    PROVE  f \in Settings <=>
              /\ f = [k \in DOMAIN f |-> f[k]]
              /\ DOMAIN f \subseteq SettingKeys
              /\ \A k \in DOMAIN f : f[k] \in Values
  BY DEF Settings

LEMMA NothingIsSettings == Nothing \in Settings /\ DOMAIN Nothing = {}
  BY SettingsAre DEF Nothing

LEMMA DefaultsAreSettings == Defaults \in Settings /\ DOMAIN Defaults = SettingKeys
  BY SettingsAre, SetupAssumption DEF Defaults

LEMMA SingleIsSettings ==
    ASSUME NEW k \in SettingKeys, NEW v \in Values
    PROVE  Single(k, v) \in Settings /\ DOMAIN Single(k, v) = {k} /\ Single(k, v)[k] = v
  BY SettingsAre DEF Single

LEMMA OverlaidIsSettings ==
    ASSUME NEW f \in Settings, NEW over \in Settings
    PROVE  /\ Overlaid(f, over) \in Settings
           /\ DOMAIN Overlaid(f, over) = (DOMAIN f) \cup (DOMAIN over)
           /\ \A k \in DOMAIN over : Overlaid(f, over)[k] = over[k]
           /\ \A k \in (DOMAIN f) \ (DOMAIN over) : Overlaid(f, over)[k] = f[k]
<1>1. /\ DOMAIN f \subseteq SettingKeys /\ \A k \in DOMAIN f : f[k] \in Values
      /\ DOMAIN over \subseteq SettingKeys /\ \A k \in DOMAIN over : over[k] \in Values
  BY SettingsAre
<1> DEFINE both == Overlaid(f, over)
<1>2. both = [k \in (DOMAIN f) \cup (DOMAIN over) |-> IF k \in DOMAIN over THEN over[k] ELSE f[k]]
  BY DEF Overlaid
<1>3. /\ both = [k \in DOMAIN both |-> both[k]]
      /\ DOMAIN both = (DOMAIN f) \cup (DOMAIN over)
      /\ \A k \in DOMAIN over : both[k] = over[k]
      /\ \A k \in (DOMAIN f) \ (DOMAIN over) : both[k] = f[k]
  BY <1>2
<1> HIDE DEF both
<1>4. both \in Settings
  BY <1>1, <1>3, SettingsAre
<1> QED
  BY <1>3, <1>4 DEF both

LEMMA CutsAreSettings ==
    ASSUME NEW f \in Settings, NEW g \in Cuts(f)
    PROVE  g \in Settings
<1>1. PICK n \in 0..(LastKey - 1) : g = [k \in (DOMAIN f) \cap (1..n) |-> f[k]]
  BY DEF Cuts
<1>2. DOMAIN f \subseteq SettingKeys /\ \A k \in DOMAIN f : f[k] \in Values
  BY SettingsAre
<1>3. /\ DOMAIN g = (DOMAIN f) \cap (1..n) /\ g = [k \in DOMAIN g |-> g[k]]
      /\ \A k \in DOMAIN g : g[k] = f[k]
  BY <1>1
<1> QED
  BY <1>2, <1>3, SettingsAre

LEMMA ReadYamlIsSettings == SetupShape => ReadYaml \in Settings
  BY NothingIsSettings DEF SetupShape, ReadYaml

LEMMA OverridesAreSettings == Overrides \subseteq Settings
<1> SUFFICES ASSUME NEW overrides \in Overrides
             PROVE  overrides \in Settings
  OBVIOUS
<1>1. CASE overrides = Nothing
  BY <1>1, NothingIsSettings
<1>2. CASE overrides \in UNION {{Single(k, v) : v \in Values} : k \in SettingKeys}
  <2>1. PICK k \in SettingKeys, v \in Values : overrides = Single(k, v)
    BY <1>2
  <2> QED
    BY <2>1, SingleIsSettings
<1> QED
  BY <1>1, <1>2 DEF Overrides

-----------------------------------------------------------------------------
LEMMA SetupInvInit == SetupInit => SetupInv
  BY NothingIsSettings DEF SetupInit, SetupInv, SetupShape, SavedSettingsReturn, OnlySavedIsRead, ReadYaml

\* settings.yaml and what is counted as saved stay as they are.
LEMMA FileStays ==
    ASSUME SetupInv, UNCHANGED <<yaml, saved, yamlTorn>>
    PROVE  SetupInv'
  BY DEF SetupInv, SetupShape, SavedSettingsReturn, OnlySavedIsRead, ReadYaml

\* The wizard's settings: a file that is there stays, and a new one has every setting.
LEMMA SeedStep ==
    ASSUME SetupInv, NEW overrides \in Settings,
           yaml' = Seeded(overrides), saved' = SeedSaved(overrides), UNCHANGED yamlTorn
    PROVE  SetupInv'
<1>1. CASE yaml = Missing
  <2> DEFINE seed == Overlaid(Defaults, overrides)
  <2>1. yaml' = seed /\ saved' = [k \in SettingKeys |-> seed[k]]
    BY <1>1 DEF Seeded, SeedSaved
  <2>2. seed \in Settings /\ DOMAIN seed = SettingKeys
    BY DefaultsAreSettings, OverlaidIsSettings, SettingsAre
  <2> HIDE DEF seed
  <2>3. \A k \in SettingKeys : seed[k] \in Values
    BY <2>2, SettingsAre
  <2>4. SetupShape'
    BY <2>1, <2>2, <2>3 DEF SetupInv, SetupShape
  <2>5. ReadYaml' = seed
    BY <2>1, <2>2, FileAssumption DEF ReadYaml
  <2>6. SavedSettingsReturn'
    BY <2>1, <2>2, <2>5 DEF SavedSettingsReturn
  <2>7. OnlySavedIsRead'
    BY <2>1, <2>2, <2>3, <2>5, SetupAssumption DEF OnlySavedIsRead
  <2> QED
    BY <2>4, <2>6, <2>7 DEF SetupInv
<1>2. CASE yaml # Missing
  BY <1>2, FileStays DEF Seeded, SeedSaved
<1> QED
  BY <1>1, <1>2

\* A crash while the file is written leaves something that can be read of it.
LEMMA TornStep ==
    ASSUME SetupInv, yaml' \in Settings, saved' \in [SettingKeys -> Values \cup {Missing}], yamlTorn' = TRUE
    PROVE  SetupInv'
  BY DEF SetupInv, SetupShape, SavedSettingsReturn, OnlySavedIsRead

LEMMA SetupInvNext == SetupInv /\ [SetupNext]_setupVars => SetupInv'
<1> SUFFICES ASSUME SetupInv, [SetupNext]_setupVars
             PROVE  SetupInv'
  OBVIOUS
<1>1. SetupShape /\ SavedSettingsReturn /\ OnlySavedIsRead
  BY DEF SetupInv
<1>2. ASSUME NEW account, NEW overrides \in Overrides, NEW names, Wizard(account, overrides, names)
      PROVE  SetupInv'
  <2>1. overrides \in Settings /\ yaml' = Seeded(overrides) /\ saved' = SeedSaved(overrides) /\ UNCHANGED yamlTorn
    BY <1>2, OverridesAreSettings DEF Wizard
  <2> QED
    BY <2>1, SeedStep
<1>3. ASSUME NEW account, NEW overrides \in Overrides, WizardCrash(account, overrides)
      PROVE  SetupInv'
  <2>1. overrides \in Settings
    BY OverridesAreSettings
  <2>2. CASE UNCHANGED <<yaml, saved, yamlTorn>>
    BY <2>2, FileStays
  <2>3. CASE /\ yaml = Missing /\ yaml' \in Cuts(Seeded(overrides))
             /\ yamlTorn' = TRUE /\ saved' = SeedSaved(overrides)
    <3>1. Seeded(overrides) \in Settings /\ DOMAIN Seeded(overrides) = SettingKeys
      BY <2>1, <2>3, DefaultsAreSettings, OverlaidIsSettings, SettingsAre DEF Seeded
    <3>2. saved' \in [SettingKeys -> Values \cup {Missing}]
      BY <2>3, <3>1, SettingsAre DEF SeedSaved
    <3> QED
      BY <2>3, <3>1, <3>2, CutsAreSettings, TornStep
  <2>4. CASE yaml' = Seeded(overrides) /\ saved' = SeedSaved(overrides) /\ UNCHANGED yamlTorn
    BY <2>1, <2>4, SeedStep
  <2> QED
    BY <1>3, <2>2, <2>3, <2>4 DEF WizardCrash
<1>4. ASSUME NEW k \in SettingKeys, NEW v \in Values
      PROVE  /\ FileAfterPut(Single(k, v)) \in Settings
             /\ DOMAIN FileAfterPut(Single(k, v)) = (DOMAIN ReadYaml) \cup {k}
             /\ FileAfterPut(Single(k, v))[k] = v
             /\ \A j \in (DOMAIN ReadYaml) \ {k} : FileAfterPut(Single(k, v))[j] = ReadYaml[j]
  <2> DEFINE one == Single(k, v)
  <2>1. one \in Settings /\ DOMAIN one = {k} /\ one[k] = v
    BY SingleIsSettings
  <2>2. ReadYaml \in Settings
    BY <1>1, ReadYamlIsSettings
  <2> HIDE DEF one
  <2>3. /\ FileAfterPut(one) \in Settings
        /\ DOMAIN FileAfterPut(one) = (DOMAIN ReadYaml) \cup {k}
        /\ FileAfterPut(one)[k] = v
        /\ \A j \in (DOMAIN ReadYaml) \ {k} : FileAfterPut(one)[j] = ReadYaml[j]
    BY <2>1, <2>2, OverlaidIsSettings DEF FileAfterPut
  <2> QED
    BY <2>3 DEF one
<1>5. ASSUME NEW k \in SettingKeys, NEW v \in Values, PutSettings(k, v)
      PROVE  SetupInv'
  <2>1. yaml' = FileAfterPut(Single(k, v)) /\ saved' = [saved EXCEPT ![k] = v] /\ UNCHANGED yamlTorn
    BY <1>5 DEF PutSettings
  <2>2. yaml' \in Settings /\ ReadYaml' = yaml'
    BY <1>4, <2>1, FileAssumption DEF ReadYaml
  <2>3. /\ DOMAIN ReadYaml' = (DOMAIN ReadYaml) \cup {k}
        /\ ReadYaml'[k] = v
        /\ \A j \in (DOMAIN ReadYaml) \ {k} : ReadYaml'[j] = ReadYaml[j]
    BY <1>4, <2>1, <2>2
  <2>4. \A j \in SettingKeys : saved'[j] = IF j = k THEN v ELSE saved[j]
    BY <1>1, <2>1 DEF SetupShape
  <2>5. SavedSettingsReturn'
    BY <1>1, <2>1, <2>3, <2>4 DEF SavedSettingsReturn
  <2>6. SetupShape'
    BY <1>1, <2>1, <2>2 DEF SetupShape
  <2>7. OnlySavedIsRead'
    BY <1>1, <2>1, <2>3, <2>4, SetupAssumption DEF OnlySavedIsRead, SetupShape
  <2> QED
    BY <2>5, <2>6, <2>7 DEF SetupInv
<1>6. ASSUME NEW k \in SettingKeys, NEW v \in Values, PutCrash(k, v)
      PROVE  SetupInv'
  <2>1. yaml' \in Settings
    BY <1>4, <1>6, CutsAreSettings DEF PutCrash
  <2>2. saved' \in [SettingKeys -> Values \cup {Missing}] /\ yamlTorn' = TRUE
    BY <1>1, <1>6 DEF PutCrash, SetupShape
  <2> QED
    BY <2>1, <2>2, TornStep
<1>7. ASSUME NEW n \in Names, CreateLibrary(n) \/ DeleteLibrary(n) \/ \E m \in Names : RenameLibrary(n, m)
      PROVE  SetupInv'
  BY <1>7, FileStays DEF CreateLibrary, DeleteLibrary, RenameLibrary
<1>8. CASE CrashIdle \/ Boot \/ (\E v \in Values : PatchSettings(v)) \/ UNCHANGED setupVars
  BY <1>8, FileStays DEF CrashIdle, Boot, PatchSettings, setupVars
<1> QED
  BY <1>2, <1>3, <1>5, <1>6, <1>7, <1>8 DEF SetupNext

LEMMA SetupInvariant == SetupSpec => []SetupInv
  BY SetupInvInit, SetupInvNext, PTL DEF SetupSpec

\* What is read of settings.yaml is what was last saved of every setting, until a crash cuts
\* the file short.
THEOREM SavedSettingsAreRead == SetupSpec => []SavedSettingsReturn
<1>1. SetupInv => SavedSettingsReturn
  BY DEF SetupInv
<1> QED
  BY <1>1, SetupInvariant, PTL

\* apply_runtime_settings: a start runs with them, and with the default of the others,
\* whatever was patched before.
THEOREM SavedSettingsRun == SetupSpec => StartsAsSaved
<1> DEFINE asSaved == \A k \in SettingKeys :
              yamlTorn \/ running'[k] = (IF saved[k] = Missing THEN Default ELSE saved[k])
<1>1. ASSUME SetupInv, Boot
      PROVE  asSaved
  <2> SUFFICES ASSUME NEW k \in SettingKeys, ~yamlTorn
               PROVE  running'[k] = (IF saved[k] = Missing THEN Default ELSE saved[k])
    OBVIOUS
  <2> DEFINE read == ReadYaml
             boot == Overlaid(Defaults, read)
  <2>1. read \in Settings /\ Defaults \in Settings /\ DOMAIN Defaults = SettingKeys
    BY <1>1, DefaultsAreSettings, ReadYamlIsSettings DEF SetupInv
  <2>2. /\ \A j \in DOMAIN read : boot[j] = read[j]
        /\ \A j \in SettingKeys \ (DOMAIN read) : boot[j] = Default
    <3>1. \A j \in SettingKeys : Defaults[j] = Default
      BY DEF Defaults
    <3> HIDE DEF read
    <3> QED
      BY <2>1, <3>1, OverlaidIsSettings
  <2>3. running' = boot
    BY <1>1 DEF Boot
  <2>4. saved[k] # Missing => k \in DOMAIN read /\ read[k] = saved[k]
    BY <1>1 DEF SetupInv, SavedSettingsReturn
  <2>5. saved[k] = Missing => k \notin DOMAIN read
    BY <1>1 DEF SetupInv, OnlySavedIsRead
  <2> HIDE DEF read, boot
  <2> QED
    BY <2>2, <2>3, <2>4, <2>5
<1>2. SetupNext /\ ~Runs /\ Runs' => Boot
  <2> SUFFICES ASSUME SetupNext, ~Boot, ~Runs, Runs'
               PROVE  FALSE
    OBVIOUS
  <2>1. running = Missing /\ running' # Missing
    BY DEF Runs
  <2>2. ASSUME NEW account \in Accounts, NEW overrides \in Overrides,
               (\E names \in SUBSET Names : Wizard(account, overrides, names))
                  \/ WizardCrash(account, overrides)
        PROVE  FALSE
    BY <2>1, <2>2 DEF Wizard, WizardCrash, WizardIsOpen, Runs
  <2>3. ASSUME NEW k \in SettingKeys, NEW v \in Values, PutSettings(k, v) \/ PutCrash(k, v)
        PROVE  FALSE
    BY <2>1, <2>3 DEF PutSettings, PutCrash, SignedIn, Runs
  <2>4. ASSUME NEW v \in Values, PatchSettings(v) PROVE FALSE
    BY <2>1, <2>4 DEF PatchSettings, SignedIn, Runs
  <2>5. ASSUME NEW n \in Names, CreateLibrary(n) \/ DeleteLibrary(n) \/ \E m \in Names : RenameLibrary(n, m)
        PROVE  FALSE
    BY <2>1, <2>5 DEF CreateLibrary, DeleteLibrary, RenameLibrary, SignedIn, Runs
  <2>6. ~CrashIdle
    BY <2>1 DEF CrashIdle, Runs
  <2> QED
    BY <2>2, <2>3, <2>4, <2>5, <2>6 DEF SetupNext
<1> HIDE DEF asSaved
<1>3. SetupInv /\ [SetupNext]_setupVars => [~Runs /\ Runs' => asSaved]_setupVars
  BY <1>1, <1>2
<1> QED
  BY <1>3, SetupInvariant, PTL DEF SetupSpec, StartsAsSaved, asSaved

-----------------------------------------------------------------------------
(* The paths.  A file_path says which strategy made it, by the number of its *)
(* parts and of those of its file's name.                                    *)

PathsInv ==
    /\ strategy \in Strategies
    /\ \A f \in filed : \E s \in Strategies, c \in Uploaded : f = <<c, ResolvePath(s, c)>>

LEMMA PathsInvInit == PathsInit => PathsInv
  BY DEF PathsInit, PathsInv, Strategies

LEMMA PathsInvNext == PathsInv /\ [PathsNext]_pathVars => PathsInv'
<1> SUFFICES ASSUME PathsInv, [PathsNext]_pathVars
             PROVE  PathsInv'
  OBVIOUS
<1>1. ASSUME NEW c \in Uploaded, FileChapter(c)
      PROVE  PathsInv'
  BY <1>1 DEF FileChapter, PathsInv
<1>2. ASSUME NEW s \in Strategies, ChangeStrategy(s)
      PROVE  PathsInv'
  BY <1>2 DEF ChangeStrategy, PathsInv
<1>3. CASE UNCHANGED pathVars
  BY <1>3 DEF pathVars, PathsInv
<1> QED
  BY <1>1, <1>2, <1>3 DEF PathsNext

\* _pad, _pad_ch and _pad_vol lose the zeros in front and nothing else.
LEMMA PadRespells ==
    ASSUME NEW n, NEW m, Pad(n) = Pad(m)
    PROVE  Respelt(n, m)
<1>1. CASE IsText(n) /\ IsText(m)
  BY <1>1 DEF Pad, Respelt
<1>2. ASSUME NEW x, NEW y, IsText(x), ~IsText(y)
      PROVE  Pad(x) # Pad(y)
  <2>1. DOMAIN Pad(x) = {"text"}
    BY <1>2 DEF Pad, IsText
  <2>2. DOMAIN Pad(y) = {"int", "decimals"}
    BY <1>2 DEF Pad
  <2> QED
    BY <2>1, <2>2
<1>3. CASE ~IsText(n) /\ ~IsText(m)
  BY <1>3 DEF Pad, Respelt
<1> QED
  BY <1>1, <1>2, <1>3

\* The name of a file: the series, the number and, but for onefile_per_volume, the language.
LEMMA PathTells ==
    ASSUME NEW s \in Strategies, NEW t \in Strategies, NEW c \in Uploaded, NEW d \in Uploaded,
           ResolvePath(s, c) = ResolvePath(t, d)
    PROVE  /\ SafeName[c.series] = SafeName[d.series]
           /\ Pad(c.number) = Pad(d.number)
           /\ c.language = d.language \/ NamesNoLanguage(ResolvePath(s, c))
<1> DEFINE name(u, x) == IF x = "series_volume" THEN FileName(u, NoTitle)
                         ELSE IF x = "onefile_per_volume" THEN <<SafeName[u.series], Folder(u), Pad(u.number)>>
                         ELSE FileName(u, u.title)
<1>1. ASSUME NEW x \in Strategies, NEW u \in Uploaded
      PROVE  /\ Len(ResolvePath(x, u)) \in Nat
             /\ ResolvePath(x, u)[Len(ResolvePath(x, u))] = name(u, x)
             /\ ResolvePath(x, u)[1] = SafeName[u.series]
  BY DEF ResolvePath, Strategies
<1>2. name(c, s) = name(d, t) /\ SafeName[c.series] = SafeName[d.series]
  BY <1>1
<1>3. ASSUME NEW x \in Strategies, NEW u \in Uploaded
      PROVE  IF x = "onefile_per_volume" THEN Len(name(u, x)) = 3 /\ name(u, x)[3] = Pad(u.number)
             ELSE Len(name(u, x)) = 4 /\ name(u, x)[2] = Pad(u.number) /\ name(u, x)[4] = u.language
  BY DEF FileName
<1>4. NamesNoLanguage(ResolvePath(s, c)) <=> Len(name(c, s)) = 3
  BY <1>1 DEF NamesNoLanguage
<1> HIDE DEF name
<1> QED
  BY <1>2, <1>3, <1>4

LEMMA PathsInvariant == PathsSpec => []PathsInv
  BY PathsInvInit, PathsInvNext, PTL DEF PathsSpec

\* resolve_path: two rows share a file only for one number, spelt with other zeros, of series
\* with one folder, and in one language unless onefile_per_volume named the file.
THEOREM FilesAreShared == PathsSpec => []RowsHaveOwnFiles
<1>1. PathsInv => RowsHaveOwnFiles
  <2> SUFFICES ASSUME PathsInv, NEW f \in filed, NEW g \in filed, f[2] = g[2]
               PROVE  /\ SafeName[f[1].series] = SafeName[g[1].series]
                      /\ Respelt(f[1].number, g[1].number)
                      /\ f[1].language = g[1].language \/ NamesNoLanguage(f[2])
    BY DEF RowsHaveOwnFiles
  <2>1. PICK s \in Strategies, c \in Uploaded : f = <<c, ResolvePath(s, c)>>
    BY DEF PathsInv
  <2>2. PICK t \in Strategies, d \in Uploaded : g = <<d, ResolvePath(t, d)>>
    BY DEF PathsInv
  <2>3. f[1] = c /\ f[2] = ResolvePath(s, c) /\ g[1] = d /\ g[2] = ResolvePath(t, d)
    BY <2>1, <2>2
  <2>4. ResolvePath(s, c) = ResolvePath(t, d)
    BY <2>3
  <2>5. /\ SafeName[c.series] = SafeName[d.series]
        /\ Pad(c.number) = Pad(d.number)
        /\ c.language = d.language \/ NamesNoLanguage(ResolvePath(s, c))
    BY <2>4, PathTells
  <2>6. Respelt(c.number, d.number)
    BY <2>5, PadRespells
  <2> QED
    BY <2>3, <2>5, <2>6
<1> QED
  BY <1>1, PathsInvariant, PTL
=============================================================================
