-------------------------------- MODULE Setup --------------------------------
(***************************************************************************)
(* The first-run wizard, the settings and the libraries: admin.json and    *)
(* settings.yaml under /config, the running Settings, the rows of          *)
(* libraries.                                                              *)
(*                                                                         *)
(* A handler runs up to its first await at once, and writes both files     *)
(* before it awaits the database: only the end of the process comes        *)
(* between.  Both files are written in place.                              *)
(***************************************************************************)
EXTENDS Naturals

CONSTANTS
    Accounts,   \* credentials the wizard may be posted with
    LastKey,    \* the managed settings, in the order they are written: 1..LastKey
    Values,     \* of a managed setting; Default is the one it has unless configured
    Default,
    Names,      \* of libraries
    Missing

ASSUME SetupAssumption == Default \in Values /\ Missing \notin Values \cup Accounts

VARIABLES
    running,    \* the managed fields of Settings; Missing while the process is down
    admin,      \* admin.json: Missing, "torn", or the account
    yaml,       \* settings.yaml: Missing, or the settings that can be read from it
    libraries,  \* the rows: pairs <<name, deleted>>
    saved,      \* history: the value last saved of each setting
    yamlTorn    \* history: a crash cut settings.yaml short

setupVars == <<running, admin, yaml, libraries, saved, yamlTorn>>

SettingKeys == 1..LastKey
Nothing == [k \in {} |-> Default]
Single(k, v) == [j \in {k} |-> v]

\* What settings.yaml may say: a value of some of the settings.
Settings == UNION {[keys -> Values] : keys \in SUBSET SettingKeys}

ASSUME FileAssumption == Missing \notin Settings

Runs == running # Missing

SetupInit ==
    /\ running = [k \in SettingKeys |-> Default]
    /\ admin = Missing
    /\ yaml = Missing
    /\ libraries = {}
    /\ saved = [k \in SettingKeys |-> Missing]
    /\ yamlTorn = FALSE

-----------------------------------------------------------------------------
(* The files.                                                              *)

\* read_runtime_settings: nothing when there is no file.
ReadYaml == IF yaml = Missing THEN Nothing ELSE yaml

\* What is read of a file that was being written: the settings of the lines that are whole,
\* or nothing when the last one makes it no YAML.
Cuts(settings) == {[k \in (DOMAIN settings) \cap (1..n) |-> settings[k]] : n \in 0..(LastKey - 1)}

Overlaid(settings, over) == [k \in (DOMAIN settings) \cup (DOMAIN over) |->
                                IF k \in DOMAIN over THEN over[k] ELSE settings[k]]

Defaults == [k \in SettingKeys |-> Default]

\* _auth_guard: open until the wizard has left an account, and to that account then.
SignedIn == Runs /\ admin # "torn"

-----------------------------------------------------------------------------
(* complete_setup.                                                         *)

\* is_setup_completed: the file is there.
WizardIsOpen == Runs /\ admin = Missing

\* init_runtime_settings: a file that is there is left alone.
Seeded(overrides) == IF yaml = Missing THEN Overlaid(Defaults, overrides) ELSE yaml

SeedSaved(overrides) ==
    IF yaml = Missing THEN [k \in SettingKeys |-> Seeded(overrides)[k]] ELSE saved

Taken == {l[1] : l \in libraries}

\* The libraries are inserted in one transaction; a name that is taken, or a folder that
\* cannot be written, rolls it back, and the account stays.
Wizard(account, overrides, names) ==
    /\ WizardIsOpen
    /\ admin' = account
    /\ yaml' = Seeded(overrides)
    /\ saved' = SeedSaved(overrides)
    /\ \/ names \cap Taken = {} /\ libraries' = libraries \cup (names \X {FALSE})
       \/ UNCHANGED libraries
    /\ UNCHANGED <<running, yamlTorn>>

\* The process ends in the middle: of admin.json, of settings.yaml, or before the commit.
WizardCrash(account, overrides) ==
    /\ WizardIsOpen
    /\ running' = Missing
    /\ \/ admin' = "torn" /\ UNCHANGED <<yaml, saved, yamlTorn>>
       \/ /\ admin' = account
          /\ yaml = Missing
          /\ yaml' \in Cuts(Seeded(overrides))
          /\ yamlTorn' = TRUE
          /\ saved' = SeedSaved(overrides)
       \/ /\ admin' = account
          /\ yaml' = Seeded(overrides)
          /\ saved' = SeedSaved(overrides)
          /\ UNCHANGED yamlTorn
    /\ UNCHANGED libraries

-----------------------------------------------------------------------------
(* update_admin_settings, patch_settings.                                  *)

\* Mutant: the file is written with the settings of the request alone.
FileAfterPutAlone(updates) == updates

\* Mutant: the settings of the request over the running ones.
FileAfterPutRunning(updates) == Overlaid(running, updates)

\* The settings of the request over those read from the file.
FileAfterPut(updates) == Overlaid(ReadYaml, updates)

\* PUT: the running settings and the file.
PutSettings(k, v) ==
    /\ SignedIn
    /\ running' = [running EXCEPT ![k] = v]
    /\ yaml' = FileAfterPut(Single(k, v))
    /\ saved' = [saved EXCEPT ![k] = v]
    /\ UNCHANGED <<admin, libraries, yamlTorn>>

PutCrash(k, v) ==
    /\ SignedIn
    /\ running' = Missing
    /\ yaml' \in Cuts(FileAfterPut(Single(k, v)))
    /\ yamlTorn' = TRUE
    /\ saved' = [saved EXCEPT ![k] = v]
    /\ UNCHANGED <<admin, libraries>>

\* PATCH: the running settings alone, for the first of them.
PatchSettings(v) ==
    /\ SignedIn
    /\ running' = [running EXCEPT ![1] = v]
    /\ UNCHANGED <<admin, yaml, libraries, saved, yamlTorn>>

-----------------------------------------------------------------------------
(* create_library, update_library, soft_delete_library; a name is unique   *)
(* among the deleted ones too.                                             *)

CreateLibrary(n) ==
    /\ SignedIn
    /\ n \notin Taken
    /\ libraries' = libraries \cup {<<n, FALSE>>}
    /\ UNCHANGED <<running, admin, yaml, saved, yamlTorn>>

RenameLibrary(n, m) ==
    /\ SignedIn
    /\ <<n, FALSE>> \in libraries
    /\ m \notin Taken
    /\ libraries' = (libraries \ {<<n, FALSE>>}) \cup {<<m, FALSE>>}
    /\ UNCHANGED <<running, admin, yaml, saved, yamlTorn>>

DeleteLibrary(n) ==
    /\ SignedIn
    /\ <<n, FALSE>> \in libraries
    /\ libraries' = (libraries \ {<<n, FALSE>>}) \cup {<<n, TRUE>>}
    /\ UNCHANGED <<running, admin, yaml, saved, yamlTorn>>

-----------------------------------------------------------------------------
CrashIdle ==
    /\ Runs
    /\ running' = Missing
    /\ UNCHANGED <<admin, yaml, libraries, saved, yamlTorn>>

\* lifespan: apply_runtime_settings.
Boot ==
    /\ ~Runs
    /\ running' = Overlaid(Defaults, ReadYaml)
    /\ UNCHANGED <<admin, yaml, libraries, saved, yamlTorn>>

Overrides == {Nothing} \cup UNION {{Single(k, v) : v \in Values} : k \in SettingKeys}

SetupNext ==
    \/ \E account \in Accounts, overrides \in Overrides :
          \/ \E names \in SUBSET Names : Wizard(account, overrides, names)
          \/ WizardCrash(account, overrides)
    \/ \E k \in SettingKeys, v \in Values : PutSettings(k, v) \/ PutCrash(k, v)
    \/ \E v \in Values : PatchSettings(v)
    \/ \E n \in Names : CreateLibrary(n) \/ DeleteLibrary(n) \/ \E m \in Names : RenameLibrary(n, m)
    \/ CrashIdle \/ Boot

SetupSpec == SetupInit /\ [][SetupNext]_setupVars

-----------------------------------------------------------------------------
(* Properties.                                                             *)

\* "Survive container recreation": what the next start reads of every setting is the value
\* last saved, by a PUT or by the wizard that made the file, through any order of PUTs, wizards,
\* crashes and restarts; except after a crash that cut settings.yaml short, which write_text
\* does not keep from happening, and then even settings no request touched may be gone.
SavedSettingsReturn ==
    \A k \in SettingKeys :
        saved[k] # Missing => yamlTorn \/ (k \in DOMAIN ReadYaml /\ ReadYaml[k] = saved[k])

\* "Runtime override" (docs/api.md on PATCH): a start runs with what was last saved of each
\* setting and with the default of one that no PUT and no wizard saved, though a PATCH had
\* changed it and PUTs of other settings wrote the file since; torn files are excused as above.
StartsAsSaved ==
    [][~Runs /\ Runs' => \A k \in SettingKeys :
          yamlTorn \/ running'[k] = (IF saved[k] = Missing THEN Default ELSE saved[k])]_setupVars
=============================================================================
