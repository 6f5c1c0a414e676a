----------------------------- MODULE ModelInstall -----------------------------
(***************************************************************************)
(* The local model: how a release is downloaded, verified and published on *)
(* disk, and how the settings adopt it.                                    *)
(*                                                                         *)
(* A release is downloaded into a staging directory, verified, given a     *)
(* receipt and renamed to its final place, which is never written again.   *)
(* The directory is named by the release version, which a later catalog    *)
(* may use again for other files.  When the model is in place the settings *)
(* are saved with all that was edited meanwhile, and the application       *)
(* restarts; a restart ends a download that is under way, as a crash does. *)
(*                                                                         *)
(* A file's content is reduced to the catalog it belongs to, or to being   *)
(* wrong.  The settings besides the model folder are reduced to whether    *)
(* they are acceptable.                                                    *)
(***************************************************************************)
EXTENDS Integers, FiniteSets

CONSTANTS
  Releases,     \* catalogs the server may offer
  Versions,
  VersionOf,    \* release_version of a catalog
  Files,        \* the files of a release
  Nowhere,      \* no directory, no catalog, no job
  MaxWishes,    \* bound on what the user does
  MaxAccidents  \* bound on failures, crashes and damage

ASSUME InstallAssumption ==
  /\ VersionOf \in [Releases -> Versions] /\ Nowhere \notin Releases \cup Versions
  /\ IsFiniteSet(Files) /\ Files # {} /\ {MaxWishes, MaxAccidents} \subseteq Nat
  /\ Nowhere \notin [receipt : Releases, files : [Files -> Releases \cup {"wrong"}]]
  /\ Nowhere \notin [at : {"download", "inspect"}, catalog : Releases,
                     files : UNION {[F -> Releases] : F \in SUBSET Files}]

VARIABLES
  models,      \* install_root: the directory of each version
  leftovers,   \* staging directories nobody owns any more
  configured,  \* the saved settings: the model folder
  settings,    \* SettingsScreen
  job,         \* TaskCompletionModelManager::install
  saving,      \* the settings that are being saved
  wishes, accidents,
  damaged,     \* versions whose directory was damaged from outside (observation)
  restarts     \* starts after the first (observation)

installVars == <<models, leftovers, configured, settings, job, saving, wishes, accidents,
                 damaged, restarts>>

Draft(folder, acceptable) == [folder |-> folder, acceptable |-> acceptable]

Fresh(folder) == [state |-> "checking", catalog |-> Nowhere, draft |-> Draft(folder, TRUE)]

InstallInit ==
  /\ models = [v \in Versions |-> Nowhere] /\ leftovers = 0 /\ configured = Nowhere
  /\ settings = Fresh(Nowhere) /\ job = Nowhere /\ saving = Nowhere
  /\ wishes = 0 /\ accidents = 0 /\ damaged = {} /\ restarts = 0

Wish == wishes < MaxWishes /\ wishes' = wishes + 1
Accident == accidents < MaxAccidents /\ accidents' = accidents + 1

-----------------------------------------------------------------------------
(* The catalog.                                                            *)

Busy == settings.state \in {"checking", "installing"}

RefreshCatalog ==
  /\ ~Busy
  /\ Wish
  /\ settings' = [settings EXCEPT !.state = "checking"]
  /\ UNCHANGED <<models, leftovers, configured, job, saving, accidents, damaged, restarts>>

(* A failed check keeps the catalog of an earlier one.                     *)
CatalogArrives ==
  /\ settings.state = "checking"
  /\ \/ /\ \E c \in Releases : settings' = [settings EXCEPT !.state = "ready", !.catalog = c]
        /\ UNCHANGED accidents
     \/ Accident /\ settings' = [settings EXCEPT !.state = "failed"]
  /\ UNCHANGED <<models, leftovers, configured, job, saving, wishes, damaged, restarts>>

-----------------------------------------------------------------------------
(* install, on a background thread.                                        *)

InstallLatest ==
  /\ ~Busy /\ saving = Nowhere /\ settings.catalog # Nowhere
  /\ Wish
  /\ settings' = [settings EXCEPT !.state = "installing"]
  /\ job' = [at |-> IF models[VersionOf[settings.catalog]] = Nowhere THEN "download"
                    ELSE "inspect",
             catalog |-> settings.catalog,
             files |-> [f \in {} |-> settings.catalog]]
  /\ UNCHANGED <<models, leftovers, configured, saving, accidents, damaged, restarts>>

(* The staging directory goes with the error.                              *)
InstallFails ==
  /\ settings' = [settings EXCEPT !.state = "failed"]
  /\ job' = Nowhere
  /\ UNCHANGED <<models, leftovers, configured, saving, wishes, damaged, restarts>>

(* download_file: what arrives is compared with size and digest.           *)
Fetched(f, content) ==
  [g \in DOMAIN job.files \cup {f} |-> IF g = f THEN content ELSE job.files[g]]
(* The digests of the manifest are verified once more, which finds nothing *)
(* that these did not.                                                     *)
DownloadInPlace(f) ==
  /\ job # Nowhere /\ job.at = "download" /\ f \notin DOMAIN job.files
  /\ \/ /\ job' = [job EXCEPT !.files = Fetched(f, job.catalog)]
        /\ models' = [models EXCEPT ![VersionOf[job.catalog]] =
             [receipt |-> job.catalog,
              files |-> [g \in Files |-> IF g \in DOMAIN job'.files THEN job'.files[g]
                                        ELSE "wrong"]]]
        /\ UNCHANGED <<leftovers, configured, settings, saving, wishes, accidents, damaged,
                       restarts>>
     \/ Accident /\ InstallFails
Download(f) ==
  /\ job # Nowhere /\ job.at = "download" /\ f \notin DOMAIN job.files
  /\ \/ /\ job' = [job EXCEPT !.files = Fetched(f, job.catalog)]
        /\ UNCHANGED <<models, leftovers, configured, settings, saving, wishes, accidents,
                       damaged, restarts>>
     \/ Accident /\ InstallFails

(* The receipt is written and the directory renamed.                       *)
PublishModel ==
  /\ job # Nowhere /\ job.at = "download" /\ DOMAIN job.files = Files
  /\ \/ /\ models' = [models EXCEPT ![VersionOf[job.catalog]] =
                        [receipt |-> job.catalog, files |-> job.files]]
        /\ job' = [job EXCEPT !.at = "inspect"]
        /\ UNCHANGED <<leftovers, configured, settings, saving, wishes, accidents, damaged,
                       restarts>>
     \/ Accident /\ InstallFails

WholeFor(v, c) ==
  models[v] # Nowhere /\ models[v].receipt = c /\ \A f \in Files : models[v].files[f] = c

(* save_and_restart: what is not acceptable, changes nothing or names a    *)
(* folder that does not verify is not saved; nor is anything while another *)
(* save is under way.                                                      *)
Runnable(folder) ==
  folder # Nowhere => models[folder] # Nowhere /\ WholeFor(folder, models[folder].receipt)

Savable(draft) ==
  /\ saving = Nowhere
  /\ draft.acceptable /\ draft # Draft(configured, TRUE) /\ Runnable(draft.folder)

(* inspect_catalog_install and what the screen makes of its result: the    *)
(* model is adopted together with everything else that was edited.         *)
Inspect ==
  /\ job # Nowhere /\ job.at = "inspect"
  /\ LET v == VersionOf[job.catalog]
         draft == [settings.draft EXCEPT !.folder = v]
     IN  IF WholeFor(v, job.catalog)
         THEN /\ settings' = [settings EXCEPT !.state = "ready", !.draft = draft]
              /\ saving' = IF Savable(draft) THEN draft ELSE saving
         ELSE settings' = [settings EXCEPT !.state = "failed"] /\ UNCHANGED saving
  /\ job' = Nowhere
  /\ UNCHANGED <<models, leftovers, configured, wishes, accidents, damaged, restarts>>

-----------------------------------------------------------------------------
(* The settings.                                                           *)

EditSettings ==
  /\ Wish
  /\ \E folder \in {Nowhere} \cup {v \in Versions : models[v] # Nowhere}, ok \in BOOLEAN :
       settings' = [settings EXCEPT !.draft = Draft(folder, ok)]
  /\ UNCHANGED <<models, leftovers, configured, job, saving, accidents, damaged, restarts>>

DiscardChanges ==
  /\ saving = Nowhere
  /\ Wish
  /\ settings' = [settings EXCEPT !.draft = Draft(configured, TRUE)]
  /\ UNCHANGED <<models, leftovers, configured, job, saving, accidents, damaged, restarts>>

SaveSettings ==
  /\ Savable(settings.draft)
  /\ Wish
  /\ saving' = settings.draft
  /\ UNCHANGED <<models, leftovers, configured, settings, job, accidents, damaged, restarts>>

(* The application ends, whatever it is doing, and starts again.           *)
StartedAgain(folder) ==
  /\ settings' = Fresh(folder) /\ saving' = Nowhere /\ job' = Nowhere
  /\ leftovers' = IF job # Nowhere /\ job.at = "download" THEN leftovers + 1 ELSE leftovers
  /\ restarts' = restarts + 1
  /\ UNCHANGED <<models, wishes, damaged>>

SaveEnds ==
  /\ saving # Nowhere
  /\ \/ configured' = saving.folder /\ StartedAgain(saving.folder) /\ UNCHANGED accidents
     \/ /\ Accident
        /\ saving' = Nowhere
        /\ UNCHANGED <<models, leftovers, configured, settings, job, wishes, damaged, restarts>>

CrashApplication ==
  Accident /\ StartedAgain(configured) /\ UNCHANGED configured

(* Somebody else changes a file of a model.                                *)
DamageModel ==
  /\ Accident
  /\ \E v \in Versions, f \in Files :
       /\ models[v] # Nowhere
       /\ models' = [models EXCEPT ![v].files[f] = "wrong"]
       /\ damaged' = damaged \cup {v}
  /\ UNCHANGED <<leftovers, configured, settings, job, saving, wishes, restarts>>

-----------------------------------------------------------------------------
InstallNext ==
  \/ RefreshCatalog \/ CatalogArrives \/ InstallLatest
  \/ Inspect \/ PublishModel \/ \E f \in Files : Download(f)
  \/ EditSettings \/ DiscardChanges \/ SaveSettings \/ SaveEnds
  \/ CrashApplication \/ DamageModel

InstallSpec == InstallInit /\ [][InstallNext]_installVars

-----------------------------------------------------------------------------
(* Properties.                                                             *)

InstallTypeOK ==
  /\ settings.state \in {"checking", "ready", "failed", "installing"}
  /\ settings.catalog \in Releases \cup {Nowhere}
  /\ configured \in Versions \cup {Nowhere} /\ leftovers \in 0..restarts

(* Whatever ends a download, a model that is in its place is whole and is  *)
(* what its receipt says, unless somebody damaged it; the settings name a  *)
(* model that is in its place; and the screen says that it installs        *)
(* exactly as long as it does.                                             *)
ModelsAreWhole ==
  /\ InstallTypeOK
  /\ \A v \in Versions \ damaged : Runnable(v) \/ models[v] = Nowhere
  /\ \A v \in Versions : models[v] # Nowhere => VersionOf[models[v].receipt] = v
  /\ configured # Nowhere => models[configured] # Nowhere
  /\ settings.state = "installing" <=> job # Nowhere

===============================================================================
