---------------------------- MODULE Configuration ----------------------------
(***************************************************************************)
(* The settings of the station: ConfigurationService over the files and    *)
(* the NVS of StorageService, the commands of the configuration task, and  *)
(* the factory reset.  Power may be lost between any two of their steps.   *)
(*                                                                         *)
(* A document is the set of edits it contains: an edit that is in no       *)
(* document any more was lost.                                             *)
(***************************************************************************)
EXTENDS Naturals, FiniteSets

CONSTANTS
  Settings,     \* edits submitted to the configuration task,
  SetupSteps,   \* steps of the first set-up, submitted to it too,
  Mappings,     \* edits made under the mutex: a confirmed or removed mapping,
  Calibrations, \* and a calibration of the scale,
  Profiles,     \* and another load cell, which no calibration survives
  Before,       \* what the settings hold at first
  MaxProposals, \* bounds: proposals that wait,
  MaxCuts,      \* power cuts,
  MaxFaults     \* and failing calls of the file system or of NVS

Submitted == Settings \cup SetupSteps \cup Profiles
Edit == Submitted \cup Mappings \cup Calibrations \cup {Before}

\* The kinds of edits are told apart.
ASSUME EditAssumption ==
  Cardinality(Edit) = Cardinality(Settings) + Cardinality(SetupSteps) + Cardinality(Mappings)
                        + Cardinality(Calibrations) + Cardinality(Profiles) + 1
ASSUME BoundAssumption == MaxProposals \in Nat /\ MaxCuts \in Nat /\ MaxFaults \in Nat

VARIABLES
  files,      \* LittleFS: the document, its backup and the staging file
  flash,      \* the partition of LittleFS
  nvs,        \* resetPending, fsProvisioned, fsFormatPending, scaleCal
  phase,      \* StorageService::initialize() and ConfigurationService::initialize()
  blocked,    \* reset_in_progress_
  ram,        \* configuration_, revision_ and what is known of the stored document
  job,        \* persist_locked(): the holder of the configuration mutex
  eraser,     \* the steps of a factory reset
  proposals,  \* queue_ of the configuration task: edited snapshots
  used,       \* history: edits made,
  saved,      \* edits reported as saved,
  gone,       \* edits that a completed reset has erased,
  exposed,    \* one document was left behind by a call that failed: it could not
              \* be read at a start, or not be put back into its place
  cuts, faults

disk == <<files, flash, nvs>>
history == <<used, saved, gone, exposed>>
settings == <<files, flash, nvs, phase, blocked, ram, job, eraser, proposals,
              used, saved, gone, exposed, cuts, faults>>

None == [by |-> "none", edits |-> {}]
TornFile == [by |-> "torn", edits |-> {}]
Document == [by : {"this", "older", "newer"}, edits : SUBSET Edit]
NoFiles == [primary |-> None, backup |-> None, staging |-> None]
IsDocument(f) == f \notin {None, TornFile}
Decodes(f) == f.by \in {"this", "older"}

NoRam == [config |-> {}, revision |-> 0, newer |-> FALSE, mounted |-> FALSE, loaded |-> FALSE]
NoJob == [at |-> "none", to |-> {}, restoring |-> FALSE, had |-> FALSE, edit |-> Before]
FileSteps == {"stage", "unbackup", "demote", "drop", "promote"}
WipeSteps == {"backup", "staging", "primary", "clear", "guard", "unmark"}

FileValue == Document \cup {None, TornFile}
FileRecord == [primary : FileValue, backup : FileValue, staging : FileValue]
RamRecord ==
  [config : SUBSET Edit, revision : Nat, newer : BOOLEAN, mounted : BOOLEAN, loaded : BOOLEAN]
JobRecord ==
  [at : {"none", "legacy"} \cup FileSteps, to : SUBSET Edit, restoring : BOOLEAN,
   had : BOOLEAN, edit : Edit]

FilesTyped == files \in FileRecord /\ flash \in {"erased", "half", "ready"}
NvsTyped ==
  nvs \in [reset : BOOLEAN, provisioned : BOOLEAN, formatting : BOOLEAN, legacy : SUBSET Calibrations]
PhasesTyped ==
  /\ phase \in {"off", "mount", "intent", "format", "formatted", "resume", "guard", "unformat",
                "load", "run"}
  /\ blocked \in BOOLEAN
  /\ eraser \in {"none", "mark", "restart"} \cup WipeSteps
RamTyped == ram \in RamRecord
JobTyped == job \in JobRecord
ProposalsTyped ==
  proposals \subseteq [edit : Submitted, base : SUBSET Edit, revision : Nat, tries : 1 .. 3]
HistoryTyped ==
  used \subseteq Edit /\ saved \subseteq Edit /\ gone \subseteq Edit /\ exposed \in BOOLEAN

SettingsTyped ==
  FilesTyped /\ NvsTyped /\ PhasesTyped /\ RamTyped /\ JobTyped /\ ProposalsTyped /\ HistoryTyped

\* A station out of the box, one that is in use, one that was updated, one that
\* went back to an older firmware.
SettingsInit ==
  /\ \/ files = NoFiles /\ flash = "erased"
     \/ /\ files \in {[NoFiles EXCEPT !.primary = [by |-> b, edits |-> {Before}]] :
                        b \in {"this", "older", "newer"}}
        /\ flash = "ready"
  /\ nvs = [reset |-> FALSE, provisioned |-> flash = "ready", formatting |-> FALSE, legacy |-> {}]
  /\ phase = "off" /\ blocked = FALSE /\ ram = NoRam /\ job = NoJob /\ eraser = "none"
  /\ proposals = {} /\ used = {Before}
  /\ saved = IF Decodes(files.primary) THEN {Before} ELSE {}
  /\ gone = {} /\ exposed = FALSE /\ cuts = 0 /\ faults = 0

-----------------------------------------------------------------------------
(* Power, and calls that fail *)

Works == UNCHANGED faults
Fails == faults < MaxFaults /\ faults' = faults + 1

\* Mutant (ErasedForGood): reset_in_progress_ is not looked at under the mutex.
RefusedUnmounted == ~ram.mounted

\* Every call of the store looks at reset_in_progress_ under its own mutex.
Refused == blocked \/ ~ram.mounted

Down ==
  /\ phase' = "off" /\ blocked' = FALSE /\ ram' = NoRam /\ job' = NoJob
  /\ eraser' = "none" /\ proposals' = {}
  /\ files' \in IF job.at = "stage" /\ ~Refused THEN {files, [files EXCEPT !.staging = TornFile]} ELSE {files}
  /\ UNCHANGED <<flash, nvs>>

PowerCut ==
  /\ phase # "off" /\ cuts < MaxCuts
  /\ cuts' = cuts + 1
  /\ Down
  /\ UNCHANGED <<history, faults>>

\* DeviceControlWorker restarts the station when the reset is over, or when it
\* failed and must be resumed; process_boot_health() when it is still pending.
Restart ==
  /\ \/ eraser = "restart"
     \/ phase = "run" /\ blocked /\ eraser = "none" /\ ram.mounted
  /\ Down
  /\ UNCHANGED <<history, cuts, faults>>

-----------------------------------------------------------------------------
(* StorageService::initialize() *)

PowerOn ==
  /\ phase = "off"
  /\ phase' = "mount" /\ blocked' = nvs.reset
  /\ UNCHANGED <<disk, ram, job, eraser, proposals, history, cuts, faults>>

\* Only a partition that is known to hold nothing may be formatted.
MayFormat == ~nvs.reset /\ ~nvs.provisioned /\ (nvs.formatting \/ flash = "erased")

Mount ==
  /\ phase = "mount"
  /\ \/ /\ flash = "ready" /\ Works
        /\ ram' = [ram EXCEPT !.mounted = TRUE] /\ phase' = "resume"
     \/ /\ IF flash = "ready" THEN Fails ELSE Works
        /\ phase' = IF MayFormat THEN IF nvs.formatting THEN "format" ELSE "intent" ELSE "resume"
        /\ UNCHANGED ram
  /\ UNCHANGED <<disk, blocked, job, eraser, proposals, history, cuts>>

\* The durable intent to format, for a retry after a power cut.
Intend ==
  /\ phase = "intent"
  /\ \/ Works /\ nvs' = [nvs EXCEPT !.formatting = TRUE] /\ phase' = "format"
     \/ Fails /\ UNCHANGED nvs /\ phase' = "resume"
  /\ UNCHANGED <<files, flash, blocked, ram, job, eraser, proposals, history, cuts>>

Format ==
  /\ phase = "format"
  /\ files' = NoFiles /\ flash' = "half" /\ phase' = "formatted"
  /\ UNCHANGED <<nvs, blocked, ram, job, eraser, proposals, history, cuts, faults>>

Formatted ==
  /\ phase = "formatted"
  /\ \/ Works /\ flash' = "ready" /\ ram' = [ram EXCEPT !.mounted = TRUE]
     \/ Fails /\ UNCHANGED <<flash, ram>>
  /\ phase' = "resume"
  /\ UNCHANGED <<files, nvs, blocked, job, eraser, proposals, history, cuts>>

\* Mutant (ResetEnds): a start does not look at the marker.
ResumeNever ==
  /\ phase = "resume" /\ eraser = "none"
  /\ phase' = (IF ram.mounted THEN "guard" ELSE "load")
  /\ UNCHANGED <<disk, blocked, ram, job, eraser, proposals, history, cuts, faults>>

\* A reset that was interrupted comes first.
Resume ==
  /\ phase = "resume" /\ eraser = "none"
  /\ IF nvs.reset
       THEN IF ram.mounted THEN eraser' = "backup" /\ UNCHANGED phase
                           ELSE phase' = "load" /\ UNCHANGED eraser
       ELSE phase' = (IF ram.mounted THEN "guard" ELSE "load") /\ UNCHANGED eraser
  /\ UNCHANGED <<disk, blocked, ram, job, proposals, history, cuts, faults>>

Guard ==
  /\ phase = "guard"
  /\ \/ Works /\ nvs' = [nvs EXCEPT !.provisioned = TRUE] /\ phase' = "unformat"
     \/ Fails /\ UNCHANGED nvs /\ phase' = "load"
  /\ UNCHANGED <<files, flash, blocked, ram, job, eraser, proposals, history, cuts>>

Unformat ==
  /\ phase = "unformat"
  /\ \/ Works /\ nvs' = [nvs EXCEPT !.formatting = FALSE]
     \/ nvs.formatting /\ Fails /\ UNCHANGED nvs
  /\ phase' = "load"
  /\ UNCHANGED <<files, flash, blocked, ram, job, eraser, proposals, history, cuts>>

-----------------------------------------------------------------------------
(* persist_locked(), and the two ways a document reaches its place *)

Saves(edits, edit, at) == job' = [NoJob EXCEPT !.at = at, !.to = edits, !.edit = edit]

Booting == phase = "load"

\* Another load cell takes the calibration with it, a calibration the last one.
Superseded(e) == IF e \in Profiles \cup Calibrations THEN Calibrations \ {e} ELSE {}
Applied(edits, e) == (edits \ Superseded(e)) \cup {e}

\* What the service does with the answer of the store.
Saved ==
  /\ job' = NoJob
  /\ ram' = [ram EXCEPT !.config = job.to, !.revision = @ + 1, !.loaded = TRUE]
  /\ phase' = "run"
  /\ saved' = (saved \ Superseded(job.edit)) \cup (job.to \cap {job.edit})
NotSaved ==
  /\ job' = NoJob /\ phase' = "run" /\ exposed' = (exposed \/ job.restoring)
  /\ UNCHANGED <<ram, saved>>

\* The copy of the calibration in NVS is written before the document that has
\* it, and removed before the document that has none.
SaveLegacy ==
  /\ job.at = "legacy"
  /\ \/ /\ ~blocked /\ Works
        /\ nvs' = [nvs EXCEPT !.legacy = job.to \cap Calibrations]
        /\ job' = [job EXCEPT !.at = "stage"]
        /\ UNCHANGED <<ram, saved, exposed, phase>>
     \/ (IF blocked THEN Works ELSE Fails) /\ NotSaved /\ UNCHANGED nvs
  /\ UNCHANGED <<files, flash, blocked, eraser, proposals, used, gone, cuts>>

\* The mutex of the store, which the eraser holds from its marker to its end.
MutexFree == eraser \in {"none", "mark", "restart"}

\* The staging file is written and read back.
Stage ==
  /\ job.at = "stage" /\ MutexFree
  /\ \/ /\ ~Refused /\ Works
        /\ files' = [files EXCEPT !.staging = [by |-> "this", edits |-> job.to]]
        /\ job' = [job EXCEPT !.at = IF job.restoring THEN "drop" ELSE "unbackup"]
        /\ UNCHANGED <<ram, saved, exposed, phase>>
     \/ /\ ~Refused /\ Fails
        /\ files' = [files EXCEPT !.staging = TornFile]
        /\ NotSaved
     \/ Refused /\ Works /\ NotSaved /\ UNCHANGED files
  /\ UNCHANGED <<flash, nvs, blocked, eraser, proposals, used, gone, cuts>>

Unbackup ==
  /\ job.at = "unbackup"
  /\ \/ /\ Works
        /\ files' = [files EXCEPT !.backup = None]
        /\ job' = [job EXCEPT !.at = "demote", !.had = files.primary # None]
        /\ UNCHANGED <<ram, saved, exposed, phase>>
     \/ files.backup # None /\ Fails /\ NotSaved /\ UNCHANGED files
  /\ UNCHANGED <<flash, nvs, blocked, eraser, proposals, used, gone, cuts>>

Demote ==
  /\ job.at = "demote"
  /\ \/ /\ Works
        /\ files' = IF job.had THEN [files EXCEPT !.backup = files.primary, !.primary = None] ELSE files
        /\ job' = [job EXCEPT !.at = "promote"]
        /\ UNCHANGED <<ram, saved, exposed, phase>>
     \/ job.had /\ Fails /\ NotSaved /\ UNCHANGED files
  /\ UNCHANGED <<flash, nvs, blocked, eraser, proposals, used, gone, cuts>>

\* restore_configuration_document(): the backup is the only good copy.
Drop ==
  /\ job.at = "drop"
  /\ \/ /\ Works
        /\ files' = [files EXCEPT !.primary = None]
        /\ job' = [job EXCEPT !.at = "promote"]
        /\ UNCHANGED <<ram, saved, exposed, phase>>
     \/ files.primary # None /\ Fails /\ NotSaved /\ UNCHANGED files
  /\ UNCHANGED <<flash, nvs, blocked, eraser, proposals, used, gone, cuts>>

\* The commit; when it fails, the old document is put back, if that works.
Promote ==
  /\ job.at = "promote"
  /\ \/ /\ Works
        /\ files' = [files EXCEPT !.primary = files.staging, !.staging = None]
        /\ Saved /\ UNCHANGED exposed
     \/ /\ Fails /\ NotSaved
        /\ files' = IF job.had THEN [files EXCEPT !.primary = files.backup, !.backup = None] ELSE files
     \/ /\ job.had /\ faults + 2 \leq MaxFaults /\ faults' = faults + 2
        /\ job' = NoJob /\ phase' = "run" /\ exposed' = TRUE
        /\ UNCHANGED <<files, ram, saved>>
  /\ UNCHANGED <<flash, nvs, blocked, eraser, proposals, used, gone, cuts>>

-----------------------------------------------------------------------------
(* ConfigurationService::initialize() *)

Runs(config, loaded, newer) ==
  /\ ram' = [ram EXCEPT !.config = config, !.loaded = loaded, !.newer = newer,
               !.revision = IF loaded THEN 1 ELSE 0]
  /\ phase' = "run" /\ UNCHANGED job
\* The settings run as loaded even if they cannot be saved again.
RunsAndSaves(config, restoring) ==
  /\ ram' = [ram EXCEPT !.config = config, !.loaded = TRUE]
  /\ job' = [NoJob EXCEPT !.at = "stage", !.to = config, !.restoring = restoring]
  /\ UNCHANGED phase

\* Mutant (NothingLost): a document that does not decode is replaced, whoever wrote it.
WrittenByNewerIgnored(f) == FALSE
WrittenByNewer(f) == IsDocument(f) /\ f.by = "newer"

\* load_scale_calibration()
LegacyCalibration == nvs.legacy

\* The document, else its backup, else a calibration of an old firmware.
Loads(primary, readable) ==
  CASE readable /\ Decodes(primary) ->
         IF primary.by = "older" THEN RunsAndSaves(primary.edits, FALSE)
                                 ELSE Runs(primary.edits, TRUE, FALSE)
    [] readable /\ ~Decodes(primary) /\ WrittenByNewer(primary) -> Runs({}, FALSE, TRUE)
    [] OTHER ->
         IF Decodes(files.backup) THEN RunsAndSaves(files.backup.edits, TRUE)
         ELSE IF readable /\ primary = None /\ files.backup = None THEN RunsAndSaves(LegacyCalibration, FALSE)
         ELSE Runs({}, FALSE, WrittenByNewer(files.backup))

LoadSettings ==
  /\ Booting /\ job = NoJob
  /\ IF Refused
       THEN Works /\ Runs({}, FALSE, FALSE) /\ UNCHANGED exposed
       ELSE \/ Works /\ Loads(files.primary, TRUE) /\ UNCHANGED exposed
            \/ files.primary # None /\ Fails /\ Loads(files.primary, FALSE) /\ exposed' = TRUE
  /\ UNCHANGED <<disk, blocked, eraser, proposals, used, saved, gone, cuts>>

-----------------------------------------------------------------------------
(* Edits *)

Idle == phase = "run" /\ job = NoJob

\* apply_configuration_patch() on a versioned snapshot.
Proposal(e) == [edit |-> e, base |-> ram.config, revision |-> ram.revision, tries |-> 1]

\* A browser or the touch screen edits a snapshot and submits it.
Propose ==
  /\ phase = "run" /\ Cardinality(proposals) < MaxProposals
  /\ \E e \in Submitted \ used :
       /\ used' = used \cup {e}
       /\ proposals' = proposals \cup {Proposal(e)}
  /\ UNCHANGED <<disk, phase, blocked, ram, job, eraser, saved, gone, exposed, cuts, faults>>

\* replace_if_revision().
Current(p) == p.revision = ram.revision

ClearsLegacy(to) == to \cap Calibrations = {} /\ (ram.config \cap Calibrations # {} \/ \E e \in Profiles : e \in to \ ram.config)

Replace ==
  /\ Idle
  /\ \E p \in proposals :
       LET to == Applied(p.base, p.edit)
       IN /\ Current(p)
          /\ proposals' = proposals \ {p}
          /\ IF ram.newer THEN UNCHANGED job
             ELSE Saves(to, p.edit, IF ClearsLegacy(to) THEN "legacy" ELSE "stage")
  /\ UNCHANGED <<disk, phase, blocked, ram, eraser, history, cuts, faults>>

\* A conflict ends a submitted replacement; a step of the set-up starts again
\* from the latest settings, three times.
Conflict ==
  /\ Idle
  /\ \E p \in proposals :
       /\ ~Current(p)
       /\ proposals' = IF p.edit \in SetupSteps /\ p.tries < 3
            THEN (proposals \ {p}) \cup
                   {[Proposal(p.edit) EXCEPT !.tries = p.tries + 1]}
            ELSE proposals \ {p}
  /\ UNCHANGED <<disk, phase, blocked, ram, job, eraser, history, cuts, faults>>

\* save_scale_calibration(), sync_ and clear_verified_spool_identity_mapping():
\* the edit is made and saved under one lock.
EditLocked ==
  /\ Idle /\ ~ram.newer
  /\ \E e \in (Mappings \cup Calibrations) \ used :
       /\ used' = used \cup {e}
       /\ Saves(Applied(ram.config, e), e, IF e \in Calibrations THEN "legacy" ELSE "stage")
  /\ UNCHANGED <<disk, phase, blocked, ram, eraser, proposals, saved, gone, exposed, cuts, faults>>

-----------------------------------------------------------------------------
(* The factory reset *)

\* factory_reset_device_data(): first the atomic flag, then the mutex, then the
\* durable marker.
StartReset ==
  /\ phase = "run" /\ ~blocked /\ eraser = "none" /\ ram.mounted
  /\ blocked' = TRUE /\ eraser' = "mark"
  /\ UNCHANGED <<disk, phase, ram, job, proposals, history, cuts, faults>>

Mark ==
  /\ eraser = "mark" /\ job.at \notin FileSteps \ {"stage"}
  /\ \/ Works /\ nvs' = [nvs EXCEPT !.reset = TRUE] /\ eraser' = "backup" /\ UNCHANGED blocked
     \/ Fails /\ eraser' = "none" /\ blocked' = FALSE /\ UNCHANGED nvs
  /\ UNCHANGED <<files, flash, phase, ram, job, proposals, history, cuts>>

\* A step failed: at run time the station restarts, at a start it goes on blocked.
Stops == IF phase = "resume" THEN eraser' = "none" /\ phase' = "load" ELSE eraser' = "restart" /\ UNCHANGED phase

\* remove_configuration_documents(): the document itself goes last.
Remove ==
  /\ eraser \in {"backup", "staging", "primary"}
  /\ \/ /\ Works
        /\ files' = [files EXCEPT ![eraser] = None]
        /\ eraser' = CASE eraser = "backup" -> "staging"
                       [] eraser = "staging" -> "primary"
                       [] OTHER -> "clear"
        /\ UNCHANGED phase
     \/ files[eraser] # None /\ Fails /\ Stops /\ UNCHANGED files
  /\ UNCHANGED <<flash, nvs, blocked, ram, job, proposals, history, cuts>>

ClearNvs ==
  /\ eraser \in {"clear", "guard"}
  /\ \/ /\ Works
        /\ nvs' = IF eraser = "clear" THEN [nvs EXCEPT !.legacy = {}] ELSE [nvs EXCEPT !.provisioned = TRUE]
        /\ eraser' = IF eraser = "clear" THEN "guard" ELSE "unmark"
        /\ UNCHANGED phase
     \/ Fails /\ Stops /\ UNCHANGED nvs
  /\ UNCHANGED <<files, flash, blocked, ram, job, proposals, history, cuts>>

\* The marker goes last.  At run time nothing may be saved until the restart.
Unmark ==
  /\ eraser = "unmark"
  /\ \/ /\ Works
        /\ nvs' = [nvs EXCEPT !.reset = FALSE]
        /\ gone' = used /\ saved' = {}
        /\ IF phase = "resume" THEN eraser' = "none" /\ blocked' = FALSE /\ phase' = "unformat"
                            ELSE eraser' = "restart" /\ UNCHANGED <<blocked, phase>>
     \/ Fails /\ Stops /\ UNCHANGED <<nvs, gone, saved, blocked>>
  /\ UNCHANGED <<files, flash, ram, job, proposals, used, exposed, cuts>>

-----------------------------------------------------------------------------

Boot == PowerOn \/ Mount \/ Intend \/ Format \/ Formatted \/ Resume \/ Guard \/ Unformat \/ LoadSettings
Persist == SaveLegacy \/ Stage \/ Unbackup \/ Demote \/ Drop \/ Promote
Reset == Mark \/ Remove \/ ClearNvs \/ Unmark \/ Restart

SettingsNext ==
  \/ Boot \/ Persist \/ Reset
  \/ Propose \/ Replace \/ Conflict \/ EditLocked \/ StartReset \/ PowerCut

SettingsSpec == SettingsInit /\ [][SettingsNext]_settings

\* The tasks go on.
FairSpec == SettingsSpec /\ WF_settings(Boot) /\ WF_settings(Persist) /\ WF_settings(Reset)

-----------------------------------------------------------------------------
(* Properties *)

\* What the next start will read.
Readable == IF Decodes(files.primary) THEN files.primary.edits
            ELSE IF Decodes(files.backup) THEN files.backup.edits ELSE {}

\* Every edit that was reported as saved is in the settings that run and in
\* those the next start will read: no save of another task, no failing call and
\* no power cut takes it away (configuration_service.cpp:890-996,
\* storage_service.cpp:446-489).
Kept ==
  ~nvs.reset /\ ~exposed =>
    /\ saved \subseteq Readable
    /\ phase = "run" /\ ram.loaded => saved \subseteq ram.config

\* A document of a newer firmware is never touched by this one, but by a
\* factory reset (configuration_service.cpp:733-757, 880-886).
NewerKept ==
  [][files.primary.by = "newer" /\ files'.primary # files.primary => nvs.reset \/ exposed]_settings

\* What a completed factory reset has erased is found nowhere again, whoever was
\* saving at the time and wherever power was cut (storage_service.cpp:522-560).
ErasedForGood ==
  /\ \A name \in {"primary", "backup", "staging"} :
       IsDocument(files[name]) => files[name].edits \cap gone = {}
  /\ nvs.legacy \cap gone = {}

\* A file system that holds something is never formatted (storage_service.cpp:150-200).
NeverFormatted == [][phase = "format" /\ phase' = "formatted" => files = NoFiles]_settings

\* A reset that was begun is completed, over restarts (device_control_worker.cpp:104-146,
\* boot_health_policy.cpp:50-60).
ResetEnds == []<>(~nvs.reset \/ (phase = "run" /\ ~ram.mounted))

\* Nothing that was stored, by this firmware or another, is lost but by a reset
\* (storage_service.cpp:150-200, 446-489).
NothingLost == []SettingsTyped /\ []Kept /\ NewerKept /\ NeverFormatted
=============================================================================
