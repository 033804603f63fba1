---------------------------- MODULE FlashProofs ----------------------------
(* What flash keeps, for every set of records and of edits: the two files  *)
(* of the recovery record implement one durable record; of the settings,   *)
(* nothing that was saved is lost and nothing that was erased comes back.  *)
EXTENDS JournalFile, Configuration, TLAPS

-----------------------------------------------------------------------------
(* The recovery record *)

\* What a step of save() has reached.
SaveInv ==
  /\ Saving => given \in Record
  /\ pc = "rename" => stage = given
  /\ pc = "renamed" => live = given

Inv == TypeOK /\ SaveInv

LEMMA InvInit == Init => Inv
BY DEF Init, Inv, TypeOK, SaveInv, Saving, File

LEMMA InvStep == Inv /\ [Next]_vars => Inv'
<1> SUFFICES ASSUME Inv, [Next]_vars PROVE Inv'
  OBVIOUS
<1> USE DEF Inv, TypeOK, SaveInv, Saving, File, Return
<1>1. ASSUME NEW r \in Record, Save(r) PROVE Inv'
  BY <1>1 DEF Save
<1>2. CASE Open
  BY <1>2 DEF Open
<1>3. CASE Write
  BY <1>3 DEF Write
<1>4. CASE Verify
  BY <1>4 DEF Verify
<1>5. CASE Rename
  BY <1>5 DEF Rename
<1>6. CASE SaveTrue
  BY <1>6 DEF SaveTrue
<1>7. CASE SaveFalse
  BY <1>7 DEF SaveFalse
<1>8. CASE Clear
  BY <1>8 DEF Clear
<1>9. CASE RemoveRecord
  BY <1>9 DEF RemoveRecord
<1>10. CASE RemoveStaging
  BY <1>10 DEF RemoveStaging
<1>11. CASE ClearAnswer
  BY <1>11 DEF ClearAnswer
<1>12. CASE Load
  BY <1>12 DEF Load
<1>13. CASE PowerLoss
  BY <1>13 DEF PowerLoss
<1>14. CASE UNCHANGED vars
  BY <1>14 DEF vars
<1> QED
  BY <1>1, <1>2, <1>3, <1>4, <1>5, <1>6, <1>7, <1>8, <1>9, <1>10, <1>11, <1>12, <1>13, <1>14
  DEF Next

\* Every answer and both files keep their type.
THEOREM JournalTyped == Spec => []TypeOK
<1>1. Inv => TypeOK
  BY DEF Inv
<1> QED BY <1>1, InvInit, InvStep, PTL DEF Spec

\* Every step of the files is a step of the durable record, or none.
LEMMA StepMaps == ValuesAssumption /\ Inv /\ Inv' /\ [Next]_vars => [D!Next]_D!vars
<1> SUFFICES ASSUME Inv, Inv', [Next]_vars PROVE [D!Next]_D!vars
  OBVIOUS
<1> USE ValuesAssumption DEF Inv, TypeOK, SaveInv, Saving, Clearing, File, Return, D!vars, D!Idle
<1>1. ASSUME NEW r \in Record, Save(r) PROVE D!Begin("save", r)
  BY <1>1 DEF Save, D!Begin
<1>2. CASE Open
  BY <1>2 DEF Open
<1>3. CASE Write
  BY <1>3 DEF Write
<1>4. CASE Verify
  BY <1>4 DEF Verify
<1>5. ASSUME Rename PROVE D!Take
  BY <1>5 DEF Rename, D!Take
<1>6. ASSUME SaveTrue PROVE D!Succeed
  BY <1>6 DEF SaveTrue, D!Succeed
<1>7. ASSUME SaveFalse PROVE D!Refuse
  BY <1>7 DEF SaveFalse, D!Refuse
<1>8. ASSUME Clear PROVE D!Begin("clear", NoRecord)
  BY <1>8 DEF Clear, D!Begin
<1>9. ASSUME RemoveRecord PROVE D!Take \/ UNCHANGED D!vars
  BY <1>9 DEF RemoveRecord, D!Take
<1>10. CASE RemoveStaging
  BY <1>10 DEF RemoveStaging
<1>11. ASSUME ClearAnswer PROVE D!Succeed \/ D!Refuse
  BY <1>11 DEF ClearAnswer, D!Succeed, D!Refuse
<1>12. ASSUME Load PROVE D!Load
  BY <1>12 DEF Load, D!Load
<1>13. ASSUME PowerLoss PROVE D!PowerLoss
  BY <1>13 DEF PowerLoss, D!PowerLoss
<1>14. CASE UNCHANGED vars
  BY <1>14 DEF vars
<1> QED
  BY <1>1, <1>2, <1>3, <1>4, <1>5, <1>6, <1>7, <1>8, <1>9, <1>10, <1>11, <1>12, <1>13, <1>14
  DEF Next, D!Next

\* save(), clear() and load() over two files are those of one durable record,
\* through any failure and any power loss.
THEOREM Implements == Spec => Durable
<1>1. Init => D!Init
  BY ValuesAssumption DEF Init, D!Init, D!Idle, File, Saving, Clearing
<1>2. Inv /\ Inv' /\ [Next]_vars => [D!Next]_D!vars
  BY StepMaps, ValuesAssumption
<1> QED BY <1>1, <1>2, InvInit, InvStep, PTL DEF Spec, Durable, D!Spec

-----------------------------------------------------------------------------
(* The settings: types *)

LEMMA FileValues ==
  /\ None \in FileValue /\ TornFile \in FileValue /\ NoFiles \in FileRecord
  /\ \A edits \in SUBSET Edit : [by |-> "this", edits |-> edits] \in FileValue
  /\ \A f \in FileValue : f.edits \in SUBSET Edit
BY DEF FileValue, FileRecord, NoFiles, Document, None, TornFile, Decodes

LEMMA Edits ==
  /\ Submitted \subseteq Edit /\ Mappings \subseteq Edit /\ Calibrations \subseteq Edit
  /\ Before \in Edit /\ SetupSteps \subseteq Submitted
  /\ \A edits \in SUBSET Edit, e \in Edit : Applied(edits, e) \in SUBSET Edit
BY DEF Edit, Submitted, Applied

LEMMA Blanks == NoJob \in JobRecord /\ NoRam \in RamRecord /\ NoJob.at = "none"
BY Edits DEF NoJob, NoRam, JobRecord, RamRecord

LEMMA SavesTyped ==
  ASSUME NEW edits \in SUBSET Edit, NEW e \in Edit, NEW at \in {"legacy", "stage"},
         Saves(edits, e, at)
  PROVE  job' \in JobRecord /\ job'.at = at /\ job'.to = edits /\ job'.edit = e
BY DEF Saves, NoJob, JobRecord, FileSteps

\* What ConfigurationService::initialize() comes to, whatever it finds.
LEMMA Loaded ==
  ASSUME SettingsTyped, LoadSettings
  PROVE  \E config \in SUBSET Edit, newer \in BOOLEAN, loaded \in BOOLEAN, restoring \in BOOLEAN :
           \/ Runs(config, loaded, newer)
           \/ RunsAndSaves(config, restoring)
<1>1. {files.primary.edits, files.backup.edits, LegacyCalibration} \subseteq SUBSET Edit
  BY FileValues, Edits DEF SettingsTyped, FilesTyped, FileRecord, NvsTyped, LegacyCalibration
<1>2. WrittenByNewer(files.backup) \in BOOLEAN /\ {} \in SUBSET Edit
  BY DEF WrittenByNewer
<1> QED BY <1>1, <1>2 DEF LoadSettings, Loads

LEMMA LoadTyped ==
  ASSUME SettingsTyped, LoadSettings
  PROVE  RamTyped' /\ JobTyped'
<1>1. PICK config \in SUBSET Edit, newer \in BOOLEAN, loaded \in BOOLEAN, restoring \in BOOLEAN :
           \/ Runs(config, loaded, newer)
           \/ RunsAndSaves(config, restoring)
  BY Loaded
<1>2. RamTyped'
  <2> ram \in RamRecord
    BY DEF SettingsTyped, RamTyped, RamRecord
  <2>1. CASE Runs(config, loaded, newer)
    <3> DEFINE revision == IF loaded THEN 1 ELSE 0
    <3>1. ram' = [config |-> config, revision |-> revision, newer |-> newer,
                  mounted |-> ram.mounted, loaded |-> loaded]
      BY <2>1 DEF Runs, RamRecord
    <3>2. revision \in Nat
      OBVIOUS
    <3> HIDE DEF revision
    <3> QED BY <3>1, <3>2 DEF RamTyped, RamRecord
  <2>2. CASE RunsAndSaves(config, restoring)
    BY <2>2 DEF RunsAndSaves, RamTyped, RamRecord
  <2> QED BY <1>1, <2>1, <2>2
<1>3. NoJob \in JobRecord /\ job \in JobRecord /\ "stage" \in FileSteps
  BY Blanks DEF SettingsTyped, JobTyped, JobRecord, FileSteps
<1>4. JobTyped'
  BY <1>1, <1>3 DEF JobTyped, JobRecord, Runs, RunsAndSaves
<1> QED BY <1>2, <1>4

LEMMA PromoteTyped == ASSUME SettingsTyped, Promote PROVE RamTyped'
<1> USE DEF SettingsTyped, RamTyped, RamRecord
<1>1. job.to \in SUBSET Edit
  BY DEF JobTyped, JobRecord
<1>2. CASE Saved
  <2>1. ram' = [config |-> job.to, revision |-> ram.revision + 1, newer |-> ram.newer,
                mounted |-> ram.mounted, loaded |-> TRUE]
    BY <1>2 DEF Saved
  <2>2. ram.revision + 1 \in Nat
    OBVIOUS
  <2> QED BY <1>1, <2>1, <2>2
<1>3. CASE UNCHANGED ram
  BY <1>3
<1> QED BY <1>2, <1>3 DEF Promote, NotSaved

LEMMA SavesJob == ASSUME SettingsTyped, Replace \/ EditLocked PROVE JobTyped'
<1> USE DEF SettingsTyped
<1> JobTyped /\ ram.config \in SUBSET Edit
  BY DEF RamTyped, RamRecord
<1>1. CASE Replace
  <2>1. PICK p \in proposals : UNCHANGED job
              \/ Saves(Applied(p.base, p.edit), p.edit,
                       IF ClearsLegacy(Applied(p.base, p.edit)) THEN "legacy" ELSE "stage")
    BY <1>1 DEF Replace
  <2>2. p.base \in SUBSET Edit /\ p.edit \in Edit
    BY Edits DEF ProposalsTyped
  <2> QED BY <2>1, <2>2, SavesTyped, Edits DEF JobTyped, JobRecord
<1>2. CASE EditLocked
  BY <1>2, SavesTyped, Edits DEF EditLocked, JobTyped, JobRecord
<1> QED BY <1>1, <1>2
LEMMA FilesTypedStep == ASSUME SettingsTyped, [SettingsNext]_settings PROVE FilesTyped'
<1> USE DEF SettingsTyped, FilesTyped, FileRecord, JobTyped, JobRecord
<1>1. CASE PowerCut \/ Restart
  BY <1>1, FileValues DEF PowerCut, Down, Refused, history, Restart
<1>2. CASE PowerOn \/ Mount \/ Intend \/ Format \/ Formatted \/ Resume \/ Guard \/ Unformat \/
           LoadSettings
  BY <1>2, FileValues DEF PowerOn, disk, history, Mount, Works, Fails, Intend, Format,
     Formatted, Resume, Guard, Unformat, LoadSettings, Booting, Runs, RunsAndSaves, Loads,
     LegacyCalibration, Refused
<1>3. CASE Propose \/ Replace \/ Conflict \/ EditLocked \/ StartReset
  BY <1>3, FileValues DEF Propose, Proposal, disk, Replace, Saves, Idle, Current, history,
     Conflict, EditLocked, StartReset
<1>4. CASE Mark \/ Remove \/ ClearNvs \/ Unmark
  BY <1>4, FileValues DEF Mark, history, Works, Fails, Remove, Stops, ClearNvs, Unmark
<1>5. CASE SaveLegacy \/ Stage \/ Unbackup
  BY <1>5, FileValues DEF SaveLegacy, NotSaved, Works, Fails, Stage, MutexFree, Refused,
     Unbackup
<1>6. CASE Demote \/ Drop
  BY <1>6, FileValues DEF Demote, NotSaved, Works, Fails, Drop
<1>7. CASE Promote
  BY <1>7, FileValues DEF Promote, Saved, NotSaved, Works, Fails
<1>8. CASE UNCHANGED settings
  BY <1>8 DEF settings
<1> QED
  BY <1>1, <1>2, <1>3, <1>4, <1>5, <1>6, <1>7, <1>8 DEF SettingsNext, Boot, Persist, Reset

LEMMA NvsTypedStep == ASSUME SettingsTyped, [SettingsNext]_settings PROVE NvsTyped'
<1> USE DEF SettingsTyped, NvsTyped, JobTyped, JobRecord
<1>1. CASE PowerCut \/ Restart
  BY <1>1 DEF PowerCut, Down, Refused, history, Restart
<1>2. CASE PowerOn \/ Mount \/ Intend \/ Format \/ Formatted \/ Resume \/ Guard \/ Unformat \/
           LoadSettings
  BY <1>2 DEF PowerOn, disk, history, Mount, Works, Fails, Intend, Format, Formatted, Resume,
     Guard, Unformat, LoadSettings, Booting, Runs, RunsAndSaves, Loads, LegacyCalibration,
     Refused
<1>3. CASE SaveLegacy \/ Stage \/ Unbackup \/ Demote \/ Drop \/ Promote
  BY <1>3 DEF SaveLegacy, NotSaved, Works, Fails, Stage, MutexFree, Refused, Unbackup, Demote,
     Drop, Promote, Saved
<1>4. CASE Propose \/ Replace \/ Conflict \/ EditLocked \/ StartReset
  BY <1>4 DEF Propose, Proposal, disk, Replace, Saves, Idle, Current, history, Conflict,
     EditLocked, StartReset
<1>5. CASE Mark \/ Remove \/ ClearNvs \/ Unmark
  BY <1>5 DEF Mark, history, Works, Fails, Remove, Stops, ClearNvs, Unmark
<1>6. CASE UNCHANGED settings
  BY <1>6 DEF settings
<1> QED
  BY <1>1, <1>2, <1>3, <1>4, <1>5, <1>6 DEF SettingsNext, Boot, Persist, Reset

LEMMA PhasesTypedStep == ASSUME SettingsTyped, [SettingsNext]_settings PROVE PhasesTyped'
<1> USE DEF SettingsTyped, PhasesTyped, NvsTyped, FileSteps, WipeSteps
<1>1. CASE PowerCut \/ Restart
  BY <1>1 DEF PowerCut, Down, Refused, history, Restart
<1>2. CASE PowerOn \/ Mount \/ Intend \/ Format \/ Formatted \/ Resume \/ Guard \/ Unformat \/
           LoadSettings
  BY <1>2 DEF PowerOn, disk, history, Mount, Works, Fails, Intend, Format, Formatted, Resume,
     Guard, Unformat, LoadSettings, Booting, Runs, RunsAndSaves, Loads, LegacyCalibration,
     Refused
<1>3. CASE SaveLegacy \/ Stage \/ Unbackup \/ Demote \/ Drop \/ Promote
  BY <1>3 DEF SaveLegacy, NotSaved, Works, Fails, Stage, MutexFree, Refused, Unbackup, Demote,
     Drop, Promote, Saved
<1>4. CASE Propose \/ Replace \/ Conflict \/ EditLocked \/ StartReset
  BY <1>4 DEF Propose, Proposal, disk, Replace, Saves, Idle, Current, history, Conflict,
     EditLocked, StartReset
<1>5. CASE Mark \/ Remove \/ ClearNvs \/ Unmark
  BY <1>5 DEF Mark, history, Works, Fails, Remove, Stops, ClearNvs, Unmark
<1>6. CASE UNCHANGED settings
  BY <1>6 DEF settings
<1> QED
  BY <1>1, <1>2, <1>3, <1>4, <1>5, <1>6 DEF SettingsNext, Boot, Persist, Reset

LEMMA RamTypedStep == ASSUME SettingsTyped, [SettingsNext]_settings PROVE RamTyped'
<1> USE DEF SettingsTyped, RamTyped, RamRecord, JobTyped, JobRecord
<1>1. CASE PowerCut \/ Restart
  BY <1>1, Blanks, Edits DEF PowerCut, Down, Refused, history, Restart
<1>2. CASE PowerOn \/ Mount \/ Intend \/ Format \/ Formatted \/ Resume \/ Guard \/ Unformat
  BY <1>2, Blanks, Edits DEF PowerOn, disk, history, Mount, Works, Fails, Intend, Format,
     Formatted, Resume, Guard, Unformat
<1>3. CASE SaveLegacy \/ Stage \/ Unbackup \/ Demote \/ Drop
  BY <1>3, Blanks, Edits DEF SaveLegacy, NotSaved, Works, Fails, Stage, MutexFree, Refused,
     Unbackup, Demote, Drop
<1>4. CASE Propose \/ Replace \/ Conflict \/ EditLocked \/ StartReset
  BY <1>4, Blanks, Edits DEF Propose, Proposal, disk, Replace, Saves, Idle, Current, history,
     Conflict, EditLocked, StartReset
<1>5. CASE Mark \/ Remove \/ ClearNvs \/ Unmark
  BY <1>5, Blanks, Edits DEF Mark, history, Works, Fails, Remove, Stops, ClearNvs, Unmark
<1>6. CASE LoadSettings
  BY <1>6, LoadTyped
<1>7. CASE Promote
  BY <1>7, PromoteTyped
<1>8. CASE UNCHANGED settings
  BY <1>8 DEF settings
<1> QED
  BY <1>1, <1>2, <1>3, <1>4, <1>5, <1>6, <1>7, <1>8 DEF SettingsNext, Boot, Persist, Reset

LEMMA JobTypedStep == ASSUME SettingsTyped, [SettingsNext]_settings PROVE JobTyped'
<1> USE DEF SettingsTyped, JobTyped, JobRecord, FileSteps
<1>1. CASE PowerCut \/ Restart
  BY <1>1, Blanks, Edits DEF PowerCut, Down, Refused, history, Restart
<1>2. CASE PowerOn \/ Mount \/ Intend \/ Format \/ Formatted \/ Resume \/ Guard \/ Unformat
  BY <1>2, Blanks, Edits DEF PowerOn, disk, history, Mount, Works, Fails, Intend, Format,
     Formatted, Resume, Guard, Unformat
<1>3. CASE SaveLegacy \/ Stage \/ Unbackup \/ Demote \/ Drop \/ Promote
  BY <1>3, Blanks, Edits DEF SaveLegacy, NotSaved, Works, Fails, Stage, MutexFree, Refused,
     Unbackup, Demote, Drop, Promote, Saved
<1>4. CASE Propose \/ Conflict \/ StartReset
  BY <1>4, Blanks, Edits DEF Propose, Proposal, disk, Conflict, Idle, Current, history,
     StartReset
<1>5. CASE Mark \/ Remove \/ ClearNvs \/ Unmark
  BY <1>5, Blanks, Edits DEF Mark, history, Works, Fails, Remove, Stops, ClearNvs, Unmark
<1>6. CASE LoadSettings
  BY <1>6, LoadTyped
<1>7. CASE Replace \/ EditLocked
  BY <1>7, SavesJob
<1>8. CASE UNCHANGED settings
  BY <1>8 DEF settings
<1> QED
  BY <1>1, <1>2, <1>3, <1>4, <1>5, <1>6, <1>7, <1>8 DEF SettingsNext, Boot, Persist, Reset

LEMMA ProposalsTypedStep == ASSUME SettingsTyped, [SettingsNext]_settings PROVE ProposalsTyped'
<1> USE DEF SettingsTyped, RamTyped, RamRecord, ProposalsTyped
<1>1. CASE PowerCut \/ Restart
  BY <1>1, Edits DEF PowerCut, Down, Refused, history, Restart
<1>2. CASE PowerOn \/ Mount \/ Intend \/ Format \/ Formatted \/ Resume \/ Guard \/ Unformat \/
           LoadSettings
  BY <1>2, Edits DEF PowerOn, disk, history, Mount, Works, Fails, Intend, Format, Formatted,
     Resume, Guard, Unformat, LoadSettings, Booting, Runs, RunsAndSaves, Loads,
     LegacyCalibration, Refused
<1>3. CASE SaveLegacy \/ Stage \/ Unbackup \/ Demote \/ Drop \/ Promote
  BY <1>3, Edits DEF SaveLegacy, NotSaved, Works, Fails, Stage, MutexFree, Refused, Unbackup,
     Demote, Drop, Promote, Saved
<1>4. CASE EditLocked \/ StartReset
  BY <1>4, Edits DEF EditLocked, Saves, Idle, disk, StartReset, history
<1>5. CASE Mark \/ Remove \/ ClearNvs \/ Unmark
  BY <1>5, Edits DEF Mark, history, Works, Fails, Remove, Stops, ClearNvs, Unmark
<1>6. CASE Propose
  BY <1>6, Edits DEF Propose, Proposal, disk
<1>7. CASE Replace
  BY <1>7, Edits DEF Replace, Saves, Idle, Current, disk, history
<1>8. CASE Conflict
  BY <1>8, Edits DEF Conflict, Proposal, Idle, Current, disk, history
<1>9. CASE UNCHANGED settings
  BY <1>9 DEF settings
<1> QED
  BY <1>1, <1>2, <1>3, <1>4, <1>5, <1>6, <1>7, <1>8, <1>9 DEF SettingsNext, Boot, Persist, Reset

LEMMA HistoryTypedStep == ASSUME SettingsTyped, [SettingsNext]_settings PROVE HistoryTyped'
<1> USE DEF SettingsTyped, HistoryTyped, JobTyped, JobRecord
<1>1. CASE PowerCut \/ Restart
  BY <1>1, Edits DEF PowerCut, Down, Refused, history, Restart
<1>2. CASE PowerOn \/ Mount \/ Intend \/ Format \/ Formatted \/ Resume \/ Guard \/ Unformat \/
           LoadSettings
  BY <1>2, Edits DEF PowerOn, disk, history, Mount, Works, Fails, Intend, Format, Formatted,
     Resume, Guard, Unformat, LoadSettings, Booting, Runs, RunsAndSaves, Loads,
     LegacyCalibration, Refused
<1>3. CASE SaveLegacy \/ Stage \/ Unbackup \/ Demote \/ Drop \/ Promote
  BY <1>3, Edits DEF SaveLegacy, NotSaved, Works, Fails, Stage, MutexFree, Refused, Unbackup,
     Demote, Drop, Promote, Saved
<1>4. CASE Replace \/ Conflict \/ StartReset
  BY <1>4, Edits DEF Replace, Saves, Idle, Current, disk, history, Conflict, Proposal,
     StartReset
<1>5. CASE Mark \/ Remove \/ ClearNvs \/ Unmark
  BY <1>5, Edits DEF Mark, history, Works, Fails, Remove, Stops, ClearNvs, Unmark
<1>6. CASE Propose
  BY <1>6, Edits DEF Propose, Proposal, disk
<1>7. CASE EditLocked
  BY <1>7, Edits DEF EditLocked, Saves, Idle, disk
<1>8. CASE UNCHANGED settings
  BY <1>8 DEF settings
<1> QED
  BY <1>1, <1>2, <1>3, <1>4, <1>5, <1>6, <1>7, <1>8 DEF SettingsNext, Boot, Persist, Reset

LEMMA Shapes ==
  ASSUME SettingsTyped
  PROVE  /\ job \in JobRecord /\ ram \in RamRecord /\ files \in FileRecord
         /\ NvsTyped /\ HistoryTyped /\ RamTyped /\ ProposalsTyped
BY DEF SettingsTyped, FilesTyped, RamTyped, JobTyped, JobRecord, RamRecord, FileRecord

-----------------------------------------------------------------------------
(* What was erased is gone *)

Writing == job.at \in FileSteps \ {"stage"}

\* Where a start, a save and a reset can be.
PlacesInv ==
  /\ phase \notin {"load", "run"} => job = NoJob /\ ram.config = {} /\ ~ram.loaded
  /\ phase # "run" => proposals = {}
  /\ phase \notin {"off", "run"} => (blocked <=> nvs.reset)
  /\ phase = "load" /\ blocked => job = NoJob
  /\ eraser # "none" => blocked /\ phase \in {"resume", "run"}
  /\ eraser \in {"mark", "restart"} => phase = "run"
  /\ Writing => /\ eraser \in {"none", "mark"} /\ (blocked => eraser = "mark")
                /\ files.staging = [by |-> "this", edits |-> job.to]

\* What a reset has removed so far.
WipedInv ==
  /\ eraser \in {"staging", "primary", "clear", "guard", "unmark"} => files.backup = None
  /\ eraser \in {"primary", "clear", "guard", "unmark"} => files.staging = None
  /\ eraser \in {"clear", "guard", "unmark"} => files.primary = None
  /\ eraser \in {"guard", "unmark"} => nvs.legacy = {}

\* Nothing erased is left in memory, until the restart that ends a reset.
CleanInv ==
  eraser # "restart" =>
    /\ ram.config \cap gone = {} /\ job.to \cap gone = {}
    /\ \A p \in proposals : p.base \cap gone = {} /\ p.edit \notin gone

GoneUsed == gone \subseteq used
EInv == SettingsTyped /\ PlacesInv /\ WipedInv /\ CleanInv /\ GoneUsed /\ ErasedForGood

LEMMA Kinds ==
  /\ ~IsDocument(None) /\ ~IsDocument(TornFile) /\ None # TornFile
  /\ ~Decodes(None) /\ ~Decodes(TornFile)
  /\ None.edits = {} /\ TornFile.edits = {} /\ None.by # "newer" /\ TornFile.by # "newer"
  /\ NoFiles.primary = None /\ NoFiles.backup = None /\ NoFiles.staging = None
  /\ \A f \in FileValue : Decodes(f) => IsDocument(f)
  /\ \A f \in FileValue : f.by = "newer" => IsDocument(f) /\ ~Decodes(f)
  /\ \A f \in FileValue : IsDocument(f) /\ ~Decodes(f) => f.by = "newer"
  /\ \A edits : LET f == [by |-> "this", edits |-> edits]
                IN  IsDocument(f) /\ Decodes(f) /\ f.edits = edits
  /\ NoJob.at = "none" /\ NoJob.to = {} /\ ~NoJob.restoring
  /\ NoRam.config = {} /\ ~NoRam.loaded /\ ~NoRam.newer /\ ~NoRam.mounted
BY DEF None, TornFile, IsDocument, Decodes, NoFiles, NoJob, NoRam, FileValue, Document

LEMMA Finds ==
  ASSUME SettingsTyped, LoadSettings
  PROVE  /\ phase = "load" /\ job = NoJob
         /\ UNCHANGED <<disk, blocked, eraser, proposals, used, saved, gone>>
         /\ \/ \E loaded \in BOOLEAN, newer \in BOOLEAN : Runs({}, loaded, newer)
            \/ Decodes(files.primary) /\ Runs(files.primary.edits, TRUE, FALSE)
            \/ /\ ~Refused
               /\ \/ RunsAndSaves(nvs.legacy, FALSE)
                  \/ Decodes(files.primary) /\ RunsAndSaves(files.primary.edits, FALSE)
                  \/ Decodes(files.backup) /\ RunsAndSaves(files.backup.edits, TRUE)
<1>1. WrittenByNewer(files.backup) \in BOOLEAN
  BY DEF WrittenByNewer
<1> QED
  BY <1>1 DEF LoadSettings, Booting, Loads, LegacyCalibration

LEMMA LoadPlaces == ASSUME EInv, LoadSettings PROVE PlacesInv'
<1> USE DEF PlacesInv
<1>1. /\ phase = "load" /\ job = NoJob /\ UNCHANGED <<files, nvs, blocked, eraser, proposals>>
      /\ PlacesInv /\ ram \in RamRecord
  BY Finds DEF EInv, disk, SettingsTyped, RamTyped, RamRecord
<1>2. ~Writing'
  <2>1. job' = NoJob \/ \E edits, restoring : RunsAndSaves(edits, restoring)
    BY Finds DEF Runs, EInv
  <2>2. NoJob.at = "none" /\ NoJob \in JobRecord
    BY Blanks
  <2>3. job'.at \in {"none", "stage"}
    BY <2>1, <2>2 DEF RunsAndSaves, JobRecord
  <2> QED BY <2>3 DEF Writing, FileSteps
<1>3. eraser = "none" /\ proposals = {}
  BY <1>1
<1>4. CASE phase' = "run"
  BY <1>1, <1>2, <1>3, <1>4
<1>5. CASE phase' = "load" /\ ~Refused
  BY <1>1, <1>2, <1>3, <1>5 DEF Refused
<1> QED BY <1>1, <1>4, <1>5, Finds DEF Runs, RunsAndSaves, EInv

LEMMA DemotePlaces == ASSUME EInv, Demote PROVE PlacesInv'
<1> USE DEF PlacesInv
<1>1. PlacesInv /\ files \in FileRecord /\ Writing /\ job \in JobRecord
  BY DEF EInv, SettingsTyped, FilesTyped, FileRecord, Demote, Writing, FileSteps, JobTyped,
         JobRecord
<1>2. files'.staging = files.staging /\ UNCHANGED <<nvs, blocked, eraser, proposals>>
  BY <1>1 DEF Demote, FileRecord
<1>3. \/ job' = NoJob /\ phase' = "run"
      \/ job'.at = "promote" /\ job'.to = job.to /\ UNCHANGED <<phase, ram>>
  BY <1>1 DEF Demote, NotSaved, JobRecord
<1> QED BY <1>1, <1>2, <1>3, Kinds DEF Demote, NotSaved, Writing, FileSteps

LEMMA ReplacePlaces == ASSUME EInv, Replace PROVE PlacesInv'
<1>1. PlacesInv /\ phase = "run" /\ UNCHANGED <<files, nvs, phase, blocked, eraser>>
  BY DEF EInv, Replace, Idle, disk
<1>2. job' = job \/ job'.at \in {"legacy", "stage"}
  BY DEF Replace, Saves, NoJob
<1> QED BY <1>1, <1>2, Kinds DEF PlacesInv, Writing, FileSteps, Replace, Idle

LEMMA MarkPlaces == ASSUME EInv, Mark PROVE PlacesInv'
<1>1. PlacesInv /\ phase = "run" /\ ~Writing /\ UNCHANGED <<files, phase, ram, job, proposals>>
  BY DEF EInv, Mark, PlacesInv, Writing
<1>2. ~Writing'
  BY <1>1 DEF Writing
<1>3. eraser' # "none" => blocked'
  BY <1>1 DEF Mark, PlacesInv
<1>4. eraser' \in {"none", "backup"}
  BY DEF Mark
<1> QED BY <1>1, <1>2, <1>3, <1>4 DEF PlacesInv

LEMMA LoadClean == ASSUME EInv, LoadSettings PROVE CleanInv'
<1>1. /\ phase = "load" /\ job = NoJob /\ UNCHANGED <<proposals, gone>> /\ PlacesInv
      /\ ram \in RamRecord /\ proposals = {}
  BY Finds DEF EInv, disk, SettingsTyped, RamTyped, RamRecord, PlacesInv
<1>2. ram'.config \cap gone = {} /\ job'.to \cap gone = {}
  <2>1. nvs.legacy \cap gone = {} /\ files \in FileRecord
    BY DEF EInv, ErasedForGood, SettingsTyped, FilesTyped, FileRecord
  <2>2. /\ Decodes(files.primary) => files.primary.edits \cap gone = {}
        /\ Decodes(files.backup) => files.backup.edits \cap gone = {}
    BY <2>1, Kinds DEF EInv, ErasedForGood, FileRecord
  <2> QED BY <1>1, <2>1, <2>2, Finds, Kinds DEF EInv, Runs, RunsAndSaves, RamRecord, NoJob
<1> QED BY <1>1, <1>2 DEF CleanInv

LEMMA ProposeClean == ASSUME EInv, Propose PROVE CleanInv'
<1> USE DEF EInv, GoneUsed, CleanInv
<1>1. PICK e \in Submitted \ used : proposals' = proposals \cup {Proposal(e)}
  BY DEF Propose
<1>2. Proposal(e).base = ram.config /\ Proposal(e).edit = e /\ e \notin gone
  BY DEF Proposal
<1> QED BY <1>1, <1>2 DEF Propose

LEMMA SavesClean ==
  ASSUME EInv, eraser # "restart", NEW edits, NEW e, NEW at, Saves(edits, e, at),
         e \notin gone,
         edits \cap gone = {} \/ \E base : edits = Applied(base, e) /\ base \cap gone = {}
  PROVE  job'.to \cap gone = {}
BY DEF Saves, NoJob, Applied

LEMMA ReplaceClean == ASSUME EInv, Replace PROVE CleanInv'
<1>1. PICK p \in proposals : /\ proposals' = proposals \ {p}
              /\ \/ UNCHANGED job
                 \/ Saves(Applied(p.base, p.edit), p.edit,
                          IF ClearsLegacy(Applied(p.base, p.edit)) THEN "legacy" ELSE "stage")
  BY DEF Replace
<1>2. UNCHANGED <<ram, eraser, gone>> /\ CleanInv
  BY DEF Replace, history, EInv
<1>3. eraser # "restart" => job'.to \cap gone = {}
  BY <1>1, <1>2, SavesClean DEF CleanInv
<1> QED BY <1>1, <1>2, <1>3 DEF CleanInv

LEMMA EditClean == ASSUME EInv, EditLocked PROVE CleanInv'
<1>1. PICK e \in (Mappings \cup Calibrations) \ used :
        Saves(Applied(ram.config, e), e, IF e \in Calibrations THEN "legacy" ELSE "stage")
  BY DEF EditLocked
<1>2. UNCHANGED <<ram, eraser, gone, proposals>> /\ CleanInv /\ e \notin gone
  BY <1>1 DEF EditLocked, EInv, GoneUsed
<1>3. eraser # "restart" => job'.to \cap gone = {}
  BY <1>1, <1>2, SavesClean DEF CleanInv
<1> QED BY <1>2, <1>3 DEF CleanInv

LEMMA RenamesErased == ASSUME EInv, Demote \/ Promote PROVE ErasedForGood'
<1>1. /\ ErasedForGood /\ files \in FileRecord /\ UNCHANGED <<nvs, gone>>
  BY DEF EInv, SettingsTyped, FilesTyped, FileRecord, Demote, Promote
<1>2. \A name \in {"primary", "backup", "staging"} :
        \/ files'[name] = None
        \/ \E from \in {"primary", "backup", "staging"} : files'[name] = files[from]
  BY <1>1 DEF Demote, Promote, FileRecord
<1> QED BY <1>1, <1>2, Kinds DEF ErasedForGood

LEMMA UnmarkErased == ASSUME EInv, Unmark PROVE ErasedForGood'
<1>1. eraser = "unmark" /\ files' = files /\ nvs'.legacy = nvs.legacy /\ NvsTyped
  BY DEF Unmark, EInv, SettingsTyped, NvsTyped
<1>2. files.primary = None /\ files.backup = None /\ files.staging = None /\ nvs.legacy = {}
  BY <1>1 DEF EInv, WipedInv
<1> QED BY <1>1, <1>2, Kinds DEF ErasedForGood

LEMMA PlacesInvStep == ASSUME EInv, [SettingsNext]_settings PROVE PlacesInv'
<1> /\ SettingsTyped /\ PlacesInv /\ WipedInv /\ CleanInv /\ GoneUsed /\ ErasedForGood
    /\ job \in JobRecord /\ ram \in RamRecord /\ files \in FileRecord /\ NvsTyped
  BY Shapes DEF EInv
<1> USE DEF PlacesInv, Writing, FileSteps, JobRecord, RamRecord, FileRecord, NvsTyped
<1>1. CASE PowerCut \/ Restart
  BY <1>1, Kinds DEF PowerCut, Down, Refused, history, Restart
<1>2. CASE PowerOn \/ Mount \/ Intend \/ Format \/ Formatted \/ Resume \/ Guard \/ Unformat
  BY <1>2, Kinds DEF PowerOn, disk, history, Mount, Works, Fails, Intend, Format, Formatted,
     Resume, Guard, Unformat
<1>3. CASE StartReset
  BY <1>3, Kinds DEF StartReset, disk, history
<1>4. CASE Remove \/ ClearNvs \/ Unmark
  BY <1>4, Kinds DEF Remove, Stops, history, Works, Fails, ClearNvs, Unmark
<1>5. CASE SaveLegacy \/ Stage
  BY <1>5, Kinds DEF SaveLegacy, NotSaved, Works, Fails, Stage, MutexFree, Refused
<1>6. CASE Unbackup
  BY <1>6, Kinds DEF Unbackup, NotSaved, Works, Fails
<1>7. CASE Drop
  BY <1>7, Kinds DEF Drop, NotSaved, Works, Fails
<1>8. CASE Promote
  BY <1>8, Kinds DEF Promote, Saved, NotSaved, Works, Fails
<1>9. CASE Propose \/ Conflict
  BY <1>9, Kinds DEF Propose, Proposal, disk, Conflict, Idle, Current, history
<1>10. CASE EditLocked
  BY <1>10, Kinds DEF EditLocked, Saves, Idle, disk
<1>11. CASE LoadSettings
  BY <1>11, LoadPlaces
<1>12. CASE Demote
  BY <1>12, DemotePlaces
<1>13. CASE Replace
  BY <1>13, ReplacePlaces
<1>14. CASE Mark
  BY <1>14, MarkPlaces
<1>15. CASE UNCHANGED settings
  BY <1>15 DEF settings
<1> QED
  BY <1>1, <1>2, <1>3, <1>4, <1>5, <1>6, <1>7, <1>8, <1>9, <1>10, <1>11, <1>12, <1>13, <1>14,
     <1>15 DEF SettingsNext, Boot, Persist, Reset

LEMMA WipedInvStep == ASSUME EInv, [SettingsNext]_settings PROVE WipedInv'
<1> /\ SettingsTyped /\ PlacesInv /\ WipedInv /\ CleanInv /\ GoneUsed /\ ErasedForGood
    /\ job \in JobRecord /\ ram \in RamRecord /\ files \in FileRecord /\ NvsTyped
  BY Shapes DEF EInv
<1> USE DEF WipedInv, PlacesInv, Writing, FileSteps, JobRecord, RamRecord, FileRecord, NvsTyped
<1>1. CASE PowerCut \/ Restart
  BY <1>1, Kinds DEF PowerCut, Down, Refused, history, Restart
<1>2. CASE PowerOn \/ Mount \/ Intend \/ Format \/ Formatted \/ Resume \/ Guard \/ Unformat \/
           LoadSettings
  BY <1>2, Kinds DEF PowerOn, disk, history, Mount, Works, Fails, Intend, Format, Formatted,
     Resume, Guard, Unformat, LoadSettings, Booting, Runs, RunsAndSaves, Loads,
     LegacyCalibration, Refused
<1>3. CASE SaveLegacy \/ Stage \/ Unbackup \/ Demote \/ Drop \/ Promote
  BY <1>3, Kinds DEF SaveLegacy, NotSaved, Works, Fails, Stage, MutexFree, Refused, Unbackup,
     Demote, Drop, Promote, Saved
<1>4. CASE Propose \/ Replace \/ Conflict \/ EditLocked \/ StartReset
  BY <1>4, Kinds DEF Propose, Proposal, disk, Replace, Saves, Idle, Current, history, Conflict,
     EditLocked, StartReset
<1>5. CASE Mark \/ Remove \/ ClearNvs \/ Unmark
  BY <1>5, Kinds DEF Mark, history, Works, Fails, Remove, Stops, ClearNvs, Unmark
<1>6. CASE UNCHANGED settings
  BY <1>6 DEF settings
<1> QED
  BY <1>1, <1>2, <1>3, <1>4, <1>5, <1>6 DEF SettingsNext, Boot, Persist, Reset

LEMMA CleanInvStep == ASSUME EInv, [SettingsNext]_settings PROVE CleanInv'
<1> /\ SettingsTyped /\ PlacesInv /\ WipedInv /\ CleanInv /\ GoneUsed /\ ErasedForGood
    /\ job \in JobRecord /\ ram \in RamRecord /\ files \in FileRecord /\ NvsTyped
  BY Shapes DEF EInv
<1> USE DEF CleanInv, PlacesInv, JobRecord, RamRecord, FileRecord, NvsTyped
<1>1. CASE PowerCut \/ Restart
  BY <1>1, Kinds DEF PowerCut, Down, Refused, history, Restart
<1>2. CASE PowerOn \/ Mount \/ Intend \/ Format \/ Formatted \/ Resume \/ Guard \/ Unformat
  BY <1>2, Kinds DEF PowerOn, disk, history, Mount, Works, Fails, Intend, Format, Formatted,
     Resume, Guard, Unformat
<1>3. CASE SaveLegacy \/ Stage \/ Unbackup \/ Demote \/ Drop \/ Promote
  BY <1>3, Kinds DEF SaveLegacy, NotSaved, Works, Fails, Stage, MutexFree, Refused, Unbackup,
     Demote, Drop, Promote, Saved
<1>4. CASE StartReset
  BY <1>4, Kinds DEF StartReset, disk, history
<1>5. CASE Mark \/ Remove \/ ClearNvs \/ Unmark
  BY <1>5, Kinds DEF Mark, history, Works, Fails, Remove, Stops, ClearNvs, Unmark
<1>6. CASE Conflict
  BY <1>6, Kinds DEF Conflict, Proposal, Idle, Current, disk, history
<1>7. CASE LoadSettings
  BY <1>7, LoadClean
<1>8. CASE Propose
  BY <1>8, ProposeClean
<1>9. CASE Replace
  BY <1>9, ReplaceClean
<1>10. CASE EditLocked
  BY <1>10, EditClean
<1>11. CASE UNCHANGED settings
  BY <1>11 DEF settings
<1> QED
  BY <1>1, <1>2, <1>3, <1>4, <1>5, <1>6, <1>7, <1>8, <1>9, <1>10, <1>11 DEF SettingsNext, Boot,
     Persist, Reset

LEMMA GoneUsedStep == ASSUME EInv, [SettingsNext]_settings PROVE GoneUsed'
<1> /\ SettingsTyped /\ PlacesInv /\ WipedInv /\ CleanInv /\ GoneUsed /\ ErasedForGood
    /\ job \in JobRecord /\ ram \in RamRecord /\ files \in FileRecord /\ NvsTyped
  BY Shapes DEF EInv
<1> USE DEF GoneUsed, JobRecord, RamRecord, FileRecord, NvsTyped
<1>1. CASE PowerCut \/ Restart
  BY <1>1 DEF PowerCut, Down, Refused, history, Restart
<1>2. CASE PowerOn \/ Mount \/ Intend \/ Format \/ Formatted \/ Resume \/ Guard \/ Unformat \/
           LoadSettings
  BY <1>2 DEF PowerOn, disk, history, Mount, Works, Fails, Intend, Format, Formatted, Resume,
     Guard, Unformat, LoadSettings, Booting, Runs, RunsAndSaves, Loads, LegacyCalibration,
     Refused
<1>3. CASE SaveLegacy \/ Stage \/ Unbackup \/ Demote \/ Drop \/ Promote
  BY <1>3 DEF SaveLegacy, NotSaved, Works, Fails, Stage, MutexFree, Refused, Unbackup, Demote,
     Drop, Promote, Saved
<1>4. CASE Propose \/ Replace \/ Conflict \/ EditLocked \/ StartReset
  BY <1>4 DEF Propose, Proposal, disk, Replace, Saves, Idle, Current, history, Conflict,
     EditLocked, StartReset
<1>5. CASE Mark \/ Remove \/ ClearNvs \/ Unmark
  BY <1>5 DEF Mark, history, Works, Fails, Remove, Stops, ClearNvs, Unmark
<1>6. CASE UNCHANGED settings
  BY <1>6 DEF settings
<1> QED
  BY <1>1, <1>2, <1>3, <1>4, <1>5, <1>6 DEF SettingsNext, Boot, Persist, Reset

LEMMA ErasedForGoodStep == ASSUME EInv, [SettingsNext]_settings PROVE ErasedForGood'
<1> /\ SettingsTyped /\ PlacesInv /\ WipedInv /\ CleanInv /\ GoneUsed /\ ErasedForGood
    /\ job \in JobRecord /\ ram \in RamRecord /\ files \in FileRecord /\ NvsTyped
  BY Shapes DEF EInv
<1> USE DEF ErasedForGood, CleanInv, PlacesInv, WipedInv, Writing, FileSteps, JobRecord,
            RamRecord, FileRecord, NvsTyped
<1>1. CASE PowerCut \/ Restart
  BY <1>1, Kinds, FileValues DEF PowerCut, Down, Refused, history, Restart
<1>2. CASE PowerOn \/ Mount \/ Intend \/ Format \/ Formatted \/ Resume \/ Guard \/ Unformat \/
           LoadSettings
  BY <1>2, Kinds, FileValues DEF PowerOn, disk, history, Mount, Works, Fails, Intend, Format,
     Formatted, Resume, Guard, Unformat, LoadSettings, Booting, Runs, RunsAndSaves, Loads,
     LegacyCalibration, Refused
<1>3. CASE SaveLegacy \/ Stage \/ Unbackup \/ Drop
  BY <1>3, Kinds, FileValues DEF SaveLegacy, NotSaved, Works, Fails, Stage, MutexFree, Refused,
     Unbackup, Drop
<1>4. CASE Propose \/ Replace \/ Conflict \/ EditLocked \/ StartReset
  BY <1>4, Kinds, FileValues DEF Propose, Proposal, disk, Replace, Saves, Idle, Current,
     history, Conflict, EditLocked, StartReset
<1>5. CASE Mark \/ Remove \/ ClearNvs
  BY <1>5, Kinds, FileValues DEF Mark, history, Works, Fails, Remove, Stops, ClearNvs
<1>6. CASE Demote \/ Promote
  BY <1>6, RenamesErased
<1>7. CASE Unmark
  BY <1>7, UnmarkErased
<1>8. CASE UNCHANGED settings
  BY <1>8 DEF settings
<1> QED
  BY <1>1, <1>2, <1>3, <1>4, <1>5, <1>6, <1>7, <1>8 DEF SettingsNext, Boot, Persist, Reset

LEMMA SettingsBegin == ASSUME SettingsInit PROVE EInv
<1> USE DEF SettingsInit
<1>1. Before \in Edit /\ {Before} \in SUBSET Edit
  BY Edits
<1>2. /\ files \in FileRecord
      /\ \A name \in {"primary", "backup", "staging"} : files[name].edits \subseteq {Before}
  <2>1. CASE files = NoFiles
    BY <2>1, FileValues, Kinds
  <2>2. CASE \E by \in {"this", "older", "newer"} :
               files = [NoFiles EXCEPT !.primary = [by |-> by, edits |-> {Before}]]
    <3>1. PICK by \in {"this", "older", "newer"} :
            files = [NoFiles EXCEPT !.primary = [by |-> by, edits |-> {Before}]]
      BY <2>2
    <3>2. [by |-> by, edits |-> {Before}] \in FileValue
      BY <1>1 DEF FileValue, Document
    <3> QED BY <3>1, <3>2, FileValues, Kinds DEF FileRecord
  <2> QED BY <2>1, <2>2
<1>3. FilesTyped /\ NvsTyped /\ PhasesTyped /\ RamTyped /\ JobTyped
  BY <1>2, Blanks DEF FilesTyped, NvsTyped, PhasesTyped, RamTyped, JobTyped
<1>4. ProposalsTyped /\ HistoryTyped
  BY <1>1 DEF ProposalsTyped, HistoryTyped
<1>5. PlacesInv /\ WipedInv
  BY Kinds DEF PlacesInv, WipedInv, Writing, FileSteps
<1>6. CleanInv /\ GoneUsed /\ ErasedForGood
  BY DEF CleanInv, GoneUsed, ErasedForGood
<1> QED BY <1>3, <1>4, <1>5, <1>6 DEF EInv, SettingsTyped

LEMMA ErasedStep == ASSUME EInv, [SettingsNext]_settings PROVE EInv'
<1>1. SettingsTyped'
  BY FilesTypedStep, NvsTypedStep, PhasesTypedStep, RamTypedStep, JobTypedStep, ProposalsTypedStep,
     HistoryTypedStep DEF EInv, SettingsTyped
<1> QED BY <1>1, PlacesInvStep, WipedInvStep, CleanInvStep, GoneUsedStep, ErasedForGoodStep DEF EInv

\* What a factory reset has erased is found nowhere again, whatever was being
\* saved at the time, wherever power is cut, and whichever calls fail.
THEOREM ErasedIsGone == SettingsSpec => []ErasedForGood
<1>1. EInv => ErasedForGood
  BY DEF EInv
<1>2. EInv /\ [SettingsNext]_settings => EInv'
  BY ErasedStep
<1>3. SettingsInit => EInv
  BY SettingsBegin
<1> QED BY <1>1, <1>2, <1>3, PTL DEF SettingsSpec

-----------------------------------------------------------------------------
(* Nothing is lost *)

Valid == ~nvs.reset /\ ~exposed
Stored == Decodes(files.primary) \/ saved = {}

\* A file system that was not seen provisioned holds nothing, unless a call failed.
FormatInv ==
  /\ phase \notin {"resume", "guard", "unformat", "load", "run"} => ~ram.mounted
  /\ ram.mounted => flash = "ready"
  /\ flash # "ready" => files = NoFiles
  /\ phase \in {"intent", "format"} => files = NoFiles
  /\ faults = 0 /\ ~nvs.provisioned =>
       /\ files = NoFiles /\ ~nvs.reset /\ phase # "unformat"
       /\ phase \in {"load", "run"} => ~ram.mounted

\* A reset is of files that can be reached, and is marked before the first goes.
MarkedInv ==
  /\ eraser # "none" => ram.mounted
  /\ eraser \in WipeSteps => nvs.reset

\* Files are never torn but the staging file, and a newer one is alone.
WholeInv ==
  /\ files.primary # TornFile /\ files.backup # TornFile
  /\ ~exposed => files.backup.by # "newer"
  /\ ~exposed /\ files.primary.by = "newer" => saved = {} /\ ~Writing /\ ~ram.loaded

\* What runs without a document cannot be saved.
BlindInv ==
  /\ ram.newer => phase = "run" /\ job = NoJob
  /\ phase = "run" /\ ~ram.loaded /\ ~exposed =>
       ~ram.mounted \/ ram.newer \/ (blocked /\ eraser # "mark")
  /\ phase = "load" /\ job # NoJob => ram.loaded
  /\ phase = "run" => ~job.restoring
  /\ Writing => ram.mounted /\ (ram.loaded \/ exposed)

\* A save knows what was saved before.
JobInv ==
  Valid /\ ram.loaded /\ job.at # "none" =>
    /\ saved \ Superseded(job.edit) \subseteq job.to
    /\ job.restoring =>
         saved \subseteq job.to /\ Decodes(files.backup) /\ files.backup.edits = job.to
    /\ job.at = "unbackup" => ~job.restoring
    /\ job.at = "drop" => job.restoring
    /\ job.at = "demote" =>
         files.backup = None /\ ~job.restoring /\ (job.had <=> files.primary # None)
    /\ job.at = "promote" =>
         /\ files.primary = None
         /\ ~job.restoring => (IF job.had THEN Decodes(files.backup) \/ saved = {} ELSE saved = {})

StoredInv ==
  Valid /\ ram.loaded /\ ~job.restoring /\ job.at # "promote" => Stored

RamInv == Valid /\ ram.loaded => saved \subseteq ram.config
FilesInv == Valid => saved \subseteq Readable

\* Of two snapshots with one revision, neither is older.
RevisionInv ==
  \A p \in proposals :
    p.revision <= ram.revision /\ (p.revision = ram.revision => p.base = ram.config)

FaultInv == faults \in Nat /\ faults \leq 1
KInv ==
  /\ EInv /\ FaultInv /\ FormatInv /\ MarkedInv /\ WholeInv /\ BlindInv
  /\ JobInv /\ StoredInv /\ RamInv /\ FilesInv /\ RevisionInv

\* What the steps of a save and of a start do, field by field.
Quit ==
  /\ job' = NoJob /\ phase' = "run" /\ exposed' = (exposed \/ job.restoring)
  /\ UNCHANGED <<ram, saved>>
Goes(at) ==
  /\ job'.at = at /\ job'.to = job.to /\ job'.restoring = job.restoring /\ job'.edit = job.edit
  /\ UNCHANGED <<ram, saved, exposed, phase>>

LEMMA StageEffect ==
  ASSUME SettingsTyped, Stage
  PROVE  /\ UNCHANGED <<nvs, blocked, eraser, proposals, gone>>
         /\ files'.primary = files.primary /\ files'.backup = files.backup
         /\ \/ Quit
            \/ ~Refused /\ Goes(IF job.restoring THEN "drop" ELSE "unbackup")
<1>1. files'.primary = files.primary /\ files'.backup = files.backup
  BY Shapes DEF Stage, FileRecord
<1>2. CASE NotSaved
  BY <1>1, <1>2 DEF NotSaved, Quit, Stage
<1>3. CASE /\ ~Refused /\ job' = [job EXCEPT !.at = IF job.restoring THEN "drop" ELSE "unbackup"]
           /\ UNCHANGED <<ram, saved, exposed, phase>>
  BY <1>1, <1>3, Shapes DEF Goes, JobRecord, Stage
<1> QED BY <1>2, <1>3 DEF Stage

LEMMA UnbackupEffect ==
  ASSUME SettingsTyped, Unbackup
  PROVE  /\ UNCHANGED <<nvs, blocked, eraser, proposals, gone>> /\ files'.primary = files.primary
         /\ \/ Quit /\ UNCHANGED files
            \/ Goes("demote") /\ files'.backup = None /\ job'.had = (files.primary # None)
BY Shapes DEF Unbackup, NotSaved, Quit, Goes, JobRecord, FileRecord

LEMMA DemoteEffect ==
  ASSUME SettingsTyped, Demote
  PROVE  /\ UNCHANGED <<nvs, blocked, eraser, proposals, gone>>
         /\ \/ Quit /\ UNCHANGED files
            \/ /\ Goes("promote") /\ job'.had = job.had
               /\ IF job.had THEN files'.backup = files.primary /\ files'.primary = None
                             ELSE UNCHANGED files
BY Shapes DEF Demote, NotSaved, Quit, Goes, JobRecord, FileRecord

LEMMA DropEffect ==
  ASSUME SettingsTyped, Drop
  PROVE  /\ UNCHANGED <<nvs, blocked, eraser, proposals, gone>> /\ files'.backup = files.backup
         /\ \/ Quit /\ UNCHANGED files
            \/ Goes("promote") /\ job'.had = job.had /\ files'.primary = None
BY Shapes DEF Drop, NotSaved, Quit, Goes, JobRecord, FileRecord

LEMMA PromoteEffect ==
  ASSUME SettingsTyped, Promote
  PROVE  /\ UNCHANGED <<nvs, blocked, eraser, proposals, gone>> /\ job' = NoJob /\ phase' = "run"
         /\ \/ /\ files'.primary = files.staging /\ files'.backup = files.backup
               /\ ram' = [config |-> job.to, revision |-> ram.revision + 1, newer |-> ram.newer,
                          mounted |-> ram.mounted, loaded |-> TRUE]
               /\ saved' = (saved \ Superseded(job.edit)) \cup (job.to \cap {job.edit})
               /\ UNCHANGED exposed
            \/ /\ Quit
               /\ IF job.had THEN files'.primary = files.backup /\ files'.backup = None
                             ELSE UNCHANGED files
            \/ exposed' = TRUE /\ UNCHANGED <<files, ram, saved>>
BY Shapes DEF Promote, Saved, NotSaved, Quit, JobRecord, FileRecord, RamRecord

LEMMA PromoteKeeps ==
  ASSUME SettingsTyped, Promote
  PROVE  /\ ram'.mounted = ram.mounted /\ ram'.newer = ram.newer
         /\ UNCHANGED ram \/ (ram'.loaded /\ ram'.revision = ram.revision + 1)
<1>1. CASE Saved
  BY <1>1, Shapes DEF Saved, RamRecord
<1>2. CASE UNCHANGED ram
  BY <1>2
<1> QED BY <1>1, <1>2 DEF Promote, NotSaved

LEMMA FromStore ==
  ASSUME SettingsTyped, LoadSettings
  PROVE  /\ phase = "load" /\ job = NoJob
         /\ UNCHANGED <<disk, blocked, eraser, proposals, used, saved, gone>>
         /\ \/ Refused /\ Runs({}, FALSE, FALSE) /\ UNCHANGED exposed
            \/ ~Refused /\ Loads(files.primary, TRUE) /\ UNCHANGED exposed
            \/ ~Refused /\ Loads(files.primary, FALSE) /\ exposed' = TRUE
BY DEF LoadSettings, Booting

LEMMA Read ==
  ASSUME SettingsTyped, LoadSettings, ~Refused, ~exposed'
  PROVE  /\ UNCHANGED exposed
         /\ \/ /\ Decodes(files.primary)
               /\ \/ RunsAndSaves(files.primary.edits, FALSE)
                  \/ Runs(files.primary.edits, TRUE, FALSE)
            \/ /\ ~Decodes(files.primary)
               /\ \/ WrittenByNewer(files.primary) /\ Runs({}, FALSE, TRUE)
                  \/ /\ ~WrittenByNewer(files.primary)
                     /\ \/ Decodes(files.backup) /\ RunsAndSaves(files.backup.edits, TRUE)
                        \/ /\ files.primary = None /\ files.backup = None
                           /\ RunsAndSaves(nvs.legacy, FALSE)
                        \/ /\ ~Decodes(files.backup) /\ {files.primary, files.backup} # {None}
                           /\ Runs({}, FALSE, WrittenByNewer(files.backup))
BY FromStore DEF Loads, LegacyCalibration

\* A save begins with what the settings hold, and ends no job.
LEMMA SaveBegins ==
  ASSUME KInv, Replace \/ EditLocked
  PROVE  /\ phase = "run" /\ job = NoJob
         /\ UNCHANGED <<files, nvs, flash, phase, blocked, ram, eraser, saved, gone, exposed>>
         /\ \/ UNCHANGED job
            \/ /\ ~ram.newer
               /\ \E e : job'.to = Applied(ram.config, e) /\ job'.edit = e
               /\ job'.at \in {"legacy", "stage"} /\ ~job'.restoring
<1> SettingsTyped /\ RevisionInv
  BY DEF KInv, EInv
<1>1. CASE Replace
  <2>1. PICK p \in proposals : /\ Current(p)
              /\ \/ UNCHANGED job
                 \/ /\ ~ram.newer
                    /\ Saves(Applied(p.base, p.edit), p.edit,
                             IF ClearsLegacy(Applied(p.base, p.edit)) THEN "legacy" ELSE "stage")
    BY <1>1 DEF Replace
  <2>2. p.base = ram.config
    BY <2>1 DEF RevisionInv, Current
  <2> QED BY <1>1, <2>1, <2>2 DEF Replace, Idle, disk, history, Saves, NoJob
<1>2. CASE EditLocked
  BY <1>2 DEF EditLocked, Idle, disk, Saves, NoJob
<1> QED BY <1>1, <1>2

Conjuncts ==
  /\ SettingsTyped /\ PlacesInv /\ WipedInv /\ FormatInv /\ MarkedInv /\ WholeInv /\ BlindInv
  /\ JobInv /\ StoredInv /\ RamInv /\ FilesInv /\ RevisionInv
  /\ job \in JobRecord /\ ram \in RamRecord /\ files \in FileRecord

LEMMA Parts == KInv => Conjuncts
BY Shapes DEF KInv, EInv, Conjuncts

LEMMA LoadFormat == ASSUME KInv, LoadSettings PROVE FormatInv'
<1> Conjuncts
  BY Parts
<1> USE DEF Conjuncts
<1>1. phase = "load" /\ phase' \in {"load", "run"} /\ UNCHANGED disk /\ ram'.mounted = ram.mounted
  BY FromStore DEF Runs, RunsAndSaves, RamRecord, Loads
<1>2. faults' = faults \/ (faults \in Nat /\ faults' = faults + 1)
  BY DEF LoadSettings, Works, Fails, KInv, FaultInv
<1> QED BY <1>1, <1>2 DEF FormatInv, disk

LEMMA PromoteMarked == ASSUME KInv, Promote PROVE MarkedInv'
<1> Conjuncts
  BY Parts
<1>1. SettingsTyped /\ MarkedInv
  BY DEF Conjuncts
<1>2. ram'.mounted = ram.mounted /\ UNCHANGED <<eraser, nvs>>
  BY <1>1, PromoteKeeps, PromoteEffect
<1> QED BY <1>1, <1>2 DEF MarkedInv

LEMMA LoadWhole == ASSUME KInv, LoadSettings PROVE WholeInv'
<1> Conjuncts
  BY Parts
<1> USE DEF Conjuncts
<1>0. ~exposed' => ~exposed
  BY FromStore
<1>1. UNCHANGED <<files, saved>> /\ job = NoJob /\ (~exposed' => ~exposed)
  BY <1>0, FromStore DEF disk
<1>2. ~Writing'
  <2>1. job' = NoJob \/ \E edits, restoring : RunsAndSaves(edits, restoring)
    BY FromStore DEF Runs, Loads
  <2>2. job'.at \in {"none", "stage"}
    BY <2>1, Blanks DEF RunsAndSaves, JobRecord
  <2> QED BY <2>2 DEF Writing, FileSteps
<1>3. ASSUME ~exposed', files.primary.by = "newer" PROVE ~ram'.loaded
  <2>1. ~Decodes(files.primary) /\ WrittenByNewer(files.primary)
    BY <1>3, Kinds DEF WrittenByNewer, FileRecord
  <2> QED BY <1>3, <2>1, Read, FromStore DEF Runs, RamRecord
<1> QED BY <1>1, <1>2, <1>3 DEF WholeInv

LEMMA StageWhole == ASSUME KInv, Stage PROVE WholeInv'
<1> Conjuncts
  BY Parts
<1> USE DEF Conjuncts
<1>1. job.at = "stage" /\ job # NoJob /\ phase \in {"load", "run"}
  BY Kinds DEF Stage, PlacesInv
<1>2. CASE Quit
  BY <1>2, StageEffect, Kinds DEF WholeInv, Quit, Writing, FileSteps
<1>3. CASE ~Refused /\ Goes(IF job.restoring THEN "drop" ELSE "unbackup")
  <2>1. exposed \/ ram.loaded
    BY <1>1, <1>3 DEF BlindInv, Refused
  <2> QED BY <1>3, <2>1, StageEffect DEF WholeInv, Goes
<1> QED BY <1>2, <1>3, StageEffect

LEMMA DemoteWhole == ASSUME KInv, Demote PROVE WholeInv'
<1> Conjuncts
  BY Parts
<1> USE DEF Conjuncts
<1>1. Writing
  BY DEF Demote, Writing, FileSteps
<1> QED BY <1>1, DemoteEffect, Kinds DEF WholeInv, Quit, Goes, Writing, FileSteps

LEMMA PromoteWhole == ASSUME KInv, Promote PROVE WholeInv'
<1> Conjuncts
  BY Parts
<1> USE DEF Conjuncts
<1>1. files.staging.by = "this" /\ files.staging # TornFile
  BY Kinds DEF Promote, PlacesInv, Writing, FileSteps
<1>2. Writing /\ ~Writing'
  BY PromoteEffect, Kinds DEF Promote, Writing, FileSteps
<1> QED BY <1>1, <1>2, PromoteEffect, Kinds DEF WholeInv, Quit

LEMMA ReplaceWhole == ASSUME KInv, Replace PROVE WholeInv'
<1> Conjuncts
  BY Parts
<1>1. ~Writing'
  BY SaveBegins, Kinds DEF Writing, FileSteps
<1> QED BY <1>1, SaveBegins DEF WholeInv, Conjuncts

LEMMA LoadBlind == ASSUME KInv, LoadSettings PROVE BlindInv'
<1> Conjuncts
  BY Parts
<1> USE DEF Conjuncts
<1>0. ~exposed' => ~exposed
  BY FromStore
<1>1. /\ phase = "load" /\ job = NoJob /\ UNCHANGED <<files, blocked, eraser>>
      /\ ~exposed' => ~exposed
  BY <1>0, FromStore DEF disk
<1>2. \/ phase' = "run" /\ job' = NoJob /\ ram'.mounted = ram.mounted
      \/ phase' = "load" /\ ram'.loaded /\ job'.at = "stage" /\ ram'.newer = ram.newer
  BY <1>1, FromStore, Blanks DEF Runs, RunsAndSaves, Loads, RamRecord, JobRecord
<1>3. ASSUME phase' = "run", ~ram'.loaded, ~exposed' 
      PROVE  ~ram'.mounted \/ ram'.newer \/ (blocked' /\ eraser' # "mark")
  <2>1. CASE Refused
    BY <1>1, <1>2, <1>3, <2>1 DEF Refused, PlacesInv
  <2>2. CASE ~Refused
    <3>1. files.primary.by = "newer" => WrittenByNewer(files.primary)
      BY Kinds DEF WrittenByNewer, FileRecord
    <3>2. ~WrittenByNewer(files.primary) /\ ~Decodes(files.primary) => files.primary = None
      BY <1>1, <1>3 DEF WrittenByNewer, Decodes, IsDocument, WholeInv, FileRecord, FileValue,
         Document
    <3>3. ~Decodes(files.backup) => files.backup = None
      BY <1>1, <1>3 DEF Decodes, IsDocument, WholeInv, FileRecord, FileValue, Document
    <3>4. \A edits, r : RunsAndSaves(edits, r) => ram'.loaded
      BY DEF RunsAndSaves, RamRecord
    <3>5. \A edits : Runs(edits, TRUE, FALSE) => ram'.loaded
      BY DEF Runs, RamRecord
    <3>6. files.primary = None /\ files.backup = None => {files.primary, files.backup} = {None}
      OBVIOUS
    <3>7. Runs({}, FALSE, TRUE)
      BY <1>3, <2>2, <3>2, <3>3, <3>4, <3>5, <3>6, Read
    <3> QED BY <3>7 DEF Runs, RamRecord
  <2> QED BY <2>1, <2>2
<1>4. ~ram.newer
  BY <1>1 DEF BlindInv
<1> QED BY <1>1, <1>2, <1>3, <1>4, Kinds DEF BlindInv, Writing, FileSteps

LEMMA PromoteBlind == ASSUME KInv, Promote PROVE BlindInv'
<1> Conjuncts
  BY Parts
<1> USE DEF Conjuncts
<1>1. ~Writing' /\ job' = NoJob /\ ~job'.restoring
  BY PromoteEffect, Kinds DEF Writing, FileSteps
<1>2. Writing
  BY DEF Promote, Writing, FileSteps
<1>3. phase' = "run" /\ ram'.mounted = ram.mounted /\ ram'.newer = ram.newer
  BY PromoteKeeps, PromoteEffect
<1>4. ~ram.newer
  BY <1>2, Kinds DEF BlindInv, Writing, FileSteps
<1>5. ram'.loaded \/ exposed'
  <2>1. ram.loaded \/ exposed
    BY <1>2 DEF BlindInv
  <2>2. exposed => exposed'
    BY PromoteEffect DEF Quit
  <2> QED BY <2>1, <2>2, PromoteKeeps
<1> QED BY <1>1, <1>3, <1>4, <1>5 DEF BlindInv

LEMMA ReplaceBlind == ASSUME KInv, Replace PROVE BlindInv'
<1> Conjuncts
  BY Parts
<1>1. ~Writing' /\ ~job'.restoring
  BY SaveBegins, Kinds DEF Writing, FileSteps
<1> QED BY <1>1, SaveBegins DEF BlindInv, Conjuncts

\* Reading the store finds everything that was saved.
LEMMA LoadKeeps ==
  ASSUME KInv, LoadSettings, ~nvs'.reset, ~exposed', ram'.loaded
  PROVE  /\ UNCHANGED <<files, saved>> /\ saved \subseteq ram'.config
         /\ \/ job' = NoJob /\ Decodes(files.primary)
            \/ /\ job'.at = "stage" /\ job'.to = ram'.config
               /\ IF job'.restoring THEN Decodes(files.backup) /\ files.backup.edits = job'.to
                                    ELSE Decodes(files.primary) \/ saved = {}
<1> Conjuncts
  BY Parts
<1> USE DEF Conjuncts
<1>1. UNCHANGED <<files, nvs, saved>> /\ job = NoJob
  BY FromStore DEF disk
<1>2. ~Refused /\ UNCHANGED exposed
  BY FromStore, Read DEF Runs, RamRecord
<1>3. saved \subseteq Readable
  BY <1>1, <1>2 DEF FilesInv, Valid
<1>4. \A config, loaded, newer : Runs(config, loaded, newer) =>
        ram'.config = config /\ ram'.loaded = loaded /\ job' = NoJob
  BY <1>1 DEF Runs, RamRecord
<1>5. \A config, restoring : RunsAndSaves(config, restoring) =>
        ram'.config = config /\ job'.at = "stage" /\ job'.to = config /\ job'.restoring = restoring
  BY Blanks DEF RunsAndSaves, RamRecord, JobRecord
<1>6. CASE Decodes(files.primary)
  BY <1>1, <1>2, <1>3, <1>4, <1>5, <1>6, Read DEF Readable
<1>7. CASE ~Decodes(files.primary) /\ Decodes(files.backup)
  BY <1>1, <1>2, <1>3, <1>4, <1>5, <1>7, Read, Kinds DEF Readable
<1>8. CASE ~Decodes(files.primary) /\ ~Decodes(files.backup)
  <2>1. saved = {}
    BY <1>3, <1>8 DEF Readable
  <2> QED BY <1>1, <1>2, <1>4, <1>5, <1>8, <2>1, Read
<1> QED BY <1>6, <1>7, <1>8

LEMMA LoadJob == ASSUME KInv, LoadSettings PROVE JobInv'
BY LoadKeeps, Kinds DEF JobInv, Valid

LEMMA LoadStored == ASSUME KInv, LoadSettings PROVE StoredInv'
BY LoadKeeps, Kinds DEF StoredInv, Valid, Stored

LEMMA LoadRam == ASSUME KInv, LoadSettings PROVE RamInv'
BY LoadKeeps DEF RamInv, Valid

LEMMA UnbackupJob == ASSUME KInv, Unbackup PROVE JobInv'
<1> Conjuncts
  BY Parts
<1> USE DEF Conjuncts
<1>1. job.at = "unbackup"
  BY DEF Unbackup
<1>2. CASE Quit
  BY <1>2, Kinds DEF Quit, JobInv
<1>3. CASE Goes("demote") /\ files'.backup = None /\ job'.had = (files.primary # None)
  BY <1>1, <1>3, UnbackupEffect DEF Goes, JobInv, Valid
<1> QED BY <1>2, <1>3, UnbackupEffect

LEMMA DemoteJob == ASSUME KInv, Demote PROVE JobInv'
<1> Conjuncts
  BY Parts
<1> USE DEF Conjuncts
<1>1. job.at = "demote"
  BY DEF Demote
<1>2. CASE Quit
  BY <1>2, Kinds DEF Quit, JobInv
<1>3. CASE /\ Goes("promote") /\ job'.had = job.had /\ job.had
           /\ files'.backup = files.primary /\ files'.primary = None
  BY <1>1, <1>3, DemoteEffect DEF Goes, JobInv, Valid, StoredInv, Stored
<1>4. CASE Goes("promote") /\ job'.had = job.had /\ ~job.had /\ UNCHANGED files
  BY <1>1, <1>4, DemoteEffect, Kinds DEF Goes, JobInv, Valid, StoredInv, Stored
<1> QED BY <1>2, <1>3, <1>4, DemoteEffect

LEMMA EditJob == ASSUME KInv, Replace \/ EditLocked PROVE JobInv'
<1> Conjuncts
  BY Parts
<1> USE DEF Conjuncts
<1>1. ASSUME Valid', ram'.loaded, job'.at # "none"
      PROVE  /\ saved \ Superseded(job'.edit) \subseteq job'.to
             /\ job'.at \in {"legacy", "stage"} /\ ~job'.restoring
  <2>1. saved \subseteq ram.config
    BY <1>1, SaveBegins DEF RamInv, Valid
  <2> QED BY <1>1, <2>1, SaveBegins, Kinds DEF Applied
<1> QED BY <1>1, SaveBegins DEF JobInv

LEMMA PromoteStored == ASSUME KInv, Promote PROVE StoredInv'
<1> Conjuncts
  BY Parts
<1> USE DEF Conjuncts
<1>1. /\ job.at = "promote" /\ Decodes(files.staging)
  BY Kinds DEF Promote, PlacesInv, Writing, FileSteps
<1>2. Valid' => Valid
  BY PromoteEffect DEF Valid, Quit
<1>3. CASE files'.primary = files.staging
  BY <1>1, <1>3 DEF StoredInv, Stored
<1>4. CASE /\ Quit
           /\ IF job.had THEN files'.primary = files.backup /\ files'.backup = None
                         ELSE UNCHANGED files
  BY <1>1, <1>2, <1>4, Kinds DEF StoredInv, Stored, Valid, Quit, JobInv
<1> QED BY <1>3, <1>4, PromoteEffect DEF StoredInv, Valid

\* A save that a step under way belongs to knows what was saved.
LEMMA Knows ==
  ASSUME KInv, Writing, Valid PROVE ram.loaded /\ saved \ Superseded(job.edit) \subseteq job.to
<1> Conjuncts
  BY Parts
<1> QED BY DEF Conjuncts, BlindInv, JobInv, Valid, Writing, FileSteps

LEMMA Promoted ==
  ASSUME KInv, Promote, Valid'
  PROVE  /\ Valid /\ ram.loaded /\ job.at = "promote"
         /\ files.staging.edits = job.to /\ Decodes(files.staging)
         /\ \/ /\ files'.primary = files.staging /\ saved' \subseteq job.to /\ ram'.config = job.to
            \/ /\ Quit /\ ~job.restoring
               /\ IF job.had THEN files'.primary = files.backup ELSE UNCHANGED files
<1> Conjuncts
  BY Parts
<1> USE DEF Conjuncts
<1>1. job.at = "promote" /\ Writing /\ files.staging.edits = job.to /\ Decodes(files.staging)
  BY Kinds DEF Promote, PlacesInv, Writing, FileSteps
<1>2. Valid
  <2>1. UNCHANGED nvs
    BY PromoteEffect
  <2>2. exposed => exposed'
    BY PromoteEffect DEF Quit
  <2> QED BY <2>1, <2>2 DEF Valid
<1>3. ram.loaded /\ saved \ Superseded(job.edit) \subseteq job.to
  BY <1>1, <1>2, Knows
<1>4. CASE /\ Quit
           /\ IF job.had THEN files'.primary = files.backup /\ files'.backup = None
                         ELSE UNCHANGED files
  BY <1>1, <1>2, <1>3, <1>4 DEF Valid, Quit
<1>5. CASE exposed' = TRUE
  BY <1>5 DEF Valid
<1>6. CASE /\ files'.primary = files.staging
           /\ ram' = [config |-> job.to, revision |-> ram.revision + 1, newer |-> ram.newer,
                      mounted |-> ram.mounted, loaded |-> TRUE]
           /\ saved' = (saved \ Superseded(job.edit)) \cup (job.to \cap {job.edit})
  BY <1>1, <1>2, <1>3, <1>6
<1> QED BY <1>4, <1>5, <1>6, PromoteEffect

LEMMA PromoteRam == ASSUME KInv, Promote PROVE RamInv'
<1> Conjuncts
  BY Parts
<1> QED BY Promoted DEF Conjuncts, RamInv, Quit

LEMMA StageFiles == ASSUME KInv, Stage PROVE FilesInv'
<1> Conjuncts
  BY Parts
<1> QED BY StageEffect DEF Conjuncts, FilesInv, Valid, Readable, Quit, Goes

LEMMA UnbackupFiles == ASSUME KInv, Unbackup PROVE FilesInv'
<1> Conjuncts
  BY Parts
<1> USE DEF Conjuncts
<1>1. CASE Quit /\ UNCHANGED files
  BY <1>1, UnbackupEffect DEF FilesInv, Valid, Readable, Quit
<1>2. CASE Goes("demote") /\ files'.backup = None
  <2>1. job.at = "unbackup" /\ Writing
    BY DEF Unbackup, Writing, FileSteps
  <2>2. Valid => Stored
    BY <2>1, Knows DEF JobInv, StoredInv
  <2> QED BY <1>2, <2>2, UnbackupEffect DEF FilesInv, Valid, Readable, Stored, Goes
<1> QED BY <1>1, <1>2, UnbackupEffect

LEMMA DemoteFiles == ASSUME KInv, Demote PROVE FilesInv'
<1> Conjuncts
  BY Parts
<1> USE DEF Conjuncts
<1>1. CASE UNCHANGED files
  BY <1>1, DemoteEffect DEF FilesInv, Valid, Readable, Quit, Goes
<1>2. CASE Goes("promote") /\ files'.backup = files.primary /\ files'.primary = None
  <2>1. job.at = "demote" /\ Writing
    BY DEF Demote, Writing, FileSteps
  <2>2. Valid => Stored
    BY <2>1, Knows DEF JobInv, StoredInv
  <2> QED BY <1>2, <2>2, DemoteEffect, Kinds DEF FilesInv, Valid, Readable, Stored, Goes
<1> QED BY <1>1, <1>2, DemoteEffect

LEMMA DropFiles == ASSUME KInv, Drop PROVE FilesInv'
<1> Conjuncts
  BY Parts
<1> USE DEF Conjuncts
<1>1. CASE UNCHANGED files
  BY <1>1, DropEffect DEF FilesInv, Valid, Readable, Quit, Goes
<1>2. CASE Goes("promote") /\ files'.primary = None
  <2>1. job.at = "drop" /\ Writing
    BY DEF Drop, Writing, FileSteps
  <2>2. Valid => Decodes(files.backup) /\ saved \subseteq files.backup.edits
    BY <2>1, Knows DEF JobInv
  <2> QED BY <1>2, <2>2, DropEffect, Kinds DEF FilesInv, Valid, Readable, Goes
<1> QED BY <1>1, <1>2, DropEffect

LEMMA PromoteFiles == ASSUME KInv, Promote PROVE FilesInv'
<1> Conjuncts
  BY Parts
<1> USE DEF Conjuncts
<1> SUFFICES ASSUME Valid' PROVE saved' \subseteq Readable'
  BY DEF FilesInv
<1>1. CASE files'.primary = files.staging /\ saved' \subseteq job.to
  BY <1>1, Promoted DEF Readable
<1>2. CASE /\ Quit /\ ~job.restoring
           /\ IF job.had THEN files'.primary = files.backup ELSE UNCHANGED files
  <2>1. files.primary = None /\ saved \subseteq Readable
    BY Promoted DEF JobInv, FilesInv
  <2> QED BY <1>2, <2>1, Promoted, Kinds DEF JobInv, Readable, Quit
<1> QED BY <1>1, <1>2, Promoted

LEMMA PromoteRevision == ASSUME KInv, Promote PROVE RevisionInv'
<1> Conjuncts
  BY Parts
<1> USE DEF Conjuncts
<1>1. UNCHANGED proposals /\ RamTyped /\ ProposalsTyped
  BY PromoteEffect, Shapes
<1>2. UNCHANGED ram \/ ram'.revision = ram.revision + 1
  BY PromoteKeeps
<1> QED BY <1>1, <1>2 DEF RevisionInv, RamTyped, RamRecord, ProposalsTyped

LEMMA OnceFails ==
  ASSUME KInv, MaxFaults <= 1, MaxFaults \in Nat, Fails PROVE faults = 0 /\ faults' = 1
BY DEF KInv, FaultInv, Fails

LEMMA FormatInvStep ==
  ASSUME KInv, MaxFaults \in Nat, MaxFaults <= 1, [SettingsNext]_settings PROVE FormatInv'
<1> Conjuncts
  BY Parts
<1> NvsTyped /\ HistoryTyped
  BY Shapes DEF Conjuncts
<1> faults \in Nat /\ (Fails => faults = 0 /\ faults' = 1)
  BY OnceFails DEF KInv, FaultInv
<1> USE DEF Conjuncts, FormatInv, PlacesInv, Writing, FileSteps, MarkedInv, BlindInv, MayFormat,
            JobRecord, RamRecord, FileRecord, NvsTyped
<1>1. CASE PowerCut \/ Restart
  BY <1>1, Kinds DEF PowerCut, Down, Refused, history, Restart
<1>2. CASE PowerOn \/ Mount \/ Intend \/ Format \/ Formatted \/ Resume \/ Guard \/ Unformat
  BY <1>2, Kinds DEF PowerOn, disk, history, Mount, Works, Intend, Format, Formatted, Resume,
     Guard, Unformat
<1>3. CASE SaveLegacy \/ Stage \/ Unbackup \/ Demote \/ Drop \/ Promote
  BY <1>3, Kinds DEF SaveLegacy, NotSaved, Works, Stage, MutexFree, Refused, Unbackup, Demote,
     Drop, Promote, Saved
<1>4. CASE Propose \/ Replace \/ Conflict \/ EditLocked \/ StartReset
  BY <1>4, Kinds DEF Propose, Proposal, disk, Replace, Saves, Idle, Current, history, Conflict,
     EditLocked, StartReset
<1>5. CASE Mark \/ Remove \/ ClearNvs \/ Unmark
  BY <1>5, Kinds DEF Mark, history, Works, Remove, Stops, ClearNvs, Unmark
<1>6. CASE LoadSettings
  BY <1>6, LoadFormat
<1>7. CASE UNCHANGED settings
  BY <1>7 DEF settings
<1> QED
  BY <1>1, <1>2, <1>3, <1>4, <1>5, <1>6, <1>7 DEF SettingsNext, Boot, Persist, Reset

LEMMA MarkedInvStep ==
  ASSUME KInv, MaxFaults \in Nat, MaxFaults <= 1, [SettingsNext]_settings PROVE MarkedInv'
<1> Conjuncts
  BY Parts
<1> NvsTyped /\ HistoryTyped
  BY Shapes DEF Conjuncts
<1> faults \in Nat /\ (Fails => faults = 0 /\ faults' = 1)
  BY OnceFails DEF KInv, FaultInv
<1> USE DEF Conjuncts, MarkedInv, PlacesInv, WipeSteps, JobRecord, RamRecord, FileRecord,
            NvsTyped
<1>1. CASE PowerCut \/ Restart
  BY <1>1, Kinds DEF PowerCut, Down, Refused, history, Restart
<1>2. CASE PowerOn \/ Mount \/ Intend \/ Format \/ Formatted \/ Resume \/ Guard \/ Unformat \/
           LoadSettings
  BY <1>2, Kinds DEF PowerOn, disk, history, Mount, Works, Intend, Format, Formatted, Resume,
     Guard, Unformat, LoadSettings, Booting, Runs, RunsAndSaves, Loads, LegacyCalibration,
     Refused
<1>3. CASE SaveLegacy \/ Stage \/ Unbackup \/ Demote \/ Drop
  BY <1>3, Kinds DEF SaveLegacy, NotSaved, Works, Stage, MutexFree, Refused, Unbackup, Demote,
     Drop
<1>4. CASE Propose \/ Replace \/ Conflict \/ EditLocked \/ StartReset
  BY <1>4, Kinds DEF Propose, Proposal, disk, Replace, Saves, Idle, Current, history, Conflict,
     EditLocked, StartReset
<1>5. CASE Mark \/ Remove \/ ClearNvs \/ Unmark
  BY <1>5, Kinds DEF Mark, history, Works, Remove, Stops, ClearNvs, Unmark
<1>6. CASE Promote
  BY <1>6, PromoteMarked
<1>7. CASE UNCHANGED settings
  BY <1>7 DEF settings
<1> QED
  BY <1>1, <1>2, <1>3, <1>4, <1>5, <1>6, <1>7 DEF SettingsNext, Boot, Persist, Reset

LEMMA WholeInvStep ==
  ASSUME KInv, MaxFaults \in Nat, MaxFaults <= 1, [SettingsNext]_settings PROVE WholeInv'
<1> Conjuncts
  BY Parts
<1> NvsTyped /\ HistoryTyped
  BY Shapes DEF Conjuncts
<1> faults \in Nat /\ (Fails => faults = 0 /\ faults' = 1)
  BY OnceFails DEF KInv, FaultInv
<1> USE DEF Conjuncts, WholeInv, FormatInv, PlacesInv, Writing, FileSteps, JobRecord, RamRecord,
            FileRecord, NvsTyped
<1>1. CASE PowerCut \/ Restart
  BY <1>1, Kinds DEF PowerCut, Down, Refused, history, Restart
<1>2. CASE PowerOn \/ Mount \/ Intend \/ Format \/ Formatted \/ Resume \/ Guard \/ Unformat
  BY <1>2, Kinds DEF PowerOn, disk, history, Mount, Works, Intend, Format, Formatted, Resume,
     Guard, Unformat
<1>3. CASE Mark \/ Remove \/ ClearNvs \/ Unmark
  BY <1>3, Kinds DEF Mark, history, Works, Remove, Stops, ClearNvs, Unmark
<1>4. CASE SaveLegacy
  BY <1>4, Kinds DEF SaveLegacy, NotSaved, Works
<1>5. CASE Unbackup
  BY <1>5, Kinds DEF Unbackup, NotSaved, Works
<1>6. CASE Drop
  BY <1>6, Kinds DEF Drop, NotSaved, Works
<1>7. CASE Propose \/ Conflict
  BY <1>7, Kinds DEF Propose, Proposal, disk, Conflict, Idle, Current, history
<1>8. CASE EditLocked
  BY <1>8, Kinds DEF EditLocked, Saves, Idle, disk
<1>9. CASE StartReset
  BY <1>9, Kinds DEF StartReset, disk, history
<1>10. CASE LoadSettings
  BY <1>10, LoadWhole
<1>11. CASE Stage
  BY <1>11, StageWhole
<1>12. CASE Demote
  BY <1>12, DemoteWhole
<1>13. CASE Promote
  BY <1>13, PromoteWhole
<1>14. CASE Replace
  BY <1>14, ReplaceWhole
<1>15. CASE UNCHANGED settings
  BY <1>15 DEF settings
<1> QED
  BY <1>1, <1>2, <1>3, <1>4, <1>5, <1>6, <1>7, <1>8, <1>9, <1>10, <1>11, <1>12, <1>13, <1>14,
     <1>15 DEF SettingsNext, Boot, Persist, Reset

LEMMA BlindInvStep ==
  ASSUME KInv, MaxFaults \in Nat, MaxFaults <= 1, [SettingsNext]_settings PROVE BlindInv'
<1> Conjuncts
  BY Parts
<1> NvsTyped /\ HistoryTyped
  BY Shapes DEF Conjuncts
<1> faults \in Nat /\ (Fails => faults = 0 /\ faults' = 1)
  BY OnceFails DEF KInv, FaultInv
<1> USE DEF Conjuncts, BlindInv, FormatInv, PlacesInv, Writing, FileSteps, JobRecord, RamRecord,
            FileRecord, NvsTyped
<1>1. CASE PowerCut \/ Restart
  BY <1>1, Kinds DEF PowerCut, Down, Refused, history, Restart
<1>2. CASE PowerOn \/ Mount \/ Intend \/ Format \/ Formatted \/ Resume \/ Guard \/ Unformat
  BY <1>2, Kinds DEF PowerOn, disk, history, Mount, Works, Intend, Format, Formatted, Resume,
     Guard, Unformat
<1>3. CASE Mark \/ Remove \/ ClearNvs \/ Unmark
  BY <1>3, Kinds DEF Mark, history, Works, Remove, Stops, ClearNvs, Unmark
<1>4. CASE SaveLegacy
  BY <1>4, Kinds DEF SaveLegacy, NotSaved, Works
<1>5. CASE Stage
  BY <1>5, Kinds DEF Stage, MutexFree, Refused, NotSaved, Works
<1>6. CASE Demote
  BY <1>6, Kinds DEF Demote, NotSaved, Works
<1>7. CASE Drop
  BY <1>7, Kinds DEF Drop, NotSaved, Works
<1>8. CASE Propose \/ Conflict
  BY <1>8, Kinds DEF Propose, Proposal, disk, Conflict, Idle, Current, history
<1>9. CASE EditLocked
  BY <1>9, Kinds DEF EditLocked, Saves, Idle, disk
<1>10. CASE StartReset
  BY <1>10, Kinds DEF StartReset, disk, history
<1>11. CASE Unbackup
  BY <1>11, UnbackupEffect, Kinds DEF Unbackup, Quit, Goes
<1>12. CASE LoadSettings
  BY <1>12, LoadBlind
<1>13. CASE Promote
  BY <1>13, PromoteBlind
<1>14. CASE Replace
  BY <1>14, ReplaceBlind
<1>15. CASE UNCHANGED settings
  BY <1>15 DEF settings
<1> QED
  BY <1>1, <1>2, <1>3, <1>4, <1>5, <1>6, <1>7, <1>8, <1>9, <1>10, <1>11, <1>12, <1>13, <1>14,
     <1>15 DEF SettingsNext, Boot, Persist, Reset

LEMMA JobInvStep ==
  ASSUME KInv, MaxFaults \in Nat, MaxFaults <= 1, [SettingsNext]_settings PROVE JobInv'
<1> Conjuncts
  BY Parts
<1> NvsTyped /\ HistoryTyped
  BY Shapes DEF Conjuncts
<1> faults \in Nat /\ (Fails => faults = 0 /\ faults' = 1)
  BY OnceFails DEF KInv, FaultInv
<1> USE DEF Conjuncts, PlacesInv, Writing, FileSteps, WholeInv, BlindInv, JobInv, StoredInv,
            RamInv, FilesInv, Valid, Stored, Readable, MarkedInv, WipeSteps, JobRecord,
            RamRecord, FileRecord, NvsTyped
<1>1. CASE PowerCut \/ Restart
  BY <1>1, Kinds DEF PowerCut, Down, Refused, history, Restart
<1>2. CASE PowerOn \/ Mount \/ Intend \/ Format \/ Formatted \/ Resume \/ Guard \/ Unformat
  BY <1>2, Kinds DEF PowerOn, disk, history, Mount, Works, Intend, Format, Formatted, Resume,
     Guard, Unformat
<1>3. CASE SaveLegacy \/ Stage \/ Drop \/ Promote
  BY <1>3, Kinds DEF SaveLegacy, NotSaved, Works, Stage, MutexFree, Refused, Drop, Promote,
     Saved
<1>4. CASE Propose \/ Conflict \/ StartReset
  BY <1>4, Kinds DEF Propose, Proposal, disk, Conflict, Idle, Current, history, StartReset
<1>5. CASE Mark \/ Remove \/ ClearNvs \/ Unmark
  BY <1>5, Kinds DEF Mark, history, Works, Remove, Stops, ClearNvs, Unmark
<1>6. CASE LoadSettings
  BY <1>6, LoadJob
<1>7. CASE Unbackup
  BY <1>7, UnbackupJob
<1>8. CASE Demote
  BY <1>8, DemoteJob
<1>9. CASE Replace \/ EditLocked
  BY <1>9, EditJob
<1>10. CASE UNCHANGED settings
  BY <1>10 DEF settings
<1> QED
  BY <1>1, <1>2, <1>3, <1>4, <1>5, <1>6, <1>7, <1>8, <1>9, <1>10 DEF SettingsNext, Boot,
     Persist, Reset

LEMMA StoredInvStep ==
  ASSUME KInv, MaxFaults \in Nat, MaxFaults <= 1, [SettingsNext]_settings PROVE StoredInv'
<1> Conjuncts
  BY Parts
<1> NvsTyped /\ HistoryTyped
  BY Shapes DEF Conjuncts
<1> faults \in Nat /\ (Fails => faults = 0 /\ faults' = 1)
  BY OnceFails DEF KInv, FaultInv
<1> USE DEF Conjuncts, PlacesInv, Writing, FileSteps, WholeInv, BlindInv, FormatInv, JobInv,
            StoredInv, RamInv, FilesInv, Valid, Stored, Readable, MarkedInv, WipeSteps,
            JobRecord, RamRecord, FileRecord, NvsTyped
<1>1. CASE PowerCut \/ Restart
  BY <1>1, Kinds DEF PowerCut, Down, Refused, history, Restart
<1>2. CASE PowerOn \/ Mount \/ Intend \/ Format \/ Formatted \/ Resume \/ Guard \/ Unformat
  BY <1>2, Kinds DEF PowerOn, disk, history, Mount, Works, Intend, Format, Formatted, Resume,
     Guard, Unformat
<1>3. CASE SaveLegacy \/ Stage \/ Unbackup \/ Demote \/ Drop
  BY <1>3, Kinds DEF SaveLegacy, NotSaved, Works, Stage, MutexFree, Refused, Unbackup, Demote,
     Drop
<1>4. CASE Propose \/ Replace \/ Conflict \/ EditLocked \/ StartReset
  BY <1>4, Kinds DEF Propose, Proposal, disk, Replace, Saves, Idle, Current, history, Conflict,
     EditLocked, StartReset
<1>5. CASE Mark \/ Remove \/ ClearNvs \/ Unmark
  BY <1>5, Kinds DEF Mark, history, Works, Remove, Stops, ClearNvs, Unmark
<1>6. CASE LoadSettings
  BY <1>6, LoadStored
<1>7. CASE Promote
  BY <1>7, PromoteStored
<1>8. CASE UNCHANGED settings
  BY <1>8 DEF settings
<1> QED
  BY <1>1, <1>2, <1>3, <1>4, <1>5, <1>6, <1>7, <1>8 DEF SettingsNext, Boot, Persist, Reset

LEMMA RamInvStep ==
  ASSUME KInv, MaxFaults \in Nat, MaxFaults <= 1, [SettingsNext]_settings PROVE RamInv'
<1> Conjuncts
  BY Parts
<1> NvsTyped /\ HistoryTyped
  BY Shapes DEF Conjuncts
<1> faults \in Nat /\ (Fails => faults = 0 /\ faults' = 1)
  BY OnceFails DEF KInv, FaultInv
<1> USE DEF Conjuncts, PlacesInv, Writing, FileSteps, WholeInv, JobInv, StoredInv, RamInv,
            FilesInv, Valid, Stored, Readable, MarkedInv, WipeSteps, JobRecord, RamRecord,
            FileRecord, NvsTyped
<1>1. CASE PowerCut \/ Restart
  BY <1>1, Kinds DEF PowerCut, Down, Refused, history, Restart
<1>2. CASE PowerOn \/ Mount \/ Intend \/ Format \/ Formatted \/ Resume \/ Guard \/ Unformat
  BY <1>2, Kinds DEF PowerOn, disk, history, Mount, Works, Intend, Format, Formatted, Resume,
     Guard, Unformat
<1>3. CASE SaveLegacy \/ Stage \/ Unbackup \/ Demote \/ Drop
  BY <1>3, Kinds DEF SaveLegacy, NotSaved, Works, Stage, MutexFree, Refused, Unbackup, Demote,
     Drop
<1>4. CASE Propose \/ Replace \/ Conflict \/ EditLocked \/ StartReset
  BY <1>4, Kinds DEF Propose, Proposal, disk, Replace, Saves, Idle, Current, history, Conflict,
     EditLocked, StartReset
<1>5. CASE Mark \/ Remove \/ ClearNvs \/ Unmark
  BY <1>5, Kinds DEF Mark, history, Works, Remove, Stops, ClearNvs, Unmark
<1>6. CASE LoadSettings
  BY <1>6, LoadRam
<1>7. CASE Promote
  BY <1>7, PromoteRam
<1>8. CASE UNCHANGED settings
  BY <1>8 DEF settings
<1> QED
  BY <1>1, <1>2, <1>3, <1>4, <1>5, <1>6, <1>7, <1>8 DEF SettingsNext, Boot, Persist, Reset

LEMMA FilesInvStep ==
  ASSUME KInv, MaxFaults \in Nat, MaxFaults <= 1, [SettingsNext]_settings PROVE FilesInv'
<1> Conjuncts
  BY Parts
<1> NvsTyped /\ HistoryTyped
  BY Shapes DEF Conjuncts
<1> faults \in Nat /\ (Fails => faults = 0 /\ faults' = 1)
  BY OnceFails DEF KInv, FaultInv
<1> USE DEF Conjuncts, PlacesInv, Writing, FileSteps, WholeInv, FormatInv, JobInv, StoredInv,
            RamInv, FilesInv, Valid, Stored, Readable, MarkedInv, WipeSteps, JobRecord,
            RamRecord, FileRecord, NvsTyped
<1>1. CASE PowerCut \/ Restart
  BY <1>1, Kinds DEF PowerCut, Down, Refused, history, Restart
<1>2. CASE PowerOn \/ Mount \/ Intend \/ Format \/ Formatted \/ Resume \/ Guard \/ Unformat \/
           LoadSettings
  BY <1>2, Kinds DEF PowerOn, disk, history, Mount, Works, Intend, Format, Formatted, Resume,
     Guard, Unformat, LoadSettings, Booting, Runs, RunsAndSaves, Loads, LegacyCalibration,
     Refused
<1>3. CASE SaveLegacy
  BY <1>3, Kinds DEF SaveLegacy, NotSaved, Works
<1>4. CASE Propose \/ Replace \/ Conflict \/ EditLocked \/ StartReset
  BY <1>4, Kinds DEF Propose, Proposal, disk, Replace, Saves, Idle, Current, history, Conflict,
     EditLocked, StartReset
<1>5. CASE Mark \/ Remove \/ ClearNvs \/ Unmark
  BY <1>5, Kinds DEF Mark, history, Works, Remove, Stops, ClearNvs, Unmark
<1>6. CASE Stage
  BY <1>6, StageFiles
<1>7. CASE Unbackup
  BY <1>7, UnbackupFiles
<1>8. CASE Demote
  BY <1>8, DemoteFiles
<1>9. CASE Drop
  BY <1>9, DropFiles
<1>10. CASE Promote
  BY <1>10, PromoteFiles
<1>11. CASE UNCHANGED settings
  BY <1>11 DEF settings
<1> QED
  BY <1>1, <1>2, <1>3, <1>4, <1>5, <1>6, <1>7, <1>8, <1>9, <1>10, <1>11 DEF SettingsNext, Boot,
     Persist, Reset

LEMMA RevisionInvStep ==
  ASSUME KInv, MaxFaults \in Nat, MaxFaults <= 1, [SettingsNext]_settings PROVE RevisionInv'
<1> Conjuncts
  BY Parts
<1> NvsTyped /\ HistoryTyped
  BY Shapes DEF Conjuncts
<1> faults \in Nat /\ (Fails => faults = 0 /\ faults' = 1)
  BY OnceFails DEF KInv, FaultInv
<1> USE DEF Conjuncts, RevisionInv, PlacesInv, RamTyped, ProposalsTyped, JobRecord, RamRecord,
            FileRecord, NvsTyped
<1>1. CASE PowerCut \/ Restart
  BY <1>1 DEF PowerCut, Down, Refused, history, Restart
<1>2. CASE PowerOn \/ Mount \/ Intend \/ Format \/ Formatted \/ Resume \/ Guard \/ Unformat \/
           LoadSettings
  BY <1>2 DEF PowerOn, disk, history, Mount, Works, Intend, Format, Formatted, Resume, Guard,
     Unformat, LoadSettings, Booting, Runs, RunsAndSaves, Loads, LegacyCalibration, Refused
<1>3. CASE SaveLegacy \/ Stage \/ Unbackup \/ Demote \/ Drop
  BY <1>3 DEF SaveLegacy, NotSaved, Works, Stage, MutexFree, Refused, Unbackup, Demote, Drop
<1>4. CASE Mark \/ Remove \/ ClearNvs \/ Unmark
  BY <1>4 DEF Mark, history, Works, Remove, Stops, ClearNvs, Unmark
<1>5. CASE Propose
  BY <1>5 DEF Propose, Proposal, disk
<1>6. CASE Replace
  BY <1>6 DEF Replace, Saves, Idle, Current, disk, history
<1>7. CASE Conflict
  BY <1>7 DEF Conflict, Proposal, Idle, Current, disk, history
<1>8. CASE EditLocked
  BY <1>8 DEF EditLocked, Saves, Idle, disk
<1>9. CASE StartReset
  BY <1>9 DEF StartReset, disk, history
<1>10. CASE Promote
  BY <1>10, PromoteRevision
<1>11. CASE UNCHANGED settings
  BY <1>11 DEF settings
<1> QED
  BY <1>1, <1>2, <1>3, <1>4, <1>5, <1>6, <1>7, <1>8, <1>9, <1>10, <1>11 DEF SettingsNext, Boot,
     Persist, Reset

LEMMA KeptBegin == ASSUME SettingsInit PROVE KInv
<1> SettingsTyped /\ EInv
  BY SettingsBegin DEF EInv
<1> USE DEF SettingsInit
<1>1. \/ files = NoFiles /\ flash = "erased"
      \/ \E by \in {"this", "older", "newer"} :
           files.primary = [by |-> by, edits |-> {Before}] /\ files.backup = None /\ flash = "ready"
  BY DEF NoFiles
<1>2. files.primary # TornFile /\ files.backup = None
  BY <1>1, Kinds DEF TornFile
<1>3. FormatInv /\ MarkedInv /\ FaultInv
  <2>1. ~nvs.reset /\ (nvs.provisioned <=> flash = "ready")
    OBVIOUS
  <2>2. FormatInv
    BY <1>1, <2>1, Kinds DEF FormatInv
  <2> QED BY <2>2 DEF MarkedInv, FaultInv, WipeSteps
<1>4. Decodes(files.primary) => files.primary.edits = {Before}
  BY <1>1, Kinds
<1>5. files.primary.by = "newer" => ~Decodes(files.primary)
  BY DEF Decodes
<1>6. WholeInv /\ BlindInv
  BY <1>2, <1>5, Kinds DEF WholeInv, BlindInv, Writing, FileSteps
<1>7. JobInv /\ StoredInv /\ RamInv /\ FilesInv /\ RevisionInv
  BY <1>4, Kinds DEF JobInv, StoredInv, RamInv, FilesInv, RevisionInv, Readable
<1> QED BY <1>3, <1>6, <1>7 DEF KInv

LEMMA FaultStep ==
  ASSUME KInv, MaxFaults \in Nat, MaxFaults <= 1, [SettingsNext]_settings PROVE FaultInv'
<1>1. faults \in Nat /\ faults <= 1
  BY DEF KInv, FaultInv
<1>2. UNCHANGED faults \/ Fails \/ (faults + 2 <= MaxFaults /\ faults' = faults + 2)
  BY DEF SettingsNext, Boot, Persist, Reset, PowerCut, Restart, PowerOn, Mount, Intend, Format,
     Formatted, Resume, Guard, Unformat, LoadSettings, SaveLegacy, Stage, Unbackup, Demote, Drop,
     Promote, Propose, Replace, Conflict, EditLocked, StartReset, Mark, Remove, ClearNvs, Unmark,
     Works, Down, history, settings
<1> QED BY <1>1, <1>2 DEF FaultInv, Fails

LEMMA KeptStep ==
  ASSUME KInv, MaxFaults \in Nat, MaxFaults <= 1, [SettingsNext]_settings PROVE KInv'
BY ErasedStep, FaultStep, FormatInvStep, MarkedInvStep, WholeInvStep, BlindInvStep, JobInvStep,
   StoredInvStep, RamInvStep, FilesInvStep, RevisionInvStep DEF KInv

LEMMA NewerStep ==
  ASSUME KInv, [SettingsNext]_settings, files.primary.by = "newer", files'.primary # files.primary
  PROVE  nvs.reset \/ exposed
<1> Conjuncts
  BY Parts
<1> USE DEF Conjuncts
<1>1. CASE Format
  BY <1>1, Kinds DEF Format, FormatInv
<1>2. CASE Demote \/ Drop \/ Promote
  BY <1>2 DEF Demote, Drop, Promote, WholeInv, Writing, FileSteps
<1>3. CASE Remove
  BY <1>3 DEF Remove, MarkedInv, WipeSteps
<1>4. CASE PowerCut \/ Restart \/ Stage \/ Unbackup
  BY <1>4 DEF PowerCut, Restart, Down, Stage, Unbackup, FileRecord
<1> QED
  BY <1>1, <1>2, <1>3, <1>4
  DEF SettingsNext, Boot, Persist, Reset, PowerOn, Mount, Intend, Formatted, Resume, Guard,
      Unformat, LoadSettings, SaveLegacy, Propose, Replace, Conflict, EditLocked, StartReset, Mark,
      ClearNvs, Unmark, disk, settings

LEMMA FormatStep ==
  ASSUME KInv, [SettingsNext]_settings, phase = "format", phase' = "formatted" PROVE files = NoFiles
BY DEF KInv, FormatInv

\* As long as no more than one call of the flash fails: every edit that was
\* reported as saved is in the settings that run and in those the next start
\* reads, a document of a newer firmware is left alone, and nothing is formatted.
THEOREM NothingIsLost == ASSUME MaxFaults <= 1 PROVE SettingsSpec => NothingLost
<1>1. MaxFaults \in Nat
  BY BoundAssumption
<1>2. SettingsInit => KInv
  BY KeptBegin
<1>3. KInv /\ [SettingsNext]_settings => KInv'
  BY <1>1, KeptStep
<1>4. KInv => SettingsTyped
  BY DEF KInv, EInv
<1>5. KInv => Kept
  BY DEF KInv, Kept, RamInv, FilesInv, Valid
<1>6. KInv /\ [SettingsNext]_settings =>
        [files.primary.by = "newer" /\ files'.primary # files.primary
           => nvs.reset \/ exposed]_settings
  BY NewerStep
<1>7. KInv /\ [SettingsNext]_settings =>
        [phase = "format" /\ phase' = "formatted" => files = NoFiles]_settings
  BY FormatStep
<1> QED
  BY <1>2, <1>3, <1>4, <1>5, <1>6, <1>7, PTL
  DEF SettingsSpec, NothingLost, NewerKept, NeverFormatted
=============================================================================
