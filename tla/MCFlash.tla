------------------------------ MODULE MCFlash ------------------------------
(* What the station's flash keeps over power cuts and failing calls.  A    *)
(* behaviour is one of the recovery record, of the settings, of the update *)
(* of the firmware, or of its upload; the other components stay as they    *)
(* began.                                                                  *)
EXTENDS JournalFile, Configuration

CONSTANTS a, b, NoSlot  \* app0 and app1

VARIABLES part,
  image, ota, selected, record, counter, running, updatePc, st, writer, task, trial,
  updateCuts, updateFaults,
  slots, queue, owner, manager, seen, gate, leased, late, control, health, web, ops

update == <<image, ota, selected, record, counter, running, updatePc, st, writer, task, trial,
            updateCuts, updateFaults>>
upload == <<slots, queue, owner, manager, seen, gate, leased, late, control, health, web, ops>>
all == <<part, vars, update, upload, settings>>

Update ==
  INSTANCE FirmwareUpdate
    WITH Slot <- {a, b}, First <- a, Marks <- {"none", "valid"}, RetryLimit <- 2,
         MaxGen <- 2, MaxCuts <- 2, MaxFaults <- 2, pc <- updatePc, owner <- task,
         health <- trial, cuts <- updateCuts, faults <- updateFaults

Uploads == INSTANCE FirmwareUpload WITH Slots <- 3, MaxUploads <- 2, MaxHealth <- 2

ASSUME ConstantsAssumption ==
  /\ Update!SlotAssumption /\ Update!MarkAssumption /\ Update!LimitAssumption
  /\ Uploads!SizeAssumption
-----------------------------------------------------------------------------
FlashInit ==
  /\ part \in {"journal", "update", "upload", "settings"}
  /\ Init /\ (part = "journal" \/ {live, stage} = {NoRecord})
  /\ Update!Init /\ (part = "update" \/ ota[a] = "none")
  /\ Uploads!Init
  /\ SettingsInit /\ (part = "settings" \/ flash = "erased")

FlashNext ==
  \/ part = "journal" /\ Next /\ UNCHANGED <<part, update, upload, settings>>
  \/ part = "update" /\ Update!Next /\ UNCHANGED <<part, vars, upload, settings>>
  \/ part = "upload" /\ Uploads!Next /\ UNCHANGED <<part, vars, update, settings>>
  \/ part = "settings" /\ SettingsNext /\ UNCHANGED <<part, vars, update, upload>>

\* The fairness of each component, for the component that moves.
FlashSpec ==
  /\ FlashInit
  /\ [][FlashNext]_all
  /\ WF_update(part = "update" /\ Update!Steps)
  /\ WF_update(part = "update" /\ Update!Age)
  /\ WF_update(part = "update" /\ Update!Health)
  /\ WF_update(part = "update" /\ Update!YieldToReset)
  /\ WF_update(part = "update" /\ Update!FinishUpload)
  /\ SF_update(part = "update" /\ Update!Reboot)
  /\ SF_update(part = "update" /\ Update!Cancel)
  /\ WF_upload(part = "upload" /\ Uploads!Owner)
  /\ WF_upload(part = "upload" /\ Uploads!Web)
  /\ SF_upload(part = "upload" /\ Uploads!Stream /\ web'.kind # "write")
  /\ WF_settings(part = "settings" /\ Boot)
  /\ WF_settings(part = "settings" /\ Persist)
  /\ WF_settings(part = "settings" /\ Reset)
-----------------------------------------------------------------------------
\* The update keeps what Upgrade promises, and the device, until the image was
\* seen healthy (update_manager.cpp:650-970, 1080-1216).
UpgradesSafely == Update!UpgradesSafely

\* The station comes to accept another upload (update_manager.cpp:577-612).
NeverStuck == []<>(part = "update" => Update!Usable)

\* Callers get a slot, and their own answer (ota_worker.cpp:252-270).
SlotsServe == Uploads!SlotsServe

\* What was reported of an upload stays true (upload_operation_policy.hpp:60-78).
Final == Uploads!Final

\* Every upload comes to a result (ota_worker.cpp:272-425).
Ends == Uploads!Ends
=============================================================================
