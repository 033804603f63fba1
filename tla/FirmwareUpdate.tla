--------------------------- MODULE FirmwareUpdate ---------------------------
(***************************************************************************)
(* The update of the firmware: UpdateManager and the OTA owner task over   *)
(* two stores that change one after the other, the record of the update in *)
(* NVS and the bootloader's otadata.  Power may be lost between any two    *)
(* effects; a handler with several of them is several actions, and "pc"    *)
(* says which is next.                                                     *)
(*                                                                         *)
(* The snapshot of the manager keeps what decisions are made of.  An image *)
(* is whole or not; what makes it so (hash, header, manifest) is settled   *)
(* when the upload is finished.                                            *)
(***************************************************************************)
EXTENDS Naturals

CONSTANTS
  Slot, NoSlot,  \* the two application partitions
  First,         \* the one that boots when otadata names none
  Marks,         \* what otadata may say of First on a new station
  RetryLimit,    \* boot_health_retry_limit
  MaxGen,        \* bounds: uploads,
  MaxCuts,       \* power cuts,
  MaxFaults      \* and failing calls of NVS or of the bootloader's interface

\* What is assumed of the constants; MCFlash asserts it.
SlotAssumption == NoSlot \notin Slot /\ First \in Slot /\ \E s \in Slot : Slot = {First, s} /\ s # First
MarkAssumption == Marks \subseteq {"none", "valid"} /\ Marks # {}
\* With more failing calls than retries a candidate that is confirmed in otadata
\* may still be given up, and the station stays without a slot to go back to.
LimitAssumption ==
  /\ RetryLimit \in Nat /\ MaxGen \in Nat /\ MaxCuts \in Nat
  /\ MaxFaults \in 0 .. RetryLimit

VARIABLES
  image,    \* flash: the image in each slot
  ota,      \* otadata: the state of each slot's entry
  selected, \* otadata: the slot that boots next
  record,   \* NVS: the update record
  counter,  \* NVS: the generation counter
  running,  \* the slot that runs
  pc,       \* what the owner task does next
  st,       \* UpdateManager::state_, with the platform as it last saw it
  writer,   \* writer_open_
  owner,    \* OtaWorker: lease, candidate_rollback_required_,
            \* rollback_seed_recovery_required_, boot_health_attempt_, command
  health,   \* what BootHealthPolicy looks at, and whether its window is over
  cuts, faults

flash == <<image, ota, selected>>
nvs == <<record, counter>>
vars == <<image, ota, selected, record, counter, running, pc, st, writer, owner,
          health, cuts, faults>>

Other(s) == CHOOSE o \in Slot : o # s

Unconfirmed == {"new", "pending"}
Rejected == {"invalid", "aborted"}
Receiving == {"upload_receiving", "writing"}
Candidate == {"candidate_boot", "validating_candidate"}
Open == {"idle", "failed", "confirmed", "rolled_back"}
State == Receiving \cup Candidate \cup Open \cup
         {"validating", "ready_to_reboot", "reboot_pending", "rollback_pending"}
Signal == {"fit", "missing", "fatal", "reset", "reset_blind"}

NoUpdate == [state |-> "none"]
Update ==
  [gen : 0 .. MaxGen + MaxFaults, state : State, target : Slot \cup {NoSlot},
   received : {"none", "part", "all"}, matched : BOOLEAN, checked : BOOLEAN,
   intent : BOOLEAN, activated : BOOLEAN]
View ==
  [running : Slot, boot : Slot, mark : {"none", "new", "pending", "valid", "invalid", "aborted"},
   rejected : SUBSET Slot, rollback : BOOLEAN]

Fresh == [gen |-> 0, state |-> "idle", target |-> NoSlot, received |-> "none",
          matched |-> FALSE, checked |-> FALSE, intent |-> FALSE, activated |-> FALSE]
NoView == [running |-> First, boot |-> First, mark |-> "none", rejected |-> {},
           rollback |-> FALSE]
NoState == [update |-> Fresh, view |-> NoView]
NoOwner == [lease |-> "none", rollback |-> FALSE, seed |-> FALSE, attempt |-> 0, task |-> "boot"]
NoHealth == [signal |-> "fit", aged |-> FALSE]

TypeOK ==
  /\ image \in [Slot -> {"whole", "torn"}]
  /\ ota \in [Slot -> {"none", "new", "pending", "valid", "invalid", "aborted"}]
  /\ selected \in Slot /\ running \in Slot
  /\ record \in {NoUpdate} \cup Update /\ counter \in 0 .. MaxGen + MaxFaults
  /\ st \in [update : Update, view : View]
  /\ writer \in BOOLEAN
  /\ owner \in [lease : {"none", "update", "candidate"}, rollback : BOOLEAN, seed : BOOLEAN,
                attempt : 0 .. RetryLimit, task : {"boot", "upload", "reboot", "health"}]
  /\ health \in [signal : Signal, aged : BOOLEAN]
  /\ cuts \in 0 .. MaxCuts /\ faults \in 0 .. MaxFaults

Init ==
  /\ image = [s \in Slot |-> IF s = First THEN "whole" ELSE "torn"]
  /\ ota \in {[s \in Slot |-> IF s = First THEN m ELSE "none"] : m \in Marks}
  /\ selected = First /\ running = First
  /\ record = NoUpdate /\ counter = 0
  /\ pc = "off" /\ st = NoState /\ writer = FALSE
  /\ owner = NoOwner /\ health = NoHealth
  /\ cuts = 0 /\ faults = 0

-----------------------------------------------------------------------------
(* Power and the bootloader *)

Reset == pc' = "off" /\ st' = NoState /\ writer' = FALSE /\ owner' = NoOwner /\ health' = NoHealth

PowerCut ==
  /\ pc # "off" /\ cuts < MaxCuts
  /\ cuts' = cuts + 1
  /\ Reset
  /\ UNCHANGED <<flash, nvs, running, faults>>

\* An image on its first boot is pending; one that is found pending was never
\* confirmed and is given up.  With no entry left, First is booted.
Bootable(s, marks) == marks[s] \notin Rejected \cup {"none"} /\ image[s] = "whole"

PowerOn ==
  /\ pc = "off"
  /\ LET mark == IF ota[selected] = "new" THEN "pending"
                 ELSE IF ota[selected] = "pending" THEN "aborted" ELSE ota[selected]
         marks == [ota EXCEPT ![selected] = mark]
     IN /\ ota' = marks
        /\ selected' = IF Bootable(selected, marks) THEN selected
                       ELSE IF Bootable(Other(selected), marks) THEN Other(selected)
                       ELSE First
        /\ running' = selected'
  /\ pc' = "boot"
  /\ health' \in [signal : Signal, aged : {FALSE}]
  /\ UNCHANGED <<image, nvs, st, writer, owner, cuts, faults>>

-----------------------------------------------------------------------------
(* The parts handlers are made of *)

\* Esp32OtaPlatform::status().
Status ==
  [running |-> running, boot |-> selected, mark |-> ota[running],
   rejected |-> {s \in Slot : ota[s] \in Rejected},
   rollback |-> Bootable(Other(running), ota)]

Refreshed == [st EXCEPT !.view = Status]

\* A call that may fail, as often as the bound allows.
Works == UNCHANGED faults
Fails == faults < MaxFaults /\ faults' = faults + 1

With(s, state) == [s EXCEPT !.update.state = state]

\* persist_locked() of the state s, which memory has in either case.
Saved(s) == Works /\ record' = s.update /\ st' = s
Unsaved == Fails /\ UNCHANGED record
SaveIfPossible(s) == Saved(s) \/ (Unsaved /\ st' = s)

PhysicallyConfirmed(s) ==
  s.view.mark = "valid" /\ s.update.target \in {NoSlot, s.view.running}

\* Mutant (NeverStuck): an upload that failed keeps the lease.
LeaseOverUnlessFailed(s) ==
  PhysicallyConfirmed(s) \/ s.update.state \in {"idle", "confirmed", "rolled_back"}

\* reconcile_lifecycle(): when the lease on the device is given back.
LeaseOver(s) ==
  \/ PhysicallyConfirmed(s)
  \/ s.update.state \in {"idle", "confirmed", "rolled_back"}
  \/ /\ s.update.state = "failed" /\ ~s.update.intent /\ ~s.update.activated
     /\ s.view.mark \notin Unconfirmed

Reconciled(o, s) == IF LeaseOver(s) THEN [o EXCEPT !.lease = "none"] ELSE o

\* The command ends: at start-up, the owner task goes on to take its lease.
Return(o) ==
  IF o.task = "boot" THEN pc' = "start" /\ owner' = o
                     ELSE pc' = "ready" /\ owner' = Reconciled(o, st')

\* fail_locked(): the writer is closed; the record is saved next, if it can be.
Failed(s) == [With(s, "failed") EXCEPT !.update.checked = FALSE]
Fail(s) == st' = Failed(s) /\ writer' = FALSE /\ pc' = "note" /\ UNCHANGED <<record, owner>>

\* The last save of a command whose outcome does not depend on it.
Note ==
  /\ pc = "note"
  /\ SaveIfPossible(st)
  /\ Return(owner)
  /\ UNCHANGED <<flash, counter, running, writer, health, cuts>>

\* A health decision that came to nothing is tried again, up to the limit.
TryAgain(o) ==
  IF o.attempt < RetryLimit THEN [o EXCEPT !.attempt = @ + 1]
                            ELSE [o EXCEPT !.attempt = 0]

\* Esp32OtaPlatform::confirm_running(); a call that fails may have had its effect.
Marked == [ota EXCEPT ![running] = "valid"]
MarkWorks == Works /\ ota' = Marked
MarkFails == Fails /\ ota' \in {ota, Marked}

-----------------------------------------------------------------------------
(* recover_rollback_seed_locked() *)

\* rollback_seed_recovery_required_locked(): power went between the two steps
\* that make the running image, which otadata does not know, one to go back to.
SeedInterrupted(s) ==
  /\ s.update.state = "ready_to_reboot" /\ s.update.gen # 0
  /\ s.update.checked /\ s.update.matched /\ s.update.received = "all"
  /\ s.update.intent /\ ~s.update.activated
  /\ s.view.mark \in Unconfirmed \cup {"valid"}
  /\ s.update.target # NoSlot
  /\ s.view.boot = s.view.running
  /\ s.update.target = Other(s.view.running)

SeedEnds(ok) ==
  IF ok /\ owner.task = "reboot" THEN pc' = "activate" /\ UNCHANGED owner
  ELSE Return([TryAgain(owner) EXCEPT !.seed = (owner.task # "reboot") /\ ~ok])

ConfirmSeed ==
  /\ pc = "seed"
  /\ \/ /\ ~SeedInterrupted(st)
        /\ SeedEnds(FALSE)
        /\ UNCHANGED <<ota, st, faults>>
     \/ /\ SeedInterrupted(st)
        /\ IF st.view.mark = "valid" THEN Works /\ UNCHANGED ota ELSE MarkWorks
        /\ st' = [st EXCEPT !.view.mark = "valid"]
        /\ pc' = "seed_save" /\ UNCHANGED owner
     \/ /\ SeedInterrupted(st) /\ st.view.mark # "valid"
        /\ MarkFails
        /\ UNCHANGED st
        /\ SeedEnds(FALSE)
  /\ UNCHANGED <<image, selected, nvs, running, writer, health, cuts>>

SaveSeed ==
  /\ pc = "seed_save"
  /\ \/ Saved([st EXCEPT !.update.intent = FALSE]) /\ SeedEnds(TRUE)
     \/ Unsaved /\ UNCHANGED st /\ SeedEnds(FALSE)
  /\ UNCHANGED <<flash, counter, running, writer, health, cuts>>

-----------------------------------------------------------------------------
(* initialize_from_boot() *)

\* rollback_unreconciled_candidate_locked(): an image that nothing vouches for.
Unreconciled(s) ==
  LET reserve == s.update.gen = 0
  IN /\ st' = [s EXCEPT !.update = [@ EXCEPT !.target = s.view.running,
                 !.state = "rollback_pending", !.checked = FALSE, !.intent = TRUE,
                 !.activated = TRUE, !.gen = IF reserve THEN counter + 1 ELSE @]]
     /\ counter' = IF reserve THEN counter + 1 ELSE counter
     /\ pc' = "bail" /\ UNCHANGED <<ota, record, owner>>

\* A record of the running image, made before it was selected to boot.
Vouched(s) ==
  /\ s.update.gen # 0
  /\ s.update.state \in {"ready_to_reboot", "reboot_pending"} \cup Candidate
  /\ s.update.target = s.view.running
  /\ s.update.checked /\ s.update.intent
  /\ s.update.activated \/ s.view.boot = s.update.target

\* A record that no later step could end.
DeadEnd(s) ==
  LET u == s.update
      runs == u.target # NoSlot /\ u.target = s.view.running
      confirmed == runs /\ s.view.mark = "valid"
      waits == u.target # NoSlot /\ u.intent /\ ~runs /\ s.view.boot = u.target
  IN \/ u.state = "reboot_pending" /\ ~confirmed
     \/ u.state = "rollback_pending" /\ ~confirmed /\ ~waits
     \/ u.state = "ready_to_reboot" /\ ~waits /\ (u.activated \/ (u.intent /\ runs))
     \/ u.state \in Candidate /\ ~runs

\* What becomes of the record when the running image is not on trial.
Settled(s) ==
  LET u == s.update
  IN IF u.target # NoSlot /\ u.intent /\ s.view.boot = u.target /\ s.view.running # u.target
       THEN [With(s, IF u.state = "reboot_pending" THEN u.state ELSE "ready_to_reboot")
               EXCEPT !.update.activated = TRUE]
     ELSE IF /\ u.target = s.view.running /\ s.view.mark = "valid"
             /\ u.state \in Candidate \cup {"rollback_pending", "reboot_pending"}
       THEN [With(s, "confirmed") EXCEPT !.update.activated = TRUE]
     ELSE s

FailAtBoot(s) == st' = Failed(s) /\ pc' = "note" /\ UNCHANGED <<ota, nvs, owner, faults>>

ReadRecord ==
  LET s == [update |-> IF record = NoUpdate THEN Fresh ELSE record, view |-> Status]
      trial == s.view.mark \in Unconfirmed
  IN \/ /\ SeedInterrupted(s)
        /\ st' = s /\ pc' = "seed" /\ Works /\ UNCHANGED <<ota, nvs, owner>>
     \/ /\ ~SeedInterrupted(s) /\ trial /\ ~Vouched(s)
        /\ Unreconciled(s) /\ Works
     \/ /\ ~SeedInterrupted(s) /\ trial /\ Vouched(s)
        /\ LET c == [With(s, "candidate_boot") EXCEPT !.update.activated = TRUE]
           IN \/ Saved(c) /\ pc' = "start" /\ UNCHANGED <<ota, counter, owner>>
              \/ Fails /\ Unreconciled(c)
     \/ /\ ~SeedInterrupted(s) /\ ~trial
        /\ \/ /\ s.update.state \in Receiving \cup {"validating"}
              /\ FailAtBoot(s)
           \/ /\ s.update.state \notin Receiving \cup {"validating"}
              /\ s.update.target \in s.view.rejected \ {s.view.running}
              /\ SaveIfPossible([With(s, "rolled_back") EXCEPT !.update.activated = FALSE])
              /\ pc' = "start" /\ UNCHANGED <<ota, counter, owner>>
           \/ /\ s.update.state \notin Receiving \cup {"validating"}
              /\ s.update.target \notin s.view.rejected \ {s.view.running}
              /\ IF DeadEnd(s)
                   THEN FailAtBoot([s EXCEPT !.update = [@ EXCEPT !.intent = FALSE,
                                                                  !.activated = FALSE]])
                   ELSE st' = Settled(s) /\ pc' = "start" /\ Works /\ UNCHANGED <<ota, nvs, owner>>

\* The record cannot be read, or otadata cannot.
Unreadable ==
  /\ Fails
  /\ LET s == [update |-> Fresh, view |-> Status]
     IN \/ /\ s.view.mark \in Unconfirmed /\ Unreconciled(s)
        \/ /\ s.view.mark \notin Unconfirmed
           /\ st' = With(s, "failed") /\ pc' = "start" /\ UNCHANGED <<ota, nvs, owner>>
        \/ st' = With(NoState, "failed") /\ pc' = "dead" /\ UNCHANGED <<ota, nvs, owner>>

InitializeFromBoot ==
  /\ pc = "boot"
  /\ ReadRecord \/ Unreadable
  /\ UNCHANGED <<image, selected, running, writer, health, cuts>>

\* The rollback of an image that nothing vouches for.
BailSave ==
  /\ pc = "bail"
  /\ SaveIfPossible(st)
  /\ pc' = "bail_out"
  /\ UNCHANGED <<flash, counter, running, writer, owner, health, cuts>>

\* Esp32OtaPlatform::rollback_and_reboot(): there is a way back, or it refuses.
Rejecting == ota' = [ota EXCEPT ![running] = "invalid"] /\ Reset
RollsBack == Bootable(Other(running), ota) /\ Works /\ Rejecting
CannotRollBack == UNCHANGED ota /\ IF Bootable(Other(running), ota) THEN Fails ELSE Works

BailOut ==
  /\ pc = "bail_out"
  /\ \/ RollsBack
     \/ /\ CannotRollBack
        /\ st' = With(st, "candidate_boot")
        /\ pc' = "note"
        /\ owner' = [owner EXCEPT !.rollback = TRUE]
        /\ UNCHANGED <<writer, health>>
  /\ UNCHANGED <<image, selected, nvs, running, cuts>>

\* OtaWorker::run() before its loop: the lease that this state asks for.
Start ==
  /\ pc = "start"
  /\ LET lease == IF owner.rollback \/ st.update.state \in Candidate \cup {"rollback_pending"}
                    THEN "candidate"
                  ELSE IF st.update.state \in Receiving \cup {"validating", "ready_to_reboot",
                                                              "reboot_pending"}
                    THEN "update" ELSE "none"
     IN owner' = [owner EXCEPT !.lease = lease, !.task = "health", !.attempt = 0]
  /\ pc' = IF owner.seed THEN "seed" ELSE IF owner.rollback THEN "rollback" ELSE "ready"
  /\ UNCHANGED <<flash, nvs, running, st, writer, health, cuts, faults>>

\* Without a topology there is no owner task, and no way on but the plug.
Unplug ==
  /\ pc = "dead"
  /\ Reset
  /\ UNCHANGED <<flash, nvs, running, cuts, faults>>

-----------------------------------------------------------------------------
(* An upload *)

Ready == pc = "ready"

\* begin_upload() here and in the manager, up to the erased slot.
MayBegin ==
  /\ Ready /\ owner.lease = "none"
  /\ health.signal \notin {"reset", "reset_blind"}
  /\ st.update.state \in Open
  /\ Refreshed.view.mark \notin Unconfirmed

BeginUpload ==
  /\ MayBegin
  /\ counter < MaxGen
  /\ LET slot == Other(running)
         s == [Refreshed EXCEPT !.update = [Fresh EXCEPT !.gen = counter + 1,
                 !.state = "upload_receiving", !.target = slot]]
     IN /\ counter' = counter + 1
        /\ \/ /\ Works
              /\ image' = [image EXCEPT ![slot] = "torn"]
              /\ st' = s /\ writer' = TRUE /\ pc' = "opened"
              /\ UNCHANGED record
           \/ /\ Fails
              /\ image' \in {image, [image EXCEPT ![slot] = "torn"]}
              /\ st' = Failed(s) /\ writer' = FALSE /\ pc' = "note"
              /\ UNCHANGED record
        /\ owner' = [owner EXCEPT !.lease = "update", !.task = "upload"]
  /\ UNCHANGED <<ota, selected, running, health, cuts>>

SaveOpened ==
  /\ pc = "opened"
  /\ \/ Saved(st) /\ pc' = "ready" /\ UNCHANGED <<writer, owner>>
     \/ Unsaved /\ Fail(st)
  /\ UNCHANGED <<flash, counter, running, health, cuts>>

\* write_chunk(): progress is saved now and then, and at the end.
WriteChunk ==
  /\ Ready /\ owner.lease = "update"
  /\ st.update.state \in Receiving /\ writer
  /\ \/ \E r \in {"part", "all"} :
          /\ st.update.received # "all"
          /\ LET s == [With(st, "writing") EXCEPT !.update.received = r]
             IN \/ Saved(s) /\ UNCHANGED <<pc, writer, owner>>
                \/ r = "part" /\ st' = s /\ Works /\ UNCHANGED <<record, pc, writer, owner>>
     \/ Fails /\ Fail(st)
  /\ UNCHANGED <<flash, counter, running, health, cuts>>

\* finish_upload(), in three steps.
FinishUpload ==
  /\ Ready /\ owner.lease = "update"
  /\ st.update.state \in Receiving /\ writer
  /\ \/ st.update.received # "all" /\ Works /\ Fail(st)
     \/ /\ st.update.received = "all"
        /\ \/ Saved(With(st, "validating")) /\ pc' = "check" /\ UNCHANGED <<writer, owner>>
           \/ Unsaved /\ Fail(st)
  /\ UNCHANGED <<flash, counter, running, health, cuts>>

\* What was received is the declared image, sound and made for this station, or not.
CheckImage ==
  /\ pc = "check"
  /\ \/ /\ image' = [image EXCEPT ![st.update.target] = "whole"]
        /\ st' = [With(st, "ready_to_reboot") EXCEPT !.update.checked = TRUE, !.update.matched = TRUE]
        /\ writer' = FALSE /\ pc' = "staged"
        /\ UNCHANGED <<record, owner>>
     \/ Fail(st) /\ UNCHANGED image
  /\ UNCHANGED <<ota, selected, counter, running, health, cuts, faults>>

SaveStaged ==
  /\ pc = "staged"
  /\ \/ Saved(st) /\ pc' = "ready" /\ UNCHANGED <<writer, owner>>
     \/ Unsaved /\ Fail(st)
  /\ UNCHANGED <<flash, counter, running, health, cuts>>

\* cancel(), also for an upload that is given up.
Cancel ==
  /\ Ready /\ owner.lease = "update"
  /\ \/ st.update.state \in Receiving
     \/ st.update.state = "ready_to_reboot" /\ ~st.update.activated /\ ~st.update.intent
  /\ \/ /\ Saved([st EXCEPT !.update = [Fresh EXCEPT !.gen = st.update.gen]])
        /\ writer' = FALSE
        /\ Return([owner EXCEPT !.task = "upload"])
     \/ Fails /\ Fail(st)
     \/ Fails /\ Fail([st EXCEPT !.update = [Fresh EXCEPT !.gen = st.update.gen]])
  /\ UNCHANGED <<flash, counter, running, health, cuts>>

-----------------------------------------------------------------------------
(* activate(), mark_reboot_pending() and the restart *)

Command(task) == owner' = [owner EXCEPT !.task = task]

Reboot ==
  /\ Ready /\ owner.lease = "update"
  /\ st.update.state = "ready_to_reboot" /\ st.update.checked /\ st.update.target # NoSlot
  /\ st' = Refreshed
  /\ pc' = IF SeedInterrupted(st') THEN "seed"
           ELSE IF ~st.update.activated THEN "activate"
           ELSE IF st'.view.boot = st.update.target /\ running # st.update.target THEN "pend"
           ELSE "ready"
  /\ Command("reboot")
  /\ UNCHANGED <<flash, nvs, running, writer, health, cuts, faults>>

\* The intent is durable before the bootloader is told.
Activate ==
  /\ pc = "activate"
  /\ IF st.update.target = st.view.running
       THEN Works /\ Fail(st)
       ELSE \/ /\ Saved([st EXCEPT !.update.intent = TRUE])
               /\ pc' = "switch" /\ UNCHANGED <<writer, owner>>
            \/ /\ Unsaved
               /\ st' = [st EXCEPT !.update.intent = FALSE]
               /\ Return(owner) /\ UNCHANGED writer
  /\ UNCHANGED <<flash, counter, running, health, cuts>>

\* esp_ota_set_boot_partition(s) verifies the image; its entry becomes the current one.
Choose(s) == ota' = [ota EXCEPT ![s] = "new"] /\ selected' = s

\* Esp32OtaPlatform::activate(): an image that otadata does not know is first
\* made one that can be gone back to, in two steps.
Switch ==
  /\ pc = "switch"
  /\ LET slot == IF ota[running] = "none" THEN running ELSE st.update.target
         next == IF ota[running] = "none" THEN "seed_mark" ELSE "switched"
         can == ota[running] \in {"none", "valid"} /\ image[slot] = "whole"
     IN \/ can /\ Works /\ Choose(slot) /\ pc' = next
        \/ can /\ Fails /\ (Choose(slot) \/ UNCHANGED <<ota, selected>>) /\ pc' = "unsure"
        \/ ~can /\ Works /\ UNCHANGED <<ota, selected>> /\ pc' = "unsure"
  /\ UNCHANGED <<image, nvs, running, st, writer, owner, health, cuts>>

MarkSeed ==
  /\ pc = "seed_mark"
  /\ (MarkWorks /\ pc' = "switch") \/ (MarkFails /\ pc' = "unsure")
  /\ UNCHANGED <<image, selected, nvs, running, st, writer, owner, health, cuts>>

\* After an error, the boot selection decides what happened.
Reconcile ==
  /\ pc = "unsure"
  /\ \/ /\ Works
        /\ LET s == Refreshed
               u == s.update
               safe == /\ s.view.mark = "valid" /\ s.view.boot = s.view.running
                       /\ u.target = Other(s.view.running)
           IN IF s.view.boot = u.target /\ s.view.running # u.target
                THEN st' = [s EXCEPT !.update.activated = TRUE] /\ pc' = "switched_note"
                ELSE st' = [s EXCEPT !.update.intent = ~safe, !.update.activated = FALSE] /\ pc' = "note"
     \/ Fails /\ UNCHANGED st /\ pc' = "note"
  /\ UNCHANGED <<flash, nvs, running, writer, owner, health, cuts>>

SaveActivated ==
  /\ pc \in {"switched", "switched_note"}
  /\ SaveIfPossible([st EXCEPT !.update.activated = TRUE, !.view.boot = st.update.target])
  /\ pc' = "pend"
  /\ UNCHANGED <<flash, counter, running, writer, owner, health, cuts>>

MarkRebootPending ==
  /\ pc = "pend"
  /\ \/ /\ Works
        /\ record' = With(st, "reboot_pending").update
        /\ Reset
     \/ Unsaved /\ UNCHANGED <<st, writer, health>> /\ Return(owner)
  /\ UNCHANGED <<flash, counter, running, cuts>>

-----------------------------------------------------------------------------
(* BootHealthPolicy and process_boot_health() *)

Age ==
  /\ Ready /\ ~health.aged
  /\ health' = [health EXCEPT !.aged = TRUE]
  /\ UNCHANGED <<flash, nvs, running, pc, st, writer, owner, cuts, faults>>

\* A task that stops, late.
Worsen ==
  /\ Ready /\ health.signal = "fit"
  /\ health' = [health EXCEPT !.signal = "missing"]
  /\ UNCHANGED <<flash, nvs, running, pc, st, writer, owner, cuts, faults>>

\* Mutant (UpgradesSafely): the window is not waited for.
DecisionEarly ==
  IF health.signal = "reset" THEN "factory_reset_recovery"
  ELSE IF health.signal = "fit" THEN "healthy" ELSE "unhealthy"

\* BootHealthPolicy::evaluate().
Decision ==
  IF health.signal = "reset" THEN "factory_reset_recovery"
  ELSE IF health.signal \in {"reset_blind", "fatal"} THEN "unhealthy"
  ELSE IF ~health.aged THEN "stabilizing"
  ELSE IF health.signal = "fit" THEN "healthy" ELSE "unhealthy"

OnTrial == st.update.state \in Candidate

\* A candidate with a reset pending restarts: storage goes first.
YieldToReset ==
  /\ Ready /\ OnTrial /\ owner.lease = "candidate"
  /\ Decision = "factory_reset_recovery"
  /\ Reset
  /\ UNCHANGED <<flash, nvs, running, cuts, faults>>

Health ==
  /\ Ready
  /\ ~(OnTrial /\ owner.lease = "candidate" /\ Decision = "factory_reset_recovery")
  /\ \/ owner.seed /\ pc' = "seed" /\ Command("health") /\ UNCHANGED <<st, record, faults>>
     \/ /\ ~owner.seed /\ owner.rollback
        /\ pc' = "rollback" /\ Command("health") /\ UNCHANGED <<st, record, faults>>
     \/ /\ ~owner.seed /\ ~owner.rollback /\ ~OnTrial
        /\ owner' = Reconciled(owner, st) /\ UNCHANGED <<st, record, pc, faults>>
     \/ /\ ~owner.seed /\ ~owner.rollback /\ OnTrial
        /\ \/ /\ Decision = "stabilizing" /\ st.update.state = "candidate_boot"
              /\ SaveIfPossible(With(st, "validating_candidate")) /\ UNCHANGED <<pc, owner>>
           \/ /\ Decision = "unhealthy"
              /\ pc' = "rollback"
              /\ owner' = [owner EXCEPT !.rollback = TRUE, !.task = "health"]
              /\ UNCHANGED <<st, record, faults>>
           \/ /\ Decision = "healthy"
              /\ pc' = "confirm" /\ Command("health") /\ UNCHANGED <<st, record, faults>>
  /\ UNCHANGED <<flash, counter, running, writer, health, cuts>>

\* A confirmation that failed is tried again, and in the end given up.
ConfirmFails(next) ==
  IF owner.attempt < RetryLimit
    THEN pc' = next /\ owner' = [owner EXCEPT !.attempt = @ + 1]
    ELSE pc' = "rollback" /\ owner' = [owner EXCEPT !.attempt = 0, !.rollback = TRUE]

\* storage_.confirm_healthy_boot(), then confirm_candidate().
ConfirmCandidate ==
  /\ pc = "confirm"
  /\ LET s == Refreshed
         u == s.update
         evidence == u.checked /\ u.intent /\ u.activated /\ u.target # NoSlot
         done == [With(s, "confirmed") EXCEPT !.view.mark = "valid", !.view.rollback = TRUE]
     IN \/ Fails /\ UNCHANGED <<ota, st>> /\ ConfirmFails("ready")
        \/ ~evidence /\ Works /\ UNCHANGED <<ota, st>> /\ ConfirmFails("ready")
        \/ /\ evidence /\ s.view.mark = "valid" /\ s.view.running = u.target
           /\ st' = done /\ pc' = "note" /\ Works /\ UNCHANGED <<ota, owner>>
        \/ /\ evidence /\ s.view.mark \in Unconfirmed /\ s.view.running = u.target
           /\ \/ MarkWorks /\ st' = done /\ pc' = "note" /\ UNCHANGED owner
              \/ MarkFails /\ st' = With(s, "validating_candidate") /\ ConfirmFails("note")
  /\ UNCHANGED <<image, selected, nvs, running, writer, health, cuts>>

RollbackOver(s) == PhysicallyConfirmed(s) \/ s.update.state \in {"confirmed", "rolled_back"}

\* rollback_candidate(), up to the call that restarts.
RollbackCandidate ==
  /\ pc = "rollback"
  /\ LET s == Refreshed
         u == s.update
     IN IF ~OnTrial
          THEN /\ Works /\ UNCHANGED <<st, record>> /\ pc' = "ready"
               /\ owner' = Reconciled([owner EXCEPT !.rollback = ~RollbackOver(st)], st)
        ELSE \/ /\ Fails /\ UNCHANGED <<st, record>> /\ pc' = "ready" /\ UNCHANGED owner
             \/ /\ u.target = s.view.running /\ s.view.rollback
                /\ SaveIfPossible(With(s, "rollback_pending"))
                /\ pc' = "reject" /\ UNCHANGED owner
             \/ /\ ~(u.target = s.view.running /\ s.view.rollback)
                /\ st' = With(s, "validating_candidate") /\ Works /\ UNCHANGED record
                /\ pc' = "note"
                /\ owner' = [owner EXCEPT !.rollback = ~RollbackOver(st')]
  /\ UNCHANGED <<flash, counter, running, writer, health, cuts>>

Reject ==
  /\ pc = "reject"
  /\ \/ RollsBack
     \/ /\ CannotRollBack
        /\ st' = With(st, "validating_candidate") /\ pc' = "note"
        /\ owner' = [owner EXCEPT !.rollback = ~RollbackOver(st')]
        /\ UNCHANGED <<writer, health>>
  /\ UNCHANGED <<image, selected, nvs, running, cuts>>

-----------------------------------------------------------------------------

Boot == PowerOn \/ InitializeFromBoot \/ BailSave \/ BailOut \/ Start \/ Unplug

Upload == BeginUpload \/ SaveOpened \/ WriteChunk \/ FinishUpload \/ CheckImage \/ SaveStaged \/ Cancel

Selection == Reboot \/ Activate \/ Switch \/ MarkSeed \/ Reconcile \/ SaveActivated \/ MarkRebootPending

Trial == YieldToReset \/ Health \/ ConfirmCandidate \/ RollbackCandidate \/ Reject

Next ==
  \/ Boot \/ Upload \/ Selection \/ Trial
  \/ Note \/ ConfirmSeed \/ SaveSeed \/ Age \/ Worsen \/ PowerCut

Spec == Init /\ [][Next]_vars

\* The owner task goes on, time passes, the health policy is asked again, and
\* a user finishes what was uploaded, and restarts into what was staged or
\* cancels it.
Steps ==
  \/ Boot \/ Note \/ ConfirmSeed \/ SaveSeed
  \/ SaveOpened \/ CheckImage \/ SaveStaged
  \/ Activate \/ Switch \/ MarkSeed \/ Reconcile \/ SaveActivated \/ MarkRebootPending
  \/ ConfirmCandidate \/ RollbackCandidate \/ Reject

FairSpec ==
  /\ Spec
  /\ WF_vars(Steps) /\ WF_vars(Age)
  /\ WF_vars(Health) /\ WF_vars(YieldToReset)
  /\ WF_vars(FinishUpload) /\ SF_vars(Reboot) /\ SF_vars(Cancel)

-----------------------------------------------------------------------------
(* Properties *)

\* The update implements Upgrade: the slot to go back to is the running one,
\* or the other while an image is selected or on trial.
Back == ota[Other(selected)] = "valid"
Tried == ota[selected] \in Unconfirmed /\ Back
GivenUp == ota[selected] \in Rejected /\ Back
\* The bootloader was told to keep the image, and answered with an error.
Undecided ==
  /\ ota[selected] = "valid" /\ Back
  /\ st.update.state \in Candidate \cup {"rollback_pending"} /\ st.update.target = selected
Abstract ==
  INSTANCE Upgrade WITH
    known <- IF Tried \/ GivenUp \/ Undecided THEN Other(selected) ELSE selected,
    trial <- IF Tried \/ Undecided THEN selected ELSE NoSlot,
    whole <- {s \in Slot : image[s] = "whole"}

\* Only a whole image is ever selected, the slot to go back to is never
\* written, and an image on trial is kept or given up
\* (update_manager.cpp:650-970, 1080-1216; esp32_ota_platform.cpp:434-528).
Implements == Abstract!Spec

\* An image that is on trial becomes valid only after the window, when every
\* part of the station reports (boot_health_policy.cpp:44-79, update_manager.cpp:1080-1149).
ConfirmedHealthy ==
  [][Tried /\ ota'[selected] = "valid" /\ selected' = selected => health.aged /\ pc = "confirm"]_vars

\* No reset or reboot of another owner comes between while an image is selected
\* or on trial: the lease is held (ota_worker.cpp:467-495, 765-815).
LeaseHeld ==
  Ready /\ (ota[running] \in Unconfirmed \/ selected # running) => owner.lease # "none"

Accepts == Ready /\ owner.lease = "none" /\ st.update.state \in Open
\* Power went while the first image was made one to go back to, and then again,
\* or its record could not be read: otadata has nothing good to say of any image.
Orphaned == selected = running /\ ota[running] \in Unconfirmed \cup Rejected /\ ~Back

\* Whatever else power cuts and failing calls leave behind, the station comes to
\* accept another upload (update_manager.cpp:577-612, ota_worker.cpp:765-820).
Usable == Accepts \/ Orphaned
NeverStuck == []<>Usable

\* The update as Upgrade promises it, with the device kept from other owners and
\* no image kept before it was seen healthy.
UpgradesSafely == []TypeOK /\ []LeaseHeld /\ Implements /\ ConfirmedHealthy
=============================================================================
