---------------------------- MODULE FirmwareUpload ----------------------------
(***************************************************************************)
(* An upload of firmware between the HTTP task and the OTA owner task.     *)
(* The HTTP task puts each step of the upload in a slot, queues the slot   *)
(* and waits 30 s for the answer; it may give up at any time, disconnect   *)
(* or time out, and the owner may answer late.  What the owner then finds  *)
(* decides the result of the operation.                                    *)
(*                                                                         *)
(* The manager is reduced to what these decisions look at: nothing, an     *)
(* image being received, one that is staged, one selected for the next     *)
(* start, or a failure.  An upload is known by one number, for its         *)
(* operation and its generation; FirmwareUpdate has the manager itself.    *)
(***************************************************************************)
EXTENDS Naturals, Sequences

CONSTANTS
  Slots,       \* the slots, as many as the queue is deep
  MaxUploads,  \* bounds: uploads,
  MaxHealth    \* and boot-health decisions

\* What is assumed of the constants; MCFlash asserts it.
SizeAssumption == Slots \in Nat \ {0} /\ MaxUploads \in Nat \ {0} /\ MaxHealth \in Nat

VARIABLES
  slots,    \* slots_
  queue,    \* queue_: indices of slots
  owner,    \* the owner task: the slot it works on, the command, and how far it is
  manager,  \* UpdateManager
  seen,     \* published_snapshot_
  gate,     \* DeviceLifecycleGate: by whom it is taken; history: an upload lost its lease
            \* to the end of another
  leased,   \* lifecycle_lease_ is set
  late,     \* pending_finish_cleanup_, or 0
  control,  \* control_active_ and its command
  health,   \* boot_health_queued_, and decisions left
  web,      \* the HTTP task
  ops       \* the operation of each upload

vars == <<slots, queue, owner, manager, seen, gate, leased, late, control, health, web, ops>>

Upload == 1 .. MaxUploads
Kind == {"begin", "write", "finish", "abort", "cancel", "reboot", "health"}
State == {"idle", "receiving", "staged", "selected", "failed"}
Index == 1 .. Slots

NoResult == [kind |-> "none", upload |-> 0, ok |-> FALSE]
Free == [use |-> FALSE, kind |-> "begin", upload |-> 0, abandoned |-> FALSE,
         done |-> FALSE, result |-> NoResult]
Idle == [at |-> "idle", slot |-> 0, kind |-> "begin", upload |-> 0, ok |-> FALSE]
NoSession == [stage |-> "idle", upload |-> 0, slot |-> 0, kind |-> "begin"]

TypeOK ==
  /\ slots \in [Index -> [use : BOOLEAN, kind : Kind, upload : 0 .. MaxUploads,
                          abandoned : BOOLEAN, done : BOOLEAN,
                          result : [kind : Kind \cup {"none"}, upload : 0 .. MaxUploads, ok : BOOLEAN]]]
  /\ queue \in Seq(Index)
  /\ owner \in [at : {"idle", "run", "cancel", "publish", "complete", "withdraw", "free", "restart"},
                slot : 0 .. Slots, kind : Kind, upload : 0 .. MaxUploads, ok : BOOLEAN]
  /\ {manager, seen} \subseteq [state : State, upload : 0 .. MaxUploads]
  /\ gate \in [by : {"none", "update", "other"}, lost : BOOLEAN] /\ leased \in BOOLEAN
  /\ late \in 0 .. MaxUploads
  /\ control \in [kind : {"none", "cancel", "reboot"}, upload : 0 .. MaxUploads]
  /\ health \in [queued : BOOLEAN, left : 0 .. MaxHealth]
  /\ web \in [stage : {"idle", "begin", "reserve", "wait", "stream", "succeed", "abort", "settle"},
              upload : 0 .. MaxUploads, slot : 0 .. Slots, kind : Kind]
  /\ ops \in [0 .. MaxUploads -> {"none", "running", "succeeded", "failed"}]

Init ==
  /\ slots = [i \in Index |-> Free] /\ queue = <<>> /\ owner = Idle
  /\ manager = [state |-> "idle", upload |-> 0] /\ seen = manager
  /\ gate = [by |-> "none", lost |-> FALSE] /\ leased = FALSE /\ late = 0
  /\ control = [kind |-> "none", upload |-> 0]
  /\ health = [queued |-> FALSE, left |-> MaxHealth]
  /\ web = NoSession
  /\ ops = [n \in 0 .. MaxUploads |-> "none"]

-----------------------------------------------------------------------------
(* Slots, the lease and operations *)

Unused == {i \in Index : ~slots[i].use}
\* reserve_slot() takes the first.
Next1 == CHOOSE i \in Unused : \A j \in Unused : i <= j

Reserved(kind, upload, abandoned) ==
  [slots EXCEPT ![Next1] = [Free EXCEPT !.use = TRUE, !.kind = kind, !.upload = upload,
                                        !.abandoned = abandoned]]

\* What is already over is never changed.
Ended(n, state) == IF ops[n] = "running" THEN [ops EXCEPT ![n] = state] ELSE ops

\* reconcile_lifecycle() with the state s.
Over(s) == s.state \in {"idle", "failed"}
Released(s) ==
  IF Over(s) /\ leased
    THEN /\ leased' = FALSE
         /\ gate' = [by |-> "none", lost |-> gate.lost \/ (ops[web.upload] = "running" /\ s.upload # web.upload)]
    ELSE UNCHANGED <<leased, gate>>

\* classify_upload_cleanup() of upload n in the snapshot s.
Disposition(n, s, ok) ==
  IF ok THEN "aborted"
  ELSE IF s.upload # n THEN "unresolved"
  ELSE CASE s.state = "idle" -> "aborted"
         [] s.state = "failed" -> "failed"
         [] s.state \in {"staged", "selected"} -> "validated"
         [] OTHER -> "unresolved"

\* Mutant (Final): success is reported while the owner may still withdraw the image.
ResolutionEarly(disposition, pending, authoritative) ==
  IF disposition \in {"aborted", "failed"} THEN "failed"
  ELSE IF disposition = "validated" THEN "succeeded" ELSE "running"

\* resolve_upload_operation().
Resolution(disposition, pending, authoritative) ==
  IF disposition \in {"aborted", "failed"} THEN "failed"
  ELSE IF disposition = "validated" /\ (~pending \/ authoritative) THEN "succeeded"
  ELSE "running"

\* reconcile_upload_cleanup().
Reconciled(n, s, ok, authoritative) ==
  LET r == Resolution(Disposition(n, s, ok), late = n, authoritative)
  IN /\ ops' = Ended(n, r)
     /\ late' = IF r # "running" /\ late = n THEN 0 ELSE late

-----------------------------------------------------------------------------
(* The HTTP task *)

\* begin_streaming_upload(), then OtaWorker::begin_upload().
BeginStream ==
  /\ web.stage = "idle"
  /\ \E n \in Upload :
       /\ ops[n] = "none" /\ \A k \in Upload : k < n => ops[k] # "none"
       /\ ops' = [ops EXCEPT ![n] = "running"]
       /\ web' = [NoSession EXCEPT !.stage = "begin", !.upload = n]
  /\ UNCHANGED <<slots, queue, owner, manager, seen, gate, leased, late, control, health>>

AcquireLease ==
  /\ web.stage = "begin"
  /\ IF ~leased /\ gate.by = "none"
       THEN /\ leased' = TRUE /\ gate' = [gate EXCEPT !.by = "update"]
            /\ web' = [web EXCEPT !.stage = "reserve", !.kind = "begin"]
            /\ UNCHANGED ops
       ELSE /\ ops' = Ended(web.upload, "failed")
            /\ web' = NoSession
            /\ UNCHANGED <<leased, gate>>
  /\ UNCHANGED <<slots, queue, owner, manager, seen, late, control, health>>

\* Reserve, fill and queue a slot; without one, begin gives the lease back and
\* the others fail.
Enqueue ==
  /\ web.stage = "reserve"
  /\ IF Unused # {}
       THEN /\ slots' = Reserved(web.kind, web.upload, FALSE)
            /\ queue' = Append(queue, Next1)
            /\ web' = [web EXCEPT !.stage = "wait", !.slot = Next1]
            /\ UNCHANGED <<gate, leased, ops, late>>
       ELSE /\ UNCHANGED <<slots, queue>>
            /\ CASE web.kind = "begin" ->
                      /\ ops' = Ended(web.upload, "failed")
                      /\ web' = NoSession
                      /\ IF leased THEN leased' = FALSE /\ gate' = [gate EXCEPT !.by = "none"] ELSE UNCHANGED <<gate, leased>>
                      /\ UNCHANGED late
                 [] web.kind = "abort" ->
                      /\ Reconciled(web.upload, seen, FALSE, FALSE)
                      /\ web' = NoSession /\ UNCHANGED <<gate, leased>>
                 [] OTHER ->
                      /\ web' = [web EXCEPT !.stage = "abort"]
                      /\ UNCHANGED <<gate, leased, ops, late>>
  /\ UNCHANGED <<owner, manager, seen, control, health>>

\* What follows the answer to a step, or its absence.
After(ok) ==
  CASE web.kind = "begin" /\ ok -> [web EXCEPT !.stage = "stream", !.slot = 0]
    [] web.kind = "begin" /\ ~ok ->
         IF seen.upload = web.upload /\ seen.state = "receiving"
           THEN [web EXCEPT !.stage = "abort", !.slot = 0] ELSE NoSession
    [] web.kind = "write" -> [web EXCEPT !.stage = IF ok THEN "stream" ELSE "abort", !.slot = 0]
    [] web.kind = "finish" -> [web EXCEPT !.stage = IF ok THEN "succeed" ELSE "abort", !.slot = 0]
    [] OTHER -> [web EXCEPT !.stage = "settle", !.slot = IF ok THEN 1 ELSE 0]

\* wait_for_slot(): the answer is there, perhaps at the last moment.
Answered ==
  /\ web.stage = "wait" /\ slots[web.slot].done
  /\ slots' = [slots EXCEPT ![web.slot] = Free]
  /\ web' = After(slots[web.slot].result.ok)
  /\ UNCHANGED <<queue, owner, manager, seen, gate, leased, late, control, health, ops>>

\* Mutant (SlotsServe): the slot is given back when the caller gives up.
GiveUpSlot ==
  /\ web.stage = "wait" /\ ~slots[web.slot].done
  /\ slots' = [slots EXCEPT ![web.slot].use = FALSE]
  /\ late' = IF web.kind = "finish" THEN web.upload ELSE late
  /\ web' = After(FALSE)
  /\ UNCHANGED <<queue, owner, manager, seen, gate, leased, control, health, ops>>

\* The 30 s are over: the slot stays reserved until the owner is done with it.
GiveUp ==
  /\ web.stage = "wait" /\ ~slots[web.slot].done
  /\ slots' = [slots EXCEPT ![web.slot].abandoned = TRUE]
  /\ late' = IF web.kind = "finish" THEN web.upload ELSE late
  /\ web' = After(FALSE)
  /\ UNCHANGED <<queue, owner, manager, seen, gate, leased, control, health, ops>>

\* The next chunk, the end of the image, or a connection that is lost or too slow.
Stream ==
  /\ web.stage = "stream"
  /\ \E kind \in {"write", "finish", "abort"} :
       web' = [web EXCEPT !.kind = kind,
                 !.stage = IF kind # "abort" /\ leased THEN "reserve" ELSE "abort"]
  /\ UNCHANGED <<slots, queue, owner, manager, seen, gate, leased, late, control, health, ops>>

\* finish_streaming_upload() reports what the owner staged.
Succeed ==
  /\ web.stage = "succeed"
  /\ ops' = Ended(web.upload, "succeeded")
  /\ web' = NoSession
  /\ UNCHANGED <<slots, queue, owner, manager, seen, gate, leased, late, control, health>>

\* abort_upload().
Abort ==
  /\ web.stage = "abort"
  /\ CASE ops[web.upload] # "running" -> web' = NoSession /\ UNCHANGED <<ops, late>>
       [] ops[web.upload] = "running" /\ leased ->
            web' = [web EXCEPT !.stage = "reserve", !.kind = "abort"] /\ UNCHANGED <<ops, late>>
       [] OTHER -> Reconciled(web.upload, seen, FALSE, FALSE) /\ web' = NoSession
  /\ UNCHANGED <<slots, queue, owner, manager, seen, gate, leased, control, health>>

\* The caller of an abort looks at what came of it.
Settle ==
  /\ web.stage = "settle"
  /\ Reconciled(web.upload, seen, web.slot = 1, FALSE)
  /\ web' = NoSession
  /\ UNCHANGED <<slots, queue, owner, manager, seen, gate, leased, control, health>>

\* What the image that is shown allows: the API asks before it submits.
Controllable(kind) ==
  IF kind = "reboot" THEN seen.state \in {"staged", "selected"}
                     ELSE seen.state \in {"receiving", "staged"}

\* submit_control(): the user restarts into a staged image, or cancels.
SubmitControl ==
  /\ web.stage = "idle" /\ leased /\ seen.upload # 0
  /\ control.kind = "none" /\ Unused # {}
  /\ \E kind \in {"cancel", "reboot"} :
       /\ Controllable(kind)
       /\ slots' = Reserved(kind, seen.upload, TRUE)
       /\ queue' = Append(queue, Next1)
       /\ control' = [kind |-> kind, upload |-> seen.upload]
  /\ UNCHANGED <<owner, manager, seen, gate, leased, late, health, web, ops>>

\* submit_boot_health(), from the loop task; one decision is queued at a time.
SubmitHealth ==
  /\ health.left > 0 /\ ~health.queued /\ Unused # {}
  /\ slots' = Reserved("health", 0, TRUE)
  /\ queue' = Append(queue, Next1)
  /\ health' = [queued |-> TRUE, left |-> health.left - 1]
  /\ UNCHANGED <<owner, manager, seen, gate, leased, late, control, web, ops>>

\* Another owner of the device: DeviceControlWorker restarts it.
OtherTakes ==
  /\ gate.by = "none"
  /\ gate' = [gate EXCEPT !.by = "other"]
  /\ UNCHANGED <<slots, queue, owner, manager, seen, leased, late, control, health, web, ops>>

-----------------------------------------------------------------------------
(* The owner task *)

Slot == slots[owner.slot]

Take ==
  /\ owner.at = "idle" /\ queue # <<>>
  /\ LET s == slots[Head(queue)]
     IN owner' = [at |-> "run", slot |-> Head(queue), kind |-> s.kind, upload |-> s.upload, ok |-> FALSE]
  /\ queue' = Tail(queue)
  /\ UNCHANGED <<slots, manager, seen, gate, leased, late, control, health, web, ops>>

\* validate_precondition_locked()
Owns(n) == manager.upload = n

\* UpdateManager::cancel(): the operation must own an image that is not selected.
Cancels(n) ==
  IF Owns(n) /\ manager.state \in {"receiving", "staged"}
    THEN \E s \in {"idle", "failed"} :
           manager' = [manager EXCEPT !.state = s] /\ owner'.ok = (s = "idle")
    ELSE manager' = manager /\ ~owner'.ok

At(place, ok) == owner' = [owner EXCEPT !.at = place, !.ok = ok]

\* process(): each step of an upload may fail, and an upload that fails is over.
Process ==
  /\ owner.at = "run"
  /\ \E ok \in BOOLEAN :
     LET n == Slot.upload
         own == Owns(n) /\ manager.state = "receiving"
         becomes(s) == manager' = [state |-> s, upload |-> n]
     IN CASE Slot.kind = "begin" ->
               /\ At("publish", ok)
               /\ \/ ~ok /\ UNCHANGED manager
                  \/ /\ manager.state \in {"idle", "failed"}
                     /\ becomes(IF ok THEN "receiving" ELSE "failed")
               /\ ops' = IF ok THEN ops ELSE Ended(n, "failed")
          [] Slot.kind = "write" ->
               /\ At("publish", ok) /\ UNCHANGED ops
               /\ IF own THEN becomes(IF ok THEN "receiving" ELSE "failed")
                         ELSE ~ok /\ UNCHANGED manager
          [] Slot.kind = "finish" ->
               /\ At("publish", ok) /\ UNCHANGED ops
               /\ IF own THEN becomes(IF ok THEN "staged" ELSE "failed")
                         ELSE ~ok /\ UNCHANGED manager
          [] Slot.kind = "abort" ->
               /\ ~ok /\ UNCHANGED <<manager, ops>>
               /\ At(IF ops[n] = "running" THEN "cancel" ELSE "publish", FALSE)
          [] Slot.kind = "cancel" ->
               /\ ~ok /\ UNCHANGED <<manager, ops>> /\ At("cancel", FALSE)
          [] Slot.kind = "reboot" ->
               /\ UNCHANGED ops
               /\ IF Owns(n) /\ manager.state \in {"staged", "selected"}
                    THEN /\ \/ UNCHANGED manager /\ ~ok
                            \/ becomes("selected")
                            \/ becomes("failed") /\ ~ok
                         /\ At(IF ok THEN "restart" ELSE "publish", FALSE)
                    ELSE ~ok /\ UNCHANGED manager /\ At("publish", FALSE)
          [] OTHER ->  \* boot_health
               ~ok /\ At("publish", FALSE) /\ UNCHANGED <<manager, ops>>
  /\ UNCHANGED <<slots, queue, seen, gate, leased, late, control, health, web>>

\* The abort or the cancellation itself, after the look at the operation.
CancelImage ==
  /\ owner.at = "cancel"
  /\ owner' \in {[owner EXCEPT !.at = "publish", !.ok = b] : b \in BOOLEAN}
  /\ Cancels(Slot.upload)
  /\ UNCHANGED <<slots, queue, seen, gate, leased, late, control, health, web, ops>>

\* Mutant (Ends): nobody waits for this abort any more.
SettlesAwaited == Slot.kind = "abort" /\ ops[Slot.upload] = "running" /\ ~Slot.abandoned

\* An abort that was carried out settles its operation.
Settles == Slot.kind = "abort" /\ ops[Slot.upload] = "running"

\* publish_owner_snapshot(), reconcile_upload_cleanup() of an abort,
\* reconcile_published_lifecycle(), and clear_control().
Publish ==
  /\ owner.at = "publish"
  /\ seen' = manager
  /\ IF Settles
       THEN Reconciled(Slot.upload, manager, owner.ok, TRUE) ELSE UNCHANGED <<ops, late>>
  /\ Released(manager)
  /\ control' = IF Slot.kind \in {"cancel", "reboot"} THEN [kind |-> "none", upload |-> 0] ELSE control
  /\ At("complete", owner.ok)
  /\ UNCHANGED <<slots, queue, manager, health, web>>

\* What nobody waits for is taken back: an upload that was opened, an image that
\* was staged (reconcile_late_finish()) unless its operation is over.
Withdrawn ==
  \/ Slot.kind = "begin" /\ owner.ok
  \/ /\ Slot.kind = "finish" /\ ops[Slot.upload] = "running"
     /\ Disposition(Slot.upload, manager, FALSE) \notin {"aborted", "failed"}

\* complete_slot(): the answer, or the consequences of an answer nobody waits for.
Complete ==
  /\ owner.at = "complete"
  /\ IF ~Slot.abandoned
       THEN /\ slots' = [slots EXCEPT ![owner.slot].done = TRUE,
                           ![owner.slot].result = [kind |-> owner.kind, upload |-> owner.upload, ok |-> owner.ok]]
            /\ owner' = Idle
            /\ UNCHANGED <<ops, late>>
       ELSE /\ UNCHANGED slots
            /\ IF Withdrawn
                 THEN At("withdraw", FALSE) /\ UNCHANGED <<ops, late>>
                 ELSE /\ ops' = IF Slot.kind \in {"begin", "finish"} THEN Ended(Slot.upload, "failed") ELSE ops
                      /\ late' = IF Slot.kind = "finish" /\ late = Slot.upload THEN 0 ELSE late
                      /\ At("free", FALSE)
  /\ UNCHANGED <<queue, manager, seen, gate, leased, control, health, web>>

\* A late begin or finish is taken back: cancel, publish, reconcile.
Withdraw ==
  /\ owner.at = "withdraw"
  /\ owner' \in {[owner EXCEPT !.at = "free", !.ok = b] : b \in BOOLEAN}
  /\ Cancels(Slot.upload)
  /\ seen' = manager'
  /\ Reconciled(Slot.upload, manager', owner'.ok, TRUE)
  /\ UNCHANGED <<slots, queue, gate, leased, control, health, web>>

\* The lifecycle once more, then the slot; the next decision may be queued.
FreeSlot ==
  /\ owner.at = "free"
  /\ Released(seen)
  /\ slots' = [slots EXCEPT ![owner.slot] = Free]
  /\ health' = IF Slot.kind = "health" THEN [health EXCEPT !.queued = FALSE] ELSE health
  /\ owner' = Idle
  /\ UNCHANGED <<queue, manager, seen, late, control, web, ops>>

-----------------------------------------------------------------------------

Owner == Take \/ Process \/ CancelImage \/ Publish \/ Complete \/ Withdraw \/ FreeSlot
Web == AcquireLease \/ Enqueue \/ Answered \/ Stream \/ Succeed \/ Abort \/ Settle

Next ==
  \/ Owner \/ Web
  \/ BeginStream \/ GiveUp \/ SubmitControl \/ SubmitHealth \/ OtherTakes

Spec == Init /\ [][Next]_vars

\* The tasks run, and an upload ends: after 180 s, or 5 s without data.
FairSpec ==
  /\ Spec /\ WF_vars(Owner) /\ WF_vars(Web)
  /\ SF_vars(Stream /\ web'.kind # "write")

-----------------------------------------------------------------------------
(* Properties *)

\* The answer a caller takes from its slot is the answer to its own command,
\* although callers give up and slots are used again (ota_worker.cpp:252-270).
AnswerOwn ==
  [][Answered => /\ slots[web.slot].result.kind = web.kind
                 /\ slots[web.slot].result.upload = web.upload]_vars

\* A reported success is final: the image it names is withdrawn only at the
\* user's request, never by a late cleanup (upload_operation_policy.hpp:60-78).
ReceiptKept ==
  [][\A n \in Upload :
       ops[n] = "succeeded" /\ manager.upload = n /\ manager.state = "staged" /\ manager'.state # "staged"
         => Slot.kind \in {"cancel", "reboot"}]_vars

\* A reported failure is final too: no image of an operation that failed is
\* staged behind the user's back (ota_worker.cpp:377-425).
NoGhost ==
  \A n \in Upload :
    ops[n] = "failed" => ~(manager.upload = n /\ manager.state \in {"staged", "selected"})

\* There is always a slot to stop an upload with (ota_worker.hpp:27).
PoolSuffices == web.stage = "reserve" /\ web.kind = "abort" => Unused # {}

\* Every upload comes to a result, whoever gave up on whom, as long as it keeps
\* its lease (upload_operation_policy.hpp:22-25, ota_worker.cpp:272-425).
Ends == \A n \in Upload : []<>(ops[n] # "running" \/ gate.lost \/ owner.at = "restart")

\* Callers and the owner share few slots, and neither takes the other's.
SlotsServe == []TypeOK /\ []PoolSuffices /\ AnswerOwn

\* What was reported of an upload stays true.
Final == []NoGhost /\ ReceiptKept
=============================================================================
