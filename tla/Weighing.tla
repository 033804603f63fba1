------------------------------ MODULE Weighing ------------------------------
(***************************************************************************)
(* From the tag on the reader to the weight in Spoolman.  Four activities  *)
(* meet here: the NFC polls and the hand-off (NfcWorker,                   *)
(* NfcWorkflowHandoff) that begin and clear the current spool of           *)
(* StationWorkflow; the backend task, which runs the polls, the lookups    *)
(* and the weight updates one after the other; the scale task, whose       *)
(* explicit weighs open and fill a WeighSync session; and everybody else:  *)
(* the user at the station, other Spoolman clients, the settings.          *)
(*                                                                         *)
(* Weights are net of the empty spool and in units larger than the 0.05 g  *)
(* and 0.25 g tolerances, so that those compare for equality; used_weight  *)
(* is Full - remain.  Every spool's initial and empty weights are known.   *)
(* An update is taken apart at its requests to Spoolman, which may fail or *)
(* lose their answer; the NFC reader is read only at a poll and a fence.   *)
(***************************************************************************)
EXTENDS Integers, Sequences

CONSTANTS
  Tag, Spool, Backend,
  Link,            \* Link[b][t]: the spool that server b finds for tag t
  Grams,           \* what may lie on the scale, less the empty spool
  EditedTo,        \* what other clients may store as remaining weights
  Full,            \* every spool's initial weight
  Overfill,        \* overfill_allowance_grams
  Deadband,        \* normal_tolerance_grams
  QueueLimit,      \* queue_depth of the backend
  MaxRetries,      \* max_retries of the hand-off
  MemoryFails,     \* backend memory may run out when a lookup is taken
  Bounds,          \* for model checking: how many generations, measurements
                   \* and revisions of the settings one behaviour may have
  NoTag, NoSpool

ASSUME LinkAssumption == Link \in [Backend -> [Tag -> Spool \cup {NoSpool}]]
ASSUME WeightAssumption ==
  /\ Full \in Nat /\ Overfill \in Nat /\ Deadband \in Nat
  /\ Grams \subseteq Int /\ EditedTo \subseteq 0 .. Full
ASSUME LimitAssumption ==
  QueueLimit \in Nat /\ MaxRetries \in Nat /\ MemoryFails \in BOOLEAN
ASSUME BoundAssumption ==
  /\ Bounds \subseteq [generation : Nat, measurement : Nat, revision : Nat]
  /\ Bounds # {}
ASSUME AbsentAssumption == NoTag \notin Tag /\ NoSpool \notin Spool

Weight == 0 .. Full
Generation == UNION {0 .. b.generation : b \in Bounds}
Measurement == UNION {0 .. b.measurement : b \in Bounds}
Revision == UNION {0 .. b.revision : b \in Bounds}

Within(gen, id, rev) ==
  \E b \in Bounds : gen <= b.generation /\ id <= b.measurement /\ rev <= b.revision

Stage == {"awaiting", "resolving", "unavailable", "not_found", "ready"}
Phase == {"idle", "measuring", "ready", "unavailable", "failed", "updating",
          "unchanged", "updated", "conflict"}
PC == {"idle", "caps", "fence", "get", "confirm", "patch", "verify", "fresh",
       "snapshot", "readback"}

Command == [type : {"lookup", "update"}, tag : Tag \cup {NoTag},
            gen : Generation, id : Measurement]
Lookup(t, g) == [type |-> "lookup", tag |-> t, gen |-> g, id |-> 0]
Update(i) == [type |-> "update", tag |-> NoTag, gen |-> 0, id |-> i]

VARIABLES
  \* the world
  remain,     \* remain[b][s]: what server b has for spool s
  station,    \* the tag in the field of the reader
  config,     \* configuration: revision, Spoolman URL, automatic update
  \* NFC owner: ReadOnlyService as the hand-off sees it, NfcWorkflowHandoff
  nfc,
  \* StationWorkflow, state_
  wf,
  \* BackendWorker and SpoolmanAdapter
  adapter,    \* applied settings; capability update_remaining_weight
  queue,
  pc,
  act,        \* the update under way: its measurement, the spool it saw last
  outcome,    \* the phase a failed update will end in
  \* ScaleCommandQueue
  scale,
  \* WeighSync, state_
  session,
  \* history
  origin,     \* the server that the workflow's spool comes from
  gone,       \* the session's tag was seen to leave
  raced,      \* another client changed the spool after the update's GET
  writes      \* PATCHes of this session that took effect

world   == <<remain, station, config>>
station_vars == <<nfc, wf, origin>>
backend == <<adapter, queue, pc, act, outcome>>
history == <<gone, raced, writes>>
vars    == <<world, station_vars, backend, scale, session, history>>

Session ==
  [id : Measurement, phase : Phase, gen : Generation, tag : Tag \cup {NoTag},
   spool : Spool \cup {NoSpool}, rev : Revision, auto : BOOLEAN,
   expected : Weight, measured : Grams \cup {0},
   consumed : BOOLEAN]

TypeOK ==
  /\ remain \in [Backend -> [Spool -> Weight]]
  /\ station \in Tag \cup {NoTag}
  /\ config \in [rev : Revision, url : Backend, auto : BOOLEAN]
  /\ nfc \in [tag : Tag \cup {NoTag}, read : BOOLEAN, missed : BOOLEAN,
              submitted : BOOLEAN, retries : 0 .. MaxRetries]
  /\ wf \in [gen : Generation, tag : Tag \cup {NoTag}, stage : Stage,
             spool : Spool \cup {NoSpool}, seen : Weight,
             online : {"unknown", "online", "offline"}, unreachable : BOOLEAN]
  /\ adapter \in [rev : Revision, url : Backend, capable : BOOLEAN]
  /\ queue \in Seq(Command) /\ Len(queue) <= QueueLimit
  /\ pc \in PC
  /\ act \in [id : Measurement, gen : Generation, spool : Spool \cup {NoSpool}]
  /\ outcome \in {"failed", "conflict"}
  /\ scale \in [state : {"idle", "queued", "starting", "measuring"},
                id : Measurement, rev : Revision, auto : BOOLEAN]
  /\ session \in Session
  /\ origin \in Backend
  /\ gone \in BOOLEAN /\ raced \in BOOLEAN
  /\ writes \in Nat

NoSession ==
  [id |-> 0, phase |-> "idle", gen |-> 0, tag |-> NoTag, spool |-> NoSpool,
   rev |-> 0, auto |-> FALSE, expected |-> 0, measured |-> 0, consumed |-> FALSE]

NoUpdate == [id |-> 0, gen |-> 0, spool |-> NoSpool]

NoRead == [tag |-> NoTag, read |-> FALSE, missed |-> FALSE,
           submitted |-> FALSE, retries |-> 0]

Init ==
  /\ remain \in [Backend -> [Spool -> Weight]]
  /\ station = NoTag
  /\ config \in [rev : {0}, url : Backend, auto : BOOLEAN]
  /\ nfc = NoRead
  /\ wf = [gen |-> 0, tag |-> NoTag, stage |-> "awaiting", spool |-> NoSpool,
           seen |-> 0, online |-> "unknown", unreachable |-> FALSE]
  /\ origin = config.url
  /\ adapter = [rev |-> 0, url |-> config.url, capable |-> FALSE]
  /\ queue = <<>>
  /\ pc = "idle" /\ act = NoUpdate /\ outcome = "failed"
  /\ scale = [state |-> "idle", id |-> 0, rev |-> 0, auto |-> FALSE]
  /\ session = NoSession
  /\ gone = FALSE /\ raced = FALSE /\ writes = 0

-----------------------------------------------------------------------------
(* The user, the settings and other Spoolman clients *)

Place(t) ==
  /\ station = NoTag
  /\ station' = t
  /\ UNCHANGED <<remain, config, station_vars, backend, scale, session, history>>

Lift ==
  /\ station # NoTag
  /\ station' = NoTag
  /\ UNCHANGED <<remain, config, station_vars, backend, scale, session, history>>

Configure(b, auto) ==
  /\ Within(wf.gen, scale.id, config.rev + 1)
  /\ config' = [rev |-> config.rev + 1, url |-> b, auto |-> auto]
  /\ UNCHANGED <<remain, station, station_vars, backend, scale, session, history>>

Concerns(b, s) == b = adapter.url /\ s = session.spool

Edit(b, s, w) ==
  /\ remain[b][s] # w
  /\ remain' = [remain EXCEPT ![b][s] = w]
  /\ raced' = (raced \/ (Concerns(b, s) /\ pc \in {"confirm", "patch"}))
  /\ UNCHANGED <<station, config, station_vars, backend, scale,
                 session, gone, writes>>

-----------------------------------------------------------------------------
(* NFC polls and the hand-off, on the backend task between two commands *)

Room(q) == Len(q) < QueueLimit

\* StationWorkflow::clear() keeps what is known of the servers.
Cleared ==
  [wf EXCEPT !.gen = wf.gen + 1, !.tag = NoTag, !.stage = "awaiting",
             !.spool = NoSpool, !.seen = 0, !.unreachable = FALSE]

Begun(t) == [Cleared EXCEPT !.tag = t, !.stage = "resolving"]

\* observe() without a tag, or before the next one has been read.
Forgets(tag) ==
  /\ nfc' = [NoRead EXCEPT !.tag = tag]
  /\ gone' = (gone \/ nfc.tag = session.tag)
  /\ wf' = IF nfc.read THEN Cleared ELSE wf
  /\ UNCHANGED queue

\* A first empty answer, which a weak link gives too, is tolerated.
PollMissed ==
  /\ nfc.tag # NoTag /\ ~nfc.missed
  /\ nfc' = [nfc EXCEPT !.missed = TRUE]
  /\ UNCHANGED <<wf, queue, gone>>

\* A second one in a row, or a failing reader, means that the tag is gone.
PollLost == nfc.tag # NoTag /\ Forgets(NoTag)

PollOther ==
  /\ station \notin {NoTag, nfc.tag}
  /\ Forgets(station)

Submit(t, gen) ==
  queue' = IF Room(queue) THEN Append(queue, Lookup(t, gen)) ELSE queue

\* The tag is still stabilizing or being read, or there is nothing new.
Steady == nfc' = [nfc EXCEPT !.missed = FALSE] /\ UNCHANGED <<wf, queue>>

\* The memory has been read: begin_identified_spool(), and the lookup.
Identify ==
  /\ ~nfc.read
  /\ Within(wf.gen + 2, scale.id, config.rev)   \* one is left for the removal
  /\ wf' = Begun(nfc.tag)
  /\ nfc' = [nfc EXCEPT !.read = TRUE, !.missed = FALSE, !.submitted = Room(queue)]
  /\ Submit(nfc.tag, wf.gen + 1)

Resubmit ==
  /\ nfc.read /\ ~nfc.submitted
  /\ nfc' = [nfc EXCEPT !.missed = FALSE, !.submitted = Room(queue)]
  /\ Submit(nfc.tag, wf.gen)
  /\ UNCHANGED wf

CanRetry ==
  /\ nfc.submitted /\ nfc.retries < MaxRetries
  /\ wf.stage = "unavailable" /\ wf.online = "online" /\ wf.unreachable

\* Mutant (WeighsEnd): no abort_lookup_retry() when the queue is full.
RetryWithoutAbort ==
  /\ CanRetry
  /\ nfc' = [nfc EXCEPT !.missed = FALSE, !.retries = nfc.retries + 1]
  /\ wf' = [wf EXCEPT !.stage = "resolving"]
  /\ Submit(nfc.tag, wf.gen)

\* begin_lookup_retry(), once the spacing has passed.
Retry ==
  /\ CanRetry
  /\ nfc' = [nfc EXCEPT !.missed = FALSE, !.retries = nfc.retries + 1]
  /\ wf' = IF Room(queue) THEN [wf EXCEPT !.stage = "resolving"] ELSE wf
  /\ Submit(nfc.tag, wf.gen)

PollSame ==
  /\ station # NoTag /\ station = nfc.tag
  /\ UNCHANGED gone
  /\ Identify \/ Resubmit \/ Retry \/ (Steady /\ nfc.read = nfc.submitted)

PollStep(answer) ==
  /\ pc = "idle"
  /\ answer
  /\ UNCHANGED <<world, origin, adapter, pc, act, outcome, scale, session,
                 raced, writes>>

Poll == PollStep(PollMissed \/ PollLost \/ PollOther \/ PollSame)

-----------------------------------------------------------------------------
(* Settings, probes and lookups *)

\* apply_backend_settings_if_changed(): configure() forgets the version.
Applied ==
  IF adapter.rev = config.rev
    THEN adapter
    ELSE [rev |-> config.rev, url |-> config.url, capable |-> FALSE]

\* Only a full probe, as after a change, learns the version or forgets it.
Probe ==
  /\ pc = "idle"
  /\ \E online \in BOOLEAN :
       /\ wf' = [wf EXCEPT !.online = IF online THEN "online" ELSE "offline"]
       /\ \/ adapter.rev = config.rev /\ UNCHANGED adapter
          \/ \E capable \in BOOLEAN :
               /\ capable => online
               /\ adapter' = [Applied EXCEPT !.capable = capable]
  /\ UNCHANGED <<world, nfc, origin, queue, pc, act, outcome, scale, session,
                 history>>

\* Mutant (IdentityMatches): any answer will do for a tag that waits for one.
AnyAnswer(c) == wf.stage = "resolving"

\* accept_identified_spool() fences the queued command by its generation.
Current(c) == c.gen = wf.gen /\ c.tag = wf.tag

Resolved(c) ==
  /\ origin' = Applied.url
  /\ LET s == Link[Applied.url][c.tag] IN
     wf' = IF s = NoSpool
             THEN [wf EXCEPT !.stage = "not_found", !.online = "online"]
             ELSE [wf EXCEPT !.stage = "ready", !.online = "online", !.spool = s,
                             !.seen = remain[Applied.url][s]]

\* The request failed, or, in fail_resolution(), there was no memory for it.
Unresolved ==
  /\ \E unreachable \in BOOLEAN, online \in {"unknown", "offline"} :
       /\ ~unreachable => online = "unknown"
       /\ wf' = [wf EXCEPT !.stage = "unavailable", !.unreachable = unreachable,
                           !.online = online]
  /\ UNCHANGED origin

\* Without memory for the settings process() only reports Spoolman offline.
NotTried ==
  /\ MemoryFails
  /\ wf' = [wf EXCEPT !.online = "offline"]
  /\ UNCHANGED origin

TakeLookup ==
  /\ pc = "idle" /\ queue # <<>> /\ Head(queue).type = "lookup"
  /\ queue' = Tail(queue)
  /\ adapter' = Applied
  /\ \/ Current(Head(queue)) /\ (Resolved(Head(queue)) \/ Unresolved)
     \/ ~Current(Head(queue)) /\ UNCHANGED <<wf, origin>>
     \/ NotTried
  /\ UNCHANGED <<world, nfc, pc, act, outcome, scale, session, history>>

-----------------------------------------------------------------------------
(* A weight update, WeighSync::update() within process_weight_update() *)

Finish(phase) == session' = [session EXCEPT !.phase = phase]

Held == remain[adapter.url][session.spool]

\* set_remaining_weight() saves a slightly overfull spool as full.
Saved == IF session.measured > Full THEN Full ELSE session.measured

\* With restart_pending the measurement is given up, but not consumed.
Process(id) ==
  /\ adapter' = Applied
  /\ act' = [NoUpdate EXCEPT !.id = id]
  /\ IF id # session.id \/ session.phase # "ready" \/ session.consumed
     THEN pc' = "snapshot" /\ UNCHANGED session
     ELSE \/ pc' = "snapshot" /\ Finish("failed")
          \/ /\ pc' = "caps"
             /\ session' = [session EXCEPT !.phase = "updating", !.consumed = TRUE]
  /\ UNCHANGED <<world, station_vars, outcome, scale, history>>

TakeUpdate ==
  /\ pc = "idle" /\ queue # <<>> /\ Head(queue).type = "update"
  /\ queue' = Tail(queue)
  /\ Process(Head(queue).id)

AutoUpdate ==
  /\ pc = "idle"
  /\ session.phase = "ready" /\ session.auto /\ ~session.consumed
  /\ Process(session.id)
  /\ UNCHANGED queue

Step(from, to) == pc = from /\ pc' = to

\* refresh_capabilities() asks for the version when it is not known.
Capabilities ==
  /\ \/ /\ Step("caps", "fence")
        /\ adapter' = [adapter EXCEPT !.capable = TRUE]
        /\ UNCHANGED session
     \/ /\ Step("caps", "snapshot")
        /\ ~adapter.capable
        /\ Finish("failed")
        /\ UNCHANGED adapter
  /\ UNCHANGED <<world, station_vars, queue, act, outcome, scale, history>>

\* Mutant (SavesRightly): the same tag, but perhaps put back since.
SameTagAndSpool ==
  wf.spool = session.spool /\ wf.spool # NoSpool /\ wf.tag = session.tag

SameSpool ==
  /\ wf.gen = session.gen
  /\ wf.spool = session.spool /\ wf.spool # NoSpool
  /\ wf.tag = session.tag

\* weight_fence(), with a reader that answers.
Fence ==
  /\ session.rev = config.rev
  /\ SameSpool
  /\ wf.online = "online"
  /\ station = session.tag

Near(a, b) == a - b <= Deadband /\ b - a <= Deadband

FirstFence ==
  /\ \/ Step("fence", "snapshot") /\ Finish("failed")
     \/ /\ Fence /\ Near(session.measured, session.expected)
        /\ Step("fence", "snapshot")
        /\ Finish("unchanged")
     \/ /\ Fence /\ ~Near(session.measured, session.expected)
        /\ Step("fence", "get")
        /\ UNCHANGED session
  /\ UNCHANGED <<world, station_vars, adapter, queue, act, outcome, scale,
                 history>>

Refused(from, phase) ==
  /\ Step(from, "fresh")
  /\ outcome' = phase

Get ==
  /\ \/ Refused("get", "failed")
     \/ Refused("get", "conflict") /\ Held # session.expected
     \/ /\ Step("get", "confirm")
        /\ Held = session.expected
        /\ session.measured <= Full + Overfill
        /\ UNCHANGED outcome
  /\ raced' = FALSE
  /\ UNCHANGED <<world, station_vars, adapter, queue, act, scale, session,
                 gone, writes>>

SecondFence ==
  /\ \/ Refused("confirm", "conflict")
     \/ Fence /\ Step("confirm", "patch") /\ UNCHANGED outcome
  /\ UNCHANGED <<world, station_vars, adapter, queue, act, scale, session, history>>

\* Mutant (SavedOnce): a lost answer is told as a conflict.
PatchConflicts ==
  /\ \/ Step("patch", "verify") /\ UNCHANGED outcome
     \/ Refused("patch", "conflict")
  /\ \/ /\ remain' = [remain EXCEPT ![adapter.url][session.spool] = Saved]
        /\ writes' = writes + 1
     \/ pc' # "verify" /\ UNCHANGED <<remain, writes>>
  /\ raced' = FALSE
  /\ UNCHANGED <<station, config, station_vars, adapter, queue, act, scale, session,
                 gone>>

\* The request, or its answer, may be lost.
Patch ==
  /\ \/ Step("patch", "verify") /\ UNCHANGED outcome
     \/ Refused("patch", "failed")
  /\ \/ /\ remain' = [remain EXCEPT ![adapter.url][session.spool] = Saved]
        /\ writes' = writes + 1
     \/ pc' # "verify" /\ UNCHANGED <<remain, writes>>
  /\ raced' = FALSE
  /\ UNCHANGED <<station, config, station_vars, adapter, queue, act, scale,
                 session, gone>>

Verify ==
  /\ \/ Refused("verify", "failed") /\ UNCHANGED session
     \/ /\ Step("verify", "snapshot")
        /\ Held = Saved
        /\ Finish("updated")
        /\ UNCHANGED outcome
  /\ UNCHANGED <<world, station_vars, adapter, queue, act, scale, history>>

\* After a failure the spool is read once more, for display.
Fresh ==
  /\ Step("fresh", "snapshot")
  /\ Finish(outcome)
  /\ outcome' = "failed"
  /\ UNCHANGED <<world, station_vars, adapter, queue, act, scale, history>>

\* The session read back may be a newer one by now.
Snapshot ==
  /\ IF session.id = act.id /\ session.consumed /\ session.rev = config.rev
       THEN /\ Step("snapshot", "readback")
            /\ act' = [act EXCEPT !.gen = session.gen, !.spool = session.spool]
       ELSE Step("snapshot", "idle") /\ act' = NoUpdate
  /\ UNCHANGED <<world, station_vars, adapter, queue, outcome, scale, session,
                 history>>

\* apply_weight_readback(), if the spool could be read.
Readback ==
  /\ Step("readback", "idle")
  /\ act' = NoUpdate
  /\ \/ UNCHANGED wf
     \/ /\ act.spool # NoSpool /\ wf.gen = act.gen /\ wf.spool = act.spool
        /\ wf' = [wf EXCEPT !.seen = remain[adapter.url][act.spool]]
  /\ UNCHANGED <<world, nfc, origin, adapter, queue, outcome, scale, session,
                 history>>

\* The user, or a client that knows a measurement, asks for its update.
RequestUpdate(id) ==
  /\ id # 0 /\ Room(queue)
  /\ queue' = Append(queue, Update(id))
  /\ UNCHANGED <<world, station_vars, adapter, pc, act, outcome, scale, session,
                 history>>

-----------------------------------------------------------------------------
(* Explicit weighs, on the scale task *)

\* weigh_refusal() is asked when a weigh is submitted and when it is taken.
Admitted == session.phase # "updating"

Weigh ==
  /\ scale.state = "idle" /\ Admitted
  /\ Within(wf.gen, scale.id + 1, config.rev)
  /\ scale' = [scale EXCEPT !.state = "queued", !.id = scale.id + 1]
  /\ UNCHANGED <<world, station_vars, backend, session, history>>

\* The command expires, is refused, or the scale cannot measure.
WeighRefused ==
  /\ scale.state = "queued"
  /\ scale' = [scale EXCEPT !.state = "idle"]
  /\ UNCHANGED <<world, station_vars, backend, session, history>>

\* begin_weigh() reads the configuration first, then the workflow.
StartWeigh ==
  /\ scale.state = "queued" /\ Admitted
  /\ scale' = [scale EXCEPT !.state = "starting", !.rev = config.rev,
                            !.auto = config.auto]
  /\ UNCHANGED <<world, station_vars, backend, session, history>>

\* A spool that may be saved to is one that Spoolman is known to have.
Known == wf.spool # NoSpool /\ wf.online = "online" /\ wf.stage = "ready"

Opened ==
  [NoSession EXCEPT !.id = scale.id, !.phase = "measuring", !.gen = wf.gen,
     !.tag = wf.tag, !.rev = scale.rev, !.auto = scale.auto,
     !.spool = IF Known THEN wf.spool ELSE NoSpool,
     !.expected = IF Known THEN wf.seen ELSE 0]

\* WeighSync::begin() does nothing, and says nothing, during an update.
BeginWeigh ==
  /\ scale.state = "starting"
  /\ scale' = [scale EXCEPT !.state = "measuring"]
  /\ IF session.phase = "updating"
       THEN UNCHANGED <<session, gone, writes>>
       ELSE /\ session' = Opened
            /\ gone' = FALSE /\ writes' = 0
  /\ UNCHANGED <<world, station_vars, backend, raced>>

Measuring == session.id = scale.id /\ session.phase = "measuring"

EndWeigh ==
  /\ scale.state = "measuring"
  /\ scale' = [scale EXCEPT !.state = "idle"]
  /\ UNCHANGED <<world, station_vars, backend, history>>

\* capture(), of whatever lies on the scale: a reading below the empty spool,
\* or for no spool, is no use.
Capture ==
  /\ EndWeigh
  /\ \E g \in Grams :
       session' =
         IF ~Measuring THEN session
         ELSE IF session.spool = NoSpool \/ g < 0
         THEN [session EXCEPT !.phase = "unavailable"]
         ELSE [session EXCEPT !.phase = "ready", !.measured = g]

\* WeighSync::fail(), after a time-out or a fault of the scale.
FailWeigh ==
  /\ EndWeigh
  /\ session' = IF Measuring THEN [session EXCEPT !.phase = "failed"] ELSE session

-----------------------------------------------------------------------------

UpdateStep ==
  \/ Capabilities \/ FirstFence \/ Get \/ SecondFence \/ Patch \/ Verify
  \/ Fresh \/ Snapshot \/ Readback

BackendStep == Poll \/ Probe \/ TakeLookup \/ TakeUpdate \/ AutoUpdate \/ UpdateStep

ScaleStep == WeighRefused \/ StartWeigh \/ BeginWeigh \/ Capture \/ FailWeigh

Environment ==
  \/ \E t \in Tag : Place(t)
  \/ Lift
  \/ \E b \in Backend, auto \in BOOLEAN : Configure(b, auto)
  \/ \E b \in Backend, s \in Spool, w \in EditedTo : Edit(b, s, w)
  \/ Weigh
  \/ \E id \in Measurement : RequestUpdate(id)

Next == BackendStep \/ ScaleStep \/ Environment

Spec == Init /\ [][Next]_vars

\* A tag that left is missed, and one that stays is seen while there is room.
Polls ==
  PollStep(\/ PollLost /\ station # nfc.tag
           \/ PollSame /\ Resubmit /\ Room(queue))

\* The two tasks go on: every request to Spoolman has a deadline, the scale's
\* measurement times out, and the loop polls, then takes what is queued.
FairSpec ==
  /\ Spec
  /\ WF_vars(UpdateStep)
  /\ SF_vars(TakeLookup \/ TakeUpdate) /\ SF_vars(AutoUpdate)
  /\ SF_vars(Polls)
  /\ WF_vars(ScaleStep)

-----------------------------------------------------------------------------

\* A PATCH that takes effect.
Saves == writes' > writes

\* One measurement changes Spoolman at most once, however often its update is
\* asked for, by the user, other clients or the automatic update, and whatever
\* became of an earlier attempt (weigh_sync.cpp:79-90).
PatchOnce == writes <= 1

\* A weight is saved only for a tag that has not been off the reader since the
\* weigh began, and only to the spool this server has for that tag: neither a
\* quick exchange nor the same tag put back with another weight slips through
\* between the fences (weigh_commands.cpp:62-87).
SavesForItsTag ==
  [][Saves => ~gone /\ session.spool = Link[adapter.url][session.tag]]_vars

\* A save replaces the very value that the user was shown when the weigh
\* began, unless another client got in between the update's own GET and PATCH
\* (spoolman_adapter.cpp:817-823).
OverwritesWhatWasShown == [][Saves => raced \/ Held = session.expected]_vars

\* "Saved to Spoolman." is said when the weight has been saved and read back,
\* "No inventory value was overwritten" when none has (weigh_sync.cpp:130-145).
OutcomeTrue ==
  [][session'.phase # session.phase =>
       /\ session'.phase = "updated" => writes = 1 /\ Held = Saved
       /\ session'.phase = "conflict" => writes = 0]_vars

\* The current spool is what the server that was asked has for the tag that
\* lies on the reader and has been read, however late the answer came
\* (station_workflow.cpp:98-100, nfc_workflow_handoff.hpp:34-54).
IdentityMatches ==
  wf.stage = "ready" =>
    /\ nfc.read /\ nfc.tag = wf.tag
    /\ wf.spool = Link[origin][wf.tag]

\* A weigh comes to an end: it is measured or given up, an update that began
\* reports its outcome, and with the automatic update a measured weight does
\* not stay unsaved (weigh_sync.cpp:94-145, weigh_commands.cpp:113-120).
Unsettled ==
  \/ session.phase \in {"measuring", "updating"}
  \/ session.phase = "ready" /\ session.auto

WeighSettles == Unsettled ~> ~Unsettled

\* A tag does not stay "resolving": its lookup is queued, answered, refused or
\* given up, or the tag is gone, unless clients keep the queue full (nfc_workflow_handoff.hpp:66-90,
\* station_workflow.cpp:203-230; test_station_workflow's
\* test_failed_resolution_workspace_never_stays_resolving).
ResolvingEnds ==
  []<>(pc = "idle" /\ Room(queue))
    => (wf.stage = "resolving" ~> wf.stage # "resolving")

\* A weight is saved for the tag and over the value that the user saw
\* (weigh_commands.cpp:62-87, spoolman_adapter.cpp:817-823).
SavesRightly == SavesForItsTag /\ OverwritesWhatWasShown

\* A measurement is saved once, and what is said of it is true
\* (weigh_sync.cpp:79-90, 130-145).
SavedOnce == []TypeOK /\ []PatchOnce /\ OutcomeTrue

\* Neither a weigh nor a tag that is looked up hangs, and the settings may change
\* meanwhile without any harm to the above.
WeighsEnd == WeighSettles /\ ResolvingEnds /\ []IdentityMatches /\ SavesRightly /\ SavedOnce
=============================================================================
