----------------------------- MODULE Operations -----------------------------
(***************************************************************************)
(* Operations and their receipts.  Requests come from the web, under an    *)
(* Idempotency-Key, and from the touch screen; each begins a record in     *)
(* OperationRegistry and goes on to the backend task's queue, or to        *)
(* DeviceControlWorker, which restarts the station.  Two guards face each  *)
(* other: the web task refuses a restart while the backend has work, the   *)
(* backend refuses a change while the lifecycle gate is held.              *)
(*                                                                         *)
(* An operation that succeeded, failed or waits for a confirmation is      *)
(* "done"; the place of an entry in the ledger does not matter, that of a  *)
(* record in the registry does.                                            *)
(***************************************************************************)
EXTENDS FiniteSets, Integers, Sequences

CONSTANTS
  Key, Digest,     \* Idempotency-Keys, and digests of what is asked for
  Asks,            \* the kind of request that a digest stands for
  UiKinds,         \* what the touch screen asks for
  Slots,           \* capacity of the registry
  Entries,         \* capacity of the ledger
  Depth,           \* queue_depth of the backend
  Period,          \* millis() counts modulo this
  Ttl,             \* ttl_ms of the ledger
  Expiry,          \* destructive_command_expiry_ms
  MaxTime, MaxId   \* bounds for model checking

\* "change": a tag write or clear, or an update of Spoolman; "read": a command
\* that changes neither, and "catalog" one that takes no place in the ledger.
Command == {"change", "read", "catalog"}
Restarting == {"reboot", "factory_reset"}

ASSUME SizeAssumption ==
  /\ Slots \in Nat \ {0} /\ Entries \in Nat \ {0} /\ Depth \in Nat \ {0}
  /\ Period \in Nat /\ Ttl \in 1 .. Period \div 2 /\ Expiry \in Nat
ASSUME KindAssumption ==
  Asks \in [Digest -> Command \cup Restarting] /\ UiKinds \subseteq Command
\* Less than 2^32 ms pass between two looks at an entry of the ledger.
ASSUME BoundAssumption == MaxTime \in 0 .. Period - 1 /\ MaxId \in Nat

VARIABLES
  time,      \* time since some start-up, and the clock at that start-up
  registry,  \* OperationRegistry: slots, next_slot_, the last id given
  ledger,    \* IdempotencyLedger: its occupied entries
  queue,     \* BackendWorker: commands waiting
  worker,    \* the command being processed
  web,       \* the HTTP task in ApplicationApiContext::submit()
  ui,        \* the UI task in a submission of its own
  gate,      \* DeviceLifecycleGate: who holds it
  control,   \* DeviceControlWorker: stage, active_operation_id_, active_action_
  begun      \* history: which operation a request got, and when it was made

vars == <<time, registry, ledger, queue, worker, web, ui, gate, control, begun>>

Id == 0 .. MaxId
Time == 0 .. Period - 1
Record == [id : Id, state : {"queued", "running", "done"}]
Entry == [key : Key, digest : Digest, op : Id, at : Time]
Task == [op : Id, kind : Command, at : Time]

TypeOK ==
  /\ time \in [passed : 0 .. MaxTime, start : Time]
  /\ registry \in [slots : [0 .. Slots - 1 -> Record], next : 0 .. Slots - 1, last : Id]
  /\ ledger \subseteq Entry /\ Cardinality(ledger) <= Entries
  /\ queue \in Seq(Task) /\ Len(queue) <= Depth
  /\ worker \in [stage : {"idle", "taken", "running", "changing", "automatic"}, task : Task]
  /\ web.stage \in {"idle", "fresh", "send", "control", "lease", "insert", "answered"}
  /\ web.op \in Id
  /\ ui \in [stage : {"idle", "send"}, op : Id, kind : Command]
  /\ gate \in Restarting \cup {"none", "ota"}
  /\ control \in [stage : {"idle", "queued", "running", "restart"}, op : Id,
                  action : Restarting]

Empty == [slots |-> [i \in 0 .. Slots - 1 |-> [id |-> 0, state |-> "done"]],
          next |-> 0, last |-> 0]
NoWork == [stage |-> "idle", task |-> [op |-> 0, kind |-> "read", at |-> 0]]
NoRequest == [stage |-> "idle", op |-> 0]
NoUi == [stage |-> "idle", op |-> 0, kind |-> "read"]
NoControl == [stage |-> "idle", op |-> 0, action |-> "reboot"]

Init ==
  /\ time \in [passed : {0}, start : Time]
  /\ registry = Empty
  /\ ledger = {}
  /\ queue = <<>> /\ worker = NoWork
  /\ web = NoRequest /\ ui = NoUi
  /\ gate = "none" /\ control = NoControl
  /\ begun = {}

-----------------------------------------------------------------------------
(* millis() *)

Clock == (time.start + time.passed) % Period

Since(now, at) == (now - at) % Period

Tick ==
  /\ time.passed < MaxTime
  /\ time' = [time EXCEPT !.passed = @ + 1]
  /\ UNCHANGED <<registry, ledger, queue, worker, web, ui, gate, control, begun>>

-----------------------------------------------------------------------------
(* OperationRegistry *)

Live(op) ==
  \E i \in DOMAIN registry.slots :
    registry.slots[i].id = op /\ registry.slots[i].state # "done"

FreeSlots == {i \in DOMAIN registry.slots : registry.slots[i].state = "done"}

\* The first free slot from next_slot_ on.
Offset(i) == (i - registry.next) % Slots
Selected == CHOOSE i \in FreeSlots : \A j \in FreeSlots : Offset(i) <= Offset(j)

NewId == registry.last + 1

Opened(state) ==
  [slots |-> [registry.slots EXCEPT ![Selected] = [id |-> NewId, state |-> state]],
   next |-> (Selected + 1) % Slots,
   last |-> NewId]

\* update() leaves a record alone that is done, or has been replaced.
Updated(op, state) ==
  [registry EXCEPT !.slots =
     [i \in DOMAIN @ |-> IF @[i].id = op /\ @[i].state # "done"
                           THEN [@[i] EXCEPT !.state = state] ELSE @[i]]]

\* Bound: an id is left for the request under way.
IdsLeft ==
  registry.last + (IF web.stage \in {"fresh", "control", "lease"} THEN 1 ELSE 0) < MaxId

-----------------------------------------------------------------------------
(* submit() on the HTTP task *)

Retained == Asks[web.digest] # "catalog"

\* Mutant (Idempotent): the clock is compared without its wrap.
KeptUnwrapped(now) == {e \in ledger : now < e.at + Ttl}

\* Entries that are not older than the retention.
Kept(now) == {e \in ledger : Since(now, e.at) < Ttl}

Finished(e) == ~Live(e.op)

\* reserve_capacity(): the entries that may be left when one more must fit.
Reserved(now) ==
  IF Cardinality(Kept(now)) < Entries THEN {Kept(now)}
  ELSE {Kept(now) \ {e} : e \in {f \in Kept(now) :
          /\ Finished(f)
          /\ \A g \in Kept(now) : Finished(g) => Since(now, g.at) <= Since(now, f.at)}}

Request(k, d) == [stage |-> "fresh", key |-> k, digest |-> d, op |-> 0,
                  now |-> Clock, made |-> time.passed]

\* admit(): the client gets the operation that its key has already.
Replay(k, d) ==
  /\ web.stage = "idle"
  /\ \E e \in Kept(Clock) :
       /\ e.key = k /\ e.digest = d
       /\ web' = [Request(k, d) EXCEPT !.stage = "answered", !.op = e.op]
  /\ ledger' = Kept(Clock)
  /\ UNCHANGED <<time, registry, queue, worker, ui, gate, control, begun>>

\* The key stands for something else, or every entry is of live work.
Rejected(k, d) ==
  \/ \E e \in Kept(Clock) : e.key = k /\ e.digest # d
  \/ /\ \A e \in Kept(Clock) : e.key # k
     /\ Asks[d] # "catalog" /\ Reserved(Clock) = {}

Reject(k, d) ==
  /\ web.stage = "idle"
  /\ Rejected(k, d)
  /\ ledger' = Kept(Clock)
  /\ UNCHANGED <<time, registry, queue, worker, web, ui, gate, control, begun>>

Proceed(k, d) ==
  /\ web.stage = "idle" /\ IdsLeft
  /\ \A e \in Kept(Clock) : e.key # k
  /\ IF Asks[d] = "catalog" THEN ledger' = Kept(Clock) ELSE ledger' \in Reserved(Clock)
  /\ web' = Request(k, d)
  /\ UNCHANGED <<time, registry, queue, worker, ui, gate, control, begun>>

\* pending() of the backend: the commands that wait and the one being processed.
Pending == Len(queue) + (IF worker.stage \in {"idle", "automatic"} THEN 0 ELSE 1)

Kind == Asks[web.digest]

\* What is neither live nor in the ledger is forgotten.
Remember(op) ==
  begun' = {b \in begun : Live(b.op) \/ \E e \in ledger : e.op = b.op}
             \cup {[op |-> op, key |-> web.key, digest |-> web.digest, made |-> web.made]}

\* A command for the backend begins its operation.
Begin ==
  /\ web.stage = "fresh" /\ Kind \in Command
  /\ IF FreeSlots = {}
       THEN web' = NoRequest /\ UNCHANGED <<registry, begun>>
       ELSE /\ registry' = Opened("queued")
            /\ web' = [web EXCEPT !.stage = "send", !.op = NewId]
            /\ Remember(NewId)
  /\ UNCHANGED <<time, ledger, queue, worker, ui, gate, control>>

\* Mutant (CommandSpared): work of the backend is not looked at.
RestartableAlways ==
  /\ web.stage = "fresh" /\ Kind \in Restarting
  /\ web' = [web EXCEPT !.stage = "control"]
  /\ UNCHANGED <<time, registry, ledger, queue, worker, ui, gate, control, begun>>

\* A restart is refused while the backend has anything to do.
Restartable ==
  /\ web.stage = "fresh" /\ Kind \in Restarting
  /\ web' = IF Pending # 0 THEN NoRequest ELSE [web EXCEPT !.stage = "control"]
  /\ UNCHANGED <<time, registry, ledger, queue, worker, ui, gate, control, begun>>

Accepted(op) == [web EXCEPT !.stage = IF Retained THEN "insert" ELSE "answered", !.op = op]

Queued(op, kind) == [op |-> op, kind |-> kind, at |-> Clock]

\* Mutant (Placed): a full queue is told to the client only.
SendUnfailed ==
  /\ web.stage = "send"
  /\ IF Len(queue) < Depth
       THEN queue' = Append(queue, Queued(web.op, Kind)) /\ web' = Accepted(web.op)
       ELSE web' = NoRequest /\ UNCHANGED queue
  /\ UNCHANGED <<time, registry, ledger, worker, ui, gate, control, begun>>

Send ==
  /\ web.stage = "send"
  /\ \/ /\ Len(queue) < Depth
        /\ queue' = Append(queue, Queued(web.op, Kind))
        /\ web' = Accepted(web.op)
        /\ UNCHANGED registry
     \/ /\ registry' = Updated(web.op, "done")     \* no memory, or no room
        /\ web' = NoRequest
        /\ UNCHANGED queue
  /\ UNCHANGED <<time, ledger, worker, ui, gate, control, begun>>

\* insert() expires entries by the time of the request.
Insert ==
  /\ web.stage = "insert"
  /\ LET kept == Kept(web.now)
     IN IF Cardinality(kept) < Entries
          THEN /\ ledger' = kept \cup {[key |-> web.key, digest |-> web.digest,
                                        op |-> web.op, at |-> web.now]}
               /\ web' = [web EXCEPT !.stage = "answered"]
          ELSE ledger' = kept /\ web' = NoRequest
  /\ UNCHANGED <<time, registry, queue, worker, ui, gate, control, begun>>

\* The response is on its way; whether it arrives is not known here.
Answer ==
  /\ web.stage = "answered"
  /\ web' = NoRequest
  /\ UNCHANGED <<time, registry, ledger, queue, worker, ui, gate, control, begun>>

-----------------------------------------------------------------------------
(* DeviceControlWorker::submit(), also on the HTTP task *)

\* A second request for the same action gets the operation of the first.
Join ==
  /\ web.stage = "control" /\ control.op # 0
  /\ control.action = Kind /\ gate = Kind
  /\ web' = Accepted(control.op)
  /\ Remember(control.op)
  /\ UNCHANGED <<time, registry, ledger, queue, worker, ui, gate, control>>

\* A rejected request leaves an operation that has failed, if there is room.
Collide ==
  /\ web.stage = "control"
  /\ \/ control.op # 0 /\ control.action # Kind
     \/ control.op = 0 /\ gate # "none"
  /\ registry' = IF FreeSlots = {} THEN registry ELSE Opened("done")
  /\ web' = NoRequest
  /\ UNCHANGED <<time, ledger, queue, worker, ui, gate, control, begun>>

Acquire ==
  /\ web.stage = "control" /\ control.op = 0 /\ gate = "none"
  /\ gate' = Kind
  /\ web' = [web EXCEPT !.stage = "lease"]
  /\ UNCHANGED <<time, registry, ledger, queue, worker, ui, control, begun>>

\* Its queue has room for one, and there is none active: the send succeeds.
Lease ==
  /\ web.stage = "lease"
  /\ IF FreeSlots = {}
       THEN /\ gate' = "none" /\ web' = NoRequest
            /\ UNCHANGED <<registry, control, begun>>
       ELSE /\ registry' = Opened("queued")
            /\ control' = [stage |-> "queued", op |-> NewId, action |-> Kind]
            /\ web' = Accepted(NewId)
            /\ Remember(NewId)
            /\ UNCHANGED gate
  /\ UNCHANGED <<time, ledger, queue, worker, ui>>

-----------------------------------------------------------------------------
(* The UI task *)

UiBegin(kind) ==
  /\ ui.stage = "idle" /\ IdsLeft
  /\ FreeSlots # {}
  /\ registry' = Opened("queued")
  /\ ui' = [stage |-> "send", op |-> NewId, kind |-> kind]
  /\ UNCHANGED <<time, ledger, queue, worker, web, gate, control, begun>>

UiSend ==
  /\ ui.stage = "send"
  /\ \/ Len(queue) < Depth /\ queue' = Append(queue, Queued(ui.op, ui.kind))
        /\ UNCHANGED registry
     \/ registry' = Updated(ui.op, "done") /\ UNCHANGED queue
  /\ ui' = NoUi
  /\ UNCHANGED <<time, ledger, worker, web, gate, control, begun>>

-----------------------------------------------------------------------------
(* The backend task *)

Take ==
  /\ worker.stage = "idle" /\ queue # <<>>
  /\ worker' = [stage |-> "taken", task |-> Head(queue)]
  /\ queue' = Tail(queue)
  /\ UNCHANGED <<time, registry, ledger, web, ui, gate, control, begun>>

\* The operation ends, and pending_ counts down.
End(stages) ==
  /\ worker.stage \in stages
  /\ registry' = Updated(worker.task.op, "done")
  /\ worker' = NoWork
  /\ UNCHANGED <<time, ledger, queue, web, ui, gate, control, begun>>

\* Mutant (OperationsEnd): an early return that tells nobody.
RefuseSilently ==
  /\ worker.stage = "taken"
  /\ worker' = NoWork
  /\ UNCHANGED <<time, registry, ledger, queue, web, ui, gate, control, begun>>

\* No writer, no reader, a bad command, or a change that waited too long.
Refuse == End({"taken"})

Waited == Since(Clock, worker.task.at)

Start ==
  /\ worker.stage = "taken"
  /\ worker.task.kind = "change" => Waited <= Expiry
  /\ worker' = [worker EXCEPT !.stage = "running"]
  /\ registry' = Updated(worker.task.op, "running")
  /\ UNCHANGED <<time, ledger, queue, web, ui, gate, control, begun>>

\* restart_pending() is asked before anything is changed, and never again.
Change ==
  /\ worker.stage = "running" /\ worker.task.kind = "change"
  /\ gate = "none"
  /\ worker' = [worker EXCEPT !.stage = "changing"]
  /\ UNCHANGED <<time, registry, ledger, queue, web, ui, gate, control, begun>>

\* It succeeds or fails.
Finish == End({"running", "changing"})

\* auto_weight_update(), between two commands: nobody asked for it.
AutoUpdate ==
  /\ worker.stage = "idle" /\ gate = "none"
  /\ worker' = [worker EXCEPT !.stage = "automatic"]
  /\ UNCHANGED <<time, registry, ledger, queue, web, ui, gate, control, begun>>

AutoEnd ==
  /\ worker.stage = "automatic"
  /\ worker' = NoWork
  /\ UNCHANGED <<time, registry, ledger, queue, web, ui, gate, control, begun>>

-----------------------------------------------------------------------------
(* DeviceControlWorker::run(), and the other owner of the gate *)

ControlTake ==
  /\ control.stage = "queued"
  /\ control' = [control EXCEPT !.stage = "running"]
  /\ registry' = Updated(control.op, "running")
  /\ UNCHANGED <<time, ledger, queue, worker, web, ui, gate, begun>>

\* Mutant (GateOwned): the lease is forgotten.
EraseFailedHeld ==
  /\ control.stage = "running" /\ control.action = "factory_reset"
  /\ registry' = Updated(control.op, "done")
  /\ control' = NoControl
  /\ UNCHANGED <<time, ledger, queue, worker, web, ui, gate, begun>>

\* Nothing has been erased: the station goes on.
EraseFailed ==
  /\ control.stage = "running" /\ control.action = "factory_reset"
  /\ registry' = Updated(control.op, "done")
  /\ control' = NoControl
  /\ gate' = "none"
  /\ UNCHANGED <<time, ledger, queue, worker, web, ui, begun>>

Proceeds ==
  /\ control.stage = "running"
  /\ control' = [control EXCEPT !.stage = "restart"]
  /\ UNCHANGED <<time, registry, ledger, queue, worker, web, ui, gate, begun>>

\* esp_restart(): everything here is in RAM, and millis() starts again.
EspRestart ==
  /\ control.stage = "restart"
  /\ time' = [time EXCEPT !.start = (-time.passed) % Period]
  /\ registry' = Empty /\ ledger' = {} /\ begun' = {}
  /\ queue' = <<>> /\ worker' = NoWork
  /\ web' = NoRequest /\ ui' = NoUi
  /\ gate' = "none" /\ control' = NoControl

OtaTakes ==
  /\ gate = "none" /\ gate' = "ota"
  /\ UNCHANGED <<time, registry, ledger, queue, worker, web, ui, control, begun>>

OtaReleases ==
  /\ gate = "ota" /\ gate' = "none"
  /\ UNCHANGED <<time, registry, ledger, queue, worker, web, ui, control, begun>>

-----------------------------------------------------------------------------
Web == Begin \/ Restartable \/ Send \/ Insert \/ Answer \/ Join \/ Collide \/ Acquire \/ Lease
Serve == Refuse \/ Start \/ Change \/ Finish \/ AutoEnd
Control == ControlTake \/ EraseFailed \/ Proceeds \/ EspRestart

Next ==
  \/ \E k \in Key, d \in Digest : Replay(k, d) \/ Reject(k, d) \/ Proceed(k, d)
  \/ Web \/ Take \/ Serve \/ AutoUpdate \/ Control
  \/ (\E kind \in UiKinds : UiBegin(kind)) \/ UiSend
  \/ OtaTakes \/ OtaReleases \/ Tick

Spec == Init /\ [][Next]_vars

\* Every task goes on with what it has begun; the backend asks its queue in every
\* round of its loop.
FairSpec ==
  Spec /\ WF_vars(Web) /\ SF_vars(Take) /\ WF_vars(Serve) /\ WF_vars(Control) /\ WF_vars(UiSend)

-----------------------------------------------------------------------------
\* A live operation is in exactly one pair of hands, so that somebody will end
\* it, and its record stays until then: slots leak neither when a queue is full
\* nor when a record is reused (operation_registry.cpp:67-97,
\* backend_worker.cpp:109-121).
Hands(op) ==
  {i \in DOMAIN queue : queue[i].op = op}
    \cup {-1 : w \in {w \in {web} : w.stage = "send" /\ w.op = op}}
    \cup {-2 : u \in {u \in {ui} : u.stage = "send" /\ u.op = op}}
    \cup {-3 : b \in {b \in {worker} : b.stage # "idle" /\ b.task.op = op}}
    \cup {-4 : c \in {c \in {control} : c.op = op}}

Carried ==
  \A op \in 1 .. MaxId : Cardinality(Hands(op)) = (IF Live(op) THEN 1 ELSE 0)

\* A request that is repeated while its operation is live, and within the
\* retention, does not begin another one (application_api_context.cpp:1438-1440:
\* "Live work is never evicted, so a duplicate of a running request still
\* replays").
NoSecond ==
  \A a, b \in begun :
    (a.key = b.key /\ a.digest = b.digest /\ a.op < b.op /\ Live(a.op)
       /\ Asks[a.digest] # "catalog")
      => b.made - a.made >= Ttl

\* The operation a client is told is one that was begun for this very request
\* less than the retention ago, also when millis() has wrapped in between
\* (idempotency_ledger.cpp:7-12).
AnswerTrue ==
  web.stage = "answered" =>
    \E b \in begun :
      /\ b.op = web.op /\ b.key = web.key /\ b.digest = web.digest
      /\ web.made - b.made < Ttl

\* What has been started is never refused for want of a place in the ledger:
\* the place made by admit() is still there for insert()
\* (idempotency_ledger.hpp:53-55).
PlaceKept == web.stage = "insert" => Cardinality(Kept(web.now)) < Entries

\* The gate is held for a restart exactly as long as one is under way, so that
\* a failed erasure or a full registry does not leave the station refusing
\* every change (device_control_worker.cpp:44-103, 119-140).
GateOwned ==
  /\ gate \in Restarting <=> control.op # 0 \/ web.stage = "lease"
  /\ control.op # 0 => gate = control.action

\* A restart does not begin while a command is changing a tag or Spoolman, though
\* it was accepted before that command asked whether a restart is pending
\* (application_api_context.cpp:1143-1152, restart_guard.hpp:13).
CommandSpared ==
  [][control.stage = "restart" /\ control'.stage # "restart"
       => worker.stage # "changing"]_vars

\* "Never restart underneath a tag write/clear or a Spoolman update: the backend
\* counter includes the command that is currently executing"
\* (application_api_context.cpp:1147).
NoRestartUnderneath ==
  [][control.stage = "restart" /\ control'.stage # "restart"
       => worker.stage \notin {"changing", "automatic"}]_vars

\* No operation stays live: it ends, or the station restarts
\* (backend_worker.cpp:109-121, 617-631, device_control_worker.cpp:110-153).
OperationsEnd == \A op \in 1 .. MaxId : []<>~Live(op)

\* Every operation, queued, running or refused, is accounted for.
Placed == TypeOK /\ Carried /\ PlaceKept

\* A repeated request is answered with the operation it began, and begins no
\* other (application_api_context.cpp:1438-1440, idempotency_ledger.cpp:7-12).
Idempotent == NoSecond /\ AnswerTrue
=============================================================================
