-------------------------- MODULE OperationsProofs --------------------------
(* Theorems about the lifecycle gate, the operations and the receipts, for *)
(* every number of keys, records, entries and places in the queue.         *)
EXTENDS Operations, FiniteSetTheorems, NaturalsInduction, TLAPS

Asked ==
  [stage : {"fresh", "send", "control", "lease", "insert", "answered"},
   key : Key, digest : Digest, op : Nat, now : Int, made : Int]

\* The parts of the type that the gate depends on.
Typed ==
  /\ registry = [slots |-> registry.slots, next |-> registry.next, last |-> registry.last]
  /\ registry.last \in Nat
  /\ ledger \subseteq [key : Key, digest : Digest, op : Nat, at : Int]
  /\ web \in Asked \cup {NoRequest}
  /\ control \in [stage : {"idle", "queued", "running", "restart"}, op : Nat,
                  action : Restarting]
  /\ time \in [passed : Int, start : Int]

\* The control task is idle exactly when it has no operation.
Active == control.op = 0 <=> control.stage = "idle"

\* The HTTP task goes to the gate with a restart only, and holds it only while
\* there is no other.
Leasing ==
  /\ web.stage \in {"control", "lease"} => Kind \in Restarting
  /\ web.stage = "lease" => control.op = 0 /\ gate = Kind

GateInv == Typed /\ Active /\ Leasing /\ GateOwned

LEMMA KindType == ASSUME NEW d \in Digest PROVE Asks[d] \in Command \cup Restarting
BY KindAssumption

LEMMA ClockType == Typed => Clock \in Int
<1> SUFFICES ASSUME Typed PROVE Clock \in Int
  OBVIOUS
<1>1. Period \in Nat \ {0}
  BY SizeAssumption
<1> QED BY <1>1 DEF Typed, Clock

LEMMA KeptInside == \A now : Kept(now) \subseteq ledger
BY DEF Kept

LEMMA ReservedInside == \A now : \A left \in Reserved(now) : left \subseteq ledger
BY KeptInside DEF Reserved

\* A request that goes on keeps its key, its digest and its time.
LEMMA AcceptedType ==
  ASSUME Typed, web.stage # "idle", NEW op \in Nat
  PROVE  Accepted(op) \in Asked /\ Accepted(op).stage \in {"insert", "answered"}
<1>1. web \in Asked
  BY DEF Typed, NoRequest
<1>2. \A stage \in {"insert", "answered"} :
        [web EXCEPT !.stage = stage, !.op = op] \in Asked
          /\ [web EXCEPT !.stage = stage, !.op = op].stage = stage
  BY <1>1 DEF Asked
<1> QED BY <1>2 DEF Accepted

\* Opening and updating a record.
LEMMA RegistryType ==
  ASSUME Typed
  PROVE  /\ \A state : /\ Opened(state).last = registry.last + 1
                       /\ Opened(state) = [slots |-> Opened(state).slots,
                            next |-> Opened(state).next, last |-> Opened(state).last]
         /\ \A op, state : /\ Updated(op, state).last = registry.last
                           /\ Updated(op, state) = [slots |-> Updated(op, state).slots,
                                next |-> Updated(op, state).next,
                                last |-> Updated(op, state).last]
<1>1. \A state : /\ Opened(state).last = registry.last + 1
               /\ Opened(state) = [slots |-> Opened(state).slots,
                    next |-> Opened(state).next, last |-> Opened(state).last]
  BY DEF Opened, NewId
<1>2. \A slots : LET u == [registry EXCEPT !.slots = slots]
                IN u.last = registry.last
                     /\ u = [slots |-> u.slots, next |-> u.next, last |-> u.last]
  BY DEF Typed
<1> QED BY <1>1, <1>2 DEF Updated

LEMMA GateInit == Init => GateInv
BY SizeAssumption DEF Init, GateInv, Typed, Active, Leasing, GateOwned, Empty, NoRequest,
  NoControl, Time, Restarting

\* Every step keeps the gate with its owner.
LEMMA GateStep == GateInv /\ [Next]_vars => GateInv'
<1> SUFFICES ASSUME GateInv, [Next]_vars PROVE GateInv'
  OBVIOUS
<1> USE DEF GateInv, Typed, Active, Leasing, GateOwned, Asked, Kind, NoRequest, Restarting
<1>1. ASSUME NEW k \in Key, NEW d \in Digest, Replay(k, d) PROVE GateInv'
  <2>1. PICK e \in Kept(Clock) : web' = [Request(k, d) EXCEPT !.stage = "answered", !.op = e.op]
    BY <1>1 DEF Replay
  <2>2. e.op \in Nat /\ Clock \in Int /\ time.passed \in Int
    BY ClockType, KeptInside
  <2>3. web' \in Asked /\ web'.stage = "answered"
    BY <2>1, <2>2 DEF Request
  <2> QED BY <1>1, <2>3, KeptInside DEF Replay
<1>2. ASSUME NEW k \in Key, NEW d \in Digest, Reject(k, d) PROVE GateInv'
  BY <1>2, KeptInside DEF Reject
<1>3. ASSUME NEW k \in Key, NEW d \in Digest, Proceed(k, d) PROVE GateInv'
  BY <1>3, ClockType, KeptInside, ReservedInside DEF Proceed, Request
<1>4. CASE Begin
  <2>1. web \in Asked /\ NewId \in Nat
    BY <1>4 DEF Begin, NewId
  <2>2. web' \in Asked \cup {NoRequest} /\ web'.stage \in {"send", "idle"}
    <3>1. CASE FreeSlots = {}
      BY <1>4, <3>1 DEF Begin
    <3>2. CASE FreeSlots # {}
      <4>1. web' = [web EXCEPT !.stage = "send", !.op = NewId]
        BY <1>4, <3>2 DEF Begin
      <4> QED BY <2>1, <4>1
    <3> QED BY <3>1, <3>2
  <2>3. registry' = [slots |-> registry'.slots, next |-> registry'.next, last |-> registry'.last]
          /\ registry'.last \in Nat
    BY <1>4, RegistryType DEF Begin
  <2> QED BY <1>4, <2>2, <2>3 DEF Begin
<1>5. CASE Restartable
  BY <1>5 DEF Restartable
<1>6. CASE Send
  <2>1. web \in Asked
    BY <1>6 DEF Send
  <2>2. web' \in Asked \cup {NoRequest} /\ web'.stage \in {"insert", "answered", "idle"}
    BY <1>6, <2>1, AcceptedType DEF Send
  <2>3. registry' = [slots |-> registry'.slots, next |-> registry'.next, last |-> registry'.last]
          /\ registry'.last \in Nat
    BY <1>6, RegistryType DEF Send
  <2> QED BY <1>6, <2>2, <2>3 DEF Send
<1>7. CASE Insert
  BY <1>7, KeptInside DEF Insert
<1>8. CASE Answer
  BY <1>8 DEF Answer
<1>9. CASE Join
  BY <1>9, AcceptedType DEF Join
<1>10. CASE Collide
  BY <1>10, RegistryType DEF Collide
<1>11. CASE Acquire
  BY <1>11 DEF Acquire
<1>12. CASE Lease
  BY <1>12, RegistryType, AcceptedType DEF Lease, NewId
<1>13. ASSUME NEW kind \in UiKinds, UiBegin(kind) PROVE GateInv'
  BY <1>13, RegistryType DEF UiBegin
<1>14. CASE UiSend
  BY <1>14, RegistryType DEF UiSend
<1>15. CASE Take
  BY <1>15 DEF Take
<1>16. CASE Refuse \/ Finish
  BY <1>16, RegistryType DEF Refuse, Finish, End
<1>17. CASE Start \/ Change \/ AutoUpdate \/ AutoEnd
  BY <1>17, RegistryType DEF Start, Change, AutoUpdate, AutoEnd
<1>18. CASE ControlTake
  BY <1>18, RegistryType DEF ControlTake
<1>19. CASE EraseFailed
  BY <1>19, RegistryType DEF EraseFailed, NoControl
<1>20. CASE Proceeds
  BY <1>20 DEF Proceeds
<1>21. CASE EspRestart
  <2>1. /\ time' = [time EXCEPT !.start = (-time.passed) % Period]
        /\ registry' = Empty /\ ledger' = {} /\ web' = NoRequest
        /\ gate' = "none" /\ control' = NoControl
    BY <1>21 DEF EspRestart
  <2>2. time' \in [passed : Int, start : Int]
    <3>1. (-time.passed) % Period \in Int
      BY SizeAssumption
    <3> QED BY <2>1, <3>1
  <2>3. registry' = [slots |-> registry'.slots, next |-> registry'.next, last |-> registry'.last]
          /\ registry'.last \in Nat
    BY <2>1 DEF Empty
  <2> QED BY <2>1, <2>2, <2>3 DEF NoControl
<1>22. CASE OtaTakes \/ OtaReleases
  BY <1>22 DEF OtaTakes, OtaReleases
<1>23. CASE Tick
  BY <1>23 DEF Tick
<1>24. CASE UNCHANGED vars
  BY <1>24 DEF vars
<1> QED
  BY <1>1, <1>2, <1>3, <1>4, <1>5, <1>6, <1>7, <1>8, <1>9, <1>10, <1>11, <1>12, <1>13, <1>14,
     <1>15, <1>16, <1>17, <1>18, <1>19, <1>20, <1>21, <1>22, <1>23, <1>24
  DEF Next, Web, Serve, Control

\* The gate is held for a restart exactly as long as one is under way, and by
\* its own action (device_control_worker.cpp:44-103, 119-140).
THEOREM Owned == Spec => []GateOwned
<1>1. GateInv => GateOwned
  BY DEF GateInv
<1> QED BY GateInit, GateStep, <1>1, PTL DEF Spec

-----------------------------------------------------------------------------
(* A restart spares the command that is changing something, as long as     *)
(* changes come from the web.                                              *)

Work == [op : Nat, kind : Command, at : Int]

WorkTyped ==
  /\ queue \in Seq(Work)
  /\ worker \in [stage : {"idle", "taken", "running", "changing", "automatic"}, task : Work]
  /\ ui \in [stage : {"idle", "send"}, op : Nat, kind : Command]
  /\ ui.stage = "send" => ui.kind \in UiKinds
  /\ web.stage = "send" => Kind \in Command

\* No change waits or is under way.
NoChange ==
  /\ \A i \in 1 .. Len(queue) : queue[i].kind # "change"
  /\ worker.stage \in {"taken", "running"} => worker.task.kind # "change"
  /\ worker.stage # "changing"

SparedInv ==
  /\ GateInv /\ WorkTyped
  /\ web.stage \in {"control", "lease"} => NoChange
  /\ gate \in Restarting => worker.stage # "changing"

LEMMA SparedInit == Init => SparedInv
<1> SUFFICES ASSUME Init PROVE SparedInv
  OBVIOUS
<1>1. GateInv
  BY GateInit
<1> QED BY <1>1 DEF Init, SparedInv, WorkTyped, Work, NoWork, NoUi, NoRequest, Command, Restarting

\* What is appended to the queue is work.
LEMMA QueuedType ==
  ASSUME Typed, NEW op \in Nat, NEW kind \in Command
  PROVE  Queued(op, kind) \in Work /\ Queued(op, kind).kind = kind
BY ClockType DEF Queued, Work

LEMMA NoWorkType == NoWork.stage = "idle" /\ NoWork.task \in Work
BY SizeAssumption DEF NoWork, Work, Command

\* A command that is queued keeps the queue one of commands, without changes if
\* it is no change itself.
LEMMA Appended ==
  ASSUME queue \in Seq(Work), NEW task \in Work
  PROVE  /\ Append(queue, task) \in Seq(Work)
         /\ (NoChange /\ task.kind # "change") =>
              \A i \in 1 .. Len(Append(queue, task)) : Append(queue, task)[i].kind # "change"
<1>1. Append(queue, task) \in Seq(Work) /\ Len(Append(queue, task)) = Len(queue) + 1
  OBVIOUS
<1>2. \A i \in 1 .. Len(queue) + 1 :
        Append(queue, task)[i] = IF i = Len(queue) + 1 THEN task ELSE queue[i]
  OBVIOUS
<1> QED BY <1>1, <1>2 DEF NoChange

LEMMA Taken ==
  ASSUME queue \in Seq(Work), queue # <<>>
  PROVE  /\ Head(queue) \in Work /\ Tail(queue) \in Seq(Work)
         /\ NoChange => /\ Head(queue).kind # "change"
                    /\ \A i \in 1 .. Len(Tail(queue)) : Tail(queue)[i].kind # "change"
BY DEF NoChange

\* Every step leaves it so that a restart finds no change under way.
LEMMA SparedStep ==
  ASSUME "change" \notin UiKinds, SparedInv, [Next]_vars
  PROVE  SparedInv'
<1>1. GateInv'
  BY GateStep DEF SparedInv
<1> DEFINE Rest == /\ WorkTyped
                   /\ web.stage \in {"control", "lease"} => NoChange
                   /\ gate \in Restarting => worker.stage # "changing"
<1>2. Rest /\ GateInv
  BY DEF SparedInv
<1> SUFFICES Rest'
  BY <1>1 DEF SparedInv
<1>3. web \in Asked \cup {NoRequest}
  BY <1>2 DEF GateInv, Typed
<1>4. ASSUME UNCHANGED <<queue, worker, ui, gate>>,
             web'.stage \notin {"send", "control", "lease"} \/ web' = web
      PROVE  Rest'
  BY <1>2, <1>4 DEF WorkTyped, NoChange, Kind
<1>5. ASSUME NEW k \in Key, NEW d \in Digest, Replay(k, d) \/ Reject(k, d) \/ Proceed(k, d)
      PROVE  Rest'
  <2>1. web' = web \/ web'.stage \in {"answered", "fresh"}
    <3>1. CASE Replay(k, d)
      <4>1. PICK e \in Kept(Clock) :
              web' = [Request(k, d) EXCEPT !.stage = "answered", !.op = e.op]
        BY <3>1 DEF Replay
      <4> QED BY <4>1 DEF Request
    <3>2. CASE Reject(k, d)
      BY <3>2 DEF Reject
    <3>3. CASE Proceed(k, d)
      BY <3>3 DEF Proceed, Request
    <3> QED BY <1>5, <3>1, <3>2, <3>3
  <2>2. UNCHANGED <<queue, worker, ui, gate>>
    BY <1>5 DEF Replay, Reject, Proceed
  <2> QED BY <1>4, <2>1, <2>2
<1>6. CASE Begin
  <2>1. web \in Asked /\ Kind \in Command
    BY <1>3, <1>6 DEF Begin, NoRequest
  <2>2. CASE FreeSlots = {}
    BY <1>4, <1>6, <2>2 DEF Begin, NoRequest
  <2>3. CASE FreeSlots # {}
    <3>1. web' = [web EXCEPT !.stage = "send", !.op = NewId]
      BY <1>6, <2>3 DEF Begin
    <3>2. web'.stage = "send" /\ web'.digest = web.digest
      BY <2>1, <3>1 DEF Asked
    <3> QED BY <1>2, <1>6, <2>1, <3>2 DEF Begin, WorkTyped, Kind
  <2> QED BY <2>2, <2>3
<1>7. CASE Restartable
  <2>1. web \in Asked
    BY <1>3, <1>7 DEF Restartable, NoRequest
  <2>2. CASE Pending = 0
    <3>1. Len(queue) = 0 /\ worker.stage \in {"idle", "automatic"}
      BY <1>2, <2>2 DEF Pending, WorkTyped
    <3>2. web'.stage = "control"
      BY <1>7, <2>1, <2>2 DEF Restartable, Asked
    <3> QED BY <1>2, <1>7, <3>1, <3>2 DEF Restartable, WorkTyped, NoChange
  <2>3. CASE Pending # 0
    BY <1>4, <1>7, <2>3 DEF Restartable, NoRequest
  <2> QED BY <2>2, <2>3
<1>8. CASE Send
  <2>1. web \in Asked /\ Kind \in Command
    BY <1>2, <1>3, <1>8 DEF Send, NoRequest, WorkTyped
  <2>2. web.op \in Nat
    BY <2>1 DEF Asked
  <2>3. web'.stage \in {"insert", "answered", "idle"}
    BY <1>2, <1>8, <2>2, AcceptedType DEF Send, GateInv, NoRequest
  <2>4. queue' \in Seq(Work)
    BY <1>2, <1>8, <2>1, <2>2, QueuedType, Appended DEF Send, GateInv, WorkTyped
  <2> QED BY <1>2, <1>8, <2>3, <2>4 DEF Send, WorkTyped
<1>9. CASE Insert \/ Answer
  <2>1. web \in Asked
    BY <1>3, <1>9 DEF Insert, Answer, NoRequest
  <2>2. web'.stage \in {"answered", "idle"}
    BY <1>9, <2>1 DEF Insert, Answer, NoRequest, Asked
  <2> QED BY <1>4, <1>9, <2>2 DEF Insert, Answer
<1>10. CASE Join \/ Collide
  <2>1. web'.stage \in {"insert", "answered", "idle"}
    BY <1>2, <1>10, AcceptedType DEF Join, Collide, NoRequest, GateInv, Typed
  <2> QED BY <1>4, <1>10, <2>1 DEF Join, Collide
<1>11. CASE Acquire
  <2>1. web \in Asked /\ NoChange
    BY <1>2, <1>3, <1>11 DEF Acquire, NoRequest
  <2>2. web'.stage = "lease"
    BY <1>11, <2>1 DEF Acquire, Asked
  <2> QED BY <1>2, <1>11, <2>1, <2>2 DEF Acquire, WorkTyped, NoChange
<1>12. CASE Lease
  <2>1. NoChange /\ NewId \in Nat
    BY <1>2, <1>12 DEF Lease, GateInv, Typed, NewId
  <2>2. web'.stage \in {"insert", "answered", "idle"}
    BY <1>2, <1>12, <2>1, AcceptedType DEF Lease, GateInv, NoRequest
  <2>3. UNCHANGED <<queue, worker, ui>>
    BY <1>12 DEF Lease
  <2> QED BY <1>2, <2>1, <2>2, <2>3 DEF WorkTyped, NoChange
<1>13. ASSUME NEW kind \in UiKinds, UiBegin(kind) PROVE Rest'
  <2>1. kind \in Command /\ NewId \in Nat
    BY <1>2, KindAssumption DEF GateInv, Typed, NewId
  <2> QED BY <1>2, <1>13, <2>1 DEF UiBegin, WorkTyped, NoChange, Kind
<1>14. CASE UiSend
  <2>1. ui.op \in Nat /\ ui.kind \in Command /\ ui.kind # "change"
    BY <1>2, <1>14 DEF UiSend, WorkTyped
  <2>2. Queued(ui.op, ui.kind) \in Work /\ Queued(ui.op, ui.kind).kind # "change"
    BY <1>2, <2>1, QueuedType DEF GateInv
  <2>3. /\ queue' \in Seq(Work)
        /\ NoChange => \A i \in 1 .. Len(queue') : queue'[i].kind # "change"
    BY <1>2, <1>14, <2>2, Appended DEF UiSend, WorkTyped, NoChange
  <2>4. ui' = NoUi /\ UNCHANGED <<worker, web, gate>>
    BY <1>14 DEF UiSend
  <2> QED BY <1>2, <2>3, <2>4 DEF WorkTyped, NoChange, NoUi, Kind, Command
<1>15. CASE Take
  <2>1. queue' \in Seq(Work) /\ worker'.task \in Work
    BY <1>2, <1>15, Taken DEF Take, WorkTyped
  <2>2. NoChange => NoChange'
    BY <1>2, <1>15, Taken DEF Take, WorkTyped, NoChange
  <2> QED BY <1>2, <1>15, <2>1, <2>2 DEF Take, WorkTyped, Kind
<1>16. CASE Refuse \/ Finish \/ AutoEnd
  <2>1. worker' = NoWork /\ UNCHANGED <<queue, web, ui, gate>>
    BY <1>16 DEF Refuse, Finish, End, AutoEnd
  <2> QED BY <1>2, <2>1, NoWorkType DEF WorkTyped, NoChange, Kind, NoWork
<1>17. CASE Start
  BY <1>2, <1>17 DEF Start, WorkTyped, NoChange, Kind
<1>18. CASE Change \/ AutoUpdate
  BY <1>2, <1>18 DEF Change, AutoUpdate, WorkTyped, NoChange, Kind, Restarting
<1>19. CASE ControlTake \/ Proceeds \/ Tick \/ UNCHANGED vars
  BY <1>4, <1>19 DEF ControlTake, Proceeds, Tick, vars
<1>20. CASE EraseFailed \/ OtaTakes \/ OtaReleases
  BY <1>2, <1>20 DEF EraseFailed, OtaTakes, OtaReleases, WorkTyped, NoChange, Kind, Restarting
<1>21. CASE EspRestart
  <2>1. /\ queue' = <<>> /\ worker' = NoWork /\ web' = NoRequest
        /\ ui' = NoUi /\ gate' = "none"
    BY <1>21 DEF EspRestart
  <2> QED BY <2>1, NoWorkType DEF WorkTyped, NoUi, NoWork, NoRequest, Command, Restarting
<1> QED
  BY <1>5, <1>6, <1>7, <1>8, <1>9, <1>10, <1>11, <1>12, <1>13, <1>14, <1>15, <1>16, <1>17,
     <1>18, <1>19, <1>20, <1>21
  DEF Next, Web, Serve, Control

\* If changes come from the web only, no restart begins while a command is
\* changing a tag or Spoolman: a look at pending() before the gate is taken and
\* a look at the gate before a change is made are enough
\* (application_api_context.cpp:1143-1152, restart_guard.hpp:13).
THEOREM Spared == ASSUME "change" \notin UiKinds PROVE Spec => CommandSpared
<1>1. SparedInv /\ [Next]_vars => SparedInv'
  BY SparedStep
<1>2. SparedInv /\ [Next]_vars =>
        [control.stage = "restart" /\ control'.stage # "restart"
           => worker.stage # "changing"]_vars
  BY DEF SparedInv, GateInv, Typed, Active, GateOwned
<1> QED BY SparedInit, <1>1, <1>2, PTL DEF Spec, CommandSpared

-----------------------------------------------------------------------------
(* Arithmetic: a least offset, and two readings of the clock.              *)

LEMMA Least == ASSUME NEW T \in SUBSET Nat, T # {} PROVE \E x \in T : \A y \in T : x <= y
<1> DEFINE R == {ss \in Nat \X Nat : ss[1] < ss[2]}
<1>1. IsWellFoundedOn(R, Nat)
  BY NatLessThanWellFounded, Zenon DEF OpToRel
<1> HIDE DEF R
<1>2. PICK x \in T : \A y \in T : ~ (<<y, x>> \in R)
  BY <1>1, WFMin
<1>3. \A y \in T : ~ (y < x)
  BY <1>2 DEF R
<1> QED BY <1>3

LEMMA Quotient ==
  ASSUME NEW P \in Nat \ {0}, NEW x \in Int
  PROVE  \E A \in Int, q \in Int : A = P * q /\ x % P = x - A
<1> x \div P \in Int /\ x = P * (x \div P) + (x % P) /\ x % P \in Int /\ P * (x \div P) \in Int
  OBVIOUS
<1> QED OBVIOUS

\* Less than a period apart, two readings tell how far.
LEMMA Distance ==
  ASSUME NEW P \in Nat \ {0}, NEW x \in Int, NEW y \in Int, x <= y, y - x < P
  PROVE  ((y % P) - (x % P)) % P = y - x
<1>1. PICK A \in Int, q \in Int : A = P * q /\ y % P = y - A
  BY Quotient
<1>2. PICK B \in Int, r \in Int : B = P * r /\ x % P = x - B
  BY Quotient
<1>3. (y % P) - (x % P) = (B - A) + (y - x)
  BY <1>1, <1>2
<1>4. B - A = P * (r - q)
  BY <1>1, <1>2
<1>5. \A i \in Int, j \in 0 .. P - 1 : ((P * i) + j) % P = j
  OBVIOUS
<1>6. y - x \in 0 .. P - 1 /\ r - q \in Int
  OBVIOUS
<1>7. ((P * (r - q)) + (y - x)) % P = y - x
  BY <1>5, <1>6
<1> QED BY <1>3, <1>4, <1>7

-----------------------------------------------------------------------------
(* The type invariant, and room for the request under way.                 *)

Requested ==
  [stage : {"fresh", "send", "control", "lease", "insert", "answered"},
   key : Key, digest : Digest, op : Id, now : Time, made : 0 .. MaxTime]

UnderWay == web.stage \in {"fresh", "send", "control", "lease", "insert"}

\* A place is left for the request under way.
LedgerOK ==
  /\ ledger \subseteq Entry /\ Cardinality(ledger) <= Entries /\ IsFiniteSet(ledger)
  /\ UnderWay /\ Retained => Cardinality(ledger) < Entries
\* An id is left for the request under way.
RegistryOK ==
  /\ registry \in [slots : [0 .. Slots - 1 -> Record], next : 0 .. Slots - 1, last : Id]
  /\ \A i \in 0 .. Slots - 1 : registry.slots[i].id <= registry.last
  /\ registry.last + (IF web.stage \in {"fresh", "control", "lease"} THEN 1 ELSE 0) <= MaxId
WebOK ==
  /\ web \in Requested \cup {NoRequest}
  /\ web.stage = "send" => Kind \in Command
  /\ web.stage = "insert" => Retained
QueueOK == queue \in Seq(Task) /\ Len(queue) <= Depth
WorkerOK ==
  /\ worker \in [stage : {"idle", "taken", "running", "changing", "automatic"}, task : Task]
  /\ worker.stage \in {"idle", "automatic"} => worker.task.op = 0
UiOK == ui \in [stage : {"idle", "send"}, op : Id, kind : Command]
GateOK ==
  /\ gate \in Restarting \cup {"none", "ota"}
  /\ control \in [stage : {"idle", "queued", "running", "restart"}, op : Id,
                  action : Restarting]
TimeOK == time \in [passed : 0 .. MaxTime, start : Time]

Stable == TimeOK /\ RegistryOK /\ LedgerOK /\ WebOK /\ QueueOK /\ WorkerOK /\ UiOK /\ GateOK

LEMMA Modulo == ASSUME NEW P \in Nat \ {0}, NEW x \in Int PROVE x % P \in 0 .. P - 1
OBVIOUS

LEMMA PeriodType ==
  /\ Period \in Nat \ {0} /\ MaxTime \in Nat /\ MaxTime < Period /\ MaxId \in Nat
  /\ Time = 0 .. Period - 1 /\ Id = 0 .. MaxId
BY SizeAssumption, BoundAssumption DEF Time, Id

LEMMA ClockInTime == Stable => Clock \in Time
<1> SUFFICES ASSUME Stable PROVE Clock \in Time
  OBVIOUS
<1>1. time.start \in Time /\ time.passed \in 0 .. MaxTime
  BY DEF Stable, TimeOK
<1>2. time.start \in Nat /\ time.passed \in Nat
  BY <1>1, PeriodType
<1>3. time.start + time.passed \in Int
  BY <1>2
<1> QED BY <1>3, PeriodType, Modulo DEF Clock, Time

LEMMA SelectedFree == ASSUME Stable, FreeSlots # {} PROVE Selected \in FreeSlots
<1> DEFINE T == {Offset(i) : i \in FreeSlots}
<1>1. FreeSlots \subseteq 0 .. Slots - 1 /\ registry.next \in Int /\ Slots \in Nat \ {0}
  BY SizeAssumption DEF Stable, RegistryOK, FreeSlots
<1>2. T \in SUBSET Nat
  <2>1. \A i \in FreeSlots : i - registry.next \in Int
    BY <1>1
  <2>2. \A x \in Int : x % Slots \in Nat
    BY <1>1, Modulo
  <2> QED BY <2>1, <2>2 DEF Offset
<1>3. PICK x \in T : \A y \in T : x <= y
  BY <1>2, Least
<1>4. \E i \in FreeSlots : \A j \in FreeSlots : Offset(i) <= Offset(j)
  BY <1>3
<1> QED BY <1>4 DEF Selected

LEMMA IdsBounded ==
  ASSUME Stable, NEW i \in 0 .. Slots - 1
  PROVE  registry.slots[i].id \in Nat /\ registry.slots[i].id <= registry.last
<1>1. registry.slots[i] \in Record /\ registry.slots[i].id <= registry.last
  BY DEF Stable, RegistryOK
<1> QED BY <1>1, PeriodType DEF Record

\* A record that is opened is the live one of the new operation.
LEMMA OpenedIs ==
  ASSUME Stable, FreeSlots # {}, NewId \in Id,
         NEW state \in {"queued", "running", "done"}, registry' = Opened(state)
  PROVE  /\ registry' \in [slots : [0 .. Slots - 1 -> Record], next : 0 .. Slots - 1, last : Id]
         /\ registry'.last = NewId
         /\ \A i \in 0 .. Slots - 1 : registry'.slots[i].id <= registry'.last
         /\ \A op : Live(op)' <=> Live(op) \/ (op = NewId /\ state # "done")
         /\ ~Live(NewId)
<1>1. Selected \in FreeSlots
  BY SelectedFree
<1>2. Selected \in 0 .. Slots - 1 /\ registry.slots[Selected].state = "done"
  BY <1>1 DEF FreeSlots, Stable, RegistryOK
<1>3. (Selected + 1) % Slots \in 0 .. Slots - 1
  BY <1>2, Modulo, SizeAssumption
<1>4. registry.slots \in [0 .. Slots - 1 -> Record] /\ registry.last \in Nat
  BY PeriodType DEF Stable, RegistryOK
<1>5. registry'.slots = [registry.slots EXCEPT ![Selected] = [id |-> NewId, state |-> state]]
  BY DEF Opened
<1>6. [id |-> NewId, state |-> state] \in Record /\ registry'.slots \in [0 .. Slots - 1 -> Record]
  <2>1. [id |-> NewId, state |-> state] \in Record
    BY DEF Record
  <2> QED BY <1>4, <1>5, <2>1
<1>7. \A i \in 0 .. Slots - 1 : registry'.slots[i] =
        IF i = Selected THEN [id |-> NewId, state |-> state] ELSE registry.slots[i]
  BY <1>4, <1>5
<1>8. \A i \in 0 .. Slots - 1 : registry'.slots[i].id <= registry'.last
  <2>1. registry'.last = registry.last + 1 /\ NewId = registry.last + 1
    BY DEF Opened, NewId
  <2>2. \A i \in 0 .. Slots - 1 : registry.slots[i].id \in Nat /\ registry.slots[i].id <= registry.last
    BY IdsBounded
  <2> QED BY <1>4, <1>7, <2>1, <2>2
<1>9. \A op : Live(op)' <=> Live(op) \/ (op = NewId /\ state # "done")
  <2>1. DOMAIN registry.slots = 0 .. Slots - 1 /\ DOMAIN registry'.slots = 0 .. Slots - 1
    BY <1>4, <1>6
  <2> QED BY <1>2, <1>7, <2>1 DEF Live
<1>10. ~Live(NewId)
  <2>1. \A i \in 0 .. Slots - 1 : registry.slots[i].id \in Nat /\ registry.slots[i].id <= registry.last
    BY IdsBounded
  <2>2. DOMAIN registry.slots = 0 .. Slots - 1
    BY <1>4
  <2> QED BY <1>4, <2>1, <2>2 DEF Live, NewId
<1> QED BY <1>3, <1>6, <1>8, <1>9, <1>10 DEF Opened

LEMMA UpdatedIs ==
  ASSUME Stable, NEW o, NEW state \in {"running", "done"}, registry' = Updated(o, state)
  PROVE  /\ registry' \in [slots : [0 .. Slots - 1 -> Record], next : 0 .. Slots - 1, last : Id]
         /\ registry'.last = registry.last
         /\ \A i \in 0 .. Slots - 1 : registry'.slots[i].id = registry.slots[i].id
         /\ \A op : Live(op)' <=> Live(op) /\ ~(op = o /\ state = "done")
<1>1. registry \in [slots : [0 .. Slots - 1 -> Record], next : 0 .. Slots - 1, last : Id]
  BY DEF Stable, RegistryOK
<1>2. registry'.slots = [i \in 0 .. Slots - 1 |->
        IF registry.slots[i].id = o /\ registry.slots[i].state # "done"
          THEN [registry.slots[i] EXCEPT !.state = state] ELSE registry.slots[i]]
  BY <1>1 DEF Updated
<1>3. registry'.next = registry.next /\ registry'.last = registry.last
        /\ registry' = [slots |-> registry'.slots, next |-> registry'.next, last |-> registry'.last]
  BY <1>1 DEF Updated
<1>4. \A i \in 0 .. Slots - 1 :
        /\ registry.slots[i] \in Record
        /\ registry'.slots[i] \in Record
        /\ registry'.slots[i].id = registry.slots[i].id
        /\ registry'.slots[i].state = IF registry.slots[i].id = o /\ registry.slots[i].state # "done"
                                        THEN state ELSE registry.slots[i].state
  BY <1>1, <1>2 DEF Record
<1>5. registry'.slots \in [0 .. Slots - 1 -> Record]
  BY <1>2, <1>4
<1>6. DOMAIN registry.slots = 0 .. Slots - 1 /\ DOMAIN registry'.slots = 0 .. Slots - 1
  BY <1>1, <1>5
<1>7. \A op : Live(op)' <=> Live(op) /\ ~(op = o /\ state = "done")
  BY <1>4, <1>6 DEF Live
<1> QED BY <1>1, <1>3, <1>4, <1>5, <1>7


LEMMA StableTyped == Stable => TypeOK
BY PeriodType DEF Stable, TypeOK, TimeOK, RegistryOK, LedgerOK, WebOK, QueueOK, WorkerOK, UiOK,
  GateOK, Requested, NoRequest

LEMMA EmptyOK ==
  /\ Empty \in [slots : [0 .. Slots - 1 -> Record], next : 0 .. Slots - 1, last : Id]
  /\ Empty.last = 0
  /\ \A i \in 0 .. Slots - 1 : Empty.slots[i].id = 0 /\ Empty.slots[i].state = "done"
BY PeriodType, SizeAssumption DEF Empty, Record

LEMMA StableInit == Init => Stable
<1> SUFFICES ASSUME Init PROVE Stable
  OBVIOUS
<1>1. TimeOK
  BY PeriodType DEF Init, TimeOK
<1>2. RegistryOK
  BY PeriodType, EmptyOK DEF Init, RegistryOK, NoRequest
<1>3. LedgerOK
  BY SizeAssumption, FS_EmptySet DEF Init, LedgerOK
<1>4. QueueOK
  BY SizeAssumption DEF Init, QueueOK
<1>5. WorkerOK
  BY PeriodType DEF Init, WorkerOK, NoWork, Task, Command
<1>6. WebOK
  BY DEF Init, NoRequest, WebOK
<1>7. UiOK
  BY PeriodType DEF Init, UiOK, NoUi, Command
<1>8. GateOK
  BY PeriodType DEF Init, GateOK, NoControl, Restarting
<1> QED BY <1>1, <1>2, <1>3, <1>4, <1>5, <1>6, <1>7, <1>8 DEF Stable

\* What insert() and reserve_capacity() leave.
LEMMA KeptIs ==
  ASSUME Stable, NEW now
  PROVE  /\ Kept(now) \subseteq ledger /\ IsFiniteSet(Kept(now))
         /\ Cardinality(Kept(now)) \in Nat /\ Cardinality(Kept(now)) <= Cardinality(ledger)
<1>1. Kept(now) \subseteq ledger /\ IsFiniteSet(ledger)
  BY DEF Kept, Stable, LedgerOK
<1> QED BY <1>1, FS_Subset, FS_CardinalityType

LEMMA ReservedIs ==
  ASSUME Stable, NEW now, NEW left \in Reserved(now)
  PROVE  /\ left \subseteq Kept(now) /\ IsFiniteSet(left)
         /\ Cardinality(left) \in Nat /\ Cardinality(left) < Entries
         /\ \A e \in Kept(now) \ left : Finished(e)
<1>1. Kept(now) \subseteq ledger /\ IsFiniteSet(Kept(now)) /\ Cardinality(Kept(now)) \in Nat
        /\ Cardinality(Kept(now)) <= Entries
  <2>1. Cardinality(ledger) \in Nat /\ Cardinality(ledger) <= Entries
    BY FS_CardinalityType DEF Stable, LedgerOK
  <2> QED BY <2>1, KeptIs, SizeAssumption
<1>2. CASE Cardinality(Kept(now)) < Entries
  BY <1>1, <1>2 DEF Reserved
<1>3. CASE ~(Cardinality(Kept(now)) < Entries)
  <2>1. PICK e \in Kept(now) : left = Kept(now) \ {e} /\ Finished(e)
    BY <1>3 DEF Reserved
  <2>2. IsFiniteSet(left) /\ Cardinality(left) = Cardinality(Kept(now)) - 1
    BY <1>1, <2>1, FS_RemoveElement
  <2>3. Cardinality(left) \in Nat
    BY <2>2, FS_CardinalityType
  <2> QED BY <1>1, <2>1, <2>2, <2>3, SizeAssumption
<1> QED BY <1>2, <1>3


LEMMA RequestIs ==
  ASSUME Stable, NEW k \in Key, NEW d \in Digest
  PROVE  Request(k, d) \in Requested /\ Request(k, d).stage = "fresh"
BY ClockInTime, PeriodType DEF Request, Requested, Stable, TimeOK

\* A request that goes on keeps its key, its digest and its times.
LEMMA GoesOn ==
  ASSUME web \in Requested, NEW op \in Id,
         NEW stage \in {"send", "control", "lease", "insert", "answered"}
  PROVE  LET w == [web EXCEPT !.stage = stage, !.op = op]
         IN  /\ w \in Requested /\ w.stage = stage /\ w.op = op
             /\ w.key = web.key /\ w.digest = web.digest /\ w.now = web.now /\ w.made = web.made
BY DEF Requested

LEMMA AcceptedIs ==
  ASSUME web \in Requested, NEW op \in Id
  PROVE  /\ Accepted(op) \in Requested
         /\ Accepted(op).stage = IF Retained THEN "insert" ELSE "answered"
         /\ Accepted(op).op = op /\ Accepted(op).key = web.key /\ Accepted(op).digest = web.digest
         /\ Accepted(op).now = web.now /\ Accepted(op).made = web.made
<1>1. CASE Retained
  <2>1. Accepted(op) = [web EXCEPT !.stage = "insert", !.op = op]
    BY <1>1 DEF Accepted
  <2> QED BY <1>1, <2>1 DEF Requested
<1>2. CASE ~Retained
  <2>1. Accepted(op) = [web EXCEPT !.stage = "answered", !.op = op]
    BY <1>2 DEF Accepted
  <2> QED BY <1>2, <2>1 DEF Requested
<1> QED BY <1>1, <1>2

LEMMA NoRequestIs == NoRequest.stage = "idle" /\ NoRequest.op = 0
BY DEF NoRequest

LEMMA QueuedIs ==
  ASSUME Stable, NEW op \in Id, NEW kind \in Command
  PROVE  Queued(op, kind) \in Task /\ Queued(op, kind).op = op
BY ClockInTime DEF Queued, Task

LEMMA NoWorkIs == NoWork.stage = "idle" /\ NoWork.task \in Task /\ NoWork.task.op = 0
BY PeriodType DEF NoWork, Task, Command

\* What a step leaves alone keeps its type.
LEMMA Left ==
  /\ TimeOK /\ UNCHANGED time => TimeOK'
  /\ RegistryOK /\ UNCHANGED registry /\ web'.stage \notin {"fresh", "control", "lease"} => RegistryOK'
  /\ RegistryOK /\ UNCHANGED registry /\ web.stage \in {"fresh", "control", "lease"} => RegistryOK'
  /\ LedgerOK /\ UNCHANGED <<ledger, web>> => LedgerOK'
  /\ WebOK /\ UNCHANGED web => WebOK'
  /\ QueueOK /\ UNCHANGED queue => QueueOK'
  /\ WorkerOK /\ UNCHANGED worker => WorkerOK'
  /\ UiOK /\ UNCHANGED ui => UiOK'
  /\ GateOK /\ UNCHANGED <<gate, control>> => GateOK'
BY PeriodType DEF TimeOK, RegistryOK, LedgerOK, WebOK, QueueOK, WorkerOK, UiOK, GateOK, UnderWay,
  Retained, Kind

\* Ids, the places in the ledger and the queue suffice, and everything keeps its type.
LEMMA StableStep == GateInv /\ Stable /\ [Next]_vars => Stable'
<1> SUFFICES ASSUME GateInv, Stable, [Next]_vars PROVE Stable'
  OBVIOUS
<1>0. TimeOK /\ RegistryOK /\ LedgerOK /\ WebOK /\ QueueOK /\ WorkerOK /\ UiOK /\ GateOK
  BY DEF Stable
<1> USE <1>0
<1>1. ASSUME NEW k \in Key, NEW d \in Digest, Replay(k, d) PROVE Stable'
  <2>1. PICK e \in Kept(Clock) : web' = [Request(k, d) EXCEPT !.stage = "answered", !.op = e.op]
    BY <1>1 DEF Replay
  <2>2. e \in Entry
    BY KeptIs, <2>1 DEF LedgerOK
  <2>3. web' \in Requested /\ web'.stage = "answered"
    <3>1. Request(k, d) \in Requested /\ e.op \in Id
      BY <2>2, RequestIs DEF Entry
    <3> QED BY <2>1, <3>1 DEF Requested
  <2>4. ledger' = Kept(Clock) /\ UNCHANGED <<time, registry, queue, worker, ui, gate, control>>
    BY <1>1 DEF Replay
  <2>5. LedgerOK'
    BY <2>3, <2>4, KeptIs, FS_CardinalityType, SizeAssumption DEF LedgerOK, UnderWay
  <2>6. RegistryOK'
    BY <2>3, <2>4, PeriodType DEF RegistryOK
  <2>7. WebOK'
    BY <2>3 DEF WebOK
  <2> QED BY <2>4, <2>5, <2>6, <2>7, Left DEF Stable
<1>2. ASSUME NEW k \in Key, NEW d \in Digest, Reject(k, d) PROVE Stable'
  <2>1. ledger' = Kept(Clock) /\ UNCHANGED <<time, registry, queue, worker, web, ui, gate, control>>
    BY <1>2 DEF Reject
  <2>2. LedgerOK'
    BY <1>2, <2>1, KeptIs, FS_CardinalityType, SizeAssumption DEF Reject, LedgerOK, UnderWay
  <2>3. RegistryOK'
    BY <2>1 DEF RegistryOK
  <2> QED BY <2>1, <2>2, <2>3, Left DEF Stable
<1>3. ASSUME NEW k \in Key, NEW d \in Digest, Proceed(k, d) PROVE Stable'
  <2>1. web' = Request(k, d) /\ UNCHANGED <<time, registry, queue, worker, ui, gate, control>>
    BY <1>3 DEF Proceed
  <2>2. web' \in Requested /\ web'.stage = "fresh" /\ web'.digest = d
    BY <2>1, RequestIs DEF Request
  <2>3. LedgerOK'
    <3>1. CASE Asks[d] = "catalog"
      <4>1. ledger' = Kept(Clock)
        BY <1>3, <3>1 DEF Proceed
      <4> QED BY <2>2, <3>1, <4>1, KeptIs, FS_CardinalityType, SizeAssumption
              DEF LedgerOK, UnderWay, Retained
    <3>2. CASE Asks[d] # "catalog"
      <4>1. ledger' \in Reserved(Clock)
        BY <1>3, <3>2 DEF Proceed
      <4>2. ledger' \subseteq ledger /\ IsFiniteSet(ledger') /\ Cardinality(ledger') < Entries
              /\ Cardinality(ledger') \in Nat
        BY <4>1, ReservedIs, KeptIs
      <4> QED BY <4>2, SizeAssumption DEF LedgerOK
    <3> QED BY <3>1, <3>2
  <2>4. RegistryOK'
    BY <1>3, <2>1, <2>2, PeriodType DEF Proceed, IdsLeft, RegistryOK
  <2>5. WebOK'
    BY <2>2 DEF WebOK
  <2> QED BY <2>1, <2>3, <2>4, <2>5, Left DEF Stable
<1>4. CASE Begin
  <2>1. web \in Requested /\ UNCHANGED <<time, ledger, queue, worker, ui, gate, control>>
    BY <1>4 DEF Begin, WebOK, NoRequest
  <2>2. CASE FreeSlots = {}
    <3>1. web' = NoRequest /\ UNCHANGED registry
      BY <1>4, <2>2 DEF Begin
    <3>2. LedgerOK'
      BY <2>1, <3>1, NoRequestIs DEF LedgerOK, UnderWay
    <3>3. WebOK'
      BY <3>1, NoRequestIs DEF WebOK
    <3> QED BY <2>1, <3>1, <3>2, <3>3, NoRequestIs, Left DEF Stable
  <2>3. CASE FreeSlots # {}
    <3>1. registry' = Opened("queued") /\ web' = [web EXCEPT !.stage = "send", !.op = NewId]
      BY <1>4, <2>3 DEF Begin
    <3>2. NewId \in Id
      BY <1>4, PeriodType DEF Begin, RegistryOK, NewId
    <3>3. web' \in Requested /\ web'.stage = "send" /\ web'.digest = web.digest
      BY <2>1, <3>1, <3>2, GoesOn
    <3>4. LedgerOK'
      BY <1>4, <2>1, <3>3 DEF Begin, LedgerOK, UnderWay, Retained
    <3>5. WebOK'
      BY <1>4, <3>3 DEF Begin, WebOK, Kind
    <3>6. RegistryOK'
      BY <2>3, <3>1, <3>2, <3>3, OpenedIs, PeriodType DEF RegistryOK
    <3> QED BY <2>1, <3>4, <3>5, <3>6, Left DEF Stable
  <2> QED BY <2>2, <2>3
<1>5. CASE Restartable \/ Acquire
  <2>1. web \in Requested /\ UNCHANGED <<time, registry, ledger, queue, worker, ui, control>>
    BY <1>5 DEF Restartable, Acquire, WebOK, NoRequest
  <2>2. /\ web' = NoRequest \/ web' = [web EXCEPT !.stage = "control"] \/ web' = [web EXCEPT !.stage = "lease"]
        /\ web.stage \in {"fresh", "control"}
    BY <1>5 DEF Restartable, Acquire
  <2>3. web' = NoRequest \/ (/\ web' \in Requested /\ web'.digest = web.digest
                             /\ web'.stage \in {"control", "lease"})
    BY <2>1, <2>2 DEF Requested
  <2>4. LedgerOK'
    BY <2>1, <2>2, <2>3, NoRequestIs DEF LedgerOK, UnderWay, Retained
  <2>5. WebOK'
    BY <2>3, NoRequestIs DEF WebOK
  <2>6. GateOK'
    BY <1>5, <2>1 DEF Restartable, Acquire, GateOK, GateInv, Leasing
  <2> QED BY <2>1, <2>2, <2>4, <2>5, <2>6, Left DEF Stable
<1>6. CASE Send
  <2>1. web \in Requested /\ Kind \in Command /\ web.op \in Id
          /\ UNCHANGED <<time, ledger, worker, ui, gate, control>>
    BY <1>6 DEF Send, WebOK, NoRequest, Requested
  <2>2. web' = NoRequest \/ web' = Accepted(web.op)
    BY <1>6 DEF Send
  <2>3. web' = NoRequest \/ (/\ web' \in Requested /\ web'.digest = web.digest
                             /\ web'.stage \in {"insert", "answered"}
                             /\ web'.stage = "insert" => Retained)
    BY <2>1, <2>2, AcceptedIs
  <2>4. LedgerOK'
    BY <1>6, <2>1, <2>3, NoRequestIs DEF Send, LedgerOK, UnderWay, Retained
  <2>5. WebOK'
    BY <2>3, NoRequestIs DEF WebOK, Retained
  <2>6. QueueOK'
    <3>1. Queued(web.op, Kind) \in Task
      BY <2>1, QueuedIs
    <3> QED BY <1>6, <3>1, SizeAssumption DEF Send, QueueOK
  <2>7. RegistryOK'
    <3>1. web'.stage \notin {"fresh", "control", "lease"}
      BY <2>3, NoRequestIs
    <3>2. CASE UNCHANGED registry
      BY <3>1, <3>2, Left
    <3>3. CASE registry' = Updated(web.op, "done")
      BY <1>6, <3>1, <3>3, UpdatedIs, PeriodType DEF Send, RegistryOK
    <3> QED BY <1>6, <3>2, <3>3 DEF Send
  <2> QED BY <2>1, <2>4, <2>5, <2>6, <2>7, Left DEF Stable
<1>7. CASE Insert
  <2>1. web \in Requested /\ UNCHANGED <<time, registry, queue, worker, ui, gate, control>>
    BY <1>7 DEF Insert, WebOK, NoRequest
  <2>2. web' = NoRequest \/ (web' \in Requested /\ web'.stage = "answered")
    BY <1>7, <2>1 DEF Insert, Requested
  <2>3. LedgerOK'
    <3> DEFINE e == [key |-> web.key, digest |-> web.digest, op |-> web.op, at |-> web.now]
    <3>1. e \in Entry
      BY <2>1 DEF Requested, Entry
    <3>2. /\ Kept(web.now) \subseteq Entry /\ IsFiniteSet(Kept(web.now))
          /\ Cardinality(Kept(web.now)) \in Nat /\ Cardinality(Kept(web.now)) <= Entries
      BY KeptIs, FS_CardinalityType, SizeAssumption DEF LedgerOK
    <3>3. /\ IsFiniteSet(Kept(web.now) \cup {e})
          /\ Cardinality(Kept(web.now) \cup {e}) <= Cardinality(Kept(web.now)) + 1
          /\ Cardinality(Kept(web.now) \cup {e}) \in Nat
      <4> HIDE DEF e
      <4>1. IsFiniteSet(Kept(web.now) \cup {e})
        BY <3>2, FS_AddElement
      <4>2. Cardinality(Kept(web.now) \cup {e}) =
              IF e \in Kept(web.now) THEN Cardinality(Kept(web.now)) ELSE Cardinality(Kept(web.now)) + 1
        BY <3>2, FS_AddElement
      <4> QED BY <3>2, <4>1, <4>2
    <3>4. ledger' \subseteq Entry /\ IsFiniteSet(ledger') /\ Cardinality(ledger') <= Entries
      BY <1>7, <3>1, <3>2, <3>3, SizeAssumption DEF Insert
    <3> QED BY <2>2, <3>4, NoRequestIs DEF LedgerOK, UnderWay
  <2>4. WebOK'
    BY <2>2, NoRequestIs DEF WebOK
  <2> QED BY <2>1, <2>2, <2>3, <2>4, NoRequestIs, Left DEF Stable
<1>8. CASE Answer
  <2>1. web' = NoRequest /\ UNCHANGED <<time, registry, ledger, queue, worker, ui, gate, control>>
    BY <1>8 DEF Answer
  <2>2. LedgerOK' /\ WebOK'
    BY <2>1, NoRequestIs DEF LedgerOK, UnderWay, WebOK
  <2> QED BY <2>1, <2>2, NoRequestIs, Left DEF Stable
<1>9. CASE Join
  <2>1. web \in Requested /\ control.op \in Id
          /\ UNCHANGED <<time, registry, ledger, queue, worker, ui, gate, control>>
    BY <1>9 DEF Join, WebOK, NoRequest, GateOK
  <2>2. /\ web' \in Requested /\ web'.digest = web.digest /\ web'.stage \in {"insert", "answered"}
        /\ web'.stage = "insert" => Retained
    BY <1>9, <2>1, AcceptedIs DEF Join
  <2>3. LedgerOK'
    BY <1>9, <2>1, <2>2 DEF Join, LedgerOK, UnderWay, Retained
  <2>4. WebOK'
    BY <2>2 DEF WebOK, Retained
  <2> QED BY <2>1, <2>2, <2>3, <2>4, Left DEF Stable
<1>10. CASE Collide
  <2>1. web \in Requested /\ web' = NoRequest
          /\ UNCHANGED <<time, ledger, queue, worker, ui, gate, control>>
    BY <1>10 DEF Collide, WebOK, NoRequest
  <2>2. LedgerOK' /\ WebOK'
    BY <2>1, NoRequestIs DEF LedgerOK, UnderWay, WebOK
  <2>3. RegistryOK'
    <3>1. NewId \in Id
      BY <1>10, PeriodType DEF Collide, RegistryOK, NewId
    <3>2. CASE FreeSlots = {}
      BY <1>10, <2>1, <3>2, NoRequestIs, Left DEF Collide
    <3>3. CASE FreeSlots # {}
      BY <1>10, <2>1, <3>1, <3>3, NoRequestIs, OpenedIs, PeriodType DEF Collide, RegistryOK
    <3> QED BY <3>2, <3>3
  <2> QED BY <2>1, <2>2, <2>3, Left DEF Stable
<1>11. CASE Lease
  <2>1. web \in Requested /\ Kind \in Restarting /\ UNCHANGED <<time, ledger, queue, worker, ui>>
    BY <1>11 DEF Lease, WebOK, NoRequest, GateInv, Leasing
  <2>2. CASE FreeSlots = {}
    <3>1. web' = NoRequest /\ gate' = "none" /\ UNCHANGED <<registry, control>>
      BY <1>11, <2>2 DEF Lease
    <3>2. LedgerOK' /\ WebOK' /\ GateOK'
      BY <2>1, <3>1, NoRequestIs DEF LedgerOK, UnderWay, WebOK, GateOK
    <3> QED BY <2>1, <3>1, <3>2, NoRequestIs, Left DEF Stable
  <2>3. CASE FreeSlots # {}
    <3>1. /\ registry' = Opened("queued") /\ web' = Accepted(NewId) /\ UNCHANGED gate
          /\ control' = [stage |-> "queued", op |-> NewId, action |-> Kind]
      BY <1>11, <2>3 DEF Lease
    <3>2. NewId \in Id
      BY <1>11, PeriodType DEF Lease, RegistryOK, NewId
    <3>3. /\ web' \in Requested /\ web'.digest = web.digest /\ web'.stage \in {"insert", "answered"}
          /\ web'.stage = "insert" => Retained
      BY <2>1, <3>1, <3>2, AcceptedIs
    <3>4. LedgerOK'
      BY <1>11, <2>1, <3>3 DEF Lease, LedgerOK, UnderWay, Retained
    <3>5. WebOK' /\ GateOK'
      BY <2>1, <3>1, <3>2, <3>3 DEF WebOK, GateOK, Retained
    <3>6. RegistryOK'
      BY <2>3, <3>1, <3>2, <3>3, OpenedIs, PeriodType DEF RegistryOK
    <3> QED BY <2>1, <3>4, <3>5, <3>6, Left DEF Stable
  <2> QED BY <2>2, <2>3
<1>12. ASSUME NEW kind \in UiKinds, UiBegin(kind) PROVE Stable'
  <2>1. UNCHANGED <<time, ledger, queue, worker, web, gate, control>>
          /\ FreeSlots # {} /\ registry' = Opened("queued") /\ ui' = [stage |-> "send", op |-> NewId, kind |-> kind]
    BY <1>12 DEF UiBegin
  <2>2. NewId \in Id /\ NewId + (IF web.stage \in {"fresh", "control", "lease"} THEN 1 ELSE 0) <= MaxId
    BY <1>12, PeriodType DEF UiBegin, IdsLeft, RegistryOK, NewId
  <2>3. RegistryOK'
    BY <2>1, <2>2, OpenedIs, PeriodType DEF RegistryOK
  <2>4. UiOK'
    BY <2>1, <2>2, KindAssumption DEF UiOK
  <2> QED BY <2>1, <2>3, <2>4, Left DEF Stable
<1>13. CASE UiSend
  <2>1. ui.op \in Id /\ ui.kind \in Command /\ ui' = NoUi
          /\ UNCHANGED <<time, ledger, worker, web, gate, control>>
    BY <1>13 DEF UiSend, UiOK
  <2>2. UiOK'
    BY <2>1, PeriodType DEF UiOK, NoUi, Command
  <2>3. QueueOK'
    <3>1. Queued(ui.op, ui.kind) \in Task
      BY <2>1, QueuedIs
    <3> QED BY <1>13, <3>1, SizeAssumption DEF UiSend, QueueOK
  <2>4. RegistryOK'
    <3>1. CASE UNCHANGED registry
      BY <2>1, <3>1 DEF RegistryOK
    <3>2. CASE registry' = Updated(ui.op, "done")
      BY <2>1, <3>2, UpdatedIs, PeriodType DEF RegistryOK
    <3> QED BY <1>13, <3>1, <3>2 DEF UiSend
  <2> QED BY <2>1, <2>2, <2>3, <2>4, Left DEF Stable
<1>14. CASE Take
  <2>1. worker' = [stage |-> "taken", task |-> Head(queue)] /\ queue' = Tail(queue) /\ queue # <<>>
          /\ UNCHANGED <<time, registry, ledger, web, ui, gate, control>>
    BY <1>14 DEF Take
  <2>2. Head(queue) \in Task /\ QueueOK'
    BY <2>1, SizeAssumption DEF QueueOK
  <2>3. WorkerOK' /\ RegistryOK'
    BY <2>1, <2>2 DEF WorkerOK, RegistryOK
  <2> QED BY <2>1, <2>2, <2>3, Left DEF Stable
<1>15. CASE Refuse \/ Finish \/ AutoEnd
  <2>1. worker' = NoWork /\ UNCHANGED <<time, ledger, queue, web, ui, gate, control>>
          /\ (registry' = Updated(worker.task.op, "done") \/ UNCHANGED registry)
    BY <1>15 DEF Refuse, Finish, End, AutoEnd
  <2>2. RegistryOK'
    BY <2>1, UpdatedIs, PeriodType DEF RegistryOK
  <2>3. WorkerOK'
    BY <2>1, NoWorkIs DEF WorkerOK, NoWork
  <2> QED BY <2>1, <2>2, <2>3, Left DEF Stable
<1>16. CASE Start \/ Change \/ AutoUpdate
  <2>1. UNCHANGED <<time, ledger, queue, web, ui, gate, control>>
          /\ (registry' = Updated(worker.task.op, "running") \/ UNCHANGED registry)
    BY <1>16 DEF Start, Change, AutoUpdate
  <2>2. RegistryOK'
    BY <2>1, UpdatedIs, PeriodType DEF RegistryOK
  <2>3. WorkerOK'
    BY <1>16 DEF WorkerOK, Start, Change, AutoUpdate
  <2> QED BY <2>1, <2>2, <2>3, Left DEF Stable
<1>17. CASE ControlTake \/ EraseFailed \/ Proceeds
  <2>1. UNCHANGED <<time, ledger, queue, worker, web, ui>>
          /\ (registry' = Updated(control.op, "running") \/ registry' = Updated(control.op, "done")
                \/ UNCHANGED registry)
    BY <1>17 DEF ControlTake, EraseFailed, Proceeds
  <2>2. RegistryOK'
    BY <2>1, UpdatedIs, PeriodType DEF RegistryOK
  <2>3. GateOK'
    BY <1>17, PeriodType DEF GateOK, ControlTake, EraseFailed, Proceeds, NoControl, Restarting
  <2> QED BY <2>1, <2>2, <2>3, Left DEF Stable
<1>18. CASE EspRestart
  <2>1. /\ time' = [time EXCEPT !.start = (-time.passed) % Period]
        /\ registry' = Empty /\ ledger' = {} /\ queue' = <<>> /\ worker' = NoWork
        /\ web' = NoRequest /\ ui' = NoUi /\ gate' = "none" /\ control' = NoControl
    BY <1>18 DEF EspRestart
  <2>2. TimeOK'
    <3>1. -time.passed \in Int
      BY PeriodType DEF TimeOK
    <3>2. (-time.passed) % Period \in Time
      BY <3>1, PeriodType, Modulo
    <3> QED BY <2>1, <3>2 DEF TimeOK
  <2>3. RegistryOK'
    BY <2>1, PeriodType, EmptyOK, NoRequestIs DEF RegistryOK
  <2>4. LedgerOK' /\ WebOK'
    BY <2>1, SizeAssumption, FS_EmptySet, NoRequestIs DEF LedgerOK, UnderWay, WebOK
  <2>5. QueueOK' /\ WorkerOK'
    BY <2>1, SizeAssumption, NoWorkIs DEF QueueOK, WorkerOK, NoWork
  <2>6. UiOK' /\ GateOK'
    BY <2>1, PeriodType DEF UiOK, GateOK, NoUi, NoControl, Command, Restarting
  <2> QED BY <2>2, <2>3, <2>4, <2>5, <2>6 DEF Stable
<1>19. CASE OtaTakes \/ OtaReleases \/ Tick \/ UNCHANGED vars
  <2>1. UNCHANGED <<registry, ledger, queue, worker, web, ui>>
    BY <1>19 DEF OtaTakes, OtaReleases, Tick, vars
  <2>2. TimeOK'
    BY <1>19, PeriodType DEF OtaTakes, OtaReleases, Tick, vars, TimeOK
  <2>3. GateOK'
    BY <1>19 DEF OtaTakes, OtaReleases, Tick, vars, GateOK
  <2>4. RegistryOK'
    BY <2>1 DEF RegistryOK
  <2> QED BY <2>1, <2>2, <2>3, <2>4, Left DEF Stable
<1> QED
  BY <1>1, <1>2, <1>3, <1>4, <1>5, <1>6, <1>7, <1>8, <1>9, <1>10, <1>11, <1>12, <1>13, <1>14,
     <1>15, <1>16, <1>17, <1>18, <1>19
  DEF Next, Web, Serve, Control

-----------------------------------------------------------------------------
(* Every live operation is in one pair of hands.                           *)

Grip(h, op) ==
  \/ h \in 1 .. Len(queue) /\ queue[h].op = op
  \/ h = -1 /\ web.stage = "send" /\ web.op = op
  \/ h = -2 /\ ui.stage = "send" /\ ui.op = op
  \/ h = -3 /\ worker.stage # "idle" /\ worker.task.op = op
  \/ h = -4 /\ control.op = op

\* The id 0 stands for no operation.
Real == Nat \ {0}

Once == \A op \in Real : \A g, h \in Int : Grip(g, op) /\ Grip(h, op) => g = h
Held == \A op \in Real : Live(op) <=> \E h \in Int : Grip(h, op)

PlacedInv == GateInv /\ Stable /\ Once /\ Held

LEMMA SameGrip ==
  ASSUME Once, Held, \A op \in Real : Live(op)' <=> Live(op),
         \A op \in Real, h \in Int : Grip(h, op)' <=> Grip(h, op)
  PROVE  Once' /\ Held'
BY DEF Once, Held

\* An operation begins in the hand x.
LEMMA BegunGrip ==
  ASSUME Once, Held, NEW o \in Real, ~Live(o), NEW x \in Int,
         \A op \in Real : Live(op)' <=> Live(op) \/ op = o,
         \A op \in Real, h \in Int : Grip(h, op)' <=> Grip(h, op) \/ (h = x /\ op = o)
  PROVE  Once' /\ Held'
BY DEF Once, Held

\* The operation in the hand x ends.
LEMMA EndedGrip ==
  ASSUME Once, Held, NEW o, NEW x \in Int,
         \A op \in Real : Grip(x, op) <=> op = o,
         \A op \in Real : Live(op)' <=> Live(op) /\ op # o,
         \A op \in Real, h \in Int : Grip(h, op)' <=> Grip(h, op) /\ h # x
  PROVE  Once' /\ Held'
BY DEF Once, Held

\* It is handed over from x to y.
LEMMA PassedGrip ==
  ASSUME Once, Held, NEW o, NEW x \in Int, NEW y \in Int,
         \A op \in Real : Grip(x, op) <=> op = o,
         \A op \in Real : ~Grip(y, op),
         \A op \in Real : Live(op)' <=> Live(op),
         \A op \in Real, h \in Int :
           Grip(h, op)' <=> (Grip(h, op) /\ h # x) \/ (h = y /\ op = o)
  PROVE  Once' /\ Held'
BY DEF Once, Held

LEMMA CarriedInit == Init => Once /\ Held
<1> SUFFICES ASSUME Init PROVE Once /\ Held
  OBVIOUS
<1>1. \A op : ~Live(op)
  <2>1. DOMAIN registry.slots = 0 .. Slots - 1
    BY EmptyOK DEF Init
  <2> QED BY <2>1, EmptyOK DEF Init, Live
<1>2. \A op \in Real, h \in Int : ~Grip(h, op)
  BY DEF Init, Grip, NoRequest, NoUi, NoWork, NoControl, Real
<1> QED BY <1>1, <1>2 DEF Once, Held

\* A step of the HTTP task that sends nothing.
LEMMA ElsewhereGrip ==
  ASSUME Once, Held, UNCHANGED <<queue, ui, worker, control>>,
         \A op \in Real : Live(op)' <=> Live(op),
         web' = web \/ (web.stage # "send" /\ web'.stage # "send")
  PROVE  Once' /\ Held'
<1>1. \A op \in Real, h \in Int : Grip(h, op)' <=> Grip(h, op)
  BY DEF Grip
<1> QED BY <1>1, SameGrip

LEMMA LiveSame == UNCHANGED registry => \A op : Live(op)' <=> Live(op)
BY DEF Live

\* An operation is live as long as somebody has it in hand.
LEMMA CarriedStep == PlacedInv /\ [Next]_vars => Once' /\ Held'
<1> SUFFICES ASSUME PlacedInv, [Next]_vars PROVE Once' /\ Held'
  OBVIOUS
<1>0. GateInv /\ Stable /\ Once /\ Held
  BY DEF PlacedInv
<1>a. RegistryOK /\ WebOK /\ QueueOK /\ WorkerOK /\ UiOK /\ GateOK /\ Active
  BY <1>0 DEF Stable, GateInv
<1>1. ASSUME NEW k \in Key, NEW d \in Digest, Replay(k, d) \/ Reject(k, d) \/ Proceed(k, d)
      PROVE  Once' /\ Held'
  <2>1. UNCHANGED <<registry, queue, ui, worker, control>> /\ web.stage = "idle"
    BY <1>1 DEF Replay, Reject, Proceed
  <2>2. web' = web \/ web'.stage \in {"fresh", "answered"}
    <3>1. \A op : [Request(k, d) EXCEPT !.stage = "answered", !.op = op].stage = "answered"
      BY DEF Request
    <3>2. Request(k, d).stage = "fresh"
      BY DEF Request
    <3> QED BY <1>1, <3>1, <3>2 DEF Replay, Reject, Proceed
  <2> QED BY <1>0, <2>1, <2>2, LiveSame, ElsewhereGrip
<1>2. CASE Restartable \/ Insert \/ Answer \/ Join \/ Acquire
  <2>1. UNCHANGED <<registry, queue, ui, worker, control>> /\ web.stage # "send"
    BY <1>2 DEF Restartable, Insert, Answer, Join, Acquire
  <2>2. web \in Requested
    BY <1>2, <1>a DEF Restartable, Insert, Answer, Join, Acquire, WebOK, NoRequest
  <2>3. Join => web'.stage \in {"insert", "answered"}
    BY <1>a, <2>2, AcceptedIs DEF Join, GateOK
  <2>4. web'.stage # "send"
    BY <1>2, <2>1, <2>2, <2>3, NoRequestIs DEF Restartable, Insert, Answer, Acquire, Requested
  <2> QED BY <1>0, <2>1, <2>4, LiveSame, ElsewhereGrip
<1>3. CASE Begin
  <2>1. web \in Requested /\ web.stage = "fresh" /\ UNCHANGED <<queue, worker, ui, control>>
    BY <1>3, <1>a DEF Begin, WebOK, NoRequest
  <2>2. CASE FreeSlots = {}
    <3>1. web' = NoRequest /\ UNCHANGED registry
      BY <1>3, <2>2 DEF Begin
    <3> QED BY <1>0, <2>1, <3>1, NoRequestIs, LiveSame, ElsewhereGrip
  <2>3. CASE FreeSlots # {}
    <3>1. registry' = Opened("queued") /\ web' = [web EXCEPT !.stage = "send", !.op = NewId]
      BY <1>3, <2>3 DEF Begin
    <3>2. NewId \in Id /\ NewId \in Real
      BY <1>a, <2>1, PeriodType DEF RegistryOK, NewId, Real
    <3>3. web'.stage = "send" /\ web'.op = NewId
      BY <2>1, <3>1, <3>2, GoesOn
    <3>4. \A op \in Real, h \in Int : Grip(h, op)' <=> Grip(h, op) \/ (h = -1 /\ op = NewId)
      BY <2>1, <3>3 DEF Grip
    <3>5. ~Live(NewId) /\ \A op \in Real : Live(op)' <=> Live(op) \/ op = NewId
      BY <1>0, <2>3, <3>1, <3>2, OpenedIs
    <3> QED BY <1>0, <3>2, <3>4, <3>5, BegunGrip
  <2> QED BY <2>2, <2>3
<1>4. CASE Send
  <2>1. web \in Requested /\ web.stage = "send" /\ web.op \in Id /\ UNCHANGED <<worker, ui, control>>
    BY <1>4, <1>a DEF Send, WebOK, NoRequest, Requested
  <2>2. web'.stage # "send"
    BY <1>4, <2>1, AcceptedIs, NoRequestIs DEF Send
  <2>3. \A op \in Real : Grip(-1, op) <=> op = web.op
    BY <2>1 DEF Grip
  <2>4. CASE Len(queue) < Depth /\ queue' = Append(queue, Queued(web.op, Kind)) /\ UNCHANGED registry
    <3>1. Queued(web.op, Kind) \in Task /\ Queued(web.op, Kind).op = web.op
      BY <1>0, <1>4, <1>a, <2>1, QueuedIs DEF Send, WebOK
    <3>2. /\ Len(queue') = Len(queue) + 1 /\ Len(queue) \in Nat
          /\ \A i \in 1 .. Len(queue) : queue'[i] = queue[i]
          /\ queue'[Len(queue) + 1].op = web.op
      BY <1>a, <2>4, <3>1 DEF QueueOK
    <3>3. \A op \in Real, h \in Int :
            Grip(h, op)' <=> (Grip(h, op) /\ h # -1) \/ (h = Len(queue) + 1 /\ op = web.op)
      BY <2>1, <2>2, <3>2 DEF Grip
    <3>4. \A op \in Real : ~Grip(Len(queue) + 1, op)
      BY <3>2 DEF Grip
    <3>5. \A op \in Real : Live(op)' <=> Live(op)
      BY <2>4, LiveSame
    <3>6. Len(queue) + 1 \in Int
      BY <3>2
    <3> QED BY <1>0, <2>3, <3>3, <3>4, <3>5, <3>6 DEF Once, Held
  <2>5. CASE registry' = Updated(web.op, "done") /\ UNCHANGED queue
    <3>1. \A op \in Real, h \in Int : Grip(h, op)' <=> Grip(h, op) /\ h # -1
      BY <2>1, <2>2, <2>5, <1>a DEF Grip, QueueOK
    <3>2. \A op \in Real : Live(op)' <=> Live(op) /\ op # web.op
      BY <1>0, <2>5, UpdatedIs
    <3> QED BY <1>0, <2>3, <3>1, <3>2, EndedGrip
  <2> QED BY <1>4, <2>4, <2>5 DEF Send
<1>5. CASE Collide
  <2>1. web' = NoRequest /\ web.stage = "control" /\ UNCHANGED <<queue, worker, ui, control>>
    BY <1>5 DEF Collide
  <2>2. \A op \in Real : Live(op)' <=> Live(op)
    <3>1. CASE FreeSlots = {}
      BY <1>5, <3>1, LiveSame DEF Collide
    <3>2. CASE FreeSlots # {}
      <4>1. NewId \in Id /\ registry' = Opened("done")
        BY <1>5, <1>a, <3>2, PeriodType DEF Collide, RegistryOK, NewId
      <4> QED BY <1>0, <3>2, <4>1, OpenedIs
    <3> QED BY <3>1, <3>2
  <2> QED BY <1>0, <2>1, <2>2, NoRequestIs, ElsewhereGrip
<1>6. CASE Lease
  <2>1. web \in Requested /\ web.stage = "lease" /\ control.op = 0 /\ UNCHANGED <<queue, worker, ui>>
    BY <1>6, <1>0, <1>a DEF Lease, WebOK, NoRequest, GateInv, Leasing
  <2>2. CASE FreeSlots = {}
    <3>1. web' = NoRequest /\ UNCHANGED <<registry, control>>
      BY <1>6, <2>2 DEF Lease
    <3> QED BY <1>0, <2>1, <3>1, NoRequestIs, LiveSame, ElsewhereGrip
  <2>3. CASE FreeSlots # {}
    <3>1. /\ registry' = Opened("queued") /\ web' = Accepted(NewId)
          /\ control' = [stage |-> "queued", op |-> NewId, action |-> Kind]
      BY <1>6, <2>3 DEF Lease
    <3>2. NewId \in Id /\ NewId \in Real
      BY <1>a, <2>1, PeriodType DEF RegistryOK, NewId, Real
    <3>3. web'.stage # "send" /\ control'.op = NewId
      BY <2>1, <3>1, <3>2, AcceptedIs
    <3>4. \A op \in Real, h \in Int : Grip(h, op)' <=> Grip(h, op) \/ (h = -4 /\ op = NewId)
      BY <2>1, <3>3 DEF Grip, Real
    <3>5. ~Live(NewId) /\ \A op \in Real : Live(op)' <=> Live(op) \/ op = NewId
      BY <1>0, <2>3, <3>1, <3>2, OpenedIs
    <3> QED BY <1>0, <3>2, <3>4, <3>5, BegunGrip
  <2> QED BY <2>2, <2>3
<1>7. ASSUME NEW kind \in UiKinds, UiBegin(kind) PROVE Once' /\ Held'
  <2>1. UNCHANGED <<queue, worker, web, control>> /\ ui.stage = "idle"
          /\ FreeSlots # {} /\ registry' = Opened("queued") /\ ui' = [stage |-> "send", op |-> NewId, kind |-> kind]
    BY <1>7 DEF UiBegin
  <2>2. NewId \in Id /\ NewId \in Real
    BY <1>7, <1>a, PeriodType DEF UiBegin, IdsLeft, RegistryOK, NewId, Real
  <2>3. \A op \in Real, h \in Int : Grip(h, op)' <=> Grip(h, op) \/ (h = -2 /\ op = NewId)
    BY <2>1 DEF Grip
  <2>4. ~Live(NewId) /\ \A op \in Real : Live(op)' <=> Live(op) \/ op = NewId
    BY <1>0, <2>1, <2>2, OpenedIs
  <2> QED BY <1>0, <2>2, <2>3, <2>4, BegunGrip
<1>8. CASE UiSend
  <2>1. ui.op \in Id /\ ui.stage = "send" /\ ui.kind \in Command /\ ui' = NoUi
          /\ UNCHANGED <<worker, web, control>>
    BY <1>8, <1>a DEF UiSend, UiOK
  <2>2. ui'.stage # "send"
    BY <2>1 DEF NoUi
  <2>3. \A op \in Real : Grip(-2, op) <=> op = ui.op
    BY <2>1 DEF Grip
  <2>4. CASE Len(queue) < Depth /\ queue' = Append(queue, Queued(ui.op, ui.kind)) /\ UNCHANGED registry
    <3>1. Queued(ui.op, ui.kind) \in Task /\ Queued(ui.op, ui.kind).op = ui.op
      BY <1>0, <2>1, QueuedIs
    <3>2. /\ Len(queue') = Len(queue) + 1 /\ Len(queue) \in Nat
          /\ \A i \in 1 .. Len(queue) : queue'[i] = queue[i]
          /\ queue'[Len(queue) + 1].op = ui.op
      BY <1>a, <2>4, <3>1 DEF QueueOK
    <3>3. \A op \in Real, h \in Int :
            Grip(h, op)' <=> (Grip(h, op) /\ h # -2) \/ (h = Len(queue) + 1 /\ op = ui.op)
      BY <2>1, <2>2, <3>2 DEF Grip
    <3>4. \A op \in Real : ~Grip(Len(queue) + 1, op)
      BY <3>2 DEF Grip
    <3>5. \A op \in Real : Live(op)' <=> Live(op)
      BY <2>4, LiveSame
    <3>6. Len(queue) + 1 \in Int
      BY <3>2
    <3> QED BY <1>0, <2>3, <3>3, <3>4, <3>5, <3>6 DEF Once, Held
  <2>5. CASE registry' = Updated(ui.op, "done") /\ UNCHANGED queue
    <3>1. \A op \in Real, h \in Int : Grip(h, op)' <=> Grip(h, op) /\ h # -2
      BY <2>1, <2>2, <2>5, <1>a DEF Grip, QueueOK
    <3>2. \A op \in Real : Live(op)' <=> Live(op) /\ op # ui.op
      BY <1>0, <2>5, UpdatedIs
    <3> QED BY <1>0, <2>3, <3>1, <3>2, EndedGrip
  <2> QED BY <1>8, <2>4, <2>5 DEF UiSend
<1>9. CASE Take
  <2>1. worker.stage = "idle" /\ queue # <<>> /\ worker' = [stage |-> "taken", task |-> Head(queue)]
          /\ queue' = Tail(queue) /\ UNCHANGED <<registry, web, ui, control>>
    BY <1>9 DEF Take
  <2>2. /\ Len(queue) \in Nat /\ Len(queue) >= 1 /\ Len(queue') = Len(queue) - 1
        /\ \A i \in 1 .. Len(queue') : queue'[i] = queue[i + 1]
        /\ worker'.task = queue[1] /\ worker'.stage = "taken"
    BY <1>a, <2>1 DEF QueueOK
  <2> DEFINE Old(h) == IF h >= 1 THEN h + 1 ELSE IF h = -3 THEN 1 ELSE h
  <2>3. \A op \in Real, h \in Int : Grip(h, op)' => Old(h) \in Int /\ Grip(Old(h), op) /\ h # 0
    BY <2>1, <2>2 DEF Grip
  <2>4. \A op \in Real, h \in Int : Grip(h, op) => \E g \in Int : Grip(g, op)'
    <3>1. ASSUME NEW op \in Real, NEW h \in Int, Grip(h, op) PROVE \E g \in Int : Grip(g, op)'
      <4>1. CASE h \in 2 .. Len(queue)
        <5>1. h - 1 \in 1 .. Len(queue') /\ queue'[h - 1].op = op
          BY <2>1, <2>2, <3>1, <4>1 DEF Grip
        <5> QED BY <5>1 DEF Grip
      <4>2. CASE h = 1
        <5>1. queue[1].op = op
          BY <2>2, <3>1, <4>2 DEF Grip
        <5>2. worker'.task.op = op /\ worker'.stage # "idle"
          BY <2>2, <5>1
        <5> QED BY <5>2 DEF Grip
      <4>3. CASE h \notin 1 .. Len(queue)
        BY <2>1, <3>1, <4>3 DEF Grip
      <4> QED BY <2>2, <4>1, <4>2, <4>3
    <3> QED BY <3>1
  <2>5. Once'
    <3>1. ASSUME NEW op \in Real, NEW g \in Int, NEW h \in Int, Grip(g, op)', Grip(h, op)' PROVE g = h
      <4>1. Old(g) = Old(h) /\ g # 0 /\ h # 0
        BY <1>0, <2>3, <3>1 DEF Once
      <4>2. g # 1 - 1 /\ (g >= 1 => Old(g) >= 2) /\ (h >= 1 => Old(h) >= 2)
        BY <4>1
      <4> QED BY <4>1, <4>2
    <3> QED BY <3>1 DEF Once
  <2>6. Held'
    <3>1. \A op \in Real : Live(op)' <=> Live(op)
      BY <2>1, LiveSame
    <3>2. \A op \in Real : (\E h \in Int : Grip(h, op)') <=> (\E h \in Int : Grip(h, op))
      BY <2>3, <2>4
    <3> QED BY <1>0, <3>1, <3>2 DEF Held
  <2> QED BY <2>5, <2>6
<1>10. CASE Refuse \/ Finish
  <2>1. worker.stage # "idle" /\ registry' = Updated(worker.task.op, "done") /\ worker' = NoWork
          /\ UNCHANGED <<queue, web, ui, control>>
    BY <1>10 DEF Refuse, Finish, End
  <2>2. \A op \in Real : Grip(-3, op) <=> op = worker.task.op
    BY <2>1 DEF Grip
  <2>3. \A op \in Real, h \in Int : Grip(h, op)' <=> Grip(h, op) /\ h # -3
    BY <2>1, <1>a, NoWorkIs DEF Grip, QueueOK
  <2>4. \A op \in Real : Live(op)' <=> Live(op) /\ op # worker.task.op
    BY <1>0, <2>1, UpdatedIs
  <2> QED BY <1>0, <2>2, <2>3, <2>4 DEF Once, Held
<1>11. CASE Start \/ Change
  <2>1. worker.stage # "idle" /\ worker'.stage # "idle" /\ worker'.task = worker.task
          /\ UNCHANGED <<queue, web, ui, control>>
    BY <1>11, <1>a DEF Start, Change, WorkerOK
  <2>2. \A op \in Real, h \in Int : Grip(h, op)' <=> Grip(h, op)
    BY <2>1 DEF Grip
  <2>3. \A op \in Real : Live(op)' <=> Live(op)
    BY <1>0, <1>11, UpdatedIs, LiveSame DEF Start, Change
  <2> QED BY <1>0, <2>2, <2>3, SameGrip
<1>12. CASE AutoUpdate \/ AutoEnd
  <2>1. worker.task.op = 0 /\ worker'.task.op = 0 /\ UNCHANGED <<registry, queue, web, ui, control>>
    BY <1>12, <1>a, NoWorkIs DEF AutoUpdate, AutoEnd, WorkerOK
  <2>2. \A op \in Real, h \in Int : Grip(h, op)' <=> Grip(h, op)
    BY <2>1 DEF Grip, Real
  <2>3. \A op \in Real : Live(op)' <=> Live(op)
    BY <2>1, LiveSame
  <2> QED BY <1>0, <2>2, <2>3, SameGrip
<1>13. CASE ControlTake \/ Proceeds
  <2>1. control'.op = control.op /\ UNCHANGED <<queue, worker, web, ui>>
    BY <1>13, <1>a DEF ControlTake, Proceeds, GateOK
  <2>2. \A op \in Real, h \in Int : Grip(h, op)' <=> Grip(h, op)
    BY <2>1 DEF Grip
  <2>3. \A op \in Real : Live(op)' <=> Live(op)
    BY <1>0, <1>13, UpdatedIs, LiveSame DEF ControlTake, Proceeds
  <2> QED BY <1>0, <2>2, <2>3, SameGrip
<1>14. CASE EraseFailed
  <2>1. registry' = Updated(control.op, "done") /\ control' = NoControl
          /\ UNCHANGED <<queue, worker, web, ui>>
    BY <1>14 DEF EraseFailed
  <2>2. \A op \in Real : Grip(-4, op) <=> op = control.op
    BY DEF Grip
  <2>3. \A op \in Real, h \in Int : Grip(h, op)' <=> Grip(h, op) /\ h # -4
    BY <2>1, <1>a DEF Grip, QueueOK, NoControl, Real
  <2>4. \A op \in Real : Live(op)' <=> Live(op) /\ op # control.op
    BY <1>0, <2>1, UpdatedIs
  <2> QED BY <1>0, <2>2, <2>3, <2>4, EndedGrip
<1>15. CASE EspRestart
  <2>1. /\ registry' = Empty /\ queue' = <<>> /\ worker' = NoWork
        /\ web' = NoRequest /\ ui' = NoUi /\ control' = NoControl
    BY <1>15 DEF EspRestart
  <2>2. \A op : ~Live(op)'
    <3>1. DOMAIN registry'.slots = 0 .. Slots - 1
      BY <2>1, EmptyOK
    <3> QED BY <2>1, <3>1, EmptyOK DEF Live
  <2>3. \A op \in Real, h \in Int : ~Grip(h, op)'
    BY <2>1 DEF Grip, NoRequest, NoUi, NoWork, NoControl, Real
  <2> QED BY <2>2, <2>3 DEF Once, Held
<1>16. CASE OtaTakes \/ OtaReleases \/ Tick \/ UNCHANGED vars
  <2>1. UNCHANGED <<registry, queue, worker, web, ui, control>>
    BY <1>16 DEF OtaTakes, OtaReleases, Tick, vars
  <2> QED BY <1>0, <2>1, LiveSame, ElsewhereGrip
<1> QED
  BY <1>1, <1>2, <1>3, <1>4, <1>5, <1>6, <1>7, <1>8, <1>9, <1>10, <1>11, <1>12, <1>13, <1>14,
     <1>15, <1>16
  DEF Next, Web, Serve, Control

LEMMA HandsAre == ASSUME NEW op \in Real, QueueOK PROVE Hands(op) = {h \in Int : Grip(h, op)}
<1>1. DOMAIN queue = 1 .. Len(queue) /\ Len(queue) \in Nat
  BY DEF QueueOK
<1>2. \A h : h \in Hands(op) <=> h \in Int /\ Grip(h, op)
  BY <1>1 DEF Hands, Grip
<1> QED BY <1>2

LEMMA LedgerRoom == Stable => PlaceKept
<1> SUFFICES ASSUME Stable, web.stage = "insert" PROVE Cardinality(Kept(web.now)) < Entries
  BY DEF PlaceKept
<1>1. LedgerOK /\ UnderWay /\ Retained /\ Cardinality(ledger) \in Nat
  BY FS_CardinalityType DEF Stable, LedgerOK, UnderWay, WebOK
<1>2. Cardinality(ledger) < Entries
  BY <1>1 DEF LedgerOK
<1> QED BY <1>1, <1>2, KeptIs, SizeAssumption

LEMMA PlacedCarried == PlacedInv => Carried
<1> SUFFICES ASSUME PlacedInv, NEW op \in 1 .. MaxId
             PROVE  Cardinality(Hands(op)) = (IF Live(op) THEN 1 ELSE 0)
  BY DEF Carried
<1>1. op \in Real /\ QueueOK /\ Once /\ Held
  BY PeriodType DEF PlacedInv, Stable, Real
<1>2. Hands(op) = {h \in Int : Grip(h, op)}
  BY <1>1, HandsAre
<1>3. CASE Live(op)
  <2>1. PICK h \in Int : Grip(h, op)
    BY <1>1, <1>3 DEF Held
  <2>2. Hands(op) = {h}
    BY <1>1, <1>2, <2>1 DEF Once
  <2> QED BY <1>3, <2>2, FS_Singleton
<1>4. CASE ~Live(op)
  <2>1. Hands(op) = {}
    BY <1>1, <1>2, <1>4 DEF Held
  <2> QED BY <1>4, <2>1, FS_EmptySet
<1> QED BY <1>3, <1>4

\* Every operation, queued, running or refused, is accounted for, and the place
\* that admit() made in the ledger is still there for insert()
\* (operation_registry.cpp:67-97, backend_worker.cpp:109-121,
\* idempotency_ledger.hpp:53-55).
THEOREM AllPlaced == Spec => []Placed
<1>1. Init => PlacedInv
  BY GateInit, StableInit, CarriedInit DEF PlacedInv
<1>2. PlacedInv /\ [Next]_vars => PlacedInv'
  BY GateStep, StableStep, CarriedStep DEF PlacedInv
<1>3. PlacedInv => Placed
  <2> SUFFICES ASSUME PlacedInv PROVE Placed
    OBVIOUS
  <2>1. TypeOK /\ Carried
    BY StableTyped, PlacedCarried DEF PlacedInv
  <2>2. PlaceKept
    BY LedgerRoom DEF PlacedInv
  <2> QED BY <2>1, <2>2 DEF Placed
<1> QED BY <1>1, <1>2, <1>3, PTL DEF Spec

-----------------------------------------------------------------------------
(* A repeated request finds its operation.                                 *)

\* The entry of the ledger that stands for b, and the record of the request
\* under way.
Receipt(b) == [key |-> b.key, digest |-> b.digest, op |-> b.op,
               at |-> (time.start + b.made) % Period]
Mine == [op |-> web.op, key |-> web.key, digest |-> web.digest, made |-> web.made]

Past == [op : Nat, key : Key, digest : Digest, made : 0 .. MaxTime]

\* The ledger and the request under way come from requests on record.
Recorded ==
  /\ \A b \in begun : b \in Past /\ b.op <= registry.last /\ b.made <= time.passed
  /\ \A e \in ledger : \E b \in begun : e = Receipt(b)
  /\ web.stage # "idle" =>
       /\ \A b \in begun : b.made <= web.made
       /\ web.made <= time.passed /\ web.now = (time.start + web.made) % Period
  /\ web.stage \in {"send", "insert"} => Mine \in begun
  /\ AnswerTrue

\* The operation under way is the last that a request for a restart was given.
Latest ==
  control.op # 0 => \A b \in begun : Asks[b.digest] \in Restarting => b.op <= control.op

Repeatable(b) == Asks[b.digest] # "catalog" /\ Live(b.op)

\* A live operation is in the ledger, unless it is too old or about to be put there.
InLedger ==
  \A a \in begun : Repeatable(a) =>
    \/ Receipt(a) \in ledger
    \/ time.passed - a.made >= Ttl
    \/ web.stage \in {"send", "insert"} /\ a = Mine

\* A request that has been let in repeats none of them.
New ==
  web.stage \in {"fresh", "control", "lease"} =>
    \A a \in begun :
      Repeatable(a) /\ a.key = web.key /\ a.digest = web.digest => web.made - a.made >= Ttl

Receipts == Recorded /\ Latest /\ InLedger /\ New /\ NoSecond
IdempotentInv == PlacedInv /\ Receipts

LEMMA ReceiptsInit == Init => Receipts
BY NoRequestIs DEF Init, Receipts, Recorded, Latest, InLedger, New, NoSecond, AnswerTrue

LEMMA TtlType == Ttl \in Nat /\ Ttl > 0 /\ Period \in Nat \ {0} /\ MaxTime \in Nat /\ MaxTime < Period
<1>1. Period \div 2 \in Int
  BY SizeAssumption
<1> QED BY <1>1, SizeAssumption, BoundAssumption

LEMMA Ages ==
  ASSUME TimeOK, NEW x \in 0 .. MaxTime, NEW y \in 0 .. MaxTime, x <= y
  PROVE  Since((time.start + y) % Period, (time.start + x) % Period) = y - x
<1>1. time.start \in Time
  BY DEF TimeOK
<1>2. time.start \in Nat
  BY <1>1, PeriodType
<1>3. /\ time.start + y \in Int /\ time.start + x \in Int
      /\ time.start + x <= time.start + y
      /\ (time.start + y) - (time.start + x) = y - x /\ y - x < Period
  BY <1>2, TtlType
<1> QED BY <1>3, TtlType, Distance DEF Since

\* What a look at the ledger at the time of the request drops is too old.
LEMMA Dropped ==
  ASSUME TimeOK, NEW y \in 0 .. MaxTime, NEW b \in Past, b.made <= y,
         Receipt(b) \in ledger
  PROVE  Receipt(b) \in Kept((time.start + y) % Period) <=> y - b.made < Ttl
<1>1. b.made \in 0 .. MaxTime /\ Receipt(b).at = (time.start + b.made) % Period
  BY DEF Past, Receipt
<1>2. Since((time.start + y) % Period, Receipt(b).at) = y - b.made
  BY <1>1, Ages
<1> QED BY <1>2 DEF Kept

\* Steps of the other tasks.
LEMMA OthersReceipts ==
  ASSUME Receipts, Stable, Stable', UNCHANGED <<begun, ledger, web>>,
         time'.start = time.start, time'.passed >= time.passed,
         registry'.last >= registry.last,
         \A b \in begun : Live(b.op)' => Live(b.op),
         control'.op = control.op \/ control'.op = 0
  PROVE  Receipts'
<1>1. time.passed \in Nat /\ time'.passed \in Nat /\ registry.last \in Nat /\ registry'.last \in Nat
  <2>1. TimeOK /\ RegistryOK /\ TimeOK' /\ RegistryOK'
    BY DEF Stable
  <2> QED BY <2>1, PeriodType DEF TimeOK, RegistryOK
<1>2. \A b : Receipt(b)' = Receipt(b)
  BY DEF Receipt
<1>3. \A b \in begun : b \in Past /\ b.op \in Nat /\ b.made \in Nat
  BY PeriodType DEF Receipts, Recorded, Past
<1>4. web.stage # "idle" => web.made \in Nat
  BY PeriodType DEF Stable, WebOK, Requested, NoRequest
<1>5. Recorded'
  BY <1>1, <1>2, <1>3, <1>4 DEF Receipts, Recorded, Mine, AnswerTrue
<1>6. Latest'
  BY DEF Receipts, Latest
<1>7. InLedger'
  BY <1>1, <1>2, <1>3, TtlType DEF Receipts, InLedger, Repeatable, Mine
<1>8. New' /\ NoSecond'
  BY DEF Receipts, New, NoSecond, Repeatable
<1> QED BY <1>5, <1>6, <1>7, <1>8 DEF Receipts

LEMMA PastNumbers ==
  ASSUME Stable, Receipts
  PROVE  /\ time.passed \in 0 .. MaxTime /\ registry.last \in Nat
         /\ \A b \in begun : b \in Past /\ b.op \in Nat /\ b.made \in 0 .. MaxTime
         /\ web.stage # "idle" => web \in Requested /\ web.made \in 0 .. MaxTime /\ web.op \in Nat
<1>1. TimeOK /\ RegistryOK /\ WebOK
  BY DEF Stable
<1>2. time.passed \in 0 .. MaxTime /\ registry.last \in Nat
  BY <1>1, PeriodType DEF TimeOK, RegistryOK
<1>3. \A b \in begun : b \in Past /\ b.op \in Nat /\ b.made \in 0 .. MaxTime
  BY DEF Receipts, Recorded, Past
<1>4. web.stage # "idle" => web \in Requested /\ web.made \in 0 .. MaxTime /\ web.op \in Nat
  BY <1>1, PeriodType DEF WebOK, Requested, NoRequest
<1> QED BY <1>2, <1>3, <1>4

\* The request ends; what it has begun is not live.
LEMMA EndsReceipts ==
  ASSUME Receipts, Stable, Stable', web' = NoRequest, UNCHANGED <<begun, ledger, time>>,
         registry'.last >= registry.last,
         \A b \in begun : Live(b.op)' => Live(b.op),
         \A b \in begun : web.stage = "send" /\ b.op = web.op => ~Live(b.op)',
         web.stage # "insert",
         control'.op = control.op
  PROVE  Receipts'
<1>1. registry.last \in Nat /\ registry'.last \in Nat
  <2>1. RegistryOK /\ RegistryOK'
    BY DEF Stable
  <2> QED BY <2>1, PeriodType DEF RegistryOK
<1>2. \A b : Receipt(b)' = Receipt(b)
  BY DEF Receipt
<1>3. \A b \in begun : b \in Past /\ b.op \in Nat
  BY PastNumbers
<1>4. Recorded'
  BY <1>1, <1>2, <1>3, NoRequestIs DEF Receipts, Recorded, AnswerTrue
<1>5. InLedger'
  <2>1. ASSUME NEW a \in begun, Live(a.op)', Asks[a.digest] # "catalog"
        PROVE  Receipt(a) \in ledger \/ time.passed - a.made >= Ttl
    <3>1. Repeatable(a)
      BY <2>1 DEF Repeatable
    <3>2. ~(web.stage = "send" /\ a = Mine)
      BY <2>1 DEF Mine
    <3> QED BY <3>1, <3>2 DEF Receipts, InLedger
  <2> QED BY <1>2, <2>1 DEF InLedger, Repeatable
<1>6. Latest' /\ New' /\ NoSecond'
  BY NoRequestIs DEF Receipts, Latest, New, NoSecond
<1> QED BY <1>4, <1>5, <1>6 DEF Receipts

\* A request is let in, or answered from the ledger; what leaves the ledger is
\* too old or ended.
LEMMA LooksReceipts ==
  ASSUME Receipts, Stable, web.stage = "idle",
         UNCHANGED <<begun, time, registry, control>>, ledger' \subseteq ledger,
         \A b \in begun : Receipt(b) \in ledger =>
           \/ Receipt(b) \in ledger'
           \/ time.passed - b.made >= Ttl
           \/ ~Live(b.op)
  PROVE  /\ \A b \in begun : b \in Past /\ b.op <= registry'.last /\ b.made <= time'.passed
         /\ \A e \in ledger' : \E b \in begun' : e = Receipt(b)'
         /\ Latest' /\ InLedger' /\ NoSecond'
<1>1. \A b : Receipt(b)' = Receipt(b)
  BY DEF Receipt
<1>2. \A b : Repeatable(b)' <=> Repeatable(b)
  BY DEF Repeatable, Live
<1>3. /\ \A b \in begun : b \in Past /\ b.op <= registry'.last /\ b.made <= time'.passed
      /\ \A e \in ledger' : \E b \in begun' : e = Receipt(b)'
  BY <1>1 DEF Receipts, Recorded
<1>4. InLedger'
  BY <1>1, <1>2 DEF Receipts, InLedger, Repeatable
<1>5. Latest' /\ NoSecond'
  BY DEF Receipts, Latest, NoSecond, Live
<1> QED BY <1>3, <1>4, <1>5

\* The time of a look is that of the request.
LEMMA LookDrops ==
  ASSUME Receipts, Stable, NEW b \in begun, Receipt(b) \in ledger
  PROVE  Receipt(b) \in Kept(Clock) <=> time.passed - b.made < Ttl
<1>1. b \in Past /\ b.made <= time.passed /\ time.passed \in 0 .. MaxTime
  BY PastNumbers DEF Receipts, Recorded
<1>2. TimeOK
  BY DEF Stable
<1> QED BY <1>1, <1>2, Dropped DEF Clock

LEMMA RequestFields ==
  ASSUME NEW k, NEW d
  PROVE  /\ Request(k, d).key = k /\ Request(k, d).digest = d /\ Request(k, d).stage = "fresh"
         /\ Request(k, d).now = Clock /\ Request(k, d).made = time.passed
         /\ \A op : LET w == [Request(k, d) EXCEPT !.stage = "answered", !.op = op]
                    IN  /\ w.key = k /\ w.digest = d /\ w.stage = "answered" /\ w.op = op
                        /\ w.now = Clock /\ w.made = time.passed
BY DEF Request

LEMMA ReplayReceipts ==
  ASSUME Receipts, Stable, NEW k \in Key, NEW d \in Digest, Replay(k, d)
  PROVE  Receipts'
<1>1. PICK e \in Kept(Clock) :
        e.key = k /\ e.digest = d
          /\ web' = [Request(k, d) EXCEPT !.stage = "answered", !.op = e.op]
  BY DEF Replay
<1>2. /\ web.stage = "idle" /\ ledger' = Kept(Clock) /\ Kept(Clock) \subseteq ledger
      /\ UNCHANGED <<begun, time, registry, control>>
  BY KeptIs DEF Replay
<1>3. /\ web'.key = k /\ web'.digest = d /\ web'.stage = "answered" /\ web'.op = e.op
      /\ web'.now = Clock /\ web'.made = time.passed
  BY <1>1, RequestFields
<1>4. \A b \in begun : Receipt(b) \in ledger =>
        Receipt(b) \in ledger' \/ time.passed - b.made >= Ttl
  BY <1>2, LookDrops, PastNumbers, TtlType
<1>5. /\ \A b \in begun : b \in Past /\ b.op <= registry'.last /\ b.made <= time'.passed
      /\ \A f \in ledger' : \E b \in begun' : f = Receipt(b)'
      /\ Latest' /\ InLedger' /\ NoSecond'
  BY <1>2, <1>4, LooksReceipts
<1>6. PICK b \in begun : e = Receipt(b)
  BY <1>1, <1>2 DEF Receipts, Recorded
<1>7. b.op = e.op /\ b.key = k /\ b.digest = d /\ time.passed - b.made < Ttl
  BY <1>1, <1>2, <1>6, LookDrops DEF Receipt
<1>8. AnswerTrue'
  BY <1>2, <1>3, <1>7 DEF AnswerTrue
<1>9. New'
  BY <1>3 DEF New
<1>10. Recorded'
  BY <1>2, <1>3, <1>5, <1>8, PastNumbers DEF Recorded, Clock
<1> QED BY <1>5, <1>9, <1>10 DEF Receipts

LEMMA RejectReceipts ==
  ASSUME Receipts, Stable, NEW k \in Key, NEW d \in Digest, Reject(k, d)
  PROVE  Receipts'
<1>1. /\ web.stage = "idle" /\ ledger' = Kept(Clock) /\ Kept(Clock) \subseteq ledger
      /\ UNCHANGED <<begun, time, registry, control, web>>
  BY KeptIs DEF Reject
<1>2. \A b \in begun : Receipt(b) \in ledger =>
        Receipt(b) \in ledger' \/ time.passed - b.made >= Ttl
  BY <1>1, LookDrops, PastNumbers, TtlType
<1>3. /\ \A b \in begun : b \in Past /\ b.op <= registry'.last /\ b.made <= time'.passed
      /\ \A f \in ledger' : \E b \in begun' : f = Receipt(b)'
      /\ Latest' /\ InLedger' /\ NoSecond'
  BY <1>1, <1>2, LooksReceipts
<1>4. Recorded' /\ New'
  BY <1>1, <1>3 DEF Recorded, New, AnswerTrue
<1> QED BY <1>3, <1>4 DEF Receipts

LEMMA ProceedReceipts ==
  ASSUME Receipts, Stable, NEW k \in Key, NEW d \in Digest, Proceed(k, d)
  PROVE  Receipts'
<1>1. /\ web.stage = "idle" /\ web' = Request(k, d)
      /\ UNCHANGED <<begun, time, registry, control>>
      /\ \A e \in Kept(Clock) : e.key # k
  BY DEF Proceed
<1>2. /\ web'.key = k /\ web'.digest = d /\ web'.stage = "fresh"
      /\ web'.now = Clock /\ web'.made = time.passed
  BY <1>1, RequestFields
<1>3. ledger' \subseteq Kept(Clock) /\ \A e \in Kept(Clock) \ ledger' : Finished(e)
  <2>1. CASE Asks[d] = "catalog"
    BY <2>1 DEF Proceed
  <2>2. CASE Asks[d] # "catalog"
    BY <2>2, ReservedIs DEF Proceed
  <2> QED BY <2>1, <2>2
<1>4. \A b \in begun : Receipt(b) \in ledger =>
        Receipt(b) \in ledger' \/ time.passed - b.made >= Ttl \/ ~Live(b.op)
  <2>1. \A b \in begun : Receipt(b) \in Kept(Clock) \ ledger' => ~Live(b.op)
    BY <1>3 DEF Finished, Receipt
  <2> QED BY <2>1, LookDrops, PastNumbers, TtlType
<1>5. /\ \A b \in begun : b \in Past /\ b.op <= registry'.last /\ b.made <= time'.passed
      /\ \A f \in ledger' : \E b \in begun' : f = Receipt(b)'
      /\ Latest' /\ InLedger' /\ NoSecond'
  <2>1. ledger' \subseteq ledger
    BY <1>3, KeptIs
  <2> QED BY <1>1, <1>4, <2>1, LooksReceipts
<1>6. New'
  <2>1. ASSUME NEW a \in begun, Repeatable(a), a.key = k, a.digest = d
        PROVE  time.passed - a.made >= Ttl
    <3>1. Receipt(a) \in ledger \/ time.passed - a.made >= Ttl
      BY <1>1, <2>1 DEF Receipts, InLedger
    <3>2. Receipt(a) \notin Kept(Clock)
      BY <1>1, <2>1 DEF Receipt
    <3> QED BY <3>1, <3>2, LookDrops, PastNumbers, TtlType
  <2>2. \A a : Repeatable(a)' <=> Repeatable(a)
    BY <1>1 DEF Repeatable, Live
  <2> QED BY <1>1, <1>2, <2>1, <2>2 DEF New
<1>7. Recorded'
  BY <1>1, <1>2, <1>5, PastNumbers DEF Recorded, Clock, AnswerTrue
<1> QED BY <1>5, <1>6, <1>7 DEF Receipts

\* A request is given the operation o, a new one or that of the restart under way.
LEMMA EntersReceipts ==
  ASSUME Receipts, Stable, Stable', web.stage \in {"fresh", "control", "lease"},
         NEW o \in Nat, Remember(o), o <= registry'.last,
         web'.stage \in {"send", "insert"}, web'.op = o, web'.key = web.key,
         web'.digest = web.digest, web'.made = web.made, web'.now = web.now,
         UNCHANGED <<time, ledger>>, registry'.last >= registry.last,
         \A b \in begun : Live(b.op)' => Live(b.op),
         \A b \in begun : b.digest = web.digest => b.op <= o,
         Latest'
  PROVE  Receipts'
<1> DEFINE new == [op |-> o, key |-> web.key, digest |-> web.digest, made |-> web.made]
<1>1. /\ new \in begun' /\ \A b \in begun' : b \in begun \/ b = new
      /\ \A b \in begun : (\E e \in ledger : e.op = b.op) => b \in begun'
  BY DEF Remember
<1>2. /\ time.passed \in Nat /\ registry.last \in Nat /\ registry'.last \in Nat
      /\ web.key \in Key /\ web.digest \in Digest /\ web.made \in 0 .. MaxTime
      /\ \A b \in begun : b \in Past /\ b.op \in Nat /\ b.made \in 0 .. MaxTime
  <2>1. RegistryOK'
    BY DEF Stable
  <2>2. registry'.last \in Nat
    BY <2>1, PeriodType DEF RegistryOK
  <2> QED BY <2>2, PastNumbers, PeriodType DEF Requested
<1>3. /\ \A b \in begun : b.made <= web.made
      /\ web.made <= time.passed /\ web.now = (time.start + web.made) % Period
  BY DEF Receipts, Recorded
<1>4. \A b : Receipt(b)' = Receipt(b)
  BY DEF Receipt
<1>5. new \in Past
  BY <1>2 DEF Past
<1>6. Mine' = new
  BY DEF Mine
<1>7. new.op = o /\ new.key = web.key /\ new.digest = web.digest /\ new.made = web.made
  OBVIOUS
<1> HIDE DEF new
<1>8. Recorded'
  <2>1. \A b \in begun' : b \in Past /\ b.op <= registry'.last /\ b.made <= time'.passed
    BY <1>1, <1>2, <1>3, <1>5, <1>7 DEF Receipts, Recorded
  <2>2. \A e \in ledger' : \E b \in begun' : e = Receipt(b)'
    <3>1. ASSUME NEW e \in ledger PROVE \E b \in begun' : e = Receipt(b)
      <4>1. PICK b \in begun : e = Receipt(b)
        BY DEF Receipts, Recorded
      <4>2. e.op = b.op
        BY <4>1 DEF Receipt
      <4> QED BY <1>1, <4>1, <4>2
    <3> QED BY <1>4, <3>1
  <2>3. \A b \in begun' : b.made <= web'.made
    BY <1>1, <1>2, <1>3, <1>7
  <2> QED BY <1>1, <1>3, <1>6, <2>1, <2>2, <2>3 DEF Recorded, AnswerTrue
<1>9. InLedger'
  <2>1. ASSUME NEW a \in begun, Repeatable(a)'
        PROVE  Receipt(a) \in ledger \/ time.passed - a.made >= Ttl
    <3>1. Repeatable(a)
      BY <2>1 DEF Repeatable
    <3> QED BY <3>1 DEF Receipts, InLedger
  <2> QED BY <1>1, <1>4, <1>6, <2>1 DEF InLedger
<1>10. NoSecond'
  <2>1. ASSUME NEW a \in begun', NEW b \in begun', a.key = b.key, a.digest = b.digest,
               a.op < b.op, Live(a.op)', Asks[a.digest] # "catalog"
        PROVE  b.made - a.made >= Ttl
    <3>1. CASE a \in begun /\ b \in begun
      <4>1. Live(a.op)
        BY <2>1, <3>1
      <4> QED BY <2>1, <3>1, <4>1 DEF Receipts, NoSecond
    <3>2. CASE a \in begun /\ b = new
      <4>1. Repeatable(a)
        BY <2>1, <3>2 DEF Repeatable
      <4>2. a.key = web.key /\ a.digest = web.digest /\ b.made = web.made
        BY <1>7, <2>1, <3>2
      <4> QED BY <3>2, <4>1, <4>2 DEF Receipts, New
    <3>3. CASE a = new
      BY <1>1, <1>2, <1>7, <2>1, <3>3
    <3> QED BY <1>1, <3>1, <3>2, <3>3
  <2> QED BY <2>1 DEF NoSecond
<1>11. New'
  BY DEF New
<1> QED BY <1>8, <1>9, <1>10, <1>11 DEF Receipts

\* The request is given its answer, or is about to be put into the ledger.
LEMMA GivenReceipts ==
  ASSUME Receipts, Stable, web.stage = "send", web' = Accepted(web.op),
         UNCHANGED <<begun, time, registry, ledger, control>>
  PROVE  Receipts'
<1>1. web \in Requested /\ web.op \in Id /\ web.made \in 0 .. MaxTime
  BY DEF Stable, WebOK, NoRequest, Requested
<1>2. /\ web'.op = web.op /\ web'.key = web.key /\ web'.digest = web.digest
      /\ web'.now = web.now /\ web'.made = web.made
      /\ web'.stage = IF Retained THEN "insert" ELSE "answered"
  BY <1>1, AcceptedIs
<1>3. Mine' = Mine /\ Mine \in begun
  BY <1>2 DEF Mine, Receipts, Recorded
<1>4. \A b : /\ Receipt(b)' = Receipt(b)
             /\ Repeatable(b)' <=> Repeatable(b)
  BY DEF Receipt, Repeatable, Live
<1>5. AnswerTrue'
  <2>1. web.made - web.made < Ttl
    BY <1>1, TtlType
  <2>2. /\ Mine.op = web.op /\ Mine.key = web.key /\ Mine.digest = web.digest
        /\ Mine.made = web.made
    BY DEF Mine
  <2> QED BY <1>2, <1>3, <2>1, <2>2 DEF AnswerTrue
<1>6. Recorded'
  BY <1>2, <1>3, <1>4, <1>5 DEF Receipts, Recorded
<1>7. InLedger'
  <2>1. ASSUME NEW a \in begun, Repeatable(a)
        PROVE  Receipt(a) \in ledger \/ time.passed - a.made >= Ttl \/ (a = Mine /\ web'.stage = "insert")
    <3>1. a = Mine => Retained
      BY <2>1 DEF Mine, Repeatable, Retained
    <3> QED BY <1>2, <2>1, <3>1 DEF Receipts, InLedger
  <2> QED BY <1>3, <1>4, <2>1 DEF InLedger
<1>8. Latest' /\ NoSecond' /\ New'
  BY <1>2 DEF Receipts, Latest, NoSecond, New, Live
<1> QED BY <1>6, <1>7, <1>8 DEF Receipts

LEMMA InsertReceipts ==
  ASSUME Receipts, Stable, Insert
  PROVE  Receipts'
<1>1. /\ web.stage = "insert" /\ web \in Requested
      /\ UNCHANGED <<begun, time, registry, control>>
  BY DEF Insert, Stable, WebOK, NoRequest
<1>2. Cardinality(Kept(web.now)) < Entries
  BY <1>1, LedgerRoom DEF PlaceKept
<1>3. /\ web' = [web EXCEPT !.stage = "answered"]
      /\ ledger' = Kept(web.now) \cup {[key |-> web.key, digest |-> web.digest,
                                        op |-> web.op, at |-> web.now]}
  BY <1>2 DEF Insert
<1>4. /\ web'.op = web.op /\ web'.key = web.key /\ web'.digest = web.digest
      /\ web'.now = web.now /\ web'.made = web.made /\ web'.stage = "answered"
  BY <1>1, <1>3 DEF Requested
<1>5. /\ Mine \in begun /\ web.made \in 0 .. MaxTime /\ time.passed \in 0 .. MaxTime
      /\ web.made <= time.passed
      /\ web.now = (time.start + web.made) % Period
      /\ \A b \in begun : b \in Past /\ b.made \in 0 .. MaxTime /\ b.made <= web.made
  BY <1>1, PastNumbers DEF Receipts, Recorded
<1>6. ledger' = Kept(web.now) \cup {Receipt(Mine)}
  BY <1>3, <1>5 DEF Receipt, Mine
<1>7. \A b : /\ Receipt(b)' = Receipt(b)
             /\ Repeatable(b)' <=> Repeatable(b)
  BY <1>1 DEF Receipt, Repeatable, Live
<1>8. AnswerTrue'
  <2>1. web.made - web.made < Ttl
    BY <1>5, TtlType
  <2>2. /\ Mine.op = web.op /\ Mine.key = web.key /\ Mine.digest = web.digest
        /\ Mine.made = web.made
    BY DEF Mine
  <2> QED BY <1>1, <1>4, <1>5, <2>1, <2>2 DEF AnswerTrue
<1>9. Recorded'
  <2>1. \A e \in ledger' : \E b \in begun' : e = Receipt(b)'
    <3>1. \A e \in Kept(web.now) : \E b \in begun : e = Receipt(b)
      BY KeptIs DEF Receipts, Recorded
    <3> QED BY <1>1, <1>5, <1>6, <1>7, <3>1
  <2> QED BY <1>1, <1>4, <1>5, <1>8, <2>1 DEF Receipts, Recorded
<1>10. InLedger'
  <2>1. ASSUME NEW a \in begun, Repeatable(a)
        PROVE  Receipt(a) \in ledger' \/ time.passed - a.made >= Ttl
    <3>1. CASE Receipt(a) \in ledger
      <4>1. Receipt(a) \in Kept(web.now) <=> web.made - a.made < Ttl
        BY <1>5, <3>1, Dropped DEF Stable
      <4> QED BY <1>5, <1>6, <4>1, TtlType
    <3>2. CASE a = Mine
      BY <1>6, <3>2
    <3> QED BY <2>1, <3>1, <3>2 DEF Receipts, InLedger
  <2> QED BY <1>1, <1>7, <2>1 DEF InLedger
<1>11. Latest' /\ NoSecond' /\ New'
  BY <1>1, <1>4 DEF Receipts, Latest, NoSecond, New, Live
<1> QED BY <1>9, <1>10, <1>11 DEF Receipts

LEMMA ReceiptsStep == IdempotentInv /\ Stable' /\ [Next]_vars => Receipts'
<1> SUFFICES ASSUME IdempotentInv, Stable', [Next]_vars PROVE Receipts'
  OBVIOUS
<1>0. GateInv /\ Stable /\ Receipts
  BY DEF IdempotentInv, PlacedInv
<1>a. /\ TimeOK /\ RegistryOK /\ WebOK /\ GateOK /\ Active /\ Leasing
      /\ time.passed \in Nat /\ registry.last \in Nat
      /\ \A b \in begun : b.op \in Nat /\ b.op <= registry.last
  BY <1>0, PastNumbers, PeriodType DEF Stable, GateInv, Receipts, Recorded
<1>b. ASSUME FreeSlots # {}, NewId \in Id,
             NEW state \in {"queued", "done"}, registry' = Opened(state)
      PROVE  /\ registry'.last = NewId /\ NewId \in Nat /\ registry'.last >= registry.last
             /\ \A b \in begun : (Live(b.op)' => Live(b.op)) /\ b.op <= NewId
  <2>1. registry'.last = NewId /\ NewId = registry.last + 1
    BY <1>0, <1>b, OpenedIs DEF NewId
  <2>2. \A b \in begun : b.op # NewId
    BY <1>a, <2>1
  <2> QED BY <1>0, <1>a, <1>b, <2>1, <2>2, OpenedIs
<1>c. ASSUME NEW o, NEW state \in {"running", "done"}, registry' = Updated(o, state)
      PROVE  /\ registry'.last >= registry.last
             /\ \A b \in begun : Live(b.op)' => Live(b.op)
             /\ state = "done" => \A b \in begun : b.op = o => ~Live(b.op)'
  BY <1>0, <1>a, <1>c, UpdatedIs
<1>d. UNCHANGED registry => /\ registry'.last >= registry.last
                            /\ \A b \in begun : Live(b.op)' => Live(b.op)
  BY <1>a, LiveSame
<1>1. ASSUME NEW k \in Key, NEW d \in Digest, Replay(k, d) \/ Reject(k, d) \/ Proceed(k, d)
      PROVE  Receipts'
  BY <1>0, <1>1, ReplayReceipts, RejectReceipts, ProceedReceipts
<1>2. CASE Begin
  <2>1. web \in Requested /\ web.stage = "fresh" /\ Kind \in Command
          /\ UNCHANGED <<time, ledger, control>>
    BY <1>2, <1>a DEF Begin, WebOK, NoRequest
  <2>2. CASE FreeSlots = {}
    <3>1. web' = NoRequest /\ UNCHANGED <<registry, begun>>
      BY <1>2, <2>2 DEF Begin
    <3> QED BY <1>0, <1>d, <2>1, <3>1, EndsReceipts
  <2>3. CASE FreeSlots # {}
    <3>1. /\ registry' = Opened("queued") /\ web' = [web EXCEPT !.stage = "send", !.op = NewId]
          /\ Remember(NewId)
      BY <1>2, <2>3 DEF Begin
    <3>2. NewId \in Id
      BY <1>a, <2>1, PeriodType DEF RegistryOK, NewId
    <3>3. /\ web'.stage = "send" /\ web'.op = NewId /\ web'.key = web.key
          /\ web'.digest = web.digest /\ web'.made = web.made /\ web'.now = web.now
      BY <2>1, <3>1, <3>2, GoesOn
    <3>4. Latest'
      <4>1. Asks[web.digest] \notin Restarting
        BY <2>1 DEF Kind, Command, Restarting
      <4> QED BY <1>0, <2>1, <3>1, <4>1 DEF Receipts, Latest, Remember
    <3> QED BY <1>0, <1>b, <2>1, <2>3, <3>1, <3>2, <3>3, <3>4, EntersReceipts
  <2> QED BY <2>2, <2>3
<1>3. CASE Restartable \/ Acquire
  <2>1. web \in Requested /\ web.stage \in {"fresh", "control"}
          /\ UNCHANGED <<time, registry, ledger, begun, control>>
    BY <1>3, <1>a DEF Restartable, Acquire, WebOK, NoRequest
  <2>2. web' = NoRequest \/ \E stage \in {"control", "lease"} : web' = [web EXCEPT !.stage = stage]
    BY <1>3 DEF Restartable, Acquire
  <2>3. CASE web' = NoRequest
    BY <1>0, <1>d, <2>1, <2>3, EndsReceipts
  <2>4. CASE \E stage \in {"control", "lease"} : web' = [web EXCEPT !.stage = stage]
    <3>1. /\ web'.stage \in {"control", "lease"} /\ web'.op = web.op /\ web'.key = web.key
          /\ web'.digest = web.digest /\ web'.made = web.made /\ web'.now = web.now
      BY <2>1, <2>4 DEF Requested
    <3>2. \A b : /\ Receipt(b)' = Receipt(b)
                 /\ Repeatable(b)' <=> Repeatable(b)
      BY <2>1 DEF Receipt, Repeatable, Live
    <3>3. Recorded' /\ Latest'
      BY <1>0, <2>1, <3>1, <3>2 DEF Receipts, Recorded, Latest, AnswerTrue
    <3>4. InLedger' /\ New' /\ NoSecond'
      BY <1>0, <2>1, <3>1, <3>2 DEF Receipts, InLedger, New, NoSecond, Live
    <3> QED BY <3>3, <3>4 DEF Receipts
  <2> QED BY <2>2, <2>3, <2>4
<1>4. CASE Send
  <2>1. web.stage = "send" /\ UNCHANGED <<time, ledger, begun, control>>
    BY <1>4 DEF Send
  <2>2. CASE web' = Accepted(web.op) /\ UNCHANGED registry
    BY <1>0, <2>1, <2>2, GivenReceipts
  <2>3. CASE web' = NoRequest /\ registry' = Updated(web.op, "done")
    BY <1>0, <1>c, <2>1, <2>3, EndsReceipts
  <2> QED BY <1>4, <2>2, <2>3 DEF Send
<1>5. CASE Insert
  BY <1>0, <1>5, InsertReceipts
<1>6. CASE Answer
  <2>1. web.stage = "answered" /\ web' = NoRequest
          /\ UNCHANGED <<time, registry, ledger, begun, control>>
    BY <1>6 DEF Answer
  <2> QED BY <1>0, <1>d, <2>1, EndsReceipts
<1>7. CASE Join
  <2>1. web \in Requested /\ web.stage = "control" /\ control.op # 0 /\ control.op \in Id
          /\ Kind \in Restarting /\ web' = Accepted(control.op) /\ Remember(control.op)
          /\ UNCHANGED <<time, registry, ledger, control>>
    BY <1>7, <1>a DEF Join, WebOK, NoRequest, GateOK, Leasing
  <2>2. Retained
    BY <2>1 DEF Retained, Kind, Restarting
  <2>3. /\ web'.stage = "insert" /\ web'.op = control.op /\ web'.key = web.key
        /\ web'.digest = web.digest /\ web'.made = web.made /\ web'.now = web.now
    BY <2>1, <2>2, AcceptedIs
  <2>4. control.op \in Nat /\ control.op <= registry'.last
    <3>1. Live(control.op)
      <4>1. control.op \in Real /\ Grip(-4, control.op)
        BY <2>1, PeriodType DEF Real, Grip
      <4> QED BY <4>1 DEF IdempotentInv, PlacedInv, Held
    <3>2. PICK i \in DOMAIN registry.slots : registry.slots[i].id = control.op
      BY <3>1 DEF Live
    <3>3. i \in 0 .. Slots - 1
      BY <1>a, <3>2 DEF RegistryOK
    <3> QED BY <1>0, <2>1, <3>2, <3>3, IdsBounded, PeriodType
  <2>5. \A b \in begun : b.digest = web.digest => b.op <= control.op
    BY <1>0, <2>1 DEF Receipts, Latest, Kind
  <2>6. Latest'
    BY <1>0, <2>1, <2>4 DEF Receipts, Latest, Remember
  <2> QED BY <1>0, <1>d, <2>1, <2>3, <2>4, <2>5, <2>6, EntersReceipts
<1>8. CASE Collide
  <2>1. web' = NoRequest /\ web.stage = "control" /\ UNCHANGED <<time, ledger, begun, control>>
    BY <1>8 DEF Collide
  <2>2. registry'.last >= registry.last /\ \A b \in begun : Live(b.op)' => Live(b.op)
    <3>1. CASE FreeSlots = {}
      BY <1>8, <1>d, <3>1 DEF Collide
    <3>2. CASE FreeSlots # {}
      <4>1. NewId \in Id /\ registry' = Opened("done")
        BY <1>8, <1>a, <3>2, PeriodType DEF Collide, RegistryOK, NewId
      <4> QED BY <1>b, <3>2, <4>1
    <3> QED BY <3>1, <3>2
  <2> QED BY <1>0, <2>1, <2>2, EndsReceipts
<1>9. CASE Lease
  <2>1. web \in Requested /\ web.stage = "lease" /\ control.op = 0 /\ Kind \in Restarting
          /\ UNCHANGED <<time, ledger>>
    BY <1>9, <1>a DEF Lease, WebOK, NoRequest, Leasing
  <2>2. CASE FreeSlots = {}
    <3>1. web' = NoRequest /\ UNCHANGED <<registry, control, begun>>
      BY <1>9, <2>2 DEF Lease
    <3> QED BY <1>0, <1>d, <2>1, <3>1, EndsReceipts
  <2>3. CASE FreeSlots # {}
    <3>1. /\ registry' = Opened("queued") /\ web' = Accepted(NewId) /\ Remember(NewId)
          /\ control' = [stage |-> "queued", op |-> NewId, action |-> Kind]
      BY <1>9, <2>3 DEF Lease
    <3>2. NewId \in Id
      BY <1>a, <2>1, PeriodType DEF RegistryOK, NewId
    <3>3. Retained
      BY <2>1 DEF Retained, Kind, Restarting
    <3>4. /\ web'.stage = "insert" /\ web'.op = NewId /\ web'.key = web.key
          /\ web'.digest = web.digest /\ web'.made = web.made /\ web'.now = web.now
      BY <2>1, <3>1, <3>2, <3>3, AcceptedIs
    <3>5. /\ registry'.last = NewId /\ NewId \in Nat /\ registry'.last >= registry.last
          /\ \A b \in begun : (Live(b.op)' => Live(b.op)) /\ b.op <= NewId
      BY <1>b, <2>3, <3>1, <3>2
    <3>6. Latest'
      BY <3>1, <3>5 DEF Latest, Remember
    <3> QED BY <1>0, <2>1, <3>1, <3>4, <3>5, <3>6, EntersReceipts
  <2> QED BY <2>2, <2>3
<1>10. ASSUME NEW kind \in UiKinds, UiBegin(kind) PROVE Receipts'
  <2>1. UNCHANGED <<time, ledger, web, control, begun>> /\ FreeSlots # {}
          /\ registry' = Opened("queued")
    BY <1>10 DEF UiBegin
  <2>2. NewId \in Id
    BY <1>10, <1>a, PeriodType DEF UiBegin, IdsLeft, RegistryOK, NewId
  <2> QED BY <1>0, <1>a, <1>b, <2>1, <2>2, OthersReceipts
<1>11. CASE UiSend \/ Take \/ Serve \/ AutoUpdate
  <2>1. UNCHANGED <<time, ledger, web, control, begun>>
          /\ (\/ UNCHANGED registry \/ registry' = Updated(ui.op, "done")
              \/ registry' = Updated(worker.task.op, "done")
              \/ registry' = Updated(worker.task.op, "running"))
    BY <1>11 DEF UiSend, Take, Serve, Refuse, Start, Change, Finish, End, AutoEnd, AutoUpdate
  <2>2. registry'.last >= registry.last /\ \A b \in begun : Live(b.op)' => Live(b.op)
    BY <1>c, <1>d, <2>1
  <2> QED BY <1>0, <1>a, <2>1, <2>2, OthersReceipts
<1>12. CASE ControlTake \/ EraseFailed \/ Proceeds
  <2>1. UNCHANGED <<time, ledger, web, begun>>
          /\ (control'.op = control.op \/ control'.op = 0)
          /\ (\/ UNCHANGED registry \/ registry' = Updated(control.op, "done")
              \/ registry' = Updated(control.op, "running"))
    BY <1>12, <1>a DEF ControlTake, EraseFailed, Proceeds, NoControl, GateOK
  <2>2. registry'.last >= registry.last /\ \A b \in begun : Live(b.op)' => Live(b.op)
    BY <1>c, <1>d, <2>1
  <2> QED BY <1>0, <1>a, <2>1, <2>2, OthersReceipts
<1>13. CASE EspRestart
  <2>1. web' = NoRequest /\ ledger' = {} /\ begun' = {}
    BY <1>13 DEF EspRestart
  <2> QED BY <2>1, NoRequestIs DEF Receipts, Recorded, Latest, InLedger, New, NoSecond, AnswerTrue
<1>14. CASE OtaTakes \/ OtaReleases \/ Tick \/ UNCHANGED vars
  <2>1. UNCHANGED <<registry, ledger, web, control, begun>>
    BY <1>14 DEF OtaTakes, OtaReleases, Tick, vars
  <2>2. time'.start = time.start /\ time'.passed >= time.passed
    BY <1>14, <1>a DEF OtaTakes, OtaReleases, Tick, vars, TimeOK
  <2> QED BY <1>0, <1>d, <2>1, <2>2, OthersReceipts
<1> QED
  BY <1>1, <1>2, <1>3, <1>4, <1>5, <1>6, <1>7, <1>8, <1>9, <1>10, <1>11, <1>12, <1>13, <1>14
  DEF Next, Web, Control

\* A request that is repeated while its operation is live, and within the
\* retention, is answered with that operation and begins no other, also when
\* millis() has wrapped in between (application_api_context.cpp:1438-1440,
\* idempotency_ledger.cpp:7-12).
THEOREM AnsweredOnce == Spec => []Idempotent
<1>1. Init => IdempotentInv
  BY GateInit, StableInit, CarriedInit, ReceiptsInit DEF IdempotentInv, PlacedInv
<1>2. IdempotentInv /\ [Next]_vars => IdempotentInv'
  BY GateStep, StableStep, CarriedStep, ReceiptsStep DEF IdempotentInv, PlacedInv
<1>3. IdempotentInv => Idempotent
  BY DEF IdempotentInv, Receipts, Recorded, Idempotent
<1> QED BY <1>1, <1>2, <1>3, PTL DEF Spec
=============================================================================
