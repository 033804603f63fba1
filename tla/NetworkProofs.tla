---------------------------- MODULE NetworkProofs ----------------------------
(* Theorems of the network task and Save & Connect, for every set of        *)
(* networks, every request of the clients and every bound: a Save & Connect *)
(* succeeds in the name of the network it was asked for, and the results of *)
(* a scan stay until the driver is through with them.                       *)
EXTENDS Network, SequenceTheorems, TLAPS

USE DEF vars, tasks, network

AnySsid == Ssids \cup {NoSsid}
AskKind == {"connect", "patch", "touch"}
Kind == {"scan", "setup"} \cup AskKind
State == {"running", "succeeded", "failed", "ended"}
Stage == {"idle", "receipt", "save", "submit", "wait", "abandon", "result"}

\* The types that TypeOK leaves open.
Operation == [kind : Kind, ssid : AnySsid, state : State]
OpsOK == ops \in Seq(Operation) /\ Len(ops) <= MaxOps
ApplyOK ==
  apply \in [pending : [op : Op, some : BOOLEAN, settings : Settings],
             active : Op, completed : Op, ending : [op : Op, state : State]]
WorkerOK ==
  /\ worker \in [stage : Stage, op : Op, kind : AskKind, detached : BOOLEAN,
                 settings : Settings]
  /\ queue \in Seq([op : Op, kind : AskKind, settings : Settings, receipt : BOOLEAN])
  /\ saved \in [settings : Settings, ready : BOOLEAN]

TypeInv == TypeOK /\ OpsOK /\ ApplyOK /\ WorkerOK

\* What is done in the name of an operation is what it was begun for.
Of(op, kinds) == op \in DOMAIN ops /\ ops[op].kind \in kinds
Asked(op, kind, settings) ==
  /\ Of(op, {kind}) /\ ops[op].ssid = settings.ssid
  /\ kind = "connect" => settings.ssid # NoSsid
Applies(op, ssid) ==
  /\ Of(op, AskKind) /\ ops[op].ssid = ssid
  /\ ops[op].kind = "connect" => ssid # NoSsid

\* The claims of the web task, and a scan that runs.
ClaimInv ==
  /\ scan.op # 0 => Of(scan.op, {"scan"})
  /\ asked.scan # 0 => Of(asked.scan, {"scan"})
  /\ asked.setup # 0 => Of(asked.setup, {"setup"})

\* The commands of the configuration task.
CommandInv ==
  /\ \A i \in DOMAIN queue : Asked(queue[i].op, queue[i].kind, queue[i].settings)
  /\ worker.stage # "idle" => Asked(worker.op, worker.kind, worker.settings)

\* The settings on their way to the radio, and those that are there.
ApplyInv ==
  /\ radio.ssid = wifi.settings.ssid
  /\ apply.pending.op # 0 => Applies(apply.pending.op, apply.pending.settings.ssid)
  /\ apply.active # 0 => Applies(apply.active, radio.ssid)

\* A success that is still to be published has its network.
EndingInv ==
  apply.ending.op # 0 =>
    /\ Of(apply.ending.op, AskKind)
    /\ apply.ending.state = "succeeded" /\ ops[apply.ending.op].kind = "connect" =>
         Joined(apply.ending.op)

ScanInv == radio.scan = "running" => scan.running

IInv ==
  /\ TypeInv /\ ClaimInv /\ CommandInv /\ ApplyInv /\ EndingInv /\ ScanInv /\ JoinedTrue
-----------------------------------------------------------------------------
(* Operations *)

\* What a step keeps of the operations there are.
Keeps ==
  \A o \in DOMAIN ops :
    /\ o \in DOMAIN ops'
    /\ ops'[o].kind = ops[o].kind /\ ops'[o].ssid = ops[o].ssid
    /\ ops[o].state = "succeeded" => ops'[o].state = "succeeded"

\* Only the operations of S become a Save & Connect that succeeded.
Connects(S) ==
  \A o \in DOMAIN ops' :
    ops'[o].kind = "connect" /\ ops'[o].state = "succeeded" =>
      (o \in DOMAIN ops /\ Connected(o)) \/ o \in S

LEMMA UpdatedOps ==
  ASSUME OpsOK, NEW op, NEW state \in State, ops' = Updated(op, state)
  PROVE  /\ OpsOK' /\ Keeps
         /\ Connects({o \in DOMAIN ops : o = op /\ state = "succeeded"
                                        /\ ops[o].kind = "connect"})
<1>1. \A o \in DOMAIN ops : ops[o] \in Operation
  BY DEF OpsOK
<1>2. CASE op \in DOMAIN ops /\ ops[op].state = "running"
  <2> DEFINE new == How(ops[op].kind, state)
  <2>1. new \in State
    BY DEF How, State
  <2> HIDE DEF new
  <2>2. ops' = [ops EXCEPT ![op].state = new]
    BY <1>2 DEF Updated, new
  <2>3. [ops[op] EXCEPT !.state = new] \in Operation
    BY <1>1, <1>2, <2>1 DEF Operation
  <2>4. ops' \in Seq(Operation) /\ DOMAIN ops' = DOMAIN ops /\ Len(ops') = Len(ops)
    BY <1>2, <2>2, <2>3 DEF OpsOK
  <2>5. Keeps
    BY <1>1, <1>2, <2>2, <2>4 DEF Keeps, Operation
  <2>6. \A o \in DOMAIN ops : o # op => ops'[o] = ops[o]
    BY <2>2
  <2>7. ops'[op].kind = ops[op].kind /\ ops'[op].state = new
    BY <1>1, <1>2, <2>2 DEF Operation
  <2>8. new = "succeeded" => state = "succeeded"
    BY DEF new, How
  <2> QED BY <1>2, <2>4, <2>5, <2>6, <2>7, <2>8 DEF OpsOK, Connects, Connected
<1>3. CASE ~(op \in DOMAIN ops /\ ops[op].state = "running")
  BY <1>3 DEF Updated, OpsOK, Keeps, Connects, Connected
<1> QED BY <1>2, <1>3

LEMMA BegunOps ==
  ASSUME OpsOK, OpsLeft, NEW kind \in Kind, NEW state \in {"running", "failed"},
         NEW ssid \in AnySsid, ops' = Begun(kind, state, ssid)
  PROVE  /\ OpsOK' /\ Keeps /\ Connects({})
         /\ NewOp \in Op \ {0} /\ NewOp \in DOMAIN ops'
         /\ ops'[NewOp].kind = kind /\ ops'[NewOp].ssid = ssid
<1> DEFINE new == [kind |-> kind, ssid |-> ssid,
                   state |-> IF state = "running" THEN state ELSE How(kind, state)]
<1>1. new \in Operation /\ new.state # "succeeded" /\ new.kind = kind /\ new.ssid = ssid
  BY DEF How, Operation, State
<1>2. ops' = Append(ops, new)
  BY DEF Begun
<1> HIDE DEF new
<1>3. /\ ops \in Seq(Operation) /\ Len(ops) \in Nat /\ Len(ops) < MaxOps /\ MaxOps \in Nat
      /\ DOMAIN ops = 1 .. Len(ops)
  BY BoundAssumption DEF OpsOK, OpsLeft
<1>4. /\ ops' \in Seq(Operation) /\ Len(ops') = Len(ops) + 1 /\ DOMAIN ops' = 1 .. Len(ops) + 1
      /\ ops'[Len(ops) + 1] = new /\ \A o \in 1 .. Len(ops) : ops'[o] = ops[o]
  BY <1>1, <1>2, <1>3
<1>5. OpsOK' /\ Keeps
  BY <1>3, <1>4 DEF OpsOK, Keeps
<1>6. Connects({})
  BY <1>1, <1>3, <1>4 DEF Connects, Connected
<1> QED BY <1>1, <1>3, <1>4, <1>5, <1>6 DEF NewOp, Op

\* A failure is of no Save & Connect, and neither is the end of a scan.
LEMMA OpsStep ==
  ASSUME TypeInv, ClaimInv, CommandInv, [Next]_vars
  PROVE  /\ OpsOK' /\ Keeps
         /\ Connects({o \in DOMAIN ops : o = apply.ending.op /\ o # 0
                /\ apply.ending.state = "succeeded" /\ ops[o].kind = "connect"})
<1> DEFINE S == {o \in DOMAIN ops : o = apply.ending.op /\ o # 0
                /\ apply.ending.state = "succeeded" /\ ops[o].kind = "connect"}
<1> SUFFICES OpsOK' /\ Keeps /\ Connects(S)
  OBVIOUS
<1>1. DOMAIN ops \subseteq Nat \ {0} /\ OpsOK
  BY DEF TypeInv, OpsOK
<1>2. ASSUME UNCHANGED ops PROVE OpsOK' /\ Keeps /\ Connects(S)
  BY <1>1, <1>2 DEF OpsOK, Keeps, Connects, Connected
<1>3. ASSUME NEW op, ops' = Updated(op, "failed") PROVE OpsOK' /\ Keeps /\ Connects(S)
  <2>1. "failed" \in State
    BY DEF State
  <2> QED BY <1>1, <1>3, <2>1, UpdatedOps DEF Connects
<1>4. ASSUME NEW op, NEW state \in State, ops' = Updated(op, state),
             op # 0 => Of(op, {"scan", "setup", "patch", "touch"})
      PROVE  OpsOK' /\ Keeps /\ Connects(S)
  BY <1>1, <1>4, UpdatedOps DEF Connects, Of
<1>5. CASE Publish
  <2>1. apply.ending.state \in State
    BY DEF TypeInv, ApplyOK
  <2> QED BY <1>1, <1>5, <2>1, UpdatedOps DEF Publish, Connects
<1>6. CASE PollRequests \/ PollScan \/ PollSetup
  <2>1. {"succeeded", "failed"} \subseteq State
    BY DEF State
  <2>2. \/ UNCHANGED ops
        \/ \E state \in {"succeeded", "failed"} :
             \E op \in {scan.op, asked.scan, asked.setup} : ops' = Updated(op, state)
    BY <1>6 DEF PollRequests, PollScan, PollSetup, SetupCompleted, SetupStopped, ScanEnds
  <2> QED BY <1>2, <1>4, <2>1, <2>2 DEF ClaimInv, Of
<1>7. CASE AskScan \/ \E flag \in {"start", "stop"} : AskSetup(flag)
  <2>1. \E kind \in Kind, state \in {"running", "failed"} :
          OpsLeft /\ ops' = Begun(kind, state, NoSsid)
    BY <1>7 DEF AskScan, AskSetup, Kind
  <2>2. NoSsid \in AnySsid
    BY DEF AnySsid
  <2> QED BY <1>1, <2>1, <2>2, BegunOps DEF Connects
<1>8. ASSUME NEW ask \in Asks, Submit(ask[1], ask[2]) PROVE OpsOK' /\ Keeps /\ Connects(S)
  <2>1. ask[1] \in Kind /\ ask[2].ssid \in AnySsid
    BY AskAssumption DEF Kind, AskKind, Settings, AnySsid
  <2>2. \E state \in {"running", "failed"} : OpsLeft /\ ops' = Begun(ask[1], state, ask[2].ssid)
    BY <1>8 DEF Submit, SubmitReplace
  <2> QED BY <1>1, <2>1, <2>2, BegunOps DEF Connects
<1>9. CASE Save
  <2>1. \/ UNCHANGED ops \/ ops' = Updated(worker.op, "failed")
        \/ ops' = Updated(worker.op, "succeeded") /\ worker.kind # "connect"
    BY <1>9 DEF Save
  <2>2. "succeeded" \in State
    BY DEF State
  <2>3. worker.kind # "connect" => Of(worker.op, {"scan", "setup", "patch", "touch"})
    BY <1>9 DEF Save, CommandInv, Asked, Of, TypeInv, WorkerOK, AskKind
  <2> QED BY <1>2, <1>3, <1>4, <2>1, <2>2, <2>3
<1>10. CASE ReceiptExpires \/ Handover \/ Detach
  BY <1>2, <1>3, <1>10 DEF ReceiptExpires, Handover, Detach
<1> QED
  BY <1>2, <1>5, <1>6, <1>7, <1>8, <1>9, <1>10 DEF Next, Poll, Work, Reach, Join, ScanDone,
    Elapse, PollSettings, PollPolicy, PollLink, Acknowledge, ReceiptLost, Fetch, ReceiptSeen,
    Finished, Result, Abandon
-----------------------------------------------------------------------------
(* Types *)

Wifi ==
  [settings : Settings,
   state : {"unconfigured", "connecting", "connected", "backoff", "disconnected", "fault"},
   was : BOOLEAN, ap : BOOLEAN, pending : BOOLEAN, reason : Reason,
   failures : 0 .. Threshold, grace : BOOLEAN, timed : BOOLEAN]

\* The policy leaves the settings alone.
LEMMA Policy ==
  ASSUME NEW w \in Wifi
  PROVE  /\ Cleared(w) \in Wifi /\ Cleared(w).settings = w.settings
         /\ Requested(w) \in Wifi /\ Requested(w).settings = w.settings
         /\ Failed(w) \in Wifi /\ Failed(w).settings = w.settings
         /\ Abandoned(w) \in Wifi /\ Abandoned(w).settings = w.settings
<1>1. ASSUME NEW v \in Wifi PROVE Failed(v) \in Wifi /\ Failed(v).settings = v.settings
  <2>1. v.failures \in 0 .. Threshold /\ Threshold \in Nat \ {0}
    BY BoundAssumption DEF Wifi
  <2> DEFINE f == IF v.failures < Threshold THEN v.failures + 1 ELSE Threshold
  <2>2. f \in 0 .. Threshold
    BY <2>1
  <2> HIDE DEF f
  <2> DEFINE c == v.reason # "unconfigured" /\ f >= Threshold
             r == IF c THEN "failures" ELSE v.reason
             t == IF c THEN FALSE ELSE v.timed
  <2>3. r \in Reason /\ t \in BOOLEAN
    BY DEF Wifi, Reason
  <2>4. Failed(v) = [v EXCEPT !.failures = f, !.grace = FALSE, !.reason = r, !.timed = t]
    BY DEF Failed, f, Wifi
  <2> HIDE DEF c, r, t
  <2> QED BY <2>2, <2>3, <2>4 DEF Wifi
<1>2. [w EXCEPT !.failures = Threshold - 1] \in Wifi
  <2>1. Threshold - 1 \in 0 .. Threshold
    BY BoundAssumption
  <2> QED BY <2>1 DEF Wifi
<1>3. [w EXCEPT !.failures = Threshold - 1].settings = w.settings
  BY DEF Wifi
<1>4. Abandoned(w) \in Wifi /\ Abandoned(w).settings = w.settings
  BY <1>1, <1>2, <1>3 DEF Abandoned
<1>5. Cleared(w) \in Wifi /\ Cleared(w).settings = w.settings
  BY DEF Cleared, Wifi, Reason
<1>6. Requested(w) \in Wifi /\ Requested(w).settings = w.settings
  BY DEF Requested, Stoppable, Wifi, Reason
<1> QED BY <1>1, <1>4, <1>5, <1>6

\* Handing settings over, step by step of the poll.
LEMMA PolicyStep ==
  ASSUME TypeInv, NEW up \in BOOLEAN, SetupCompleted(up) \/ Reconnect(up) \/ SetupStopped
  PROVE  wifi' \in Wifi /\ wifi'.settings = wifi.settings
<1>1. wifi \in Wifi
  BY DEF TypeInv, TypeOK, Wifi
<1>2. CASE SetupCompleted(up)
  <2>1. \E w \in Wifi : w.settings = wifi.settings
                        /\ wifi' = [w EXCEPT !.pending = FALSE, !.ap = up]
    BY <1>1, <1>2, Policy DEF SetupCompleted
  <2> QED BY <2>1 DEF Wifi
<1>3. CASE Reconnect(up)
  <2>1. \E w \in Wifi : \E ap \in BOOLEAN : \E state \in {"backoff", "disconnected"} :
          w.settings = wifi.settings
            /\ wifi' = [w EXCEPT !.was = FALSE, !.ap = ap, !.state = state]
    <3> DEFINE w == IF wifi.settings.auto THEN Failed(wifi) ELSE Abandoned(wifi)
               ap == IF w.reason # "none" THEN up ELSE w.ap
               state == IF wifi.settings.auto THEN "backoff" ELSE "disconnected"
    <3>1. w \in Wifi /\ w.settings = wifi.settings
      BY <1>1, Policy
    <3>2. ap \in BOOLEAN
      BY <3>1 DEF Wifi
    <3>3. wifi' = [w EXCEPT !.was = FALSE, !.ap = ap, !.state = state]
      BY <1>3, <3>1 DEF Reconnect, Wifi
    <3> QED BY <3>1, <3>2, <3>3
  <2> QED BY <2>1 DEF Wifi
<1>4. CASE SetupStopped
  BY <1>1, <1>4, Policy DEF SetupStopped
<1> QED BY <1>2, <1>3, <1>4

RadioOK ==
  radio \in [link : {"down", "joining", "up"}, ssid : AnySsid, scan : {"none", "running", "done"}]
ScanOK == scan \in [requested : BOOLEAN, running : BOOLEAN, stopped : BOOLEAN, op : Op]
AskedOK == asked \in [scan : Op, setup : Op, start : BOOLEAN, stop : BOOLEAN]

LEMMA TypeParts ==
  TypeInv <=> /\ RadioOK /\ wifi \in Wifi /\ ScanOK /\ AskedOK /\ due \subseteq Timers
              /\ OpsOK /\ ApplyOK /\ WorkerOK /\ web \in Op
  BY DEF TypeInv, TypeOK, Wifi, RadioOK, ScanOK, AskedOK, ApplyOK, AnySsid

\* The steps of the others leave the network task alone.
Others ==
  \/ AskScan \/ (\E flag \in {"start", "stop"} : AskSetup(flag))
  \/ (\E ask \in Asks : Submit(ask[1], ask[2]))
  \/ Acknowledge \/ ReceiptLost \/ Work \/ ReceiptExpires \/ Abandon \/ UNCHANGED vars

LEMMA OthersKeep ==
  ASSUME Others
  PROVE  UNCHANGED <<radio, wifi, due, joined>>
  BY DEF Others, AskScan, AskSetup, Submit, Acknowledge, ReceiptLost, Work, Fetch, ReceiptSeen,
    Save, Handover, Finished, Detach, Result, ReceiptExpires, Abandon

LEMMA Actions ==
  ASSUME [Next]_vars
  PROVE  \/ Others \/ (\E n \in Ssids : Reach(n)) \/ Join \/ ScanDone
         \/ (\E t \in Timers : Elapse(t)) \/ Publish
         \/ PollRequests \/ PollSettings \/ PollPolicy \/ PollScan \/ PollSetup \/ PollLink
  BY DEF Next, Poll, Others

LEMMA RadioStep == TypeInv /\ [Next]_vars => RadioOK'
<1> SUFFICES ASSUME TypeInv, [Next]_vars PROVE RadioOK'
  OBVIOUS
<1>1. RadioOK /\ ApplyOK /\ wifi \in Wifi
  BY TypeParts
<1>2. ASSUME NEW n \in Ssids, Reach(n) PROVE RadioOK'
  BY <1>1, <1>2 DEF Reach, RadioOK
<1>3. CASE Join \/ ScanDone
  BY <1>1, <1>3 DEF Join, ScanDone, RadioOK
<1>4. CASE PollSettings
  <2>1. apply.pending.settings.ssid \in AnySsid
    BY <1>1 DEF ApplyOK, Settings, AnySsid
  <2>2. UNCHANGED radio \/ \E link \in {"down", "joining"} : \E ssid \in AnySsid :
          radio' = [radio EXCEPT !.link = link, !.ssid = ssid]
    BY <1>4, <2>1 DEF PollSettings, LinkTo, AnySsid
  <2> QED BY <1>1, <2>2 DEF RadioOK
<1>5. CASE PollScan
  BY <1>1, <1>5 DEF PollScan, ScanEnds, RadioOK
<1>6. CASE PollLink
  <2>1. wifi.settings.ssid \in AnySsid
    BY <1>1 DEF Wifi, Settings, AnySsid
  <2> QED BY <1>1, <1>6, <2>1 DEF PollLink, LinkTo, RadioOK
<1>7. CASE UNCHANGED radio
  BY <1>1, <1>7 DEF RadioOK
<1> QED
  BY <1>2, <1>3, <1>4, <1>5, <1>6, <1>7, Actions, OthersKeep DEF Elapse, Publish, PollRequests,
    PollPolicy, PollSetup

LEMMA WifiStep == TypeInv /\ [Next]_vars => wifi' \in Wifi
<1> SUFFICES ASSUME TypeInv, [Next]_vars PROVE wifi' \in Wifi
  OBVIOUS
<1>1. wifi \in Wifi /\ ApplyOK
  BY TypeParts
<1>2. ApOutcome \subseteq BOOLEAN
  BY DEF ApOutcome
<1>3. CASE PollRequests
  <2>1. CASE \E up \in ApOutcome : SetupCompleted(up)
    BY <1>2, <2>1, PolicyStep
  <2>2. CASE SetupStopped
    BY <2>2, PolicyStep
  <2>3. CASE wifi' = [Requested(wifi) EXCEPT !.pending = TRUE]
    <3>1. Requested(wifi) \in Wifi
      BY <1>1, Policy
    <3> QED BY <2>3, <3>1 DEF Wifi
  <2> QED BY <1>1, <1>3, <2>1, <2>2, <2>3 DEF PollRequests
<1>4. CASE PollSettings
  <2>1. apply.pending.settings \in Settings
    BY <1>1 DEF ApplyOK
  <2>2. CASE \E up \in ApOutcome :
          wifi' = [wifi EXCEPT !.settings = apply.pending.settings, !.was = FALSE, !.ap = up,
                     !.state = IF up THEN "unconfigured" ELSE "fault",
                     !.reason = "unconfigured", !.failures = 0, !.grace = FALSE, !.timed = FALSE]
    <3>1. 0 \in 0 .. Threshold
      BY BoundAssumption
    <3>2. \E up \in BOOLEAN : \E state \in {"unconfigured", "fault"} :
            wifi' = [wifi EXCEPT !.settings = apply.pending.settings, !.was = FALSE, !.ap = up,
                       !.state = state, !.reason = "unconfigured", !.failures = 0,
                       !.grace = FALSE, !.timed = FALSE]
      BY <1>2, <2>2
    <3>3. "unconfigured" \in Reason
      BY DEF Reason
    <3> QED BY <1>1, <2>1, <3>1, <3>2, <3>3 DEF Wifi
  <2>3. CASE wifi' = [wifi EXCEPT !.settings = apply.pending.settings, !.was = FALSE,
                                  !.state = "connecting", !.grace = FALSE]
    BY <1>1, <2>1, <2>3 DEF Wifi
  <2> QED BY <1>1, <1>4, <2>2, <2>3 DEF PollSettings
<1>5. CASE PollPolicy
  <2>1. \E w \in Wifi : wifi' \in {w, [w EXCEPT !.ap = FALSE]}
    BY <1>1, <1>5, Policy DEF PollPolicy
  <2> QED BY <2>1 DEF Wifi
<1>6. CASE PollSetup
  BY <1>1, <1>2, <1>6, PolicyStep DEF PollSetup
<1>7. CASE PollLink
  <2>1. CASE \E up \in ApOutcome : Reconnect(up)
    BY <1>2, <2>1, PolicyStep
  <2>2. CASE EnterConnected
    <3>1. 0 \in 0 .. Threshold
      BY BoundAssumption
    <3>2. \E g \in BOOLEAN :
            wifi' = [wifi EXCEPT !.was = TRUE, !.state = "connected", !.failures = 0, !.grace = g]
      BY <1>1, <2>2 DEF EnterConnected, Wifi
    <3> QED BY <1>1, <3>1, <3>2 DEF Wifi
  <2>3. CASE wifi' = [wifi EXCEPT !.state = "connecting", !.grace = FALSE]
    BY <1>1, <2>3 DEF Wifi
  <2> QED BY <1>1, <1>7, <2>1, <2>2, <2>3 DEF PollLink
<1> QED
  BY <1>1, <1>3, <1>4, <1>5, <1>6, <1>7, Actions, OthersKeep DEF Reach, Join, ScanDone, Elapse,
    Publish, PollScan

LEMMA DueStep == TypeInv /\ [Next]_vars => due' \subseteq Timers
<1> SUFFICES ASSUME due \subseteq Timers, [Next]_vars PROVE due' \subseteq Timers
  BY TypeParts
<1>1. \/ due' \subseteq due \/ \E t \in Timers : due' = due \cup {t}
  BY Actions, OthersKeep DEF Reach, Join, ScanDone, Elapse, Publish, PollRequests,
    SetupStopped, PollSettings, PollPolicy, PollScan, ScanEnds, PollSetup, PollLink,
    Reconnect, EnterConnected
<1> QED BY <1>1

\* The scan and the requests, which the web task may change as well.
LEMMA AskedStep == TypeInv /\ [Next]_vars => ScanOK' /\ AskedOK'
<1> SUFFICES ASSUME TypeInv, [Next]_vars PROVE ScanOK' /\ AskedOK'
  OBVIOUS
<1>1. ScanOK /\ AskedOK /\ OpsOK /\ 0 \in Op
  BY TypeParts, BoundAssumption DEF Op
<1>2. ApOutcome \subseteq BOOLEAN
  BY DEF ApOutcome
<1>3. ASSUME NEW up \in BOOLEAN, SetupCompleted(up) PROVE ScanOK' /\ AskedOK'
  BY <1>1, <1>3 DEF SetupCompleted, ScanOK, AskedOK
<1>4. CASE PollRequests
  <2>1. CASE \E up \in ApOutcome : SetupCompleted(up)
    BY <1>2, <1>3, <2>1
  <2>2. CASE SetupStopped /\ UNCHANGED scan
    BY <1>1, <2>2 DEF SetupStopped, ScanOK, AskedOK
  <2>3. CASE asked' = [asked EXCEPT !.start = FALSE] /\ UNCHANGED scan
    BY <1>1, <2>3 DEF ScanOK, AskedOK
  <2>4. CASE UNCHANGED <<scan, asked>>
    BY <1>1, <2>4 DEF ScanOK, AskedOK
  <2> QED BY <1>4, <2>1, <2>2, <2>3, <2>4 DEF PollRequests
<1>5. CASE PollSettings
  BY <1>1, <1>5 DEF PollSettings, ScanOK, AskedOK
<1>6. CASE PollScan
  <2>1. UNCHANGED asked \/ asked' = [asked EXCEPT !.scan = 0]
    BY <1>6 DEF PollScan, ScanEnds
  <2>2. AskedOK'
    BY <1>1, <2>1 DEF AskedOK
  <2>3. asked.scan \in Op
    BY <1>1 DEF AskedOK
  <2>4. ScanOK'
    BY <1>1, <1>6, <2>3 DEF PollScan, ScanEnds, ScanOK
  <2> QED BY <2>2, <2>4
<1>7. CASE PollSetup
  <2>1. CASE \E up \in ApOutcome : SetupCompleted(up)
    BY <1>2, <1>3, <2>1
  <2>2. CASE UNCHANGED <<scan, asked>>
    BY <1>1, <2>2 DEF ScanOK, AskedOK
  <2> QED BY <1>7, <2>1, <2>2 DEF PollSetup
<1>8. CASE AskScan \/ \E flag \in {"start", "stop"} : AskSetup(flag)
  <2>1. NewOp \in Op
    BY <1>1, <1>8, BoundAssumption DEF AskScan, AskSetup, OpsLeft, NewOp, Op, OpsOK
  <2>2. \/ UNCHANGED asked \/ asked' = [asked EXCEPT !.scan = NewOp]
        \/ asked' = [asked EXCEPT !.setup = NewOp, !.start = TRUE]
        \/ asked' = [asked EXCEPT !.setup = NewOp, !.stop = TRUE]
    BY <1>8 DEF AskScan, AskSetup, ClaimScan, ClaimSetup
  <2>3. AskedOK'
    BY <1>1, <2>1, <2>2 DEF AskedOK
  <2>4. UNCHANGED scan \/ scan' = [scan EXCEPT !.requested = TRUE]
    BY <1>8 DEF AskScan, AskSetup, ClaimScan
  <2> QED BY <1>1, <2>3, <2>4 DEF ScanOK
<1>9. CASE UNCHANGED <<scan, asked>>
  BY <1>1, <1>9 DEF ScanOK, AskedOK
<1> QED
  BY <1>4, <1>5, <1>6, <1>7, <1>8, <1>9, Actions DEF Others, Reach, Join, ScanDone, Elapse,
    Publish, PollPolicy, PollLink, Submit, Acknowledge, ReceiptLost, Work, Fetch, ReceiptSeen,
    Save, Handover, Finished, Detach, Result, ReceiptExpires, Abandon

\* Settings on their way to the radio.
LEMMA ApplyStep == TypeInv /\ [Next]_vars => ApplyOK'
<1> SUFFICES ASSUME TypeInv, [Next]_vars PROVE ApplyOK'
  OBVIOUS
<1>1. ApplyOK /\ WorkerOK /\ 0 \in Op
  BY TypeParts, BoundAssumption DEF Op
<1>2. /\ NoOne \in [op : Op, state : State]
      /\ NoPending \in [op : Op, some : BOOLEAN, settings : Settings]
  BY <1>1 DEF NoOne, NoPending, State, Settings
<1>3. \A op \in Op, state \in {"succeeded", "failed"} : Ends(op, state) \in [op : Op, state : State]
  BY <1>2 DEF Ends, State
<1>4. CASE Publish
  BY <1>1, <1>2, <1>4 DEF Publish, ApplyOK
<1>5. CASE PollSettings
  <2>1. apply.pending.op \in Op
    BY <1>1 DEF ApplyOK
  <2>2. \/ UNCHANGED apply
        \/ apply' = [apply EXCEPT !.pending = NoPending, !.active = apply.pending.op]
        \/ \E state \in {"succeeded", "failed"} :
             apply' = [apply EXCEPT !.pending = NoPending, !.active = 0,
                                    !.ending = Ends(apply.pending.op, state)]
    BY <1>1, <1>5 DEF PollSettings, ApplyOK
  <2>3. \A state \in {"succeeded", "failed"} :
          Ends(apply.pending.op, state) \in [op : Op, state : State]
    BY <1>3, <2>1
  <2> QED BY <1>1, <1>2, <2>1, <2>2, <2>3 DEF ApplyOK
<1>6. CASE PollLink
  <2>1. apply.active \in Op
    BY <1>1 DEF ApplyOK
  <2>2. \/ UNCHANGED apply
        \/ \E state \in {"succeeded", "failed"} :
             apply' = [apply EXCEPT !.active = 0, !.ending = Ends(apply.active, state)]
    BY <1>6 DEF PollLink, Reconnect, EnterConnected
  <2>3. \A state \in {"succeeded", "failed"} :
          Ends(apply.active, state) \in [op : Op, state : State]
    BY <1>3, <2>1
  <2> QED BY <1>1, <2>2, <2>3 DEF ApplyOK
<1>7. CASE Handover
  <2>1. worker.op \in Op /\ worker.settings \in Settings
    BY <1>1 DEF WorkerOK
  <2>2. [op |-> worker.op, some |-> TRUE, settings |-> worker.settings]
          \in [op : Op, some : BOOLEAN, settings : Settings]
    BY <2>1
  <2>3. UNCHANGED apply \/ apply' = [apply EXCEPT !.completed = 0,
          !.pending = [op |-> worker.op, some |-> TRUE, settings |-> worker.settings]]
    BY <1>7 DEF Handover
  <2> QED BY <1>1, <2>2, <2>3 DEF ApplyOK
<1>8. CASE Abandon
  BY <1>1, <1>8 DEF Abandon, ApplyOK
<1>9. CASE Detach
  BY <1>1, <1>9 DEF Detach, ApplyOK
<1>10. CASE UNCHANGED apply
  BY <1>1, <1>10 DEF ApplyOK
<1> QED
  BY <1>4, <1>5, <1>6, <1>7, <1>8, <1>9, <1>10, Actions DEF Others, Reach, Join, ScanDone,
    Elapse, PollRequests, PollPolicy, PollScan, PollSetup, AskScan, AskSetup, Submit,
    Acknowledge, ReceiptLost, Work, Fetch, ReceiptSeen, Save, Finished, Result, ReceiptExpires

\* A command in the queue, and one that is fetched.
Queueable == [op : Op, kind : AskKind, settings : Settings, receipt : BOOLEAN]
Working ==
  [stage : Stage, op : Op, kind : AskKind, detached : BOOLEAN, settings : Settings]

LEMMA Heads ==
  ASSUME WorkerOK, queue # <<>>
  PROVE  /\ queue[1] \in Queueable /\ 1 \in DOMAIN queue
         /\ Tail(queue) \in Seq(Queueable)
         /\ \A i \in DOMAIN Tail(queue) : i + 1 \in DOMAIN queue /\ Tail(queue)[i] = queue[i + 1]
<1>1. queue \in Seq(Queueable) /\ Len(queue) \in Nat \ {0} /\ DOMAIN queue = 1 .. Len(queue)
  BY DEF WorkerOK, Queueable
<1>2. Tail(queue) \in Seq(Queueable) /\ Len(Tail(queue)) = Len(queue) - 1
  BY <1>1
<1>3. DOMAIN Tail(queue) = 1 .. Len(queue) - 1
  BY <1>1, <1>2
<1> QED BY <1>1, <1>2, <1>3

LEMMA WorkerStep == TypeInv /\ [Next]_vars => WorkerOK' /\ web' \in Op
<1> SUFFICES ASSUME TypeInv, [Next]_vars PROVE WorkerOK' /\ web' \in Op
  OBVIOUS
<1>1. WorkerOK /\ OpsOK /\ web \in Op /\ 0 \in Op
  BY TypeParts, BoundAssumption DEF Op
<1>2. worker \in Working /\ queue \in Seq(Queueable)
      /\ saved \in [settings : Settings, ready : BOOLEAN]
  BY <1>1 DEF WorkerOK, Working, Queueable
<1>3. NoCommand \in Working
  BY <1>1 DEF NoCommand, Working, Stage, AskKind, Settings
<1>4. SUFFICES /\ worker' \in Working /\ queue' \in Seq(Queueable)
               /\ saved' \in [settings : Settings, ready : BOOLEAN] /\ web' \in Op
  BY DEF WorkerOK, Working, Queueable
<1>5. ASSUME NEW ask \in Asks, Submit(ask[1], ask[2])
      PROVE  queue' \in Seq(Queueable) /\ web' \in Op /\ UNCHANGED <<worker, saved>>
  <2>1. NewOp \in Op
    BY <1>1, <1>5, BoundAssumption DEF Submit, OpsLeft, NewOp, Op, OpsOK
  <2>2. ask[1] \in AskKind /\ ask[2] \in Settings
    BY AskAssumption DEF AskKind
  <2>3. Receipt(ask[1], ask[2]) \in BOOLEAN
    BY DEF Receipt
  <2>4. [op |-> NewOp, kind |-> ask[1], settings |-> ask[2], receipt |-> Receipt(ask[1], ask[2])]
          \in Queueable
    BY <2>1, <2>2, <2>3 DEF Queueable
  <2>5. queue' \in Seq(Queueable)
    BY <1>2, <1>5, <2>4 DEF Submit, SubmitReplace
  <2> QED BY <1>1, <1>5, <2>1, <2>5 DEF Submit
<1>6. CASE Acknowledge \/ ReceiptLost
  BY <1>1, <1>2, <1>6 DEF Acknowledge, ReceiptLost
<1>7. CASE Fetch
  <2>1. queue[1] \in Queueable /\ Tail(queue) \in Seq(Queueable)
    BY <1>1, <1>7, Heads DEF Fetch
  <2>2. \E stage \in {"receipt", "save"} :
          worker' = [stage |-> stage, op |-> queue[1].op, kind |-> queue[1].kind,
                     settings |-> queue[1].settings, detached |-> FALSE]
    BY <1>7 DEF Fetch
  <2>3. worker' \in Working
    BY <2>1, <2>2 DEF Queueable, Working, Stage
  <2> QED BY <1>1, <1>2, <1>7, <2>1, <2>3 DEF Fetch
<1>8. CASE ReceiptSeen \/ Save \/ Handover \/ Finished \/ Abandon \/ Detach
  <2>1. \/ \E stage \in Stage : worker' = [worker EXCEPT !.stage = stage]
        \/ \E stage \in Stage : \E d \in BOOLEAN :
             worker' = [worker EXCEPT !.stage = stage, !.detached = d]
    BY <1>8 DEF ReceiptSeen, Save, Handover, Finished, Abandon, Detach, Stage
  <2>2. worker' \in Working
    BY <1>2, <2>1 DEF Working
  <2>3. saved' \in [settings : Settings, ready : BOOLEAN]
    BY <1>2, <1>8 DEF ReceiptSeen, Save, Handover, Finished, Abandon, Detach, Working
  <2> QED BY <1>1, <1>2, <1>8, <2>2, <2>3 DEF ReceiptSeen, Save, Handover, Finished, Abandon,
    Detach
<1>9. CASE ReceiptExpires \/ Result
  BY <1>1, <1>2, <1>3, <1>9 DEF ReceiptExpires, Result, ReadyConfirmed
<1>10. CASE UNCHANGED <<worker, queue, saved, web>>
  BY <1>1, <1>2, <1>10
<1> QED
  BY <1>1, <1>2, <1>5, <1>6, <1>7, <1>8, <1>9, <1>10, Actions DEF Others, Work, Reach, Join,
    ScanDone, Elapse, Publish, PollRequests, PollSettings, PollPolicy, PollScan, PollSetup,
    PollLink, AskScan, AskSetup

LEMMA TypeStep == TypeInv /\ ClaimInv /\ CommandInv /\ [Next]_vars => TypeInv'
<1> SUFFICES ASSUME TypeInv, ClaimInv, CommandInv, [Next]_vars PROVE TypeInv'
  OBVIOUS
<1>1. OpsOK'
  BY OpsStep
<1>2. /\ RadioOK' /\ wifi' \in Wifi /\ ScanOK' /\ AskedOK' /\ due' \subseteq Timers
      /\ ApplyOK' /\ WorkerOK' /\ web' \in Op
  BY RadioStep, WifiStep, DueStep, AskedStep, ApplyStep, WorkerStep
<1> QED
  BY <1>1, <1>2 DEF TypeInv, TypeOK, Wifi, RadioOK, ScanOK, AskedOK, ApplyOK, AnySsid
-----------------------------------------------------------------------------
(* What is done in the name of an operation *)

LEMMA ClaimStep ==
  ASSUME TypeInv, ClaimInv, CommandInv, [Next]_vars
  PROVE  ClaimInv'
<1>1. Keeps /\ ScanOK /\ AskedOK
  BY OpsStep, TypeParts
<1>2. \A op, kinds : Of(op, kinds) => op \in DOMAIN ops' /\ ops'[op].kind \in kinds
  BY <1>1 DEF Keeps, Of
<1>3. ASSUME /\ scan'.op \in {0, scan.op, asked.scan}
             /\ asked'.scan \in {0, asked.scan} /\ asked'.setup \in {0, asked.setup}
      PROVE  ClaimInv'
  BY <1>2, <1>3 DEF ClaimInv, Of
<1>4. CASE PollRequests \/ PollSetup
  BY <1>1, <1>3, <1>4 DEF PollRequests, PollSetup, SetupCompleted, SetupStopped, ScanOK, AskedOK
<1>5. CASE PollSettings
  BY <1>1, <1>3, <1>5 DEF PollSettings, ScanOK
<1>6. CASE PollScan
  BY <1>1, <1>3, <1>6 DEF PollScan, ScanEnds, ScanOK, AskedOK
<1>7. CASE AskScan
  <2>1. CASE ClaimScan /\ ops' = Begun("scan", "running", NoSsid)
    <3>1. NewOp \in DOMAIN ops' /\ ops'[NewOp].kind = "scan"
      BY <1>7, <2>1, BegunOps DEF AskScan, TypeInv, Kind, AnySsid
    <3>2. asked'.scan = NewOp /\ asked'.setup = asked.setup /\ scan'.op = scan.op
      BY <1>1, <2>1 DEF ClaimScan, ScanOK, AskedOK
    <3> QED BY <1>2, <3>1, <3>2 DEF ClaimInv, Of
  <2> QED BY <1>3, <1>7, <2>1 DEF AskScan
<1>8. ASSUME NEW flag \in {"start", "stop"}, AskSetup(flag) PROVE ClaimInv'
  <2>1. CASE ClaimSetup(flag) /\ ops' = Begun("setup", "running", NoSsid)
    <3>1. NewOp \in DOMAIN ops' /\ ops'[NewOp].kind = "setup"
      BY <1>8, <2>1, BegunOps DEF AskSetup, TypeInv, Kind, AnySsid
    <3>2. asked'.setup = NewOp /\ asked'.scan = asked.scan /\ scan'.op = scan.op
      BY <1>1, <1>8, <2>1 DEF AskSetup, ClaimSetup, ScanOK, AskedOK
    <3> QED BY <1>2, <3>1, <3>2 DEF ClaimInv, Of
  <2> QED BY <1>3, <1>8, <2>1 DEF AskSetup
<1>9. CASE UNCHANGED <<scan, asked>>
  BY <1>3, <1>9
<1> QED
  BY <1>4, <1>5, <1>6, <1>7, <1>8, <1>9, Actions DEF Others, Reach, Join, ScanDone, Elapse,
    Publish, PollPolicy, PollLink, Submit, Acknowledge, ReceiptLost, Work, Fetch, ReceiptSeen,
    Save, Handover, Finished, Detach, Result, ReceiptExpires, Abandon

LEMMA CommandStep ==
  ASSUME TypeInv, ClaimInv, CommandInv, [Next]_vars
  PROVE  CommandInv'
<1>1. Keeps /\ WorkerOK /\ OpsOK
  BY OpsStep, TypeParts
<1>2. worker \in Working /\ queue \in Seq(Queueable)
  BY <1>1 DEF WorkerOK, Working, Queueable
<1> DEFINE Still(op, kind, settings) ==
      /\ op \in DOMAIN ops' /\ ops'[op].kind = kind /\ ops'[op].ssid = settings.ssid
      /\ kind = "connect" => settings.ssid # NoSsid
<1>3. \A op, kind, settings : Asked(op, kind, settings) => Still(op, kind, settings)
  BY <1>1 DEF Keeps, Asked, Of
<1>4. SUFFICES
        /\ \A i \in DOMAIN queue' : Still(queue'[i].op, queue'[i].kind, queue'[i].settings)
        /\ worker'.stage # "idle" => Still(worker'.op, worker'.kind, worker'.settings)
  BY DEF CommandInv, Asked, Of
<1>5. \A i \in DOMAIN queue : Still(queue[i].op, queue[i].kind, queue[i].settings)
  BY <1>3 DEF CommandInv
<1>6. worker.stage # "idle" => Still(worker.op, worker.kind, worker.settings)
  BY <1>3 DEF CommandInv
<1>7. ASSUME NEW ask \in Asks, Submit(ask[1], ask[2])
      PROVE  /\ UNCHANGED worker
             /\ \A i \in DOMAIN queue' : Still(queue'[i].op, queue'[i].kind, queue'[i].settings)
  <2> DEFINE new == [op |-> NewOp, kind |-> ask[1], settings |-> ask[2],
                     receipt |-> Receipt(ask[1], ask[2])]
  <2>1. CASE ops' = Begun(ask[1], "running", ask[2].ssid) /\ queue' = Append(queue, new)
    <3>1. ask[1] \in Kind /\ ask[2].ssid \in AnySsid
      BY AskAssumption DEF Kind, AskKind, Settings, AnySsid
    <3>2. NewOp \in DOMAIN ops' /\ ops'[NewOp].kind = ask[1] /\ ops'[NewOp].ssid = ask[2].ssid
      BY <1>1, <1>7, <2>1, <3>1, BegunOps DEF Submit
    <3>3. Still(new.op, new.kind, new.settings)
      BY <3>2, AskAssumption
    <3> HIDE DEF new, Still
    <3>4. /\ Len(queue) \in Nat /\ DOMAIN queue' = 1 .. Len(queue) + 1
          /\ DOMAIN queue = 1 .. Len(queue) /\ queue'[Len(queue) + 1] = new
          /\ \A i \in 1 .. Len(queue) : queue'[i] = queue[i]
      BY <1>2, <2>1
    <3>5. \A i \in DOMAIN queue' : i \in DOMAIN queue \/ queue'[i] = new
      BY <3>4
    <3>6. \A i \in DOMAIN queue : queue'[i] = queue[i]
      BY <3>4
    <3>7. \A i \in DOMAIN queue' : Still(queue'[i].op, queue'[i].kind, queue'[i].settings)
      BY <1>5, <3>3, <3>5, <3>6
    <3> QED BY <1>7, <3>7 DEF Submit
  <2> HIDE DEF Still
  <2> QED BY <1>5, <1>7, <2>1 DEF Submit, SubmitReplace
<1> HIDE DEF Still
<1>8. CASE Fetch
  <2>1. /\ queue' = Tail(queue) /\ worker'.op = queue[1].op /\ worker'.kind = queue[1].kind
        /\ worker'.settings = queue[1].settings
    BY <1>8 DEF Fetch
  <2>2. \A i \in DOMAIN queue' : i + 1 \in DOMAIN queue /\ queue'[i] = queue[i + 1]
    BY <1>1, <1>8, <2>1, Heads DEF Fetch
  <2>3. 1 \in DOMAIN queue
    BY <1>1, <1>8, Heads DEF Fetch
  <2> QED BY <1>5, <2>1, <2>2, <2>3
<1>9. CASE ReceiptSeen \/ Save \/ Handover \/ Finished \/ Abandon \/ Detach
  <2>1. worker.stage # "idle" /\ worker'.op = worker.op /\ worker'.kind = worker.kind
        /\ worker'.settings = worker.settings /\ UNCHANGED queue
    BY <1>2, <1>9 DEF ReceiptSeen, Save, Handover, Finished, Abandon, Detach, Working
  <2> QED BY <1>5, <1>6, <2>1
<1>10. CASE ReceiptExpires \/ Result
  BY <1>5, <1>10 DEF ReceiptExpires, Result, NoCommand
<1>11. CASE UNCHANGED <<worker, queue>>
  BY <1>5, <1>6, <1>11
<1> QED
  BY <1>6, <1>7, <1>8, <1>9, <1>10, <1>11, Actions DEF Others, Work, Reach, Join, ScanDone,
    Elapse, Publish, PollRequests, PollSettings, PollPolicy, PollScan, PollSetup, PollLink,
    AskScan, AskSetup, Acknowledge, ReceiptLost

\* Settings keep the name they were handed over in, and the radio has them.
LEMMA ApplyInvStep ==
  ASSUME TypeInv, ClaimInv, CommandInv, ApplyInv, [Next]_vars
  PROVE  ApplyInv'
<1>1. Keeps /\ RadioOK /\ ApplyOK /\ WorkerOK /\ wifi \in Wifi
  BY OpsStep, TypeParts
<1> DEFINE Still(op, ssid) ==
      /\ op \in DOMAIN ops' /\ ops'[op].kind \in AskKind /\ ops'[op].ssid = ssid
      /\ ops'[op].kind = "connect" => ssid # NoSsid
<1>2. \A op, ssid : Applies(op, ssid) => Still(op, ssid)
  BY <1>1 DEF Keeps, Applies, Of
<1>3. /\ apply.pending.op # 0 => Still(apply.pending.op, apply.pending.settings.ssid)
      /\ apply.active # 0 => Still(apply.active, radio.ssid)
      /\ radio.ssid = wifi.settings.ssid
  BY <1>2 DEF ApplyInv
<1>4. SUFFICES
        /\ radio'.ssid = wifi'.settings.ssid
        /\ apply'.pending.op # 0 => Still(apply'.pending.op, apply'.pending.settings.ssid)
        /\ apply'.active # 0 => Still(apply'.active, radio'.ssid)
  BY DEF ApplyInv, Applies, Of
<1> HIDE DEF Still
<1>5. ASSUME /\ apply'.pending.op \in {0, apply.pending.op}
             /\ apply'.pending.op # 0 => apply'.pending.settings = apply.pending.settings
             /\ apply'.active \in {0, apply.active}
             /\ radio'.ssid = radio.ssid /\ wifi'.settings = wifi.settings
      PROVE  /\ radio'.ssid = wifi'.settings.ssid
             /\ apply'.pending.op # 0 => Still(apply'.pending.op, apply'.pending.settings.ssid)
             /\ apply'.active # 0 => Still(apply'.active, radio'.ssid)
  BY <1>3, <1>5
<1>6. CASE PollSettings
  <2>1. CASE UNCHANGED <<radio, wifi, apply>>
    BY <1>5, <2>1
  <2>2. CASE ~ UNCHANGED <<radio, wifi, apply>>
    <3>1. /\ radio'.ssid = apply.pending.settings.ssid /\ wifi'.settings = apply.pending.settings
      BY <1>1, <1>6, <2>2 DEF PollSettings, LinkTo, RadioOK, Wifi
    <3>2. apply'.pending.op = 0 /\ apply'.active \in {0, apply.pending.op}
      <4>1. \/ apply' = [apply EXCEPT !.pending = NoPending, !.active = apply.pending.op]
            \/ \E state \in {"succeeded", "failed"} :
                 apply' = [apply EXCEPT !.pending = NoPending, !.active = 0,
                                        !.ending = Ends(apply.pending.op, state)]
        BY <1>1, <1>6, <2>2 DEF PollSettings, ApplyOK
      <4>2. NoPending.op = 0
        BY DEF NoPending
      <4> QED BY <1>1, <4>1, <4>2 DEF ApplyOK
    <3> QED BY <1>3, <3>1, <3>2
  <2> QED BY <2>1, <2>2
<1>7. CASE PollLink
  <2>1. radio'.ssid = radio.ssid
    BY <1>1, <1>3, <1>7 DEF PollLink, LinkTo, RadioOK
  <2>2. wifi'.settings = wifi.settings
    <3>1. ApOutcome \subseteq BOOLEAN
      BY DEF ApOutcome
    <3>2. CASE \E up \in ApOutcome : Reconnect(up)
      BY <3>1, <3>2, PolicyStep DEF TypeInv
    <3> QED BY <1>1, <1>7, <3>2 DEF PollLink, EnterConnected, Wifi
  <2>3. apply'.pending = apply.pending /\ apply'.active \in {0, apply.active}
    BY <1>1, <1>7 DEF PollLink, Reconnect, EnterConnected, ApplyOK
  <2> QED BY <1>5, <2>1, <2>2, <2>3
<1>8. CASE PollRequests \/ PollSetup \/ PollPolicy
  <2>1. wifi'.settings = wifi.settings
    <3>1. ApOutcome \subseteq BOOLEAN
      BY DEF ApOutcome
    <3>2. CASE (\E up \in ApOutcome : SetupCompleted(up)) \/ SetupStopped
      BY <3>1, <3>2, PolicyStep
    <3>3. CASE wifi' = [Requested(wifi) EXCEPT !.pending = TRUE]
      <4>1. Requested(wifi) \in Wifi /\ Requested(wifi).settings = wifi.settings
        BY <1>1, Policy
      <4> QED BY <3>3, <4>1 DEF Wifi
    <3>4. CASE PollPolicy
      <4>1. \E w \in Wifi : w.settings = wifi.settings /\ wifi' \in {w, [w EXCEPT !.ap = FALSE]}
        BY <1>1, <3>4, Policy DEF PollPolicy
      <4> QED BY <4>1 DEF Wifi
    <3> QED BY <1>8, <3>2, <3>3, <3>4 DEF PollRequests, PollSetup
  <2>2. UNCHANGED <<radio, apply>>
    BY <1>8 DEF PollRequests, PollSetup, PollPolicy
  <2> QED BY <1>5, <2>1, <2>2
<1>9. CASE Handover
  <2>1. Still(worker.op, worker.settings.ssid)
    BY <1>1, <1>9 DEF Handover, CommandInv, Asked, Of, Keeps, WorkerOK, Still
  <2>2. UNCHANGED apply \/
        (apply'.pending.op = worker.op /\ apply'.pending.settings = worker.settings
          /\ apply'.active = apply.active)
    <3> DEFINE new == [op |-> worker.op, some |-> TRUE, settings |-> worker.settings]
    <3>1. UNCHANGED apply \/ apply' = [apply EXCEPT !.completed = 0, !.pending = new]
      BY <1>9 DEF Handover
    <3>2. new.op = worker.op /\ new.settings = worker.settings
      OBVIOUS
    <3> HIDE DEF new
    <3> QED BY <1>1, <3>1, <3>2 DEF ApplyOK
  <2>3. UNCHANGED <<radio, wifi>>
    BY <1>9 DEF Handover
  <2> QED BY <1>3, <2>1, <2>2, <2>3
<1>10. CASE Publish \/ Abandon \/ Detach
  <2>1. UNCHANGED <<radio, wifi>>
    BY <1>10 DEF Publish, Abandon, Detach
  <2>2. \/ apply' = [apply EXCEPT !.ending = NoOne, !.completed = apply.ending.op]
        \/ apply' = [apply EXCEPT !.pending.op = 0] \/ apply' = [apply EXCEPT !.active = 0]
        \/ UNCHANGED apply
    BY <1>10 DEF Publish, Abandon, Detach
  <2>3. /\ apply'.pending.op \in {0, apply.pending.op}
        /\ apply'.pending.op # 0 => apply'.pending.settings = apply.pending.settings
        /\ apply'.active \in {0, apply.active}
    BY <1>1, <2>2 DEF ApplyOK
  <2> QED BY <1>5, <2>1, <2>3
<1>11. CASE Join \/ ScanDone \/ PollScan \/ \E n \in Ssids : Reach(n)
  BY <1>1, <1>5, <1>11 DEF Join, ScanDone, PollScan, ScanEnds, Reach, RadioOK
<1>12. CASE UNCHANGED <<radio, wifi, apply>>
  BY <1>5, <1>12
<1> QED
  BY <1>6, <1>7, <1>8, <1>9, <1>10, <1>11, <1>12, Actions, OthersKeep DEF Others, Work, Elapse,
    AskScan, AskSetup, Submit, Acknowledge, ReceiptLost, Fetch, ReceiptSeen, Save, Finished,
    Result, ReceiptExpires

-----------------------------------------------------------------------------
(* Success *)

LEMMA JoinedGrows == [Next]_vars => joined \subseteq joined'
  BY Actions, OthersKeep DEF Reach, Join, ScanDone, Elapse, Publish, PollRequests, PollSettings,
    PollPolicy, PollScan, PollSetup, PollLink, EnterConnected

LEMMA EndingStep ==
  ASSUME TypeInv, ClaimInv, CommandInv, ApplyInv, EndingInv, [Next]_vars
  PROVE  EndingInv'
<1>1. Keeps /\ ApplyOK /\ joined \subseteq joined'
  BY OpsStep, TypeParts, JoinedGrows
<1>2. CASE apply'.ending = apply.ending
  BY <1>1, <1>2 DEF EndingInv, Keeps, Of, Joined
<1>3. CASE Publish
  BY <1>1, <1>3 DEF Publish, EndingInv, NoOne, ApplyOK
<1>4. CASE PollSettings
  <2>1. UNCHANGED ops
    BY <1>4 DEF PollSettings
  <2>2. apply'.ending # apply.ending =>
          \/ apply'.ending = Ends(apply.pending.op, "failed")
          \/ /\ apply.pending.settings.ssid = NoSsid
             /\ apply'.ending = Ends(apply.pending.op, "succeeded")
    BY <1>1, <1>4 DEF PollSettings, ApplyOK
  <2>3. apply'.ending # apply.ending /\ apply'.ending.op # 0 =>
          /\ apply'.ending.op = apply.pending.op /\ apply.pending.op # 0
          /\ apply'.ending.state = "succeeded" => apply.pending.settings.ssid = NoSsid
    BY <2>2 DEF Ends, NoOne
  <2> QED BY <1>2, <2>1, <2>3 DEF EndingInv, ApplyInv, Applies, Of
<1>5. CASE PollLink
  <2>1. UNCHANGED ops
    BY <1>5 DEF PollLink
  <2>2. apply'.ending # apply.ending =>
          \/ apply'.ending = Ends(apply.active, "failed")
          \/ /\ apply'.ending = Ends(apply.active, "succeeded")
             /\ apply.active # 0 => <<apply.active, radio.ssid>> \in joined'
    BY <1>1, <1>5 DEF PollLink, Reconnect, EnterConnected, ApplyOK
  <2>3. apply'.ending # apply.ending /\ apply'.ending.op # 0 =>
          /\ apply'.ending.op = apply.active /\ apply.active # 0
          /\ apply'.ending.state = "succeeded" => <<apply.active, radio.ssid>> \in joined'
    BY <2>2 DEF Ends, NoOne
  <2> QED BY <1>2, <2>1, <2>3 DEF EndingInv, ApplyInv, Applies, Of, Joined
<1>6. CASE Handover \/ Abandon \/ Detach
  BY <1>1, <1>2, <1>6 DEF Handover, Abandon, Detach, ApplyOK
<1>7. CASE UNCHANGED apply
  BY <1>2, <1>7
<1> QED
  BY <1>3, <1>4, <1>5, <1>6, <1>7, Actions DEF Others, Work, Reach, Join, ScanDone, Elapse,
    PollRequests, PollPolicy, PollScan, PollSetup, AskScan, AskSetup, Submit, Acknowledge,
    ReceiptLost, Fetch, ReceiptSeen, Save, Finished, Result, ReceiptExpires

LEMMA JoinedStep ==
  ASSUME TypeInv, ClaimInv, CommandInv, ApplyInv, EndingInv, JoinedTrue, [Next]_vars
  PROVE  JoinedTrue'
<1>1. Keeps /\ joined \subseteq joined' /\ WorkerOK
  BY OpsStep, TypeParts, JoinedGrows
<1>2. Connects({o \in DOMAIN ops : o = apply.ending.op /\ o # 0
                  /\ apply.ending.state = "succeeded" /\ ops[o].kind = "connect"})
  BY OpsStep
<1>3. ASSUME NEW o \in DOMAIN ops', ops'[o].kind = "connect", ops'[o].state = "succeeded"
      PROVE  <<o, ops'[o].ssid>> \in joined'
  <2>1. o \in DOMAIN ops /\ Joined(o)
    BY <1>2, <1>3 DEF Connects, JoinedTrue, EndingInv, Joined
  <2> QED BY <1>1, <2>1 DEF Keeps, Joined
<1>4. ASSUME NEW o \in DOMAIN ops, Connected(o)
      PROVE  o \in DOMAIN ops' /\ ops'[o].kind = "connect" /\ ops'[o].state = "succeeded"
  BY <1>1, <1>4 DEF Keeps, Connected
<1>5. saved'.ready => \E o \in DOMAIN ops : Connected(o)
  <2>1. CASE Result /\ saved' # saved
    BY <2>1 DEF Result, CommandInv, Asked, Of, Connected
  <2>2. CASE saved'.ready = saved.ready
    BY <2>2 DEF JoinedTrue
  <2> QED
    BY <1>1, <2>1, <2>2, Actions DEF WorkerOK, Others, Work, Reach, Join, ScanDone, Elapse,
      Publish, PollRequests, PollSettings, PollPolicy, PollScan, PollSetup, PollLink, AskScan,
      AskSetup, Submit, Acknowledge, ReceiptLost, Fetch, ReceiptSeen, Save, Handover, Finished,
      Detach, ReceiptExpires, Abandon
<1> QED BY <1>3, <1>4, <1>5 DEF JoinedTrue, Connected, Joined
-----------------------------------------------------------------------------
(* The scan *)

\* A scan that the driver reports as running or failed is not at its end.
LEMMA ScanStep ==
  ASSUME TypeInv, ScanInv, [Next]_vars
  PROVE  ScanInv' /\ (radio.scan = "running" => radio'.scan # "none")
<1>1. RadioOK /\ ScanOK /\ ApplyOK
  BY TypeParts
<1>2. ASSUME radio'.scan = radio.scan \/ radio'.scan = "done", scan'.running = scan.running
      PROVE  ScanInv' /\ (radio.scan = "running" => radio'.scan # "none")
  BY <1>2 DEF ScanInv
<1>3. CASE PollScan
  <2>1. CASE scan.running /\ radio.scan = "running"
    <3>1. \A report \in Reports : Decision(report) \in {"stop", "wait"}
      BY <2>1 DEF Reports, Decision
    <3>2. radio' = radio /\ scan'.running = scan.running
      BY <1>1, <1>3, <2>1, <3>1 DEF PollScan, ScanOK
    <3> QED BY <1>2, <3>2
  <2>2. CASE scan.running /\ radio.scan # "running"
    <3>1. radio'.scan # "running"
      BY <1>1, <1>3, <2>2 DEF PollScan, ScanEnds, RadioOK
    <3> QED BY <2>2, <3>1 DEF ScanInv
  <2>3. CASE ~scan.running
    BY <1>1, <1>3, <2>3 DEF PollScan, ScanInv, RadioOK, ScanOK
  <2> QED BY <2>1, <2>2, <2>3
<1>4. CASE PollSettings \/ PollLink
  BY <1>1, <1>2, <1>4 DEF PollSettings, PollLink, LinkTo, RadioOK, ScanOK
<1>5. CASE Join \/ ScanDone \/ (\E n \in Ssids : Reach(n)) \/ PollRequests \/ PollSetup \/ AskScan
  BY <1>1, <1>2, <1>5 DEF Join, ScanDone, Reach, PollRequests, PollSetup, SetupCompleted,
    AskScan, ClaimScan, RadioOK, ScanOK
<1>6. CASE UNCHANGED <<radio, scan>>
  BY <1>2, <1>6
<1> QED
  BY <1>3, <1>4, <1>5, <1>6, Actions, OthersKeep DEF Others, Work, Elapse, Publish, PollPolicy,
    AskSetup, Submit, Acknowledge, ReceiptLost, Fetch, ReceiptSeen, Save, Handover, Finished,
    Detach, Result, ReceiptExpires, Abandon
-----------------------------------------------------------------------------
(* Theorems *)

LEMMA InitInv == Init => IInv
<1> SUFFICES ASSUME Init PROVE IInv
  OBVIOUS
<1>1. 0 \in Op /\ MaxOps \in Nat /\ Threshold \in Nat \ {0} /\ 0 \in 0 .. Threshold
  BY BoundAssumption DEF Op
<1>2. PICK s \in Settings :
        /\ saved = [settings |-> s, ready |-> FALSE]
        /\ wifi = [settings |-> s,
                   state |-> IF s.ssid = NoSsid THEN "unconfigured" ELSE "connecting",
                   was |-> FALSE, ap |-> s.ssid = NoSsid, pending |-> FALSE,
                   reason |-> IF s.ssid = NoSsid THEN "unconfigured" ELSE "none",
                   failures |-> 0, grace |-> FALSE, timed |-> FALSE]
        /\ radio = [link |-> IF s.ssid = NoSsid THEN "down" ELSE "joining",
                    ssid |-> s.ssid, scan |-> "none"]
        /\ scan = [requested |-> s.ssid = NoSsid, running |-> FALSE, stopped |-> FALSE, op |-> 0]
  BY AskAssumption DEF Init
<1>3. s.ssid \in AnySsid
  BY DEF Settings, AnySsid
<1>4. RadioOK
  BY <1>2, <1>3 DEF RadioOK
<1>5. wifi \in Wifi
  BY <1>1, <1>2 DEF Wifi, Reason
<1>6. ScanOK /\ AskedOK
  BY <1>1, <1>2 DEF Init, ScanOK, AskedOK
<1>7. NoSsid \in AnySsid /\ [ssid |-> NoSsid, auto |-> TRUE] \in Settings
  BY DEF AnySsid, Settings
<1>8. ApplyOK
  BY <1>1, <1>7 DEF Init, ApplyOK, NoPending, NoOne, State
<1>9. WorkerOK
  <2>1. worker \in [stage : Stage, op : Op, kind : AskKind, detached : BOOLEAN, settings : Settings]
    BY <1>1, <1>7 DEF Init, NoCommand, Stage, AskKind
  <2> QED BY <1>2, <2>1 DEF Init, WorkerOK
<1>10. OpsOK /\ due \subseteq Timers /\ web \in Op
  BY <1>1 DEF Init, OpsOK
<1>11. TypeInv
  BY <1>4, <1>5, <1>6, <1>8, <1>9, <1>10, TypeParts
<1>12. ops = <<>> /\ DOMAIN ops = {}
  BY DEF Init
<1>13. ClaimInv /\ CommandInv /\ ApplyInv /\ EndingInv /\ ScanInv /\ JoinedTrue
  BY <1>2, <1>12 DEF Init, ClaimInv, CommandInv, ApplyInv, EndingInv, ScanInv, JoinedTrue,
    NoCommand, NoPending, NoOne
<1> QED BY <1>11, <1>13 DEF IInv

LEMMA Invariant == Spec => []IInv
<1>1. IInv /\ [Next]_vars => IInv'
  BY TypeStep, ClaimStep, CommandStep, ApplyInvStep, EndingStep, JoinedStep, ScanStep DEF IInv
<1> QED BY <1>1, InitInv, PTL DEF Spec

\* A Save & Connect succeeds only when the network it was asked for was
\* joined in its own name, and only that completes the setup: neither the
\* association that was there before, nor a command that was given up, nor
\* the settings of another (wifi_service.cpp:225-251, 557-585;
\* configuration_worker.cpp:297-312).
THEOREM JoinedAsAsked == Spec => []Joins
<1>1. IInv => Joins
  BY DEF IInv, TypeInv, Joins
<1> QED BY <1>1, Invariant, PTL

\* Whatever the wrapper of the driver reports, the results of a scan are not
\* deleted before the driver's callback is through (network_policy.hpp:194-199).
THEOREM ResultsStay == Spec => ResultsQuiet
<1>1. IInv /\ [Next]_vars => [radio.scan = "running" => radio.scan' # "none"]_radio
  BY ScanStep DEF IInv
<1> QED BY <1>1, Invariant, PTL DEF Spec, ResultsQuiet
=============================================================================
