------------------------------ MODULE Network ------------------------------
(***************************************************************************)
(* Wi-Fi, the setup access point and Save & Connect.  The network task     *)
(* polls WifiService; the web task leaves requests for it; the             *)
(* configuration task saves settings, hands them over and waits for their  *)
(* result; the radio and its scans have a pace of their own.               *)
(*                                                                         *)
(* A poll is taken part by part ("at"), because the other tasks run        *)
(* between its parts.  A timer that runs may elapse: how long it runs is   *)
(* not modelled, and neither are the delays of the backoff.                *)
(***************************************************************************)
EXTENDS FiniteSets, Integers, Sequences

CONSTANTS
  Ssids,               \* networks
  Threshold,           \* failure_threshold
  Stored,              \* settings the station may start with
  Asks,                \* what clients ask for: a kind and settings
  MaxOps, MaxEvents    \* bounds for model checking: operations, and these
                       \* with the faults and the networks lost or found

NoSsid == "no ssid"
ASSUME BoundAssumption == Threshold \in Nat \ {0} /\ MaxOps \in Nat /\ NoSsid \notin Ssids

\* "connect": Save & Connect; "patch", "touch": settings from the browser and
\* from the touch screen, the latter without a receipt.
Settings == [ssid : Ssids \cup {NoSsid}, auto : BOOLEAN]
\* A Save & Connect names its network (api_router.cpp:1007).
ASSUME AskAssumption ==
  /\ Stored \subseteq Settings /\ Asks \subseteq {"connect", "patch", "touch"} \X Settings
  /\ \A ask \in Asks : ask[1] = "connect" => ask[2].ssid # NoSsid
Op == 0 .. MaxOps

VARIABLES
  air,       \* the networks in reach
  radio,     \* the driver: its link and its scan
  wifi,      \* WifiService and its ProvisioningPolicy
  scan,      \* AsyncWifiScanState and what belongs to it
  asked,     \* requests and claims of the web task
  apply,     \* pending_configuration_ and the ids of reconfigurations
  due,       \* timers that elapsed
  at,        \* the part of the poll that is next
  worker,    \* ConfigurationWorker
  queue,     \* its commands
  gate,      \* NetworkConnectReceiptGate
  saved,     \* the stored settings, and setup.ready_confirmed
  web,       \* the operation whose receipt is being sent
  ops,       \* OperationRegistry
  spent,     \* counts for the bounds; whether the setup network failed to open
  joined     \* history: in the name of which operation a network was joined

vars == <<air, radio, wifi, scan, asked, apply, due, at, worker, queue, gate, saved,
          web, ops, spent, joined>>
tasks == <<worker, queue, gate, saved, web>>

Configured == wifi.settings.ssid # NoSsid

Reason == {"none", "unconfigured", "failures", "requested"}
Timers == {"link", "grace", "requested", "scan"}

TypeOK ==
  /\ radio \in [link : {"down", "joining", "up"}, ssid : Ssids \cup {NoSsid},
                scan : {"none", "running", "done"}]
  /\ wifi \in [settings : Settings,
               state : {"unconfigured", "connecting", "connected", "backoff",
                        "disconnected", "fault"},
               was : BOOLEAN, ap : BOOLEAN, pending : BOOLEAN, reason : Reason,
               failures : 0 .. Threshold, grace : BOOLEAN, timed : BOOLEAN]
  /\ scan \in [requested : BOOLEAN, running : BOOLEAN, stopped : BOOLEAN, op : Op]
  /\ asked \in [scan : Op, setup : Op, start : BOOLEAN, stop : BOOLEAN]
  /\ due \subseteq Timers
  /\ apply.active \in Op /\ apply.completed \in Op /\ web \in Op

NoOne == [op |-> 0, state |-> "running"]
NoPending == [op |-> 0, some |-> FALSE, settings |-> [ssid |-> NoSsid, auto |-> TRUE]]
NoCommand == [stage |-> "idle", op |-> 0, kind |-> "touch", detached |-> FALSE,
              settings |-> [ssid |-> NoSsid, auto |-> TRUE]]

\* initialize(): without settings the setup network runs, else joining begins.
Init ==
  /\ air \in SUBSET Ssids
  /\ \E s \in Stored :
       /\ saved = [settings |-> s, ready |-> FALSE]
       /\ wifi = [settings |-> s,
                  state |-> IF s.ssid = NoSsid THEN "unconfigured" ELSE "connecting",
                  was |-> FALSE, ap |-> s.ssid = NoSsid, pending |-> FALSE,
                  reason |-> IF s.ssid = NoSsid THEN "unconfigured" ELSE "none",
                  failures |-> 0, grace |-> FALSE, timed |-> FALSE]
       /\ radio = [link |-> IF s.ssid = NoSsid THEN "down" ELSE "joining",
                   ssid |-> s.ssid, scan |-> "none"]
       /\ scan = [requested |-> s.ssid = NoSsid, running |-> FALSE, stopped |-> FALSE, op |-> 0]
  /\ asked = [scan |-> 0, setup |-> 0, start |-> FALSE, stop |-> FALSE]
  /\ apply = [pending |-> NoPending, active |-> 0, completed |-> 0, ending |-> NoOne]
  /\ due = {} /\ at = "requests"
  /\ worker = NoCommand /\ queue = <<>>
  /\ gate = [expected |-> 0, delivered |-> 0]
  /\ web = 0 /\ ops = <<>>
  /\ spent = [faults |-> 0, air |-> 0, ap |-> FALSE]
  /\ joined = {}

\* update() leaves an operation alone that has ended.  How it ended is kept
\* for those that ask for settings.
How(kind, state) == IF kind \in {"scan", "setup"} THEN "ended" ELSE state
Updated(op, state) ==
  IF op \in DOMAIN ops /\ ops[op].state = "running"
    THEN [ops EXCEPT ![op].state = How(ops[op].kind, state)]
    ELSE ops

Room == Len(ops) + spent.faults + spent.air < MaxEvents
Fails == Room /\ spent' = [spent EXCEPT !.faults = @ + 1]

-----------------------------------------------------------------------------
(* The radio, and time *)

Reach(n) ==
  /\ Room /\ spent' = [spent EXCEPT !.air = @ + 1]
  /\ air' = IF n \in air THEN air \ {n} ELSE air \cup {n}
  /\ radio' = IF radio.ssid = n /\ n \in air /\ radio.link = "up"
                THEN [radio EXCEPT !.link = "down"] ELSE radio
  /\ UNCHANGED <<wifi, scan, asked, apply, due, at, tasks, ops, joined>>

Join ==
  /\ radio.link = "joining" /\ radio.ssid \in air
  /\ radio' = [radio EXCEPT !.link = "up"]
  /\ UNCHANGED <<air, wifi, scan, asked, apply, due, at, tasks, ops, spent, joined>>

\* _scanDone(), the driver's callback: only now the results are complete.
ScanDone ==
  /\ radio.scan = "running"
  /\ radio' = [radio EXCEPT !.scan = "done"]
  /\ UNCHANGED <<air, wifi, scan, asked, apply, due, at, tasks, ops, spent, joined>>

Runs(t) ==
  CASE t = "link" -> wifi.state \in {"connecting", "backoff"}
    [] t = "grace" -> wifi.grace
    [] t = "requested" -> wifi.timed
    [] t = "scan" -> scan.running

Elapse(t) ==
  /\ Runs(t) /\ t \notin due
  /\ due' = due \cup {t}
  /\ UNCHANGED <<air, radio, wifi, scan, asked, apply, at, tasks, ops, spent, joined>>

-----------------------------------------------------------------------------
(* ProvisioningPolicy *)

Cleared(w) == [w EXCEPT !.grace = FALSE, !.timed = FALSE, !.reason = "none"]

\* stop_requested_setup(): not while Wi-Fi is missing or failing.
Stoppable(w) == w.reason \notin {"unconfigured", "failures"}

\* connection_failed()
Failed(w) ==
  LET failures == IF w.failures < Threshold THEN w.failures + 1 ELSE Threshold
      counts == w.reason # "unconfigured" /\ failures >= Threshold
  IN [w EXCEPT !.failures = failures, !.grace = FALSE,
               !.reason = IF counts THEN "failures" ELSE @,
               !.timed = IF counts THEN FALSE ELSE @]

\* Mutant (Reachable): one failure without another attempt is counted as one.
AbandonedLike(w) == Failed(w)

\* connection_abandoned(): the station does not try again on its own.
Abandoned(w) == Failed([w EXCEPT !.failures = Threshold - 1])

\* request_setup()
Requested(w) ==
  IF ~Stoppable(w) THEN w
  ELSE [w EXCEPT !.grace = FALSE, !.reason = "requested", !.timed = TRUE]

-----------------------------------------------------------------------------
(* The network task: parts of a poll *)

\* A result that was claimed is published before anything else.
Part(p) == at = p /\ apply.ending.op = 0

Ends(op, state) == IF op = 0 THEN NoOne ELSE [op |-> op, state |-> state]

\* succeed_reconfigure(), fail_reconfigure(): the operation, then the flag.
Publish ==
  /\ apply.ending.op # 0
  /\ ops' = Updated(apply.ending.op, apply.ending.state)
  /\ apply' = [apply EXCEPT !.ending = NoOne, !.completed = apply.ending.op]
  /\ UNCHANGED <<air, radio, wifi, scan, asked, due, at, tasks, spent, joined>>

\* start_setup_ap()
ApOutcome == IF wifi.ap \/ ~Room THEN {TRUE} ELSE BOOLEAN
SpendIf(failed) ==
  IF failed THEN spent' = [spent EXCEPT !.faults = @ + 1, !.ap = TRUE] ELSE UNCHANGED spent

\* complete_setup_mode_request()
SetupCompleted(up) ==
  /\ wifi' = [(IF wifi.pending THEN wifi ELSE Requested(wifi))
                EXCEPT !.pending = FALSE, !.ap = up]
  /\ scan' = [scan EXCEPT !.requested = @ \/ up]
  /\ ops' = Updated(asked.setup, IF up THEN "succeeded" ELSE "failed")
  /\ asked' = [asked EXCEPT !.setup = 0, !.start = FALSE]
  /\ SpendIf(~up)

\* complete_setup_stop_request()
SetupStopped ==
  /\ wifi' = IF Stoppable(wifi) THEN Cleared(wifi) ELSE wifi
  /\ ops' = Updated(asked.setup, IF Stoppable(wifi) THEN "succeeded" ELSE "failed")
  /\ asked' = [asked EXCEPT !.setup = 0, !.stop = FALSE]
  /\ due' = IF Stoppable(wifi) THEN due \ {"requested", "grace"} ELSE due

\* A setup network that is asked for waits for the end of a scan.
PollRequests ==
  /\ Part("requests") /\ at' = "settings"
  /\ \/ /\ asked.start /\ ~scan.running
        /\ \E up \in ApOutcome : SetupCompleted(up)
        /\ due' = IF Stoppable(wifi) THEN due \ {"requested", "grace"} ELSE due
     \/ /\ asked.start /\ scan.running
        /\ wifi' = [Requested(wifi) EXCEPT !.pending = TRUE]
        /\ asked' = [asked EXCEPT !.start = FALSE]
        /\ due' = IF Stoppable(wifi) THEN due \ {"requested", "grace"} ELSE due
        /\ UNCHANGED <<scan, ops, spent>>
     \/ asked.stop /\ SetupStopped /\ UNCHANGED <<scan, spent>>
     \/ /\ ~asked.start /\ ~asked.stop
        /\ UNCHANGED <<wifi, scan, asked, ops, due, spent>>
  /\ UNCHANGED <<air, radio, apply, tasks, joined>>

\* Mutant (Joins): the old association stays until another is there.
LinkKept(r, ssid) == IF r.link = "up" THEN r ELSE [r EXCEPT !.link = "joining", !.ssid = ssid]

\* start_connection(): disconnect(), begin().
LinkTo(r, ssid) == [r EXCEPT !.link = "joining", !.ssid = ssid]

\* The settings that wait become those of the radio, unless a scan runs.  A
\* station without a network gets the setup network.
PollSettings ==
  /\ Part("settings") /\ at' = "policy"
  /\ IF scan.running \/ ~apply.pending.some
       THEN UNCHANGED <<radio, wifi, scan, apply, due, ops, spent>>
       ELSE LET op == apply.pending.op  new == apply.pending.settings
                taken == [apply EXCEPT !.pending = NoPending, !.active = op]
            IN \/ /\ new.ssid = NoSsid
                  /\ \E up \in ApOutcome :
                       /\ SpendIf(~up)
                       /\ wifi' = [wifi EXCEPT !.settings = new, !.was = FALSE, !.ap = up,
                             !.state = IF up THEN "unconfigured" ELSE "fault",
                             !.reason = "unconfigured", !.failures = 0, !.grace = FALSE,
                             !.timed = FALSE]
                       /\ apply' = [taken EXCEPT !.active = 0,
                             !.ending = Ends(op, IF up THEN "succeeded" ELSE "failed")]
                  /\ radio' = [radio EXCEPT !.link = "down", !.ssid = NoSsid]
                  /\ scan' = [scan EXCEPT !.requested = TRUE]
                  /\ due' = due \ {"link", "grace", "requested"}
               \/ /\ new.ssid # NoSsid
                  /\ \/ apply' = taken /\ UNCHANGED spent
                     \/ /\ Fails      \* the hostname is refused
                        /\ apply' = [taken EXCEPT !.active = 0, !.ending = Ends(op, "failed")]
                  /\ wifi' = [wifi EXCEPT !.settings = new, !.was = FALSE,
                                          !.state = "connecting", !.grace = FALSE]
                  /\ radio' = LinkTo(radio, new.ssid)
                  /\ due' = due \ {"link", "grace"}
                  /\ UNCHANGED scan
  /\ UNCHANGED <<air, asked, tasks, ops, joined>>

\* The policy's timers; a setup network without a reason closes.
PollPolicy ==
  /\ Part("policy") /\ at' = "scan"
  /\ LET over == (wifi.grace /\ "grace" \in due) \/ (wifi.timed /\ "requested" \in due)
         w == IF over THEN Cleared(wifi) ELSE wifi
     IN /\ wifi' = IF w.reason = "none" /\ ~scan.running THEN [w EXCEPT !.ap = FALSE] ELSE w
        /\ due' = IF over THEN due \ {"grace", "requested"} ELSE due
  /\ UNCHANGED <<air, radio, scan, asked, apply, tasks, ops, spent, joined>>

\* What scanComplete() returns: after a timeout of its own, the wrapper
\* reports a failure while the driver is still at work.
Reports == IF radio.scan = "done" THEN {"results"} ELSE {"failed", "running"}

\* Mutant (ResultsQuiet): the wrapper's own timeout is taken for the end.
DecisionHasty(report) ==
  IF report = "results" THEN "collect"
  ELSE IF report = "failed" THEN "discard" ELSE "wait"

\* classify_wifi_scan_driver_poll()
Decision(report) ==
  IF report = "results" THEN (IF scan.stopped THEN "discard" ELSE "collect")
  ELSE IF ~scan.stopped /\ "scan" \in due THEN "stop" ELSE "wait"

\* finish_scan(), fail_scan(): the results are deleted, the claim is released.
ScanEnds(state) ==
  /\ radio' = [radio EXCEPT !.scan = "none"]
  /\ scan' = [scan EXCEPT !.running = FALSE, !.stopped = FALSE, !.op = 0]
  /\ due' = due \ {"scan"}
  /\ ops' = Updated(scan.op, state)
  /\ asked' = IF scan.op # 0 THEN [asked EXCEPT !.scan = 0] ELSE asked

PollScan ==
  /\ Part("scan") /\ at' = IF wifi.pending THEN "setup" ELSE "link"
  /\ IF scan.running
       THEN /\ \E report \in Reports :
                 CASE Decision(report) = "collect" -> ScanEnds("succeeded")
                   [] Decision(report) = "discard" -> ScanEnds("failed")
                   [] Decision(report) = "stop" -> /\ scan' = [scan EXCEPT !.stopped = TRUE]
                                                   /\ UNCHANGED <<radio, asked, due, ops>>
                   [] OTHER -> UNCHANGED <<radio, scan, asked, due, ops>>
            /\ UNCHANGED spent
       ELSE IF ~scan.requested \/ wifi.state = "connecting"
       THEN UNCHANGED <<radio, scan, asked, due, ops, spent>>
       ELSE \/ /\ radio' = [radio EXCEPT !.scan = "running"]
               /\ scan' = [scan EXCEPT !.requested = FALSE, !.running = TRUE,
                                       !.stopped = FALSE, !.op = asked.scan]
               /\ UNCHANGED <<asked, due, ops, spent>>
            \/ /\ Fails               \* the driver does not start
               /\ radio' = [radio EXCEPT !.scan = "none"]
               /\ scan' = [scan EXCEPT !.requested = FALSE, !.op = 0]
               /\ ops' = Updated(asked.scan, "failed")
               /\ asked' = [asked EXCEPT !.scan = 0]
               /\ UNCHANGED due
  /\ UNCHANGED <<air, wifi, apply, tasks, joined>>

\* A request for the setup network that waited for the scan.
PollSetup ==
  /\ Part("setup") /\ at' = "link"
  /\ IF ~scan.running
       THEN \E up \in ApOutcome : SetupCompleted(up)
       ELSE UNCHANGED <<wifi, scan, asked, ops, spent>>
  /\ UNCHANGED <<air, radio, apply, due, tasks, joined>>

\* schedule_reconnect(): the policy learns of the failure, and the setup
\* network opens if it has a reason to.
Reconnect(up) ==
  LET failed == IF wifi.settings.auto THEN Failed(wifi) ELSE Abandoned(wifi)
  IN /\ wifi' = [failed EXCEPT !.was = FALSE,
                   !.ap = IF failed.reason # "none" THEN up ELSE @,
                   !.state = IF wifi.settings.auto THEN "backoff" ELSE "disconnected"]
     /\ apply' = [apply EXCEPT !.active = 0, !.ending = Ends(apply.active, "failed")]
     /\ due' = due \ {"link", "grace"}

\* enter_connected(): the settings that wait for their result have it.
EnterConnected ==
  /\ wifi' = [wifi EXCEPT !.was = TRUE, !.state = "connected", !.failures = 0,
                          !.grace = @ \/ wifi.reason # "none"]
  /\ apply' = [apply EXCEPT !.active = 0, !.ending = Ends(apply.active, "succeeded")]
  /\ joined' = IF apply.active = 0 THEN joined
               ELSE joined \cup {<<apply.active, radio.ssid>>}
  /\ due' = due \ {"link", "grace"}

PollLink ==
  /\ Part("link") /\ at' = "requests"
  /\ \/ /\ ~Configured \/ (radio.link = "up" /\ wifi.was)
        /\ UNCHANGED <<radio, wifi, apply, due, spent, joined>>
     \/ /\ Configured /\ radio.link = "up" /\ ~wifi.was
        /\ EnterConnected
        /\ UNCHANGED <<radio, spent>>
     \/ /\ Configured /\ radio.link # "up" /\ wifi.was
        /\ \E up \in ApOutcome : Reconnect(up) /\ SpendIf(~up)
        /\ UNCHANGED <<radio, joined>>
     \/ /\ Configured /\ radio.link # "up" /\ ~wifi.was
        /\ wifi.state = "connecting" /\ "link" \in due
        /\ radio' = [radio EXCEPT !.link = "down"]
        /\ \E up \in ApOutcome : Reconnect(up) /\ SpendIf(~up)
        /\ UNCHANGED joined
     \/ /\ Configured /\ radio.link # "up" /\ ~wifi.was
        /\ wifi.state = "backoff" /\ "link" \in due /\ ~scan.running
        /\ radio' = LinkTo(radio, wifi.settings.ssid)
        /\ wifi' = [wifi EXCEPT !.state = "connecting", !.grace = FALSE]
        /\ due' = due \ {"link", "grace"}
        /\ UNCHANGED <<apply, spent, joined>>
     \/ /\ Configured /\ radio.link # "up" /\ ~wifi.was
        /\ ~ (wifi.state = "connecting" /\ "link" \in due)
        /\ ~ (wifi.state = "backoff" /\ "link" \in due /\ ~scan.running)
        /\ UNCHANGED <<radio, wifi, apply, due, spent, joined>>
  /\ UNCHANGED <<air, scan, asked, tasks, ops>>

-----------------------------------------------------------------------------
(* The web task and the touch screen *)

NewOp == Len(ops) + 1
Begun(kind, state, ssid) ==
  Append(ops, [kind |-> kind, ssid |-> ssid,
               state |-> IF state = "running" THEN state ELSE How(kind, state)])
OpsLeft == Len(ops) < MaxOps /\ Room

\* request_scan(), request_setup_mode(), request_setup_stop(): one claim each.
ClaimScan ==
  /\ asked.scan = 0
  /\ asked' = [asked EXCEPT !.scan = NewOp]
  /\ scan' = [scan EXCEPT !.requested = TRUE]
ClaimSetup(flag) ==
  /\ asked.setup = 0
  /\ asked' = [asked EXCEPT !.setup = NewOp, ![flag] = TRUE]

\* The claim is taken, or the operation fails at once.
AskScan ==
  /\ web = 0 /\ OpsLeft
  /\ \/ ClaimScan /\ ops' = Begun("scan", "running", NoSsid)
     \/ /\ asked.scan # 0 /\ ops' = Begun("scan", "failed", NoSsid)
        /\ UNCHANGED <<asked, scan>>
  /\ UNCHANGED <<air, radio, wifi, apply, due, at, tasks, spent, joined>>

AskSetup(flag) ==
  /\ web = 0 /\ OpsLeft
  /\ flag = "stop" => Stoppable(wifi)
  /\ \/ ClaimSetup(flag) /\ ops' = Begun("setup", "running", NoSsid)
     \/ asked.setup # 0 /\ ops' = Begun("setup", "failed", NoSsid) /\ UNCHANGED asked
  /\ UNCHANGED <<air, radio, wifi, scan, apply, due, at, tasks, spent, joined>>

Receipt(kind, settings) ==
  kind = "connect" \/ (kind = "patch" /\ settings # saved.settings)

\* submit_replace(): the gate is reserved before the command is queued.
SubmitReplace(kind, settings, receipt) ==
  IF receipt /\ gate.expected # 0
    THEN ops' = Begun(kind, "failed", settings.ssid) /\ UNCHANGED <<queue, gate>>
    ELSE /\ ops' = Begun(kind, "running", settings.ssid)
         /\ queue' = Append(queue, [op |-> NewOp, kind |-> kind, settings |-> settings,
                                     receipt |-> receipt])
         /\ gate' = IF receipt THEN [expected |-> NewOp, delivered |-> 0] ELSE gate

\* The answer to a browser goes out while the command may already run.
Submit(kind, settings) ==
  /\ web = 0 /\ OpsLeft
  /\ SubmitReplace(kind, settings, Receipt(kind, settings))
  /\ web' = IF kind = "touch" \/ queue' = queue THEN 0 ELSE NewOp
  /\ UNCHANGED <<air, radio, wifi, scan, asked, apply, due, at, worker, saved, spent, joined>>

\* The 202 went out, or the connection broke.
Acknowledge ==
  /\ web # 0
  /\ gate' = IF gate.expected = web THEN [gate EXCEPT !.delivered = web] ELSE gate
  /\ web' = 0
  /\ UNCHANGED <<air, radio, wifi, scan, asked, apply, due, at, worker, queue, saved, ops,
                 spent, joined>>

ReceiptLost ==
  /\ web # 0 /\ Fails
  /\ web' = 0
  /\ UNCHANGED <<air, radio, wifi, scan, asked, apply, due, at, worker, queue, gate, saved,
                 ops, joined>>

-----------------------------------------------------------------------------
(* The configuration task *)

network == <<air, radio, wifi, scan, asked, due, at, joined>>

Fetch ==
  /\ worker.stage = "idle" /\ queue # <<>>
  /\ worker' = [stage |-> IF queue[1].receipt THEN "receipt" ELSE "save", op |-> queue[1].op,
                kind |-> queue[1].kind, settings |-> queue[1].settings, detached |-> FALSE]
  /\ queue' = Tail(queue)
  /\ UNCHANGED <<network, apply, gate, saved, web, ops, spent>>

Freed == IF gate.expected = worker.op THEN [expected |-> 0, delivered |-> 0] ELSE gate

\* receipt_timeout_ms pass: neither the settings nor the radio are touched.
ReceiptExpires ==
  /\ worker.stage = "receipt" /\ gate.delivered # worker.op
  /\ ops' = Updated(worker.op, "failed")
  /\ gate' = Freed
  /\ worker' = NoCommand
  /\ UNCHANGED <<network, apply, queue, saved, web, spent>>

ReceiptSeen ==
  /\ worker.stage = "receipt" /\ gate.delivered = worker.op
  /\ worker' = [worker EXCEPT !.stage = "save"]
  /\ UNCHANGED <<network, apply, queue, gate, saved, web, ops, spent>>

Save ==
  /\ worker.stage = "save"
  /\ \/ /\ saved' = [saved EXCEPT !.settings = worker.settings]
        /\ IF worker.settings # saved.settings \/ worker.kind = "connect"
             THEN worker' = [worker EXCEPT !.stage = "submit"] /\ UNCHANGED ops
             ELSE /\ worker' = [worker EXCEPT !.stage = "result"]
                  /\ ops' = Updated(worker.op, "succeeded")
        /\ UNCHANGED spent
     \/ /\ Fails                 \* another revision, or the storage
        /\ ops' = Updated(worker.op, "failed")
        /\ worker' = [worker EXCEPT !.stage = "result"]
        /\ UNCHANGED saved
  /\ UNCHANGED <<network, apply, queue, gate, web>>

\* request_reconfigure()
Handover ==
  /\ worker.stage = "submit"
  /\ IF apply.pending.some \/ apply.active # 0
       THEN /\ ops' = Updated(worker.op, "failed")
            /\ worker' = [worker EXCEPT !.stage = "result"]
            /\ UNCHANGED apply
       ELSE /\ apply' = [apply EXCEPT !.completed = 0,
               !.pending = [op |-> worker.op, some |-> TRUE, settings |-> worker.settings]]
            /\ worker' = [worker EXCEPT !.stage = "wait"]
            /\ UNCHANGED ops
  /\ UNCHANGED <<network, queue, gate, saved, web, spent>>

Finished ==
  /\ worker.stage = "wait" /\ apply.completed = worker.op
  /\ worker' = [worker EXCEPT !.stage = "result"]
  /\ UNCHANGED <<network, apply, queue, gate, saved, web, ops, spent>>

\* maximum_network_apply_wait_ms pass: what waits stays, without its operation.
Abandon ==
  /\ worker.stage = "wait" /\ apply.completed # worker.op
  /\ LET waits == apply.pending.some /\ apply.pending.op = worker.op
     IN /\ apply' = IF waits THEN [apply EXCEPT !.pending.op = 0] ELSE apply
        /\ worker' = [worker EXCEPT !.stage = "abandon", !.detached = waits]
  /\ UNCHANGED <<network, queue, gate, saved, web, ops, spent>>

\* ... and so does what the network task works on, unless its result is claimed.
Detach ==
  /\ worker.stage = "abandon"
  /\ LET works == apply.active = worker.op
     IN /\ apply' = IF works THEN [apply EXCEPT !.active = 0] ELSE apply
        /\ ops' = IF works \/ worker.detached THEN Updated(worker.op, "failed") ELSE ops
  /\ worker' = [worker EXCEPT !.stage = "result"]
  /\ UNCHANGED <<network, queue, gate, saved, web, spent>>

\* confirm_browser_setup()
ReadyConfirmed == [saved EXCEPT !.ready = TRUE]

\* A Save & Connect that succeeded completes the setup.
Result ==
  /\ worker.stage = "result"
  /\ IF ops[worker.op].state = "succeeded" /\ worker.kind = "connect"
       THEN \/ saved' = ReadyConfirmed /\ UNCHANGED spent
            \/ Fails /\ UNCHANGED saved
       ELSE UNCHANGED <<saved, spent>>
  /\ gate' = Freed
  /\ worker' = NoCommand
  /\ UNCHANGED <<network, apply, queue, web, ops>>

-----------------------------------------------------------------------------
Poll == PollRequests \/ PollSettings \/ PollPolicy \/ PollScan \/ PollSetup \/ PollLink
Work == Fetch \/ ReceiptSeen \/ Save \/ Handover \/ Finished \/ Detach \/ Result

Next ==
  \/ (\E n \in Ssids : Reach(n)) \/ Join \/ ScanDone
  \/ (\E t \in Timers : Elapse(t))
  \/ Publish \/ Poll
  \/ AskScan \/ (\E flag \in {"start", "stop"} : AskSetup(flag))
  \/ (\E ask \in Asks : Submit(ask[1], ask[2]))
  \/ Acknowledge \/ ReceiptLost
  \/ Work \/ ReceiptExpires \/ Abandon

Spec == Init /\ [][Next]_vars

\* The tasks run, a wait ends, timers elapse and the driver ends a scan.
FairSpec ==
  /\ Spec
  /\ WF_vars(Publish \/ Poll)
  /\ WF_vars(Work \/ ReceiptExpires \/ Abandon)
  /\ WF_vars(ScanDone) /\ WF_vars(Elapse("link")) /\ WF_vars(Elapse("scan"))

-----------------------------------------------------------------------------
(* Properties *)

\* A Save & Connect that succeeded joined the network it was asked for in its
\* own name, and only such a one completes the setup: neither the association
\* that was there before, nor the result of a command that was given up
\* (wifi_service.cpp:225-251, 557-585; configuration_worker.cpp:297-312).
Joined(op) == <<op, ops[op].ssid>> \in joined
Connected(op) == ops[op].kind = "connect" /\ ops[op].state = "succeeded"
JoinedTrue ==
  /\ \A op \in DOMAIN ops : Connected(op) => Joined(op)
  /\ saved.ready => \E op \in DOMAIN ops : Connected(op)

\* A success is of the network it was asked for (wifi_service.cpp:225-251), and the
\* tasks hand each other only what is theirs.
Joins == TypeOK /\ JoinedTrue

\* Until the driver's callback is through, the results of a scan are not
\* deleted, whatever the wrapper reports (network_policy.hpp:194-199).
ResultsQuiet ==
  [][radio.scan = "running" => radio.scan' # "none"]_radio

\* Again and again the station can be reached: it is on its network, or its
\* setup network is open (network_policy.hpp:92-98: one failed attempt is
\* final without auto_reconnect), unless the radio once failed to open it:
\* without auto_reconnect nothing tries again.
Reachable == []<>(wifi.state = "connected" \/ wifi.ap \/ spent.ap)
=============================================================================
