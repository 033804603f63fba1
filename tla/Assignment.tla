----------------------------- MODULE Assignment -----------------------------
(***************************************************************************)
(* Toolhead assignment.  The user sees the station's list of printers and  *)
(* the spool on it, and confirms an assignment or an unassignment; the     *)
(* backend task carries the command out against FilaBridge, a service that *)
(* others change too, where printers start and end prints, and whose       *)
(* answers can be lost.  The same task probes FilaBridge, which refreshes  *)
(* the list, and looks at the tag reader between commands.                 *)
(*                                                                         *)
(* spool_generation and printer_revision only ever grow and are compared   *)
(* for equality: a request remembers of each whether it still holds.       *)
(***************************************************************************)
EXTENDS FiniteSets, Integers, Sequences

CONSTANTS
  Tools,                 \* toolheads of the printer
  Spools,                \* Spoolman ids
  Disabled,              \* toolheads whose local profile is disabled
  Nobody, Unlisted, NoRequest,   \* no spool, no list of printers, no command
  MaxTags, MaxChanges, MaxOutages, MaxAsks, Depth   \* bounds for model checking

ASSUME OccupancyAssumption == Nobody \notin Spools /\ Disabled \subseteq Tools
ASSUME DepthAssumption == Depth \in Nat

Occupancy == [Tools -> Spools \cup {Nobody}]
PrinterState == {"idle", "printing", "unknown"}
Listing == [map : Occupancy, state : PrinterState]

VARIABLES
  bridge,    \* FilaBridge: its mapping, the printer's state, its version
  adapter,   \* FilaBridgeAdapter: status_ and discovery_
  station,   \* StationWorkflow: the spool, what it knows of FilaBridge
  required,  \* discovery_required_ of the backend worker
  changed,   \* the backend settings changed and are not applied
  dialog,    \* what the user is asked to confirm
  requests,     \* commands of the backend worker
  worker,    \* the command or probe being processed
  spent,     \* counts for the bounds
  had        \* history: what each toolhead had since it was last listed

assignment == <<bridge, adapter, station, required, changed, dialog, requests, worker, spent, had>>

Request == [kind : {"assign", "unassign"}, tool : Tools, spool : Spools \cup {Nobody},
            occupant : Spools \cup {Nobody}, state : PrinterState,
            replace : BOOLEAN, override : BOOLEAN,
            sameSpool : BOOLEAN, sameList : BOOLEAN, old : BOOLEAN]

BridgeTyped == bridge \in [map : Occupancy, state : PrinterState, version : {"tested", "other"}]
AdapterTyped ==
  adapter \in [capable : BOOLEAN, healthy : BOOLEAN,
               version : {"", "tested", "other"}, discovery : Listing \cup {Unlisted}]
StationTyped ==
  station \in [spool : Spools \cup {Nobody},
               filabridge : {"unknown", "online", "offline"}, available : BOOLEAN,
               printers : Listing \cup {Unlisted}]
SwitchesTyped == required \in BOOLEAN /\ changed \in BOOLEAN
DialogTyped == dialog \in Request \cup {NoRequest}
RequestsTyped == requests \in Seq(Request) /\ Len(requests) <= Depth
WorkerTyped ==
  worker \in [stage : {"idle", "probe", "refresh", "start", "list", "reread", "post",
                       "readback", "finish"},
              cmd : Request \cup {NoRequest},
              result : {"", "odd", "verified", "asks", "down", "refused"},
              basis : Listing \cup {Unlisted}]

AssignmentTyped ==
  /\ BridgeTyped /\ AdapterTyped /\ StationTyped /\ SwitchesTyped
  /\ DialogTyped /\ RequestsTyped /\ WorkerTyped

AtRest == [stage |-> "idle", cmd |-> NoRequest, result |-> "", basis |-> Unlisted]
NoStatus == [capable |-> FALSE, healthy |-> FALSE, version |-> "", discovery |-> Unlisted]

AssignmentInit ==
  /\ bridge \in [map : Occupancy, state : {"idle"}, version : {"tested"}]
  /\ adapter = NoStatus
  /\ station = [spool |-> Nobody, filabridge |-> "unknown", available |-> FALSE,
                printers |-> Unlisted]
  /\ required = TRUE /\ changed = FALSE
  /\ dialog = NoRequest /\ requests = <<>> /\ worker = AtRest
  /\ spent = [tags |-> 0, changes |-> 0, faults |-> 0, asks |-> 0]
  /\ had = [t \in Tools |-> {}]

Printers == [map |-> bridge.map, state |-> bridge.state]
Active(state) == state = "printing"
Unverified(state) == state = "unknown"

-----------------------------------------------------------------------------
(* FilaBridge and its other users *)

Spend(what) == spent' = [spent EXCEPT ![what] = @ + 1]
Witnessed(map) == had' = [t \in Tools |-> had[t] \cup {map[t]}]

Elsewhere ==
  /\ spent.changes < MaxChanges /\ Spend("changes")
  /\ \/ \E t \in Tools, s \in Spools \cup {Nobody} :
          bridge' = [bridge EXCEPT !.map[t] = s]
     \/ \E p \in PrinterState : bridge' = [bridge EXCEPT !.state = p]
     \/ \E v \in {"tested", "other"} : bridge' = [bridge EXCEPT !.version = v]
  /\ Witnessed(bridge'.map)
  /\ UNCHANGED <<adapter, station, required, changed, dialog, requests, worker>>

\* The user saves other backend settings.
ChangeSettings ==
  /\ spent.changes < MaxChanges /\ Spend("changes") /\ ~changed
  /\ changed' = TRUE
  /\ UNCHANGED <<bridge, adapter, station, required, dialog, requests, worker, had>>

\* How a request to FilaBridge fails: no answer, an answer that counts as a
\* lost connection (rejected credentials, HTTP 5xx, no memory), another one.
Failure == {"down", "refused", "odd"}
ConnectionFailure(f) == f \in {"down", "refused"}
Outage == spent.faults < MaxOutages /\ Spend("faults")

\* request(): without an answer FilaBridge is not healthy.
AfterFailure(f) == IF f = "down" THEN [adapter EXCEPT !.healthy = FALSE] ELSE adapter

-----------------------------------------------------------------------------
(* The workflow's snapshot, and the requests that rest on it *)

Fallen(r, field) == IF r = NoRequest THEN r ELSE [r EXCEPT ![field] = FALSE]
NoLonger(field) ==
  /\ dialog' = Fallen(dialog, field)
  /\ requests' = [i \in DOMAIN requests |-> Fallen(requests[i], field)]
  /\ worker' = [worker EXCEPT !.cmd = Fallen(@, field)]

\* clear() and begin_identified_spool(), from the reader that the backend task
\* polls between commands.
SpoolMoved(s) ==
  /\ worker.stage = "idle"
  /\ spent.tags < MaxTags /\ Spend("tags")
  /\ station' = [station EXCEPT !.spool = s]
  /\ NoLonger("sameSpool")
  /\ UNCHANGED <<bridge, adapter, required, changed, had>>

\* The confirmation is shown, with what the station knows now.
Show(kind, t, replace, override) ==
  /\ dialog = NoRequest
  /\ spent.asks < MaxAsks /\ Spend("asks")
  /\ station.printers # Unlisted
  /\ kind = "assign" => station.spool # Nobody
  /\ dialog' = [kind |-> kind, tool |-> t,
                spool |-> IF kind = "assign" THEN station.spool ELSE Nobody,
                occupant |-> station.printers.map[t], state |-> station.printers.state,
                replace |-> replace, override |-> override,
                sameSpool |-> TRUE, sameList |-> TRUE, old |-> FALSE]
  /\ UNCHANGED <<bridge, adapter, station, required, changed, requests, worker, had>>

Dismiss ==
  /\ dialog # NoRequest
  /\ dialog' = NoRequest
  /\ UNCHANGED <<bridge, adapter, station, required, changed, requests, worker, spent, had>>

\* submit_assignment_operation(), submit_unassignment_operation(): a full
\* queue fails the operation.
Consent ==
  /\ dialog # NoRequest
  /\ dialog' = NoRequest
  /\ requests' = IF Len(requests) < Depth THEN Append(requests, dialog) ELSE requests
  /\ UNCHANGED <<bridge, adapter, station, required, changed, worker, spent, had>>

\* destructive_command_expiry_ms pass.
Expire ==
  /\ requests # <<>> /\ ~requests[1].old
  /\ requests' = [requests EXCEPT ![1].old = TRUE]
  /\ UNCHANGED <<bridge, adapter, station, required, changed, dialog, worker, spent, had>>

-----------------------------------------------------------------------------
(* Probes, by the interval or because the settings changed *)

Applied == IF changed THEN NoStatus ELSE adapter

BeginProbe ==
  /\ worker.stage = "idle"
  /\ worker' = [AtRest EXCEPT !.stage = "probe"]
  /\ UNCHANGED <<bridge, adapter, station, required, changed, dialog, requests, spent, had>>

AfterProbe == IF worker.cmd = NoRequest THEN AtRest ELSE [worker EXCEPT !.stage = "start"]

\* set_filabridge_probe(false): the list goes.
Lost ==
  /\ station' = [station EXCEPT !.filabridge = "offline", !.available = FALSE,
                                !.printers = Unlisted]
  /\ dialog' = Fallen(dialog, "sameList")
  /\ requests' = [i \in DOMAIN requests |-> Fallen(requests[i], "sameList")]
  /\ worker' = [AfterProbe EXCEPT !.cmd = Fallen(@, "sameList")]

ProbeWithoutWifi ==
  /\ worker.stage = "probe" /\ Outage
  /\ adapter' = Applied /\ changed' = FALSE
  /\ required' = TRUE
  /\ Lost
  /\ UNCHANGED <<bridge, had>>

\* No health.  A probe that is full starts from no status at all.
ProbeFails(full) ==
  /\ worker.stage = "probe" /\ Outage
  /\ required \/ changed => full
  /\ adapter' = [(IF full THEN NoStatus ELSE Applied)
                   EXCEPT !.discovery = Unlisted, !.version = "", !.healthy = FALSE]
  /\ changed' = FALSE /\ required' = IF full THEN FALSE ELSE required
  /\ Lost
  /\ UNCHANGED <<bridge, had>>

\* Health only: another version takes the capabilities away until a full
\* probe, and so does an outage, for the worker, if it was noticed.
ProbeHealth ==
  /\ worker.stage = "probe" /\ ~required /\ ~changed
  /\ adapter' = [adapter EXCEPT !.discovery = Unlisted, !.healthy = TRUE,
                   !.version = bridge.version,
                   !.capable = @ /\ adapter.version = bridge.version]
  /\ required' = ~adapter.healthy
  /\ station' = [station EXCEPT !.filabridge = "online", !.available = adapter'.capable]
  /\ worker' = AfterProbe
  /\ UNCHANGED <<bridge, changed, dialog, requests, spent, had>>

\* Health, then the printers, which may fail; the list follows in any case.
ProbeAll ==
  /\ worker.stage = "probe"
  /\ \/ /\ adapter' = [capable |-> bridge.version = "tested", healthy |-> TRUE,
                       version |-> bridge.version, discovery |-> Printers]
        /\ UNCHANGED spent
     \/ \E f \in Failure :
          /\ Outage
          /\ adapter' = [capable |-> FALSE, healthy |-> f # "down",
                         version |-> bridge.version, discovery |-> Unlisted]
  /\ changed' = FALSE /\ required' = FALSE
  /\ station' = [station EXCEPT !.filabridge = "online", !.available = adapter'.capable]
  /\ worker' = [worker EXCEPT !.stage = "refresh"]
  /\ UNCHANGED <<bridge, dialog, requests, had>>

\* Mutant (Consented): what the probe found serves more than once.
TakesAgain(listing, after) ==
  \/ adapter.discovery # Unlisted /\ listing = adapter.discovery /\ after = adapter
  \/ adapter.discovery = Unlisted /\ listing = Printers /\ after = adapter

\* list_printers(): what the probe found, once; else a new read.
Takes(listing, after) ==
  /\ listing = IF adapter.discovery # Unlisted THEN adapter.discovery ELSE Printers
  /\ after = [adapter EXCEPT !.discovery = Unlisted]

Refresh ==
  /\ worker.stage = "refresh"
  /\ \/ \E listing \in {Printers, adapter.discovery} :
          /\ Takes(listing, adapter')
          /\ station' = [station EXCEPT !.filabridge = "online",
                           !.available = adapter.capable, !.printers = listing]
          /\ had' = [t \in Tools |-> {bridge.map[t], listing.map[t]}]
          /\ UNCHANGED spent
     \/ \E f \in Failure :
          /\ adapter.discovery = Unlisted /\ Outage
          /\ adapter' = AfterFailure(f)
          /\ station' = [station EXCEPT !.available = FALSE, !.printers = Unlisted,
                           !.filabridge = IF ConnectionFailure(f) THEN "offline" ELSE "online"]
          /\ UNCHANGED had
  /\ dialog' = Fallen(dialog, "sameList")
  /\ requests' = [i \in DOMAIN requests |-> Fallen(requests[i], "sameList")]
  /\ worker' = [AfterProbe EXCEPT !.cmd = Fallen(@, "sameList")]
  /\ UNCHANGED <<bridge, required, changed>>

-----------------------------------------------------------------------------
(* A command *)

cmd == worker.cmd
Target == cmd.spool

\* New settings are applied and probed before the command's age is looked at.
Take ==
  /\ worker.stage = "idle" /\ requests # <<>>
  /\ worker' = [AtRest EXCEPT !.stage = IF changed THEN "probe" ELSE "start", !.cmd = requests[1]]
  /\ requests' = Tail(requests)
  /\ UNCHANGED <<bridge, adapter, station, required, changed, dialog, spent, had>>

\* The command is not old, and what it rests on is what the station shows.
Current ==
  /\ ~cmd.old
  /\ cmd.sameSpool /\ cmd.sameList
  /\ cmd.kind = "assign" => station.spool = cmd.spool

Startable ==
  /\ Current
  /\ station.filabridge # "offline" /\ station.available
  /\ ~ (cmd.kind = "assign" /\ cmd.tool \in Disabled)

Start ==
  /\ worker.stage = "start"
  /\ worker' = IF Startable THEN [worker EXCEPT !.stage = "list"] ELSE AtRest
  /\ UNCHANGED <<bridge, adapter, station, required, changed, dialog, requests, spent, had>>

\* precondition_matches()
Matches(seen) == seen.map[cmd.tool] = cmd.occupant /\ seen.state = cmd.state

Permitted(seen) ==
  /\ Active(seen.state) \/ Unverified(seen.state) => cmd.override
  /\ cmd.kind = "assign" /\ seen.map[cmd.tool] # Nobody => cmd.replace

Ends(result) == [worker EXCEPT !.stage = "finish", !.result = result]

\* assign() and unassign() decide on what was read.
Judged(seen) ==
  IF ~Matches(seen) THEN Ends("odd")
  ELSE IF seen.map[cmd.tool] = Target THEN Ends("verified")
  ELSE IF ~Permitted(seen) THEN Ends("asks")
  ELSE [worker EXCEPT !.stage = "reread", !.basis = Printers]

\* revalidate()
Revalidate ==
  /\ worker.stage = "list"
  /\ \/ \E seen \in {Printers, adapter.discovery} :
          /\ Takes(seen, adapter')
          /\ UNCHANGED spent
          /\ worker' = Judged(seen)
     \/ \E f \in Failure :
          /\ adapter.discovery = Unlisted /\ Outage
          /\ adapter' = AfterFailure(f)
          /\ worker' = Ends(f)
  /\ UNCHANGED <<bridge, station, required, changed, dialog, requests, had>>

\* mutate_mapping() before its POST: the printers are read once more, for
\* their names.
Reread ==
  /\ worker.stage = "reread"
  /\ \/ /\ adapter' = [adapter EXCEPT !.discovery = Unlisted]
        /\ worker' = IF adapter.capable THEN [worker EXCEPT !.stage = "post"] ELSE Ends("odd")
        /\ UNCHANGED spent
     \/ \E f \in Failure :
          /\ adapter.capable /\ Outage
          /\ adapter' = [AfterFailure(f) EXCEPT !.discovery = Unlisted]
          /\ worker' = Ends(f)
  /\ UNCHANGED <<bridge, station, required, changed, dialog, requests, had>>

\* FilaBridge applies the change or does not, and its answer says so or not.
Post ==
  /\ worker.stage = "post"
  /\ \/ bridge' = [bridge EXCEPT !.map[cmd.tool] = Target]
     \/ UNCHANGED bridge
  /\ Witnessed(bridge'.map)
  /\ \/ worker' = [worker EXCEPT !.stage = "readback"] /\ UNCHANGED <<adapter, spent>>
     \/ \E f \in Failure :
          Outage /\ adapter' = AfterFailure(f) /\ worker' = Ends(f)
  /\ UNCHANGED <<station, required, changed, dialog, requests>>

\* Mutant (Mirrors): the answer to the change is trusted.
ReadbackTrusts ==
  /\ worker.stage = "readback"
  /\ worker' = Ends("verified")
  /\ UNCHANGED <<bridge, adapter, station, required, changed, dialog, requests, spent, had>>

Readback ==
  /\ worker.stage = "readback"
  /\ \/ /\ worker' = Ends(IF bridge.map[cmd.tool] = Target THEN "verified" ELSE "odd")
        /\ UNCHANGED <<adapter, spent>>
     \/ \E f \in Failure : Outage /\ adapter' = AfterFailure(f) /\ worker' = Ends(f)
  /\ UNCHANGED <<bridge, station, required, changed, dialog, requests, had>>

\* The list on the station follows a verified change, and is a new one.
Recorded ==
  /\ station' = IF station.printers = Unlisted THEN station
                ELSE [station EXCEPT !.printers.map[cmd.tool] = Target]
  /\ dialog' = Fallen(dialog, "sameList")
  /\ requests' = [i \in DOMAIN requests |-> Fallen(requests[i], "sameList")]

\* The workflow records the outcome, and the operation ends.
Finish ==
  /\ worker.stage = "finish"
  /\ worker' = AtRest
  /\ IF worker.result = "verified"
       THEN Recorded
       ELSE /\ station' = IF ConnectionFailure(worker.result)
                            THEN [station EXCEPT !.filabridge = "offline", !.available = FALSE]
                            ELSE station
            /\ UNCHANGED <<dialog, requests>>
  /\ UNCHANGED <<bridge, adapter, required, changed, spent, had>>

-----------------------------------------------------------------------------
AssignmentNext ==
  \/ Elsewhere \/ ChangeSettings
  \/ \E s \in Spools \cup {Nobody} : SpoolMoved(s)
  \/ \E kind \in {"assign", "unassign"}, t \in Tools, replace, override \in BOOLEAN :
       Show(kind, t, replace, override)
  \/ Dismiss \/ Consent \/ Expire
  \/ BeginProbe \/ ProbeWithoutWifi \/ (\E full \in BOOLEAN : ProbeFails(full))
  \/ ProbeHealth \/ ProbeAll \/ Refresh
  \/ Take \/ Start \/ Revalidate \/ Reread \/ Post \/ Readback \/ Finish

AssignmentSpec == AssignmentInit /\ [][AssignmentNext]_assignment

-----------------------------------------------------------------------------
(* Properties *)

\* When a change is on its way to FilaBridge, the user confirmed it for the
\* spool that is on the station, its command did not wait too long, and the
\* toolhead and the printer really were as the user saw them when the station
\* looked after the command was taken: an occupied toolhead, an active print or
\* an unknown state with the consent that takes
\* (toolhead_assignment_service.cpp:113-138, station_workflow.cpp:305-318,
\* backend_worker.cpp:540).
Consented ==
  worker.stage \in {"reread", "post"} =>
    /\ ~cmd.old
    /\ cmd.kind = "assign" => cmd.spool = station.spool
    /\ worker.basis.map[cmd.tool] = cmd.occupant /\ worker.basis.state = cmd.state
    /\ cmd.state # "idle" => cmd.override
    /\ cmd.kind = "assign" /\ cmd.occupant # Nobody => cmd.replace

\* What the station shows in a toolhead was there at some time since the list
\* was read: neither a change that FilaBridge did not make, nor one made from
\* another spool's command, is shown (station_workflow.cpp:362-381: the cache
\* mirrors FilaBridge).
CacheTrue ==
  station.printers # Unlisted =>
    \A t \in Tools : station.printers.map[t] \in had[t]

\* The station shows FilaBridge's list (station_workflow.cpp:362-381), and requests
\* and commands are what the dialog can make.
Mirrors == AssignmentTyped /\ CacheTrue
=============================================================================
