-------------------------------- MODULE Scale --------------------------------
(***************************************************************************)
(* The scale: the loop of the scale task over ScaleService, the queue of   *)
(* its commands, the converter (NAU7802) and the settings it reads and     *)
(* writes.  The user puts things on the platform and takes them off, the   *)
(* load cell may be changed in the settings, the bus and the converter may *)
(* fail.                                                                   *)
(*                                                                         *)
(* Weights and counts are small integers: with a true calibration one      *)
(* count is one unit of weight.  Time is counted in samples.               *)
(***************************************************************************)
EXTENDS Integers, Sequences

CONSTANTS
  Cells,         \* load cells one can choose,
  Capacity,      \* and what each carries
  Loads,         \* what may lie on the platform
  Offsets,       \* offsets the converter's own calibration may find
  Reference,     \* the reference weight
  MinCounts,     \* fewest counts that are taken for a reference weight
  TareLimit,     \* more than this on the platform refuses a tare
  Deadband,      \* this near to zero is zero,
  MaxZero,       \* and is followed by the running zero, so far
  ZeroStep,      \* and in such steps
  Window,        \* samples in the filter
  Hold,          \* samples for which a reading must stand
  SessionLength, \* samples after which a measurement is given up
  FailedPolls,   \* polls that fail before the converter is started again
  MaxQueue, MaxAsked, MaxMoves, MaxProfiles, MaxFaults \* bounds

ASSUME CellAssumption == Capacity \in [Cells -> Nat]
ASSUME FilterAssumption == Window \in Nat \ {0} /\ Hold \in Nat \ {0} /\ SessionLength \in Nat
ASSUME ZeroAssumption == ZeroStep \in 1 .. MaxZero /\ MaxZero <= Deadband /\ Deadband <= TareLimit
ASSUME LoadAssumption ==
  Loads \subseteq Nat /\ 0 \in Loads /\ Offsets \subseteq Nat /\ Offsets # {}
ASSUME CountAssumption ==
  /\ {MaxQueue, MaxAsked, MaxMoves, MaxProfiles, MaxFaults, FailedPolls, MinCounts} \subseteq Nat

VARIABLES
  load,    \* what lies on the platform
  chip,    \* the converter: powered, its offset; and initialized_ of its driver
  config,  \* the stored load cell and its calibration
  service, \* ScaleService but for
  filter,  \* its samples and what they show,
  session, \* and its measurement
  loop,    \* the loop of the scale task: where it is, `initialized'
  queue, active, \* commands that wait, the one whose measurement runs
  zeroed,  \* history: the zero was taken, or read at a start, since the offset moved
  asked, moves, profiles, faults

scale == <<load, chip, config, service, filter, session, loop, queue, active, zeroed, asked, moves, profiles, faults>>
bounds == <<asked, moves, profiles>>

None == [zero |-> 0, gain |-> 0, cell |-> "none"]
NoCount == -1000
NoGrams == -1000
Purposes == {"weigh", "tare", "calibration"}

Abs(n) == IF n < 0 THEN -n ELSE n
Clamp(n, low, high) == IF n < low THEN low ELSE IF n > high THEN high ELSE n

\* Counts over the factor of a calibration, and weight times it.
Grams(cal, counts) == ((IF cal.gain < 0 THEN -counts ELSE counts) * Reference) \div Abs(cal.gain)
Counts(cal, weight) == (weight * Abs(cal.gain)) \div Reference

EmptyFilter == [raws |-> <<>>, held |-> 0, plateau |-> 0, gross |-> NoGrams,
                steady |-> FALSE, stable |-> FALSE, settled |-> FALSE, overload |-> FALSE]
Idle == [purpose |-> "weigh", state |-> "idle", age |-> 0, grams |-> NoGrams]
Fresh(cell) == [state |-> "uninitialized", ready |-> FALSE, cell |-> cell, cal |-> None, pending |-> NoCount,
                tared |-> FALSE, moved |-> FALSE, correction |-> 0, dwell |-> 0, failures |-> 0, refused |-> FALSE]

ScaleInit ==
  /\ load = 0
  /\ chip = [powered |-> FALSE, offset |-> CHOOSE o \in Offsets : TRUE, initialized |-> FALSE]
  /\ \E c \in Cells :
       /\ config \in {[cell |-> c, cal |-> k] :
                         k \in {None} \cup {[zero |-> chip.offset, gain |-> Reference, cell |-> b] :
                                            b \in {c} \cap {d \in Cells : Reference <= Capacity[d]}}}
       /\ service = Fresh(c)
  /\ filter = EmptyFilter /\ session = Idle
  /\ loop = [at |-> "poll", initialized |-> FALSE]
  /\ queue = <<>> /\ active = "none"
  /\ zeroed = TRUE /\ asked = 0 /\ moves = 0 /\ profiles = 0 /\ faults = 0

Measuring(s) == s.state \in {"settling", "ready"}

Works == UNCHANGED faults
Fails == faults < MaxFaults /\ faults' = faults + 1

-----------------------------------------------------------------------------
(* The user, the settings and the converter.  What does not change what the   *)
(* commands read may as well come before the poll.                            *)

Move ==
  /\ loop.at = "poll"
  /\ moves < MaxMoves /\ moves' = moves + 1
  /\ load' \in Loads \ {load}
  /\ UNCHANGED <<chip, config, service, filter, session, loop, queue, active, zeroed, asked, profiles, faults>>

\* A new load cell in the settings discards the calibration.
ChangeProfile ==
  /\ profiles < MaxProfiles /\ profiles' = profiles + 1
  /\ \E c \in Cells \ {config.cell} : config' = [cell |-> c, cal |-> None]
  /\ UNCHANGED <<load, chip, service, filter, session, loop, queue, active, zeroed, asked, moves, faults>>

\* The converter loses its supply for a moment; its registers are cleared.
Brownout ==
  /\ loop.at = "poll" /\ chip.powered /\ Fails
  /\ chip' = [chip EXCEPT !.powered = FALSE]
  /\ UNCHANGED <<load, config, service, filter, session, loop, queue, active, zeroed, bounds>>

Submit ==
  /\ loop.at = "poll" /\ asked < MaxAsked /\ Len(queue) < MaxQueue
  /\ asked' = asked + 1
  /\ \E p \in Purposes : queue' = Append(queue, p)
  /\ UNCHANGED <<load, chip, config, service, filter, session, loop, active, zeroed, moves, profiles, faults>>

-----------------------------------------------------------------------------
(* initialize() *)

\* Mutant (CommandsTrue): a start forgets the measurement that it ended.
OutlivesNothing(was, s) == FALSE

\* A measurement that was ended by new settings or a lost converter stays
\* failed, for the command that waits for it.
Outlives(was, s) == was \in {"uninitialized", "disconnected"} /\ s.state = "failed"

\* What is read from the settings: the calibration of this very load cell.
Loaded(cell) ==
  LET cal == IF config.cal.cell = cell THEN config.cal ELSE None
  IN [Fresh(cell) EXCEPT !.refused = service.refused, !.cal = cal, !.tared = cal # None,
                         !.pending = IF cal # None THEN cal.zero ELSE NoCount]

\* Nau7802Device::initialize() powers the converter up, the first time.
Initialize(was, cell, s, then) ==
  /\ session' = IF Outlives(was, s) THEN [s EXCEPT !.grams = NoGrams] ELSE Idle
  /\ filter' = EmptyFilter
  /\ \/ /\ ~chip.initialized /\ Fails /\ UNCHANGED chip
        /\ service' = [Loaded(cell) EXCEPT !.state = "disconnected"]
        /\ loop' = [at |-> "command", initialized |-> FALSE]
     \/ \E o \in Offsets :
          /\ chip' = [powered |-> chip.powered \/ ~chip.initialized, offset |-> o, initialized |-> TRUE]
          /\ \/ /\ Works
                /\ service' = [Loaded(cell) EXCEPT !.state = "sampling", !.ready = TRUE]
                /\ loop' = [at |-> then, initialized |-> TRUE]
             \/ /\ IF chip'.powered THEN Fails ELSE Works
                /\ service' = [Loaded(cell) EXCEPT !.state = "fault"]
                /\ loop' = [at |-> "command", initialized |-> FALSE]
  /\ zeroed' = TRUE
  /\ UNCHANGED <<load, config, queue, active, bounds>>

\* reconfigure_hardware() ends the measurement, and a start follows; then the
\* loop goes on to its poll.
Reconfigure ==
  /\ loop.at = "poll" /\ service.cell # config.cell
  /\ Initialize("uninitialized", config.cell,
                IF Measuring(session) THEN [session EXCEPT !.state = "failed"] ELSE Idle, "sample")

\* The retry, every five seconds.
Retry ==
  /\ loop.at = "poll" /\ ~loop.initialized
  /\ Initialize(service.state, service.cell, session, "command")

-----------------------------------------------------------------------------
(* poll() *)

Total(s) == LET sum[i \in 0 .. Len(s)] == IF i = 0 THEN 0 ELSE sum[i - 1] + s[i] IN sum[Len(s)]
Mean(s) == Total(s) \div Len(s)
Newest(s) == SubSeq(s, IF Len(s) > Window THEN 2 ELSE 1, Len(s))
Uniform(s) == Len(s) = Window /\ \A i \in 1 .. Len(s) : s[i] = s[1]
Next1(n, condition) == IF condition THEN IF n > Hold THEN n ELSE n + 1 ELSE 0

\* update_runtime_zero(): between measurements the zero follows a platform that
\* stands near it, step by step and only so far.
Follows(s, mean, steady, measuring) ==
  LET above == mean - s.cal.zero
      near == \A c \in {above, above - s.correction} : Abs(Grams(s.cal, c)) <= Deadband
      most == Counts(s.cal, MaxZero)
      step == IF Counts(s.cal, ZeroStep) < 1 THEN 1 ELSE Counts(s.cal, ZeroStep)
      further == Clamp(Clamp(above, -most, most) - s.correction, -step, step)
  IN IF s.cal = None THEN [s EXCEPT !.correction = 0, !.dwell = 0]
     ELSE IF measuring \/ ~steady \/ ~near THEN [s EXCEPT !.dwell = 0]
     ELSE IF s.dwell < Hold THEN [s EXCEPT !.dwell = @ + 1]
     ELSE [s EXCEPT !.dwell = 1, !.correction = Clamp(@ + further, -most, most)]

\* push_sample().
Pushed(s, raws) ==
  LET mean == Mean(raws)
      gross == IF s.cal = None THEN NoGrams ELSE Grams(s.cal, mean - s.cal.zero - s.correction)
      over == s.cal # None /\ Abs(gross) > Capacity[s.cal.cell]
      plateau == Next1(filter.plateau, s.pending # NoCount /\ Uniform(raws) /\ Abs(mean - s.pending) >= MinCounts)
      held == Next1(filter.held, s.cal # None /\ Uniform(raws) /\ gross >= 0 /\ ~over)
  IN [raws |-> raws, held |-> held, plateau |-> plateau, gross |-> gross, steady |-> Uniform(raws),
      stable |-> held > Hold, settled |-> plateau > Hold, overload |-> over]

\* Mutant (ReadsTrue): every reading that stands is taken for an empty platform.
NearZeroSteady(f) == f.gross # NoGrams /\ f.steady /\ ~f.overload

\* A platform that stands within the deadband.
NearZero(f) == f.gross # NoGrams /\ f.steady /\ ~f.overload /\ Abs(f.gross) <= Deadband

Ready(f) ==
  CASE session.purpose = "weigh" -> f.stable \/ NearZero(f)
    [] session.purpose = "calibration" -> f.settled
    [] OTHER -> f.steady

\* A zero that was to be found anew, and was not, is no zero any more.
Invalidated(s) == IF s.moved THEN [s EXCEPT !.moved = FALSE, !.tared = FALSE] ELSE s

\* advance_measurement().
Advanced(f, s) ==
  IF session.state # "settling" THEN UNCHANGED session /\ service' = s
  ELSE IF Ready(f)
    THEN /\ session' = IF session.purpose = "weigh"
              THEN [session EXCEPT !.state = "completed", !.age = 0, !.grams = IF NearZero(f) THEN 0 ELSE f.gross]
              ELSE [session EXCEPT !.state = "ready"]
         /\ service' = s
  ELSE IF session.age + 1 >= SessionLength
    THEN session' = [session EXCEPT !.state = "timed_out", !.age = 0] /\ service' = Invalidated(s)
    ELSE session' = [session EXCEPT !.age = @ + 1] /\ service' = s

Polls == loop.at \in {"poll", "sample"} /\ loop.initialized
Goes == loop' = [loop EXCEPT !.at = "command"]

\* A poll that comes before the next sample is no step.
Sample ==
  /\ Polls /\ chip.powered
  /\ \E raws \in {Newest(Append(filter.raws, load + chip.offset))} :
     \E s \in {Follows([service EXCEPT !.failures = 0, !.state = "sampling"], Mean(raws), Uniform(raws), Measuring(session))} :
     \E f \in {Pushed(s, raws)} :
       filter' = f /\ Advanced(f, s)
  /\ Goes
  /\ UNCHANGED <<load, chip, config, queue, active, zeroed, bounds, faults>>

\* fail_active_measurement().
Failed(s) == IF Measuring(s) THEN [s EXCEPT !.state = "failed", !.age = 0] ELSE s

\* A call on the bus fails, or no sample comes for too long.
PollFails ==
  /\ Polls
  /\ IF chip.powered THEN Fails ELSE Works
  /\ LET s == IF Measuring(session) THEN Invalidated(service) ELSE service
         lost == service.failures + 1 >= FailedPolls
     IN /\ service' = [s EXCEPT !.failures = IF lost THEN FailedPolls ELSE @ + 1,
                                !.state = "disconnected", !.ready = ~lost]
        /\ loop' = [at |-> "command", initialized |-> ~lost]
  /\ session' = Failed(session)
  /\ filter' = [filter EXCEPT !.steady = FALSE, !.stable = FALSE]
  /\ UNCHANGED <<load, chip, config, queue, active, zeroed, bounds>>

Waits ==
  /\ loop.at = "poll" /\ ~loop.initialized /\ Goes
  /\ UNCHANGED <<load, chip, config, service, filter, session, queue, active, zeroed, bounds, faults>>

-----------------------------------------------------------------------------
(* process_one() *)

Processes == loop.at = "command" /\ loop' = [loop EXCEPT !.at = "poll"]

Nothing ==
  /\ Processes
  /\ IF active = "none" THEN queue = <<>> ELSE session.state \notin {"timed_out", "failed", "completed", "ready"}
  /\ UNCHANGED <<load, chip, config, service, filter, session, queue, active, zeroed, bounds, faults>>

\* The measurement has ended; the command is answered.
AnswerEnd ==
  /\ Processes
  /\ \/ active # "none" /\ session.state \in {"timed_out", "failed"}
     \/ active = "weigh" /\ session.state = "completed"
  /\ active' = "none"
  /\ UNCHANGED <<load, chip, config, service, filter, session, queue, zeroed, bounds, faults>>

\* A command that waited too long is dropped, and so is one that is refused: a
\* weighing while a weight is being saved.
Drop ==
  /\ Processes /\ active = "none" /\ queue # <<>>
  /\ queue' = Tail(queue)
  /\ UNCHANGED <<load, chip, config, service, filter, session, active, zeroed, bounds, faults>>

Occupied == service.cal # None /\ service.tared /\ filter.gross # NoGrams /\ filter.gross > TareLimit
Starts(p) == session' = [purpose |-> p, state |-> "settling", age |-> 0, grams |-> NoGrams]

\* begin_measurement().  A tare has the converter find its offset anew.
Begin ==
  /\ Processes /\ active = "none" /\ queue # <<>>
  /\ service.ready /\ ~Measuring(session)
  /\ queue' = Tail(queue) /\ active' = Head(queue)
  /\ filter' = EmptyFilter
  /\ Starts(Head(queue))
  /\ CASE Head(queue) = "weigh" -> service.cal # None /\ service.tared /\ UNCHANGED <<service, chip, zeroed>>
       [] Head(queue) = "calibration" -> UNCHANGED <<service, chip, zeroed>>
       [] OTHER -> /\ Occupied => service.refused
                   /\ service' = [service EXCEPT !.refused = FALSE, !.moved = TRUE]
                   /\ zeroed' = FALSE
                   /\ \E o \in Offsets : chip' = [chip EXCEPT !.offset = o]
  /\ UNCHANGED <<load, config, bounds, faults>>

\* What begin_measurement() refuses; a second tare within some time it takes.
Refuse ==
  /\ Processes /\ active = "none" /\ queue # <<>>
  /\ queue' = Tail(queue)
  /\ \/ /\ Head(queue) = "weigh" /\ ~(service.ready /\ service.cal # None /\ service.tared)
        /\ UNCHANGED <<service, chip, zeroed, faults>>
     \/ Head(queue) # "weigh" /\ ~service.ready /\ UNCHANGED <<service, chip, zeroed, faults>>
     \/ /\ Head(queue) = "tare" /\ service.ready /\ Occupied
        /\ service' = [service EXCEPT !.refused = TRUE] /\ UNCHANGED <<chip, zeroed, faults>>
     \/ /\ Head(queue) = "tare" /\ service.ready /\ (Occupied => service.refused) /\ Fails
        /\ zeroed' = FALSE
        /\ service' = [service EXCEPT !.refused = FALSE, !.tared = FALSE]
        /\ \E o \in Offsets : chip' = [chip EXCEPT !.offset = o]
  /\ UNCHANGED <<load, config, filter, session, active, bounds>>

\* save_scale_calibration(): settings hold a calibration of their own load cell only.
Saves(cal) == cal.cell = config.cell /\ Works /\ config' = [config EXCEPT !.cal = cal]
SaveFails(cal) == (IF cal.cell = config.cell THEN Fails ELSE Works) /\ UNCHANGED config

Completes(s) ==
  /\ service' = [s EXCEPT !.correction = 0, !.dwell = 0]
  /\ filter' = EmptyFilter
  /\ session' = [session EXCEPT !.state = "completed", !.age = 0, !.grams = NoGrams]
Gives(s) == service' = s /\ session' = [Failed(session) EXCEPT !.grams = NoGrams] /\ UNCHANGED filter

\* tare(), when the reading is steady.
Tare ==
  /\ Processes /\ active = "tare" /\ session.state = "ready"
  /\ active' = "none" /\ zeroed' = TRUE
  /\ LET zero == Mean(filter.raws)
         s == [service EXCEPT !.pending = zero, !.moved = FALSE, !.tared = TRUE,
                              !.cal = IF @ = None THEN None ELSE [@ EXCEPT !.zero = zero]]
     IN \/ s.cal = None /\ Works /\ UNCHANGED config /\ Completes(s)
        \/ s.cal # None /\ Saves(s.cal) /\ Completes(s)
        \/ s.cal # None /\ SaveFails(s.cal) /\ Gives(s)
  /\ UNCHANGED <<load, chip, queue, bounds>>

\* calibrate(), when the reference has settled.
Calibrate ==
  /\ Processes /\ active = "calibration" /\ session.state = "ready"
  /\ active' = "none" /\ zeroed' = TRUE
  /\ LET delta == Mean(filter.raws) - service.pending
         cal == [zero |-> service.pending, gain |-> delta, cell |-> config.cell]
         s == [service EXCEPT !.cal = cal, !.tared = TRUE]
     IN \/ /\ service.cell # config.cell \/ Reference > Capacity[config.cell]
           /\ Works /\ UNCHANGED <<config, service, filter>> /\ session' = Failed(session)
        \/ service.cell = config.cell /\ Reference <= Capacity[config.cell] /\ Saves(cal) /\ Completes(s)
        \/ service.cell = config.cell /\ Reference <= Capacity[config.cell] /\ SaveFails(cal) /\ Gives(s)
  /\ UNCHANGED <<load, chip, queue, bounds>>

-----------------------------------------------------------------------------

Poll == Reconfigure \/ Retry \/ Sample \/ PollFails \/ Waits
ProcessOne == Nothing \/ AnswerEnd \/ Drop \/ Begin \/ Refuse \/ Tare \/ Calibrate

ScaleNext == Poll \/ ProcessOne \/ Move \/ ChangeProfile \/ Brownout \/ Submit

ScaleSpec == ScaleInit /\ [][ScaleNext]_scale

\* The task goes on, a poll has a sample or fails before long, and a start that
\* failed is tried again.
FairSpec == ScaleSpec /\ WF_scale(Poll \/ ProcessOne) /\ SF_scale(Retry)
-----------------------------------------------------------------------------
(* Properties *)

ChipTyped == chip \in [powered : BOOLEAN, offset : Offsets, initialized : BOOLEAN]
ConfigTyped == config.cell \in Cells /\ config.cal.cell \in Cells \cup {"none"}
ServiceTyped ==
  /\ service.state \in {"uninitialized", "sampling", "disconnected", "fault"}
  /\ service.cell \in Cells /\ service.dwell \in 0 .. Hold /\ service.failures \in 0 .. FailedPolls
FilterTyped == Len(filter.raws) <= Window
SessionTyped ==
  /\ session.purpose \in Purposes
  /\ session.state \in {"idle", "settling", "ready", "completed", "timed_out", "failed"}
CommandsTyped == active \in Purposes \cup {"none"} /\ Len(queue) <= MaxQueue

ScaleTyped ==
  /\ load \in Loads
  /\ ChipTyped /\ ConfigTyped /\ ServiceTyped /\ FilterTyped /\ SessionTyped /\ CommandsTyped

Weighs == session'.state = "completed" /\ session.state = "settling" /\ session.purpose = "weigh"

\* With a zero and a factor that are true for the offset of the converter, no
\* weighing is further from what lies on the platform than the deadband and the
\* farthest running zero together, whatever the platform carried before
\* (scale_service.cpp:332-404, 479-510).
WeighsLoad ==
  [][Weighs /\ service.cal # None /\ service.cal.zero = chip.offset /\ service.cal.gain = Reference =>
       Abs(session'.grams - load) <= Deadband + MaxZero]_scale

\* After a tare that moved the offset and found no zero, nothing is weighed
\* before the next tare, calibration or start (scale_service.cpp:171-175,
\* 451-464; scale_service.hpp:217-220).
ZeroKnown == [][Weighs => zeroed]_scale

\* The calibration of one load cell is never stored for another, whichever of
\* the settings and the scale comes first (application.cpp:572-600,
\* scale_command_queue.cpp:141-151, configuration_service.cpp:621-630).
OwnCell == config.cal # None => config.cal.cell = config.cell

\* No command waits for a measurement that is gone: it runs, or it ended in a
\* way that the command is answered for, whatever became of the converter, the
\* settings or the calibration meanwhile (scale_command_queue.cpp:92-152,
\* scale_service.cpp:149-169, 196-212).
Answerable ==
  active # "none" =>
    \/ Measuring(session) /\ session.purpose = active
    \/ session.state \in {"timed_out", "failed"}
    \/ session.state = "completed" /\ active = "weigh"

\* After a glitch of its supply the scale comes back by itself (CHANGELOG.md:278).
Recovers == []<>(service.ready /\ chip.powered)

\* What the scale says is true: what lies on it, of a zero that is known.
ReadsTrue == WeighsLoad /\ ZeroKnown

\* Every command to the scale is answered, for the load cell it was meant for.
CommandsTrue == ScaleTyped /\ OwnCell /\ Answerable
=============================================================================
