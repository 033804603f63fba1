--------------------------- MODULE DurableRecord ---------------------------
(* What TagWriterService relies on when it calls nfc::WriterJournal: one    *)
(* durable record, replaced or removed at once and never half.  An answer  *)
(* of true from save() or clear() is a promise about the record; an answer *)
(* of false from save() means the old record stands, one from clear()      *)
(* promises nothing, and one from load() may also be a failure to look.  A *)
(* power loss during a call leaves the record as before it or as after it. *)
CONSTANTS
  Record,     \* what encode_writer_journal() can write
  NoRecord,
  Yes, No,    \* true and false
  Pending     \* no answer since the call began, or since the power came back

VARIABLES
  record,   \* the durable record
  call,     \* the call under way and whether the record has taken its value
  answer    \* what the last call returned

Idle == [op |-> "none", value |-> NoRecord, taken |-> FALSE]
vars == <<record, call, answer>>

Init ==
  /\ record \in Record \cup {NoRecord}
  /\ call = Idle
  /\ answer = Pending

Begin(op, value) ==
  /\ call = Idle
  /\ call' = [op |-> op, value |-> value, taken |-> FALSE]
  /\ answer' = Pending
  /\ UNCHANGED record

\* The one instant at which the record changes.
Take ==
  /\ call # Idle
  /\ ~call.taken
  /\ record' = call.value
  /\ call' = [op |-> call.op, value |-> call.value, taken |-> TRUE]
  /\ UNCHANGED answer

Succeed ==
  /\ call.taken
  /\ call' = Idle
  /\ answer' = Yes
  /\ UNCHANGED record

Refuse ==
  /\ call # Idle
  /\ call.op = "save" => ~call.taken
  /\ call' = Idle
  /\ answer' = No
  /\ UNCHANGED record

Load ==
  /\ call = Idle
  /\ answer' \in {No} \cup ({record} \ {NoRecord})
  /\ UNCHANGED <<record, call>>

PowerLoss ==
  /\ call' = Idle
  /\ answer' = Pending
  /\ UNCHANGED record

Next ==
  \/ \E r \in Record : Begin("save", r)
  \/ Begin("clear", NoRecord)
  \/ Take \/ Succeed \/ Refuse \/ Load \/ PowerLoss

Spec == Init /\ [][Next]_vars
=============================================================================
