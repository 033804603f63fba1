---------------------------- MODULE JournalFile ----------------------------
(* The recovery record as two LittleFS files (writer_journal.cpp): save()   *)
(* writes a staging file, reads it back byte by byte and renames it over   *)
(* the record; clear() removes both and looks whether they are gone;       *)
(* load() accepts only the record file, and only if it decodes.  A rename  *)
(* and a removal happen at once or not at all; a write may stop anywhere,  *)
(* and may store something else than it was given.                         *)
CONSTANTS Record, NoRecord, Yes, No, Pending,
  Torn   \* a file of the wrong size or checksum, or with the wrong bytes

ASSUME ValuesAssumption ==
  /\ NoRecord \notin Record /\ Torn \notin Record /\ Torn # NoRecord
  /\ Yes \notin Record /\ No \notin Record /\ Pending \notin Record

VARIABLES
  live,     \* /writer-recovery.bin
  stage,    \* /writer-recovery.new
  pc,       \* where the call under way is
  given,    \* the record save() was given
  answer    \* what the last call returned

vars == <<live, stage, pc, given, answer>>

File == Record \cup {NoRecord, Torn}

TypeOK ==
  /\ live \in File /\ stage \in File
  /\ pc \in {"idle", "open", "write", "verify", "rename", "renamed",
             "remove", "remove_staging", "exists"}
  /\ given \in Record \cup {NoRecord}
  /\ answer \in Record \cup {Yes, No, Pending}

Init ==
  /\ live \in File /\ stage \in File
  /\ pc = "idle"
  /\ given = NoRecord
  /\ answer = Pending

Save(r) ==
  /\ pc = "idle"
  /\ given' = r
  /\ answer' = Pending
  /\ pc' = "open"
  /\ UNCHANGED <<live, stage>>

\* open() for writing empties the staging file of an earlier call.
Open ==
  /\ pc = "open"
  /\ stage' = Torn
  /\ pc' = "write"
  /\ UNCHANGED <<live, given, answer>>

\* write() takes every byte, but what reaches the flash may differ.
Write ==
  /\ pc = "write"
  /\ stage' \in {given, Torn}
  /\ pc' = "verify"
  /\ UNCHANGED <<live, given, answer>>

\* Mutant (Durable): only the length is compared.
VerifySize ==
  /\ pc = "verify"
  /\ stage # NoRecord
  /\ pc' = "rename"
  /\ UNCHANGED <<live, stage, given, answer>>

Verify ==
  /\ pc = "verify"
  /\ stage = given
  /\ pc' = "rename"
  /\ UNCHANGED <<live, stage, given, answer>>

Rename ==
  /\ pc = "rename"
  /\ live' = stage
  /\ stage' = NoRecord
  /\ pc' = "renamed"
  /\ UNCHANGED <<given, answer>>

Return(value) ==
  /\ answer' = value
  /\ pc' = "idle"
  /\ given' = NoRecord
  /\ UNCHANGED <<live, stage>>

SaveTrue == pc = "renamed" /\ Return(Yes)

\* No workspace, no file, a short write, another content, or no rename.
SaveFalse == pc \in {"open", "write", "verify", "rename"} /\ Return(No)

Clear ==
  /\ pc = "idle"
  /\ answer' = Pending
  /\ pc' = "remove"
  /\ UNCHANGED <<live, stage, given>>

\* clear() does not look at what remove() answers.
RemoveRecord ==
  /\ pc = "remove"
  /\ live' \in {live, NoRecord}
  /\ pc' = "remove_staging"
  /\ UNCHANGED <<stage, given, answer>>

RemoveStaging ==
  /\ pc = "remove_staging"
  /\ stage' \in {stage, NoRecord}
  /\ pc' = "exists"
  /\ UNCHANGED <<live, given, answer>>

ClearAnswer ==
  /\ pc = "exists"
  /\ Return(IF live = NoRecord /\ stage = NoRecord THEN Yes ELSE No)

\* load() fails without a workspace, without the file, or if it is damaged.
Load ==
  /\ pc = "idle"
  /\ answer' \in {No} \cup ({live} \cap Record)
  /\ UNCHANGED <<live, stage, pc, given>>

\* The staging file may lose what was being written to it.
PowerLoss ==
  /\ stage' \in IF pc \in {"write", "verify"} THEN {stage, Torn, NoRecord} ELSE {stage}
  /\ answer' = Pending
  /\ pc' = "idle"
  /\ given' = NoRecord
  /\ UNCHANGED live

Next ==
  \/ \E r \in Record : Save(r)
  \/ Open \/ Write \/ Verify \/ Rename \/ SaveTrue \/ SaveFalse
  \/ Clear \/ RemoveRecord \/ RemoveStaging \/ ClearAnswer
  \/ Load \/ PowerLoss

Spec == Init /\ [][Next]_vars
-----------------------------------------------------------------------------
(* The two files are one durable record *)

Saving == pc \in {"open", "write", "verify", "rename", "renamed"}
Clearing == pc \in {"remove", "remove_staging", "exists"}

D == INSTANCE DurableRecord WITH
  record <- IF live = Torn THEN NoRecord ELSE live,
  call <- [op |-> IF Saving THEN "save" ELSE IF Clearing THEN "clear" ELSE "none",
           value |-> IF Saving THEN given ELSE NoRecord,
           taken |-> \/ pc = "renamed"
                     \/ pc \in {"remove_staging", "exists"} /\ live = NoRecord]

\* save(), clear() and load() keep what DurableRecord promises, whatever fails
\* and wherever the power is lost: the old record stands until the new one is
\* complete, true means done, and a leftover staging file is never loaded.
Durable == D!Spec
=============================================================================
