----------------------------- MODULE TagWriter -----------------------------
(***************************************************************************)
(* The tag writer of the station: TagWriterService (process() and the      *)
(* handlers below it), the physical transaction of OpenPrintTagWriter      *)
(* (read(), plan(), plan_clear(), execute()) and the durable recovery      *)
(* record (WriterJournal) they share, with the tags on the reader, a power *)
(* loss at any step, and a user who may send any command at any time.      *)
(*                                                                         *)
(* One command runs to its end on the backend task.  A step of this module *)
(* is a part of a command during which nothing else can happen: between    *)
(* two steps the tag may be lifted or another one placed, and the power    *)
(* may fail.  Settings reach the writer only between two commands.         *)
(*                                                                         *)
(* The physical tail (blocks 78-79), the security bytes, the generation    *)
(* and the deadline only ever make a step fail, and every step here may    *)
(* fail; the requests of a link or an unlink are one step (SpoolLink       *)
(* takes them apart).                                                      *)
(***************************************************************************)
EXTENDS FiniteSets

CONSTANTS
  Tag,            \* the tags a user may place on the reader, by UID
  Spool,          \* Spoolman spools
  Setting,        \* Spoolman settings: URL and the two extra-field keys
  Block,          \* the usable blocks of a tag (0..77 in the code)
  Header,         \* block 0, the envelope
  Identity,       \* the blocks that hold the instance UUID
  Word,           \* contents of a block
  Zero,           \* an erased block
  Images,         \* Images[s]: the images a preview may propose for spool s
  Decodable,      \* the images that decode as an unprotected OpenPrintTag
  ForeignImages,  \* the images another device may leave on a tag
  Torn,           \* words an interrupted block write may leave
  NoPlan, NoRecord, NoSpool, NoSetting

Image == [Block -> Word]
Blank == [b \in Block |-> Zero]

ASSUME BlockAssumption ==
  /\ Header \in Block
  /\ Identity \subseteq Block \ {Header}
ASSUME WordAssumption ==
  /\ Zero \in Word
  /\ Torn \subseteq Word
ASSUME ImageAssumption ==
  /\ Decodable \subseteq Image
  /\ ForeignImages \subseteq Image
  /\ Images \in [Spool -> SUBSET Decodable]
  /\ Blank \notin Decodable

Operation == {"write", "clear"}

\* What the journal keeps of a plan (encode_writer_journal): the owner of a
\* clear is found again at every unlink, so only a write names its spool here.
Record == [uid : Tag, op : Operation, original : Image, target : Image,
           spool : Spool \cup {NoSpool}, settings : Setting, erased : BOOLEAN]

JournalState == {"none", "original", "target", "partial"}

Plan == [uid : Tag, op : Operation, original : Image, target : Image,
         jstate : JournalState, attempted : BOOLEAN, verified : BOOLEAN,
         erased : BOOLEAN]

ASSUME AbsentAssumption ==
  /\ NoRecord \notin Record
  /\ NoPlan \notin Plan
  /\ NoSpool \notin Spool
  /\ NoSetting \notin Setting

Physical == {"preview", "write", "clear_preview", "clear"}
Action == Physical \cup {"retry_association", "retry_unlink", "edit", "browse"}
NoCommand == [action |-> "none", spool |-> NoSpool]
Command == [action : Action \cup {"none"}, spool : Spool \cup {NoSpool}]

Phase == {"idle", "reading", "loading_spool", "preview", "clear_preview", "working", "complete",
          "cleared", "association_pending", "unlink_pending", "write_recovery",
          "clear_recovery", "recovery_discarded", "updated", "browsing",
          "failed"}

PC == {"boot", "idle", "gate", "read", "load", "save", "validate", "commit",
       "link", "persist", "unlink", "forget", "failed"}

VARIABLES
  \* the world
  memory,     \* the bytes on every tag
  field,      \* the tags the reader can see
  settings,   \* the Spoolman settings the adapter uses
  \* durable
  journal,    \* the recovery record
  \* TagWriterService
  plan,       \* plan_
  phase,      \* view_["phase"]
  assoc,      \* association_pending_
  unlink,     \* unlink_pending_
  clearReq,   \* clear_recovery_required_
  moved,      \* clear_settings_changed_
  spool,      \* spool_id_
  captured,   \* settings_url_, identity_key_, uid_key_
  \* the command under way
  pc,
  cmd,
  done,       \* blocks execute() has written and read back
  \* history
  dirty,      \* tags the station began to change and has not seen complete
  owed        \* tags seen complete whose change in Spoolman is outstanding

world   == <<memory, field, settings>>
flags   == <<assoc, unlink, clearReq, moved>>
service == <<plan, phase, assoc, unlink, clearReq, moved, spool, captured>>
history == <<dirty, owed>>
vars    == <<world, journal, service, pc, cmd, done, history>>

TypeOK ==
  /\ memory \in [Tag -> Image]
  /\ field \subseteq Tag
  /\ settings \in Setting
  /\ journal \in Record \cup {NoRecord}
  /\ plan \in Plan \cup {NoPlan}
  /\ phase \in Phase
  /\ assoc \in BOOLEAN /\ unlink \in BOOLEAN
  /\ clearReq \in BOOLEAN /\ moved \in BOOLEAN
  /\ spool \in Spool \cup {NoSpool}
  /\ captured \in Setting \cup {NoSetting}
  /\ pc \in PC
  /\ cmd \in Command
  /\ done \subseteq Block
  /\ dirty \subseteq Tag
  /\ owed \subseteq Tag

Init ==
  /\ memory \in [Tag -> {Blank} \cup ForeignImages \cup UNION {Images[s] : s \in Spool}]
  /\ field = {}
  /\ settings \in Setting
  /\ journal = NoRecord
  /\ plan = NoPlan
  /\ phase = "idle"
  /\ assoc = FALSE /\ unlink = FALSE /\ clearReq = FALSE /\ moved = FALSE
  /\ spool = NoSpool
  /\ captured = NoSetting
  /\ pc = "boot"
  /\ cmd = NoCommand
  /\ done = {}
  /\ dirty = {}
  /\ owed = {}
-----------------------------------------------------------------------------
(* The recovery record and the plan *)

\* encode_writer_journal()
RecordOf(p) ==
  [uid |-> p.uid, op |-> p.op, original |-> p.original, target |-> p.target,
   spool |-> IF p.op = "write" THEN spool ELSE NoSpool,
   settings |-> settings, erased |-> p.erased]

\* decode_writer_journal(): a loaded plan counts as attempted, and as verified
\* only when the record says the tag is already erased.
PlanOf(r) ==
  [uid |-> r.uid, op |-> r.op, original |-> r.original, target |-> r.target,
   jstate |-> "none", attempted |-> TRUE, verified |-> r.erased,
   erased |-> r.erased]

\* The plan a read is compared with: the durable record wins over memory.
Previous == IF journal # NoRecord THEN PlanOf(journal) ELSE plan

\* Mutant (Coherent): the spool of the new request instead.
RequestedSpool == cmd.spool

JournalSpool == IF journal # NoRecord THEN journal.spool ELSE spool

JournalSettings == IF journal # NoRecord THEN journal.settings ELSE settings

Interrupted(p, t) == p # NoPlan /\ p.attempted /\ ~p.verified /\ p.uid = t

\* Every block is one of the two the interrupted change knows.
Known(m, p) == \A b \in Block : m[b] \in {p.original[b], p.target[b]}

Classify(m, p) ==
  CASE m = p.target -> "target"
    [] m # p.target /\ m = p.original -> "original"
    [] OTHER -> "partial"

\* restore_cleanup() when no plan is in memory: publish what the record asks
\* for.  Flags it does not mention keep their value.
Restored ==
  \/ /\ journal = NoRecord
     /\ plan' = NoPlan
     /\ moved' = FALSE
     /\ UNCHANGED <<phase, assoc, unlink, clearReq, spool, captured>>
  \/ /\ journal # NoRecord
     /\ journal.op = "write"
     /\ plan' = NoPlan
     /\ moved' = FALSE
     /\ phase' = "write_recovery"
     /\ UNCHANGED <<assoc, unlink, clearReq, spool, captured>>
  \/ /\ journal # NoRecord
     /\ journal.op = "clear"
     /\ clearReq' = TRUE
     /\ \/ /\ journal.settings # settings
           /\ plan' = NoPlan
           /\ moved' = TRUE
           /\ phase' = "clear_recovery"
           /\ UNCHANGED <<assoc, unlink, spool, captured>>
        \/ /\ journal.settings = settings
           /\ ~journal.erased
           /\ plan' = NoPlan
           /\ moved' = FALSE
           /\ phase' = "clear_recovery"
           /\ UNCHANGED <<assoc, unlink, spool, captured>>
        \/ /\ journal.settings = settings
           /\ journal.erased
           /\ plan' = PlanOf(journal)
           /\ moved' = FALSE
           /\ spool' = journal.spool
           /\ unlink' = TRUE
           /\ captured' = settings
           /\ phase' = "unlink_pending"
           /\ UNCHANGED assoc

\* ensure_writer() at start-up.
Boot ==
  /\ pc = "boot"
  /\ Restored
  /\ pc' = "idle"
  /\ UNCHANGED <<world, journal, cmd, done, history>>

\* WriterJournal::clear() removes the record, keeps it, or removes it and
\* still answers false because the staging file is left.
Forgotten(ok) ==
  IF ok THEN journal' = NoRecord ELSE journal' \in {journal, NoRecord}
-----------------------------------------------------------------------------
(* process(): a command, the gates in front of it, and its end *)

Receive(a, s) ==
  /\ pc = "idle"
  /\ cmd' = [action |-> a, spool |-> s]
  /\ IF plan = NoPlan THEN Restored ELSE UNCHANGED service
  /\ pc' = "gate"
  /\ UNCHANGED <<world, journal, done, history>>

\* A clear that is owed lets nothing else through, without a word.
Silent(a) == moved \/ (clearReq /\ a \notin {"clear_preview", "clear", "retry_unlink"})

\* Mutant (PendingSurvives): a pending unlink does not hold the user up.
GatedByLink(a) == Silent(a) \/ (assoc /\ a # "retry_association")

Gated(a) ==
  \/ Silent(a)
  \/ unlink /\ a # "retry_unlink"
  \/ assoc /\ a # "retry_association"

Refuse ==
  /\ pc = "gate"
  /\ Gated(cmd.action)
  /\ phase' = IF Silent(cmd.action) THEN phase
              ELSE IF unlink /\ cmd.action # "retry_unlink"
                   THEN "unlink_pending" ELSE "association_pending"
  /\ pc' = "idle"
  /\ cmd' = NoCommand
  /\ UNCHANGED <<world, journal, plan, flags, spool, captured, done, history>>

Admitted(a) == pc = "gate" /\ cmd.action = a /\ ~Gated(a)

\* The command ends well and leaves phase p.
Finish(p) == phase' = p /\ pc' = "idle" /\ cmd' = NoCommand /\ done' = {}

\* The command's handler returns an error; Conclude reports it.
Fails == pc' = "failed" /\ done' = {} /\ UNCHANGED cmd

\* The end of process() for a command that failed.
Conclude ==
  /\ pc = "failed"
  /\ \/ /\ unlink
        /\ phase' = "unlink_pending"
        /\ UNCHANGED <<plan, flags, spool, captured>>
     \/ /\ ~unlink /\ assoc
        /\ phase' = "association_pending"
        /\ UNCHANGED <<plan, flags, spool, captured>>
     \/ /\ ~unlink /\ ~assoc
        /\ cmd.action \in Physical /\ journal # NoRecord
        /\ Restored
     \/ /\ ~unlink /\ ~assoc
        /\ ~(cmd.action \in Physical /\ journal # NoRecord)
        /\ phase' = "failed"
        /\ UNCHANGED <<plan, flags, spool, captured>>
  /\ pc' = "idle"
  /\ cmd' = NoCommand
  /\ UNCHANGED <<world, journal, done, history>>

\* edit_record(): update_spool and update_filament drop the plan, whatever
\* becomes of the edit.
Edit ==
  /\ Admitted("edit")
  /\ plan' = NoPlan
  /\ \E p \in {"updated", "failed"} : Finish(p)
  /\ UNCHANGED <<world, journal, flags, spool, captured, history>>

\* catalog and create_spool: only the view changes.
Browse ==
  /\ Admitted("browse")
  /\ \/ Finish("browsing")
     \/ Fails /\ UNCHANGED phase
  /\ UNCHANGED <<world, journal, plan, flags, spool, captured, history>>
-----------------------------------------------------------------------------
(* preview and clear_preview *)

\* The part of prepare() and prepare_clear() before the physical read.
StartRead ==
  /\ \/ Admitted("preview")
     \/ Admitted("clear_preview") /\ JournalSettings = settings
  /\ phase' = "reading"
  /\ pc' = "read"
  /\ UNCHANGED <<world, journal, plan, flags, spool, captured, cmd, done, history>>

\* prepare_clear() refuses a record made under other settings.
ClearElsewhere ==
  /\ Admitted("clear_preview")
  /\ JournalSettings # settings
  /\ Fails
  /\ UNCHANGED <<world, journal, service, history>>

\* The physical read fails, or refuses the tag.
ReadFailed ==
  /\ pc = "read"
  /\ plan' = Previous
  /\ Fails
  /\ UNCHANGED <<world, journal, phase, flags, spool, captured, history>>

\* Mutant (RecoveryFinishes): only a partial image may fail to decode.
ReadsPartial(t, j) ==
  LET m == memory[t] IN
  /\ pc = "read"
  /\ field = {t}
  /\ IF Interrupted(Previous, t)
     THEN Known(m, Previous) /\ j = Classify(m, Previous)
     ELSE j = "none"
  /\ m = Blank \/ m \in Decodable \/ j = "partial"

\* OpenPrintTagWriter::read() accepts tag t with journal state j.
Reads(t, j) ==
  LET m == memory[t] IN
  /\ pc = "read"
  /\ field = {t}
  /\ IF Interrupted(Previous, t)
     THEN Known(m, Previous) /\ j = Classify(m, Previous)
     ELSE j = "none"
  /\ m = Blank \/ m \in Decodable \/ j \in {"original", "partial"}

\* Mutant (RecoveryCovers): the state of the interrupted change is lost.
ReadPlanAnew(t, j) ==
  [uid |-> t, op |-> "write", original |-> memory[t], target |-> memory[t],
   jstate |-> "none", attempted |-> FALSE, verified |-> FALSE, erased |-> FALSE]

ReadPlan(t, j) ==
  [uid |-> t, op |-> "write", original |-> memory[t], target |-> memory[t],
   jstate |-> j, attempted |-> FALSE, verified |-> FALSE, erased |-> FALSE]

\* The tag holds the whole target of the interrupted write: the link is all
\* that is left, and it belongs to the recorded spool and settings.
RecoverLink(t) ==
  /\ cmd.action = "preview"
  /\ Reads(t, "target")
  /\ JournalSpool # NoSpool
  /\ JournalSettings = settings
  /\ memory[t] \in Decodable
  /\ plan' = [ReadPlan(t, "target") EXCEPT !.verified = TRUE]
  /\ spool' = JournalSpool
  /\ captured' = settings
  /\ assoc' = TRUE
  /\ dirty' = dirty \ {t}
  /\ owed' = owed \cup {t}
  /\ Finish("association_pending")
  /\ UNCHANGED <<world, journal, unlink, clearReq, moved>>

\* Recovery of a complete target refused: other settings, or no identity.
RecoverLinkFailed(t) ==
  /\ cmd.action = "preview"
  /\ Reads(t, "target")
  /\ JournalSpool # NoSpool
  /\ plan' = ReadPlan(t, "target")
  /\ Fails
  /\ UNCHANGED <<world, journal, phase, flags, spool, captured, history>>

\* prepare() goes on to load the chosen spool from Spoolman.
ReadForWrite(t, j) ==
  /\ cmd.action = "preview"
  /\ Reads(t, j)
  /\ ~(j = "target" /\ JournalSpool # NoSpool)
  /\ plan' = ReadPlan(t, j)
  /\ spool' = cmd.spool
  /\ captured' = settings
  /\ phase' = "loading_spool"
  /\ pc' = "load"
  /\ UNCHANGED <<world, journal, flags, cmd, done, history>>

ShowPreview ==
  /\ pc = "load"
  /\ spool # NoSpool
  /\ \E image \in Images[spool] : plan' = [plan EXCEPT !.target = image]
  /\ Finish("preview")
  /\ UNCHANGED <<world, journal, flags, spool, captured, history>>

LoadFailed ==
  /\ pc = "load"
  /\ Fails
  /\ UNCHANGED <<world, journal, service, history>>

\* Another tag's unfinished change stands in the way of this clear.
OtherInterrupted(t) ==
  Previous # NoPlan /\ Previous.attempted /\ ~Previous.verified /\ Previous.uid # t

ClearPlan(t, j) == [ReadPlan(t, j) EXCEPT !.op = "clear", !.target = Blank]

ReadForClear(t, j) ==
  /\ cmd.action = "clear_preview"
  /\ Reads(t, j)
  /\ ~OtherInterrupted(t)
  /\ ~(j = "target" /\ Previous.op = "clear")
  /\ plan' = ClearPlan(t, j)
  /\ spool' = NoSpool
  /\ captured' = settings
  /\ Finish("clear_preview")
  /\ UNCHANGED <<world, journal, flags, history>>

\* The interrupted clear had erased every block: only the unlink is left, and
\* the record must say so first.
RecoverUnlink(t, saved) ==
  LET p == [ClearPlan(t, "target") EXCEPT !.verified = TRUE, !.erased = TRUE] IN
  /\ cmd.action = "clear_preview"
  /\ Reads(t, "target")
  /\ ~OtherInterrupted(t)
  /\ Previous.op = "clear"
  /\ plan' = p
  /\ spool' = NoSpool
  /\ captured' = settings
  /\ unlink' = TRUE
  /\ dirty' = dirty \ {t}
  /\ owed' = owed \cup {t}
  /\ \/ saved /\ journal' = RecordOf(p) /\ Finish("unlink_pending")
     \/ ~saved /\ Fails /\ UNCHANGED <<journal, phase>>
  /\ UNCHANGED <<world, assoc, clearReq, moved>>
-----------------------------------------------------------------------------
(* write and clear: confirm, record, execute *)

\* Mutant (ForeignRecordKept): no record is ever another tag's.
NeverJournaled == FALSE

\* journaled_other_uid()
OtherJournaled == journal # NoRecord /\ journal.uid # plan.uid

CanWrite == plan # NoPlan /\ phase = "preview" /\ captured = settings /\ ~OtherJournaled

CanClear ==
  plan # NoPlan /\ plan.op = "clear" /\ phase = "clear_preview" /\ captured = settings

\* Mutant (WriteAhead): execute() without the record.
ConfirmUnsaved ==
  /\ \/ Admitted("write") /\ CanWrite
     \/ Admitted("clear") /\ CanClear
  /\ phase' = "working"
  /\ pc' = "validate"
  /\ UNCHANGED <<world, journal, plan, flags, spool, captured, cmd, done, history>>

\* commit_write() and commit_clear(): the confirmation names this very preview.
Confirm ==
  /\ \/ Admitted("write") /\ CanWrite
     \/ Admitted("clear") /\ CanClear
  /\ pc' = "save"
  /\ UNCHANGED <<world, journal, service, cmd, done, history>>

\* No such preview, or a confirmation that names another one.
ConfirmRefused ==
  /\ Admitted("write") \/ Admitted("clear")
  /\ Fails
  /\ UNCHANGED <<world, journal, service, history>>

\* The record is saved before the first block is touched.
SaveRecord ==
  /\ pc = "save"
  /\ journal' = RecordOf(plan)
  /\ clearReq' = (clearReq \/ plan.op = "clear")
  /\ phase' = "working"
  /\ pc' = "validate"
  /\ UNCHANGED <<world, plan, assoc, unlink, moved, spool, captured, cmd, done, history>>

SaveFailed ==
  /\ pc = "save"
  /\ Fails
  /\ UNCHANGED <<world, journal, service, history>>

\* execute(): the whole tag is read again and must be what was previewed.
Validate ==
  /\ pc = "validate"
  /\ ~plan.attempted
  /\ field = {plan.uid}
  /\ memory[plan.uid] = plan.original
  /\ plan' = [plan EXCEPT !.attempted = TRUE]
  /\ pc' = "commit"
  /\ UNCHANGED <<world, journal, phase, flags, spool, captured, cmd, done, history>>

\* execute() refuses before any block is written.  Nothing is owed to this
\* tag, unless an earlier interrupted change is what the record is about.
ValidateRefused ==
  /\ pc = "validate"
  /\ IF plan.jstate = "none"
     THEN \E ok \in BOOLEAN :
            /\ Forgotten(ok)
            /\ clearReq' = (clearReq /\ ~(ok /\ plan.op = "clear"))
     ELSE UNCHANGED <<journal, clearReq>>
  /\ Fails
  /\ UNCHANGED <<world, plan, phase, assoc, unlink, moved, spool, captured, history>>

Changed(p) == {b \in Block : p.original[b] # p.target[b]}

\* plan(): ordinary blocks, then the identity, then the header.
\* plan_clear(): payload blocks, then the header.
After(op, b) ==
  CASE b = Header -> Block \ {Header}
    [] b \in Identity /\ op = "write" -> Block \ (Identity \cup {Header})
    [] OTHER -> {}

Due(b) ==
  /\ b \in Changed(plan) \ done
  /\ Changed(plan) \cap After(plan.op, b) \subseteq done

\* One block is read, written and read back.
CommitBlock(b) ==
  /\ pc = "commit"
  /\ field = {plan.uid}
  /\ Due(b)
  /\ memory[plan.uid][b] = plan.original[b]
  /\ memory' = [memory EXCEPT ![plan.uid][b] = plan.target[b]]
  /\ done' = done \cup {b}
  /\ dirty' = dirty \cup {plan.uid}
  /\ UNCHANGED <<field, settings, journal, service, pc, cmd, owed>>

\* The write of a block fails, or its readback does: the block holds the old
\* word, the new one, or neither.
CommitTorn(b) ==
  /\ pc = "commit"
  /\ field = {plan.uid}
  /\ Due(b)
  /\ memory[plan.uid][b] = plan.original[b]
  /\ \E w \in Torn \cup {plan.original[b], plan.target[b]} :
       memory' = [memory EXCEPT ![plan.uid][b] = w]
  /\ dirty' = dirty \cup {plan.uid}
  /\ Fails
  /\ UNCHANGED <<field, settings, journal, service, owed>>

\* A fence or a check stops execute() between two blocks, or the final
\* verification fails.
ExecuteStopped ==
  /\ pc = "commit"
  /\ Fails
  /\ UNCHANGED <<world, journal, service, history>>

Whole == Changed(plan) \subseteq done

\* The complete readback equals the target.
Verified ==
  /\ pc = "commit"
  /\ Whole
  /\ field = {plan.uid}
  /\ memory[plan.uid] = plan.target
  /\ dirty' = dirty \ {plan.uid}
  /\ owed' = owed \cup {plan.uid}
  /\ done' = {}

VerifyWrite ==
  /\ Verified
  /\ plan.op = "write"
  /\ plan' = [plan EXCEPT !.verified = TRUE]
  /\ assoc' = TRUE
  /\ pc' = "link"
  /\ UNCHANGED <<world, journal, phase, unlink, clearReq, moved, spool, captured, cmd>>

VerifyClear ==
  /\ Verified
  /\ plan.op = "clear"
  /\ plan' = [plan EXCEPT !.verified = TRUE, !.erased = TRUE]
  /\ unlink' = TRUE
  /\ pc' = "persist"
  /\ UNCHANGED <<world, journal, phase, assoc, clearReq, moved, spool, captured, cmd>>
-----------------------------------------------------------------------------
(* associate() and unlink() *)

CanLink == assoc /\ plan # NoPlan /\ plan.verified /\ captured = settings
CanUnlink == unlink /\ plan # NoPlan /\ plan.verified /\ captured = settings

Retry ==
  /\ \/ Admitted("retry_association") /\ CanLink /\ pc' = "link"
     \/ Admitted("retry_unlink") /\ CanUnlink /\ pc' = "persist"
  /\ UNCHANGED <<world, journal, service, cmd, done, history>>

\* Nothing is pending, or the settings changed since.
RetryRefused ==
  /\ \/ Admitted("retry_association") /\ ~CanLink
     \/ Admitted("retry_unlink") /\ ~CanUnlink
  /\ Fails
  /\ UNCHANGED <<world, journal, service, history>>

\* Spoolman and the local mapping name the new spool.
Link ==
  /\ pc = "link"
  /\ owed' = owed \ {plan.uid}
  /\ phase' = "working"
  /\ pc' = "forget"
  /\ UNCHANGED <<world, journal, plan, flags, spool, captured, cmd, done, dirty>>

LinkFailed ==
  /\ pc = "link"
  /\ Fails
  /\ UNCHANGED <<world, journal, service, history>>

\* persist_clear() before the first Spoolman request of an unlink.
Persist ==
  /\ pc = "persist"
  /\ journal' = RecordOf(plan)
  /\ phase' = "working"
  /\ pc' = "unlink"
  /\ UNCHANGED <<world, plan, flags, spool, captured, cmd, done, history>>

PersistFailed ==
  /\ pc = "persist"
  /\ Fails
  /\ UNCHANGED <<world, journal, service, history>>

\* No spool names this tag or the erased identity any more.
Unlink ==
  /\ pc = "unlink"
  /\ owed' = owed \ {plan.uid}
  /\ pc' = "forget"
  /\ UNCHANGED <<world, journal, service, cmd, done, dirty>>

UnlinkFailed ==
  /\ pc = "unlink"
  /\ Fails
  /\ UNCHANGED <<world, journal, service, history>>

ForgetWrite ==
  /\ pc = "forget"
  /\ plan.op = "write"
  /\ \/ Forgotten(TRUE) /\ assoc' = FALSE /\ Finish("complete")
     \/ Forgotten(FALSE) /\ Fails /\ UNCHANGED <<assoc, phase>>
  /\ UNCHANGED <<world, plan, unlink, clearReq, moved, spool, captured, history>>

ForgetClear ==
  /\ pc = "forget"
  /\ plan.op = "clear"
  /\ \/ /\ Forgotten(TRUE)
        /\ unlink' = FALSE /\ clearReq' = FALSE
        /\ plan' = [plan EXCEPT !.erased = FALSE]
        /\ Finish("cleared")
     \/ Forgotten(FALSE) /\ Fails /\ UNCHANGED <<plan, unlink, clearReq, phase>>
  /\ UNCHANGED <<world, assoc, moved, spool, captured, history>>
-----------------------------------------------------------------------------
(* discard_recovery, and what happens around the station *)

\* discard_recovery() for the tag the request names.
Expected == IF plan # NoPlan THEN {plan.uid}
            ELSE IF journal # NoRecord THEN {journal.uid} ELSE Tag

Discard(u) ==
  /\ pc = "idle"
  /\ u \in Expected
  /\ \/ /\ Forgotten(TRUE)
        /\ plan' = NoPlan
        /\ assoc' = FALSE /\ unlink' = FALSE /\ clearReq' = FALSE /\ moved' = FALSE
        /\ spool' = NoSpool
        /\ phase' = "recovery_discarded"
        /\ UNCHANGED captured
     \/ Forgotten(FALSE) /\ UNCHANGED service
  /\ dirty' = IF journal' = NoRecord THEN {} ELSE dirty
  /\ owed' = IF journal' = NoRecord THEN {} ELSE owed
  /\ UNCHANGED <<world, pc, cmd, done>>

\* A power loss or a restart.  A block or a record being written at that
\* moment is CommitTorn or SaveFailed just before.
Crash ==
  /\ pc # "boot"
  /\ plan' = NoPlan
  /\ phase' = "idle"
  /\ assoc' = FALSE /\ unlink' = FALSE /\ clearReq' = FALSE /\ moved' = FALSE
  /\ spool' = NoSpool
  /\ captured' = NoSetting
  /\ pc' = "boot"
  /\ cmd' = NoCommand
  /\ done' = {}
  /\ UNCHANGED <<world, journal, history>>

Place(t) ==
  /\ t \notin field
  /\ field' = field \cup {t}
  /\ UNCHANGED <<memory, settings, journal, service, pc, cmd, done, history>>

Lift(t) ==
  /\ t \in field
  /\ field' = field \ {t}
  /\ UNCHANGED <<memory, settings, journal, service, pc, cmd, done, history>>

\* Another device writes a tag that is not on the reader, while no physical
\* operation of the station is under way.
ForeignWrite(t, image) ==
  /\ t \notin field
  /\ pc \notin {"read", "validate", "commit"}
  /\ memory' = [memory EXCEPT ![t] = image]
  /\ dirty' = dirty \ {t}
  /\ owed' = owed \ {t}
  /\ UNCHANGED <<field, settings, journal, service, pc, cmd, done>>

\* apply_backend_settings_if_changed() runs between two commands.
ChangeSettings(s) ==
  /\ pc = "idle"
  /\ s # settings
  /\ settings' = s
  /\ UNCHANGED <<memory, field, journal, service, pc, cmd, done, history>>
-----------------------------------------------------------------------------
Requests ==
  \/ \E s \in Spool : Receive("preview", s)
  \/ \E a \in Action \ {"preview"} : Receive(a, NoSpool)

Reading ==
  \/ StartRead \/ ClearElsewhere \/ ReadFailed \/ ShowPreview \/ LoadFailed
  \/ \E t \in Tag :
       \/ RecoverLink(t) \/ RecoverLinkFailed(t)
       \/ \E j \in JournalState : ReadForWrite(t, j) \/ ReadForClear(t, j)
       \/ \E saved \in BOOLEAN : RecoverUnlink(t, saved)

Executing ==
  \/ Confirm \/ ConfirmRefused
  \/ SaveRecord \/ SaveFailed
  \/ Validate \/ ValidateRefused
  \/ \E b \in Block : CommitBlock(b) \/ CommitTorn(b)
  \/ ExecuteStopped \/ VerifyWrite \/ VerifyClear

Linking ==
  \/ Retry \/ RetryRefused
  \/ Link \/ LinkFailed
  \/ Persist \/ PersistFailed \/ Unlink \/ UnlinkFailed
  \/ ForgetWrite \/ ForgetClear

Serving == Boot \/ Refuse \/ Conclude \/ Edit \/ Browse

Environment ==
  \/ \E t \in Tag : Discard(t) \/ Place(t) \/ Lift(t)
  \/ \E t \in Tag, image \in ForeignImages : ForeignWrite(t, image)
  \/ \E s \in Setting : ChangeSettings(s)
  \/ Crash

Next == Requests \/ Serving \/ Reading \/ Executing \/ Linking \/ Environment

Spec == Init /\ [][Next]_vars

(* A user who does what the screen asks, with the tag left on the reader   *)
(* and nothing failing any more.                                           *)
Prompted ==
  IF assoc THEN "retry_association"
  ELSE IF unlink THEN "retry_unlink"
  ELSE IF phase = "preview" /\ plan # NoPlan THEN "write"
  ELSE IF phase = "clear_preview" /\ plan # NoPlan THEN "clear"
  ELSE IF clearReq THEN "clear_preview" ELSE "preview"

Follows ==
  \/ Prompted = "preview" /\ \E s \in Spool : Receive("preview", s)
  \/ Prompted # "preview" /\ Receive(Prompted, NoSpool)

Calm ==
  \/ Follows \/ Boot \/ Refuse \/ Conclude \/ Edit \/ Browse
  \/ \E t \in Tag : field = {} /\ Place(t)
  \/ StartRead \/ ShowPreview
  \/ \E t \in Tag :
       \/ RecoverLink(t) \/ RecoverUnlink(t, TRUE)
       \/ \E j \in JournalState : ReadForWrite(t, j) \/ ReadForClear(t, j)
  \/ Confirm
  \/ /\ ConfirmRefused
     /\ ~(cmd.action = "write" /\ CanWrite)
     /\ ~(cmd.action = "clear" /\ CanClear)
  \/ SaveRecord \/ Validate \/ VerifyWrite \/ VerifyClear
  \/ \E b \in Block : CommitBlock(b)
  \/ Retry \/ RetryRefused \/ Link \/ Persist \/ Unlink
  \/ (ForgetWrite \/ ForgetClear) /\ journal' = NoRecord

FairSpec == Spec /\ WF_vars(Calm)
-----------------------------------------------------------------------------
(* What must hold *)

\* All blocks but at most one are blocks the record knows how to put right.
Covered(t) ==
  /\ journal # NoRecord
  /\ journal.uid = t
  /\ \E x \in Block : \A b \in Block \ {x} :
       memory[t][b] \in {journal.original[b], journal.target[b]}

\* A tag the station began to change and has not seen complete is always
\* described by the durable record: save before execute(), the refusals that
\* keep another tag's record, and every path that deletes it agree.
RecoveryCovers == \A t \in dirty : Covered(t)

\* While a link or an unlink is outstanding in Spoolman, the durable record
\* still names that tag, so that a restart asks for it again.
PendingSurvives == \A t \in owed : journal # NoRecord /\ journal.uid = t

\* What is linked is what was written: the association of a tag names the
\* spool whose image the tag was given and recorded with, under the recorded
\* settings, and no part of the tag is still to be written.  The unlink of a
\* tag concerns a tag seen blank, under the recorded settings.
LinkFaithful ==
  /\ pc = "link" =>
       /\ plan.uid \notin dirty
       /\ spool # NoSpool /\ plan.target \in Images[spool]
       /\ journal # NoRecord =>
            /\ journal.uid = plan.uid /\ journal.target = plan.target
            /\ journal.spool = spool /\ journal.settings = settings
  /\ pc = "unlink" =>
       /\ plan.uid \notin dirty
       /\ plan.target = Blank
       /\ journal.uid = plan.uid /\ journal.erased /\ journal.settings = settings

\* A tag that was left half written carries the new identity, or the new
\* envelope, only when every ordinary block is already new; one left half
\* erased keeps its envelope until every payload block is erased.
EnvelopeLast ==
  \A t \in dirty : Covered(t) =>
    \A b \in Block :
      memory[t][b] = journal.target[b] /\ journal.target[b] # journal.original[b] =>
        \A c \in After(journal.op, b) : memory[t][c] = journal.target[c]

\* The record of one tag never gives way to the record of another.
ForeignRecordKept ==
  [][journal # NoRecord /\ journal' # NoRecord => journal'.uid = journal.uid]_vars

\* The station changes a block only of the tag, the image and the target the
\* record holds, and only while every other block is as reviewed or as
\* already written.
WriteAhead ==
  [][\A t \in Tag : pc = "commit" /\ memory'[t] # memory[t] =>
       /\ journal # NoRecord
       /\ journal.uid = t
       /\ journal.original = plan.original /\ journal.target = plan.target
       /\ \A b \in Block : memory[t][b] =
            IF b \in done THEN journal.target[b] ELSE journal.original[b]]_vars

\* An interrupted write or clear can always be finished: once nothing fails
\* any more and the user does what the phase asks, the record is used up,
\* unless the settings are those of another backend by then.
RecoveryFinishes ==
  <>[][Calm]_vars => []<>(journal = NoRecord \/ journal.settings # settings)

\* What the station says it linked is what it wrote, and what it left half
\* written can still be told apart (tag_writer_service.cpp:1300-1460).
Coherent == TypeOK /\ LinkFaithful /\ EnvelopeLast
=============================================================================
