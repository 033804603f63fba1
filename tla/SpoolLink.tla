----------------------------- MODULE SpoolLink -----------------------------
(* The link between a tag and its spool, request by request: associate()   *)
(* and unlink() of TagWriterService with the Spoolman they talk to, the    *)
(* other people who edit Spoolman meanwhile, a failure of any request and  *)
(* a power loss between any two.                                           *)
(*                                                                         *)
(* One tag is followed, "this" one.  The physical write and the physical   *)
(* erasure are one step each (TagWriter takes them apart); the six         *)
(* spellings of a UID an extra field may hold are one value, and the two   *)
(* byte orders in which Spoolman's tag list may hold it are two.           *)
EXTENDS FiniteSets, Integers

CONSTANTS
  Spool,
  Uuid,       \* instance UUIDs
  Worlds,     \* the Spoolmans and tags to start from
  MaxEdits,   \* bound: edits by other people, for each kind of Spoolman
  NoSpool, NoUuid, NoRecord

Form == {"canonical", "reversed"}
Mode == {"fields", "list", "both"}   \* what this Spoolman keeps of a tag

\* held[f] = Filament: Spoolman lists the tag for a filament.
Filament == "filament"

VARIABLES
  \* Spoolman
  mode,
  uid,      \* the extra field nfc_uid of each spool: "none", "this", "other"
  ident,    \* the extra field instance_uuid of each spool
  held,     \* the tag list: what holds this tag under each byte order
  edits,
  \* the tag and the station's flash
  tag,      \* the instance UUID on the tag, NoUuid when it is blank
  mapping,  \* the spool the station itself maps this tag to
  journal,
  \* TagWriterService
  pending,  \* "none", "link" or "unlink": association_pending_, unlink_pending_
  spool,    \* spool_id_
  prev,     \* plan_->previous_spool_id
  uuid,     \* uuid_
  bound,    \* plan_->cleanup_owner_bound
  pc,
  holds,    \* native_holders() as last answered
  found,    \* uid_owner() as last answered
  patch,    \* the owner to unlink still had something to take away
  \* history
  quiet,    \* nobody else has edited Spoolman since this attempt began
  outcome   \* the last operation that ended well

spoolman == <<mode, uid, ident, held, edits>>
durable  == <<tag, mapping, journal>>
session  == <<pending, spool, prev, uuid, bound>>
seen     == <<holds, found, patch>>
vars == <<spoolman, durable, session, pc, seen, quiet, outcome>>

World == [mode : Mode, uid : [Spool -> {"none", "this", "other"}],
          ident : [Spool -> Uuid \cup {NoUuid}],
          held : [Form -> Spool \cup {NoSpool, Filament}],
          tag : Uuid \cup {NoUuid}]

ASSUME WorldAssumption == Worlds \subseteq World /\ MaxEdits \in [Mode -> Nat]
ASSUME SpoolAssumption == IsFiniteSet(Spool)
ASSUME AbsentAssumption == NoSpool \notin Spool /\ NoUuid \notin Uuid /\ Filament \notin Spool

\* before is the instance UUID of the original image of a write, the
\* cleared_instance of a clear.
Record == [op : {"write", "clear"}, spool : Spool \cup {NoSpool},
           prev : Spool \cup {NoSpool}, before : Uuid \cup {NoUuid}, bound : BOOLEAN]

ASSUME RecordAssumption == NoRecord \notin Record

Steps == {"link", "unique", "owner", "previous", "previous_patch", "previous_check",
          "target", "target_patch", "target_check", "fields_unique", "fields_owner",
          "list", "list_move", "list_check", "map",
          "unlink", "find", "find_list", "find_identity", "review", "review_unique",
          "bind", "patch", "patch_check", "unlist", "unlist_each",
          "final", "final_identity", "unmap", "forget"}

TypeOK ==
  /\ mode \in Mode
  /\ uid \in [Spool -> {"none", "this", "other"}]
  /\ ident \in [Spool -> Uuid \cup {NoUuid}]
  /\ held \in [Form -> Spool \cup {NoSpool, Filament}]
  /\ edits \in 0..MaxEdits[mode]
  /\ tag \in Uuid \cup {NoUuid}
  /\ mapping \in Spool \cup {NoSpool}
  /\ journal \in Record \cup {NoRecord}
  /\ pending \in {"none", "link", "unlink"}
  /\ spool \in Spool \cup {NoSpool}
  /\ prev \in Spool \cup {NoSpool}
  /\ uuid \in Uuid \cup {NoUuid}
  /\ bound \in BOOLEAN
  /\ pc \in {"idle", "preview"} \cup Steps
  /\ holds \in [Form -> Spool \cup {NoSpool}]
  /\ found \in Spool \cup {NoSpool}
  /\ patch \in BOOLEAN
  /\ quiet \in BOOLEAN
  /\ outcome \in {"none", "complete", "cleared"}

NoHolds == [f \in Form |-> NoSpool]

Init ==
  /\ \E w \in Worlds :
       /\ mode = w.mode /\ uid = w.uid /\ ident = w.ident
       /\ held = w.held /\ tag = w.tag
  /\ edits = 0
  /\ mapping = NoSpool
  /\ journal = NoRecord
  /\ pending = "none" /\ spool = NoSpool /\ prev = NoSpool
  /\ uuid = NoUuid /\ bound = FALSE
  /\ pc = "idle"
  /\ holds = NoHolds /\ found = NoSpool /\ patch = FALSE
  /\ quiet = TRUE
  /\ outcome = "none"
-----------------------------------------------------------------------------
(* What Spoolman answers *)

HasFields == mode \in {"fields", "both"}
HasList == mode \in {"list", "both"}

OrNone(spools) == IF spools = {} THEN {NoSpool} ELSE spools

\* uid_owner(): the spools whose field names this tag, if they are one at most.
Owners == {s \in Spool : uid[s] = "this"}

\* unique_identity(): nobody but s has the UUID.
UniqueIdentity(s) == {x \in Spool : ident[x] = uuid} \subseteq {s}

\* native_holders(): only spools are looked for.
\* Mutant (Exact): the reversed form is not asked for.
CanonicalHolders == [f \in Form |-> IF f = "canonical" /\ held[f] \in Spool
                                    THEN held[f] ELSE NoSpool]
Holders == [f \in Form |-> IF held[f] \in Spool THEN held[f] ELSE NoSpool]
HeldBy(h) == {h[f] : f \in Form} \ {NoSpool}
OneHolder == Cardinality(HeldBy(Holders)) <= 1
HoldingSpools == {held[f] : f \in Form} \cap Spool
FilamentHolds == \E f \in Form : held[f] = Filament
-----------------------------------------------------------------------------
(* The tag is written or erased *)

Fresh == Uuid \ ({ident[s] : s \in Spool} \cup {tag, uuid})

\* The instance UUID a preview gives the tag for spool s.
Chosen(s) ==
  IF HasFields /\ ident[s] # NoUuid THEN {ident[s]}
  ELSE IF tag # NoUuid /\ IF HasFields THEN uid[s] = "this" ELSE s \in HeldBy(Holders)
       THEN {tag} ELSE Fresh

\* prepare_uid_owner(): the spool the tag is moved from, by the extra field or
\* by the tag list, which must not disagree.
PreviousOwner(s, p) ==
  LET listed == IF HasList THEN HeldBy(Holders) \ {s} ELSE {}
      owners == IF HasFields THEN Owners ELSE {}
  IN /\ Cardinality(owners) <= 1
     /\ HasList => OneHolder /\ ~FilamentHolds
     /\ listed # {} => owners \subseteq {s} \cup listed
     /\ {p} \ {NoSpool} = IF listed # {} THEN listed ELSE owners \ {s}

\* prepare(), with no recovery record.
Preview(s, p, u) ==
  /\ pc \in {"idle", "preview"}
  /\ pending = "none" /\ journal = NoRecord
  /\ u \in Chosen(s)
  /\ HasFields => {x \in Spool : ident[x] = u} \subseteq {s}
  /\ PreviousOwner(s, p)
  /\ spool' = s /\ prev' = p /\ uuid' = u
  /\ pc' = "preview"
  /\ outcome' = "none"
  /\ UNCHANGED <<spoolman, durable, pending, bound, seen, quiet>>

\* commit_write() up to the verified tag.
Write ==
  /\ pc = "preview"
  /\ journal' = [op |-> "write", spool |-> spool, prev |-> prev, before |-> tag,
                 bound |-> FALSE]
  /\ tag' = uuid
  /\ pending' = "link"
  /\ pc' = "link"
  /\ quiet' = TRUE
  /\ UNCHANGED <<spoolman, mapping, spool, prev, uuid, bound, seen, outcome>>

\* The tag holds the whole target of the recorded write: prepare() asks for
\* the link alone.
Resume ==
  /\ pc = "idle" /\ pending = "none"
  /\ journal # NoRecord /\ journal.op = "write"
  /\ spool' = journal.spool /\ prev' = journal.prev /\ uuid' = tag
  /\ pending' = "link"
  /\ outcome' = "none"
  /\ UNCHANGED <<spoolman, durable, bound, pc, seen, quiet>>

\* plan_clear(): the identity Spoolman is expected to know the tag by.
ClearedInstance ==
  IF journal # NoRecord /\ journal.before # NoUuid THEN journal.before ELSE tag

\* prepare_clear() and commit_clear() up to the erased tag.
Erase ==
  /\ pc \in {"idle", "preview"} /\ pending = "none"
  /\ journal # NoRecord => journal.op = "write"
  /\ journal' = [op |-> "clear", spool |-> NoSpool, prev |-> NoSpool,
                 before |-> ClearedInstance, bound |-> FALSE]
  /\ tag' = NoUuid
  /\ spool' = NoSpool /\ prev' = NoSpool /\ uuid' = ClearedInstance /\ bound' = FALSE
  /\ pending' = "unlink"
  /\ pc' = "unlink"
  /\ quiet' = TRUE
  /\ outcome' = "none"
  /\ UNCHANGED <<spoolman, mapping, seen>>

Retry ==
  /\ pc = "idle" /\ pending # "none"
  /\ pc' = pending
  /\ quiet' = TRUE
  /\ UNCHANGED <<spoolman, durable, session, seen, outcome>>
-----------------------------------------------------------------------------
(* associate() *)

\* A request that answered well, and the service goes on to the next.
Go(from, to) == pc = from /\ pc' = to /\ UNCHANGED <<mode, edits, outcome, quiet>>

\* A request that changes nothing.
Looks == UNCHANGED <<uid, ident, held, durable, session, seen>>

AfterFields == IF HasList THEN "list" ELSE "map"

\* require_identity_fields()
Link == Go("link", IF HasFields THEN "unique" ELSE "list") /\ Looks

Unique == Go("unique", "owner") /\ UniqueIdentity(spool) /\ Looks

\* Mutant (Careful): the previous spool is left as it is.
OwnerLeft ==
  /\ Go("owner", "target")
  /\ Owners \in {{}, {spool}, {prev}}
  /\ Looks

\* clear_previous_uid(): the owner must be one the preview showed.
Owner ==
  /\ Go("owner", IF prev = NoSpool THEN "target" ELSE "previous")
  /\ Owners \in {{}, {spool}, {prev}}
  /\ Looks

\* clear_previous_uid(): the previous spool is clean already.
PreviousIsClean == Go("previous", "target") /\ uid[prev] = "none" /\ Looks

\* clear_previous_uid(): the previous spool still names this tag.
PreviousIsThis == Go("previous", "previous_patch") /\ uid[prev] = "this" /\ Looks

PatchPrevious ==
  /\ Go("previous_patch", "previous_check")
  /\ uid' = [uid EXCEPT ![prev] = "none"]
  /\ UNCHANGED <<ident, held, durable, session, seen>>

CheckPrevious == Go("previous_check", "target") /\ uid[prev] = "none" /\ Looks

Target == Go("target", "target_patch") /\ ident[spool] \in {NoUuid, uuid} /\ Looks

PatchTarget ==
  /\ Go("target_patch", "target_check")
  /\ uid' = [uid EXCEPT ![spool] = "this"]
  /\ ident' = [ident EXCEPT ![spool] = uuid]
  /\ UNCHANGED <<held, durable, session, seen>>

CheckTarget ==
  /\ Go("target_check", "fields_unique")
  /\ uid[spool] = "this" /\ ident[spool] = uuid
  /\ Looks

CheckUnique == Go("fields_unique", "fields_owner") /\ UniqueIdentity(spool) /\ Looks

CheckOwner == Go("fields_owner", AfterFields) /\ Owners = {spool} /\ Looks

\* link_native(): every other holder must be the spool the preview showed.
List ==
  /\ Go("list", "list_move")
  /\ OneHolder
  /\ HeldBy(Holders) \subseteq {spool, prev} \ {NoSpool}
  /\ holds' = Holders
  /\ UNCHANGED <<uid, ident, held, durable, session, found, patch>>

\* DELETE, of which the answer "not found" is as good.
Unhold(f) ==
  /\ holds[f] \in Spool
  /\ held' = [held EXCEPT ![f] = IF @ = holds[f] THEN NoSpool ELSE @]
  /\ holds' = [holds EXCEPT ![f] = NoSpool]
  /\ UNCHANGED <<uid, ident, durable, session, found, patch>>

ListMove(f) == Go("list_move", "list_move") /\ holds[f] # spool /\ Unhold(f)

ListKept == Go("list_move", "list_check") /\ HeldBy(holds) = {spool} /\ Looks

\* POST; a holder of the canonical form is a conflict.
ListAdd ==
  /\ Go("list_move", "list_check")
  /\ HeldBy(holds) = {}
  /\ held["canonical"] = NoSpool
  /\ held' = [held EXCEPT !["canonical"] = spool]
  /\ UNCHANGED <<uid, ident, durable, session, seen>>

ListCheck == Go("list_check", "map") /\ HeldBy(Holders) = {spool} /\ Looks

\* sync_mapping_()
Map ==
  /\ Go("map", "forget")
  /\ mapping' = spool
  /\ UNCHANGED <<uid, ident, held, tag, journal, session, seen>>
-----------------------------------------------------------------------------
(* unlink() *)

ClearRecord == [op |-> "clear", spool |-> spool, prev |-> NoSpool, before |-> uuid,
                bound |-> bound]

\* persist_clear() and require_identity_fields()
Unlink ==
  /\ Go("unlink", "find")
  /\ journal' = ClearRecord
  /\ UNCHANGED <<uid, ident, held, tag, mapping, session, seen>>

\* The owner by the extra field.
Find ==
  /\ Go("find", "find_list")
  /\ HasFields => Cardinality(Owners) <= 1
  /\ found' \in IF HasFields THEN OrNone(Owners) ELSE {NoSpool}
  /\ UNCHANGED <<uid, ident, held, durable, session, holds, patch>>

\* The owner by the tag list; both must be the bound owner, or agree.
Listed == IF HasList THEN HeldBy(Holders) ELSE {}
FoundOwners == Listed \cup ({found} \ {NoSpool})

\* Mutant (LinksEnd): the bound owner must still name the tag.
FindBoundNamed ==
  /\ Go("find_list", IF spool # NoSpool /\ HasFields THEN "review" ELSE "bind")
  /\ bound
  /\ FoundOwners = {spool} \ {NoSpool}
  /\ Looks

FindBound ==
  /\ Go("find_list", IF spool # NoSpool /\ HasFields THEN "review" ELSE "bind")
  /\ bound
  /\ FoundOwners \subseteq {spool} \ {NoSpool}
  /\ Looks

FindOwner ==
  /\ ~bound
  /\ Cardinality(FoundOwners) = 1
  /\ Go("find_list", IF HasFields THEN "review" ELSE "bind")
  /\ spool' \in FoundOwners
  /\ UNCHANGED <<uid, ident, held, durable, pending, prev, uuid, bound, seen>>

FindNone ==
  /\ ~bound
  /\ FoundOwners = {}
  /\ Go("find_list", IF HasFields /\ uuid # NoUuid THEN "find_identity" ELSE "bind")
  /\ spool' = NoSpool
  /\ UNCHANGED <<uid, ident, held, durable, pending, prev, uuid, bound, seen>>

\* Nobody names the tag: the spool that has the erased identity.
FindIdentity ==
  LET named == {s \in Spool : ident[s] = uuid} IN
  /\ Go("find_identity", IF named = {} THEN "bind" ELSE "review")
  /\ Cardinality(named) <= 1
  /\ spool' \in OrNone(named)
  /\ UNCHANGED <<uid, ident, held, durable, pending, prev, uuid, bound, seen>>

\* The owner as it is now: it must not name another tag or another identity.
Review ==
  /\ pc = "review"
  /\ uid[spool] \in {"none", "this"}
  /\ uuid # NoUuid => ident[spool] \in {NoUuid, uuid}
  /\ uuid = NoUuid /\ ident[spool] # NoUuid => ~bound
  /\ uuid' = IF uuid = NoUuid THEN ident[spool] ELSE uuid
  /\ patch' = (uid[spool] # "none" \/ ident[spool] # NoUuid)
  /\ Go("review", IF uuid' = NoUuid THEN "bind" ELSE "review_unique")
  /\ UNCHANGED <<uid, ident, held, durable, pending, spool, prev, bound, holds, found>>

ReviewUnique == Go("review_unique", "bind") /\ UniqueIdentity(spool) /\ Looks

AfterUnpatch == IF HasList THEN "unlist" ELSE "final"

\* The record names the owner before anything is taken from it.
Bind ==
  /\ Go("bind", IF spool = NoSpool \/ ~HasFields THEN AfterUnpatch
                ELSE IF patch THEN "patch" ELSE "patch_check")
  /\ bound' = TRUE
  /\ journal' = [ClearRecord EXCEPT !.bound = TRUE]
  /\ UNCHANGED <<uid, ident, held, tag, mapping, pending, spool, prev, uuid, seen>>

Patch ==
  /\ Go("patch", "patch_check")
  /\ uid' = [uid EXCEPT ![spool] = "none"]
  /\ ident' = [ident EXCEPT ![spool] = NoUuid]
  /\ UNCHANGED <<held, durable, session, seen>>

CheckPatch ==
  /\ Go("patch_check", AfterUnpatch)
  /\ uid[spool] = "none" /\ ident[spool] = NoUuid
  /\ Looks

\* unlink_native()
Unlist ==
  /\ Go("unlist", "unlist_each")
  /\ OneHolder
  /\ HeldBy(Holders) \subseteq {spool} \ {NoSpool}
  /\ holds' = Holders
  /\ UNCHANGED <<uid, ident, held, durable, session, found, patch>>

UnlistEach(f) == Go("unlist_each", "unlist_each") /\ Unhold(f)

CheckUnlist ==
  /\ Go("unlist_each", IF HasFields THEN "final" ELSE "unmap")
  /\ HeldBy(holds) = {}
  /\ HeldBy(Holders) = {}
  /\ Looks

\* unlink_final_check()
Final == Go("final", "final_identity") /\ Owners = {} /\ Looks

FinalIdentity ==
  /\ Go("final_identity", "unmap")
  /\ uuid # NoUuid => \A s \in Spool : ident[s] # uuid
  /\ Looks

\* clear_mapping_()
Unmap ==
  /\ Go("unmap", "forget")
  /\ mapping' = NoSpool
  /\ UNCHANGED <<uid, ident, held, tag, journal, session, seen>>
-----------------------------------------------------------------------------
(* The end of an attempt, and what may come between *)

Forget ==
  /\ pc = "forget"
  /\ journal' = NoRecord
  /\ outcome' = IF pending = "link" THEN "complete" ELSE "cleared"
  /\ pending' = "none"
  /\ pc' = "idle"
  /\ UNCHANGED <<spoolman, tag, mapping, spool, prev, uuid, bound, seen, quiet>>

\* A request, an answer or a check fails; the change stays pending.
Fail ==
  /\ pc \notin {"idle", "preview"}
  /\ pc' = "idle"
  /\ journal' \in {journal} \cup IF pc = "forget" THEN {NoRecord} ELSE {}
  /\ UNCHANGED <<spoolman, tag, mapping, session, seen, quiet, outcome>>

\* restore_cleanup() takes an erased tag up again, and asks for a written one.
Restart ==
  /\ LET cleared == journal # NoRecord /\ journal.op = "clear" IN
     /\ pending' = IF cleared THEN "unlink" ELSE "none"
     /\ spool' = IF cleared THEN journal.spool ELSE NoSpool
     /\ uuid' = IF cleared THEN journal.before ELSE NoUuid
     /\ bound' = (cleared /\ journal.bound)
  /\ prev' = NoSpool
  /\ pc' = "idle"
  /\ holds' = NoHolds /\ found' = NoSpool /\ patch' = FALSE
  /\ outcome' = "none"
  /\ UNCHANGED <<spoolman, durable, quiet>>

\* discard_recovery()
Discard ==
  /\ pc \in {"idle", "preview"}
  /\ journal' = NoRecord
  /\ pending' = "none" /\ spool' = NoSpool /\ uuid' = NoUuid
  /\ pc' = "idle"
  /\ outcome' = "none"
  /\ UNCHANGED <<spoolman, tag, mapping, prev, bound, seen, quiet>>

\* Somebody edits one spool, or the tag list, in Spoolman.
Edit ==
  /\ edits < MaxEdits[mode]
  /\ edits' = edits + 1
  /\ quiet' = FALSE
  /\ \/ \E s \in Spool, v \in {"none", "this", "other"} :
          uid' = [uid EXCEPT ![s] = v] /\ UNCHANGED <<ident, held>>
     \/ \E s \in Spool, u \in Uuid \cup {NoUuid} :
          ident' = [ident EXCEPT ![s] = u] /\ UNCHANGED <<uid, held>>
     \/ \E f \in Form, h \in Spool \cup {NoSpool, Filament} :
          held' = [held EXCEPT ![f] = h] /\ UNCHANGED <<uid, ident>>
  /\ UNCHANGED <<mode, durable, session, pc, seen, outcome>>
-----------------------------------------------------------------------------
Linking ==
  \/ Link \/ Unique \/ Owner \/ PreviousIsClean \/ PreviousIsThis \/ PatchPrevious
  \/ CheckPrevious \/ Target \/ PatchTarget \/ CheckTarget \/ CheckUnique \/ CheckOwner
  \/ List \/ (\E f \in Form : ListMove(f)) \/ ListKept \/ ListAdd \/ ListCheck \/ Map

Unlinking ==
  \/ Unlink \/ Find \/ FindBound \/ FindOwner \/ FindNone \/ FindIdentity
  \/ Review \/ ReviewUnique \/ Bind \/ Patch \/ CheckPatch
  \/ Unlist \/ (\E f \in Form : UnlistEach(f)) \/ CheckUnlist
  \/ Final \/ FinalIdentity \/ Unmap

\* The user repeats what the screen asks for, and every request is answered.
Steady == Resume \/ Retry \/ Linking \/ Unlinking \/ Forget

Next ==
  \/ Steady
  \/ \E s \in Spool, p \in Spool \cup {NoSpool}, u \in Uuid : Preview(s, p, u)
  \/ Write \/ Erase \/ Fail \/ Restart \/ Discard \/ Edit

Spec == Init /\ [][Next]_vars
FairSpec == Spec /\ WF_vars(Steady)
-----------------------------------------------------------------------------
(* What must hold *)

\* "Tag and Spoolman association verified": the tag, Spoolman's fields, its tag
\* list and the station's own mapping then name one another and nothing else,
\* if nobody else edited Spoolman during that attempt.
LinkedExactly ==
  outcome = "complete" /\ quiet =>
    /\ tag = uuid /\ mapping = spool
    /\ HasFields => Owners = {spool} /\ {s \in Spool : ident[s] = uuid} = {spool}
    /\ HasList => HoldingSpools = {spool}

\* "Tag cleared and verified. Ready to reuse": no spool names the tag or the
\* identity it was cleared of, and neither does the station.
UnlinkedWholly ==
  outcome = "cleared" /\ quiet =>
    /\ tag = NoUuid /\ mapping = NoSpool
    /\ HasFields => Owners = {} /\ (uuid # NoUuid => \A s \in Spool : ident[s] # uuid)
    /\ HasList => HoldingSpools = {}

\* A tag that moves never has two owners on the way: the previous spool gives
\* it up before the next one gets it, whatever fails in between.
NoSecondOwner ==
  [][quiet' /\ Cardinality(Owners') > 1 => Cardinality(Owners) > 1]_vars

\* What Spoolman says of other tags and other spools survives: only the chosen
\* spool's own field gives way to this tag, no identity is replaced by another,
\* and nothing is taken from a spool the preview or the record did not name.
NothingTaken ==
  [][quiet /\ quiet' =>
       /\ \A s \in Spool :
            /\ uid[s] = "other" /\ uid'[s] # "other" => s = spool /\ pending = "link"
            /\ uid'[s] # uid[s] => s \in {spool, prev}
            /\ ident[s] # NoUuid /\ ident'[s] # ident[s] =>
                 s = spool /\ pending = "unlink" /\ uid[s] # "other" /\ ident[s] = uuid
       /\ \A f \in Form : held'[f] # held[f] => held[f] \in {NoSpool, spool, prev}]_vars

\* A link the station still owes is made once requests are answered again:
\* what one attempt has done does not make the next one refuse.
LinkFinishes ==
  <>[][Steady]_vars => []<>(pending # "link" /\ (journal = NoRecord \/ journal.op # "write"))

\* One spool at most names the tag or its identity, and it names no other.
Agreed ==
  LET named == Owners \cup HoldingSpools
                 \cup (IF uuid = NoUuid THEN {} ELSE {s \in Spool : ident[s] = uuid})
  IN named = {} \/ \E s \in Spool :
       /\ named = {s}
       /\ uid[s] # "other"
       /\ IF uuid = NoUuid /\ ident[s] # NoUuid
          THEN {x \in Spool : ident[x] = ident[s]} = {s}
          ELSE ident[s] \in {NoUuid, uuid}

\* "Removing its link in Spoolman is still pending": where Spoolman does not
\* contradict itself, repeating it gets it done.
UnlinkFinishes ==
  <>[][Steady]_vars /\ [](pc = "unlink" => Agreed)
    => []<>(pending # "unlink" /\ (journal = NoRecord \/ journal.op # "clear"))

\* What is reported as linked or cleared is so, everywhere.
Exact == TypeOK /\ LinkedExactly /\ UnlinkedWholly

\* On the way there nothing is taken from others and no tag has two owners.
Careful == NoSecondOwner /\ NothingTaken

\* What the station owes Spoolman gets done.
LinksEnd == LinkFinishes /\ UnlinkFinishes
=============================================================================
