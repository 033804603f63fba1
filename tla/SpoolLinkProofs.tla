-------------------------- MODULE SpoolLinkProofs --------------------------
(* Theorems of the link between a tag and its spool, for every number of    *)
(* spools and identities, every Spoolman to start from and every number of  *)
(* edits by other people: what is reported as linked or cleared is so, a    *)
(* tag never has two owners on the way, and nothing is taken from others.   *)
EXTENDS SpoolLink, FiniteSetTheorems, TLAPS

USE DEF vars, spoolman, durable, session, seen

\* Where the service is when it links, and when it unlinks.
LinkSteps == {"link", "unique", "owner", "previous", "previous_patch", "previous_check",
              "target", "target_patch", "target_check", "fields_unique", "fields_owner",
              "list", "list_move", "list_check", "map"}
UnlinkSteps == {"unlink", "find", "find_list", "find_identity", "review", "review_unique",
                "bind", "patch", "patch_check", "unlist", "unlist_each", "final",
                "final_identity", "unmap"}

\* Requests that are made of the previous spool, and of the owner found.
OfPrevious == {"previous", "previous_patch", "previous_check"}
OfOwner == {"review", "review_unique", "patch", "patch_check"}

\* An operation under way is the one that is pending, the tag is what it made
\* of it, and the record in flash agrees.
PendingInv ==
  /\ pc \in LinkSteps => pending = "link"
  /\ pc \in UnlinkSteps => pending = "unlink"
  /\ pc = "forget" => pending # "none"
  /\ pc = "preview" => pending = "none" /\ journal = NoRecord
  /\ pending = "link" => spool \in Spool /\ tag = uuid
  /\ pc = "preview" => spool \in Spool
  /\ pending = "unlink" => tag = NoUuid
  /\ journal # NoRecord =>
       /\ journal.op = "write" => journal.spool \in Spool
       /\ journal.op = "clear" => tag = NoUuid
  /\ outcome # "none" => pc = "idle" /\ pending = "none"

\* What the service asks Spoolman to change is what it may change.
NamedInv ==
  /\ pc \in OfPrevious => prev \in Spool
  /\ pc \in OfOwner => spool \in Spool
  /\ pc = "list_move" => HeldBy(holds) \subseteq {spool, prev}
  /\ pc = "unlist_each" => HeldBy(holds) \subseteq {spool}

\* The link as far as it has got, if nobody else edits Spoolman.
LinkInv ==
  quiet =>
    /\ pc \in OfPrevious => Owners \subseteq {spool} \/ Owners \subseteq {prev}
    /\ pc = "previous_patch" => uid[prev] = "this"
    /\ pc \in {"target", "target_patch"} => Owners \subseteq {spool}
    /\ pc = "target_patch" => ident[spool] \in {NoUuid, uuid}

Identified == {s \in Spool : ident[s] = uuid}

\* A link, or an unlink, that is at one of these steps or through with all.
Linked(steps) == pc \in steps \/ (pc = "forget" /\ pending = "link")
Unlinked(steps) == pc \in steps \/ (pc = "forget" /\ pending = "unlink")

ListSteps == {"list", "list_move", "list_check", "map"}

LinkedInv ==
  quiet =>
    /\ HasFields =>
         /\ Linked(ListSteps \cup {"fields_unique", "fields_owner"}) => ident[spool] = uuid
         /\ Linked(ListSteps \cup {"fields_owner"}) => Identified \subseteq {spool}
         /\ Linked(ListSteps) => Owners = {spool}
    /\ HasList => (Linked({"map"}) => HoldingSpools = {spool})
    /\ Linked({}) => mapping = spool

\* The unlink as far as it has got.
UnlinkInv ==
  quiet =>
    /\ pc \in {"review_unique", "patch"} \/ (pc = "bind" /\ spool # NoSpool /\ HasFields) =>
         uid[spool] # "other" /\ ident[spool] \in {NoUuid, uuid}
    /\ HasList => (Unlinked({"final", "final_identity", "unmap"}) => HoldingSpools = {})
    /\ HasFields =>
         /\ Unlinked({"final_identity", "unmap"}) => Owners = {}
         /\ uuid # NoUuid /\ Unlinked({"unmap"}) => Identified = {}
    /\ Unlinked({}) => mapping = NoSpool

IInv ==
  /\ TypeOK /\ PendingInv /\ NamedInv /\ LinkInv /\ LinkedInv /\ UnlinkInv
  /\ LinkedExactly /\ UnlinkedWholly
-----------------------------------------------------------------------------
(* What Spoolman answers *)

LEMMA HoldersFound ==
  ASSUME TypeOK
  PROVE  /\ Holders \in [Form -> Spool \cup {NoSpool}]
         /\ HeldBy(Holders) = HoldingSpools
         /\ HoldingSpools \subseteq Spool
  BY AbsentAssumption DEF TypeOK, Holders, HeldBy, HoldingSpools, Form

\* A step that only asks, and goes on.
Looking ==
  \/ Link \/ Unique \/ Owner \/ PreviousIsClean \/ PreviousIsThis \/ CheckPrevious \/ Target
  \/ CheckTarget \/ CheckUnique \/ CheckOwner \/ ListKept \/ ListCheck
  \/ FindBound \/ ReviewUnique \/ CheckPatch \/ CheckUnlist \/ Final \/ FinalIdentity

LEMMA LooksOnly ==
  ASSUME Looking
  PROVE  /\ UNCHANGED <<mode, edits, quiet, outcome>>
         /\ UNCHANGED <<uid, ident, held, tag, mapping, journal>>
         /\ UNCHANGED <<pending, spool, prev, uuid, bound, holds, found, patch>>
  BY DEF Looking, Link, Unique, Owner, PreviousIsClean, PreviousIsThis, CheckPrevious, Target,
    CheckTarget, CheckUnique, CheckOwner, ListKept, ListCheck, FindBound, ReviewUnique,
    CheckPatch, CheckUnlist, Final, FinalIdentity, Go, Looks

LEMMA LooksOn ==
  ASSUME Looking
  PROVE  \/ pc \in LinkSteps /\ pc' \in LinkSteps
         \/ pc \in UnlinkSteps /\ pc' \in UnlinkSteps
  BY DEF Looking, Link, Unique, Owner, PreviousIsClean, PreviousIsThis, CheckPrevious, Target,
    CheckTarget, CheckUnique, CheckOwner, ListKept, ListCheck, FindBound, ReviewUnique,
    CheckPatch, CheckUnlist, Final, FinalIdentity, Go, AfterFields, AfterUnpatch, LinkSteps,
    UnlinkSteps

\* The disjuncts of Next, by what they do.
LEMMA Actions ==
  ASSUME [Next]_vars
  PROVE  \/ Looking \/ PatchPrevious \/ PatchTarget \/ List \/ (\E f \in Form : ListMove(f))
         \/ ListAdd \/ Map
         \/ Unlink \/ Find \/ FindOwner \/ FindNone \/ FindIdentity \/ Review \/ Bind \/ Patch
         \/ Unlist \/ (\E f \in Form : UnlistEach(f)) \/ Unmap
         \/ Forget \/ Fail \/ Resume \/ Retry
         \/ (\E s \in Spool, p \in Spool \cup {NoSpool}, u \in Uuid : Preview(s, p, u))
         \/ Write \/ Erase \/ Restart \/ Discard \/ Edit \/ UNCHANGED vars
  BY DEF Next, Steady, Linking, Unlinking, Looking

LEMMA TypeStep == TypeOK /\ PendingInv /\ NamedInv /\ [Next]_vars => TypeOK'
<1> SUFFICES ASSUME TypeOK, PendingInv, NamedInv, [Next]_vars PROVE TypeOK'
  OBVIOUS
<1> USE DEF Go
<1>1. CASE Looking
  <2>1. pc' \in Steps
    BY <1>1, LooksOn DEF LinkSteps, UnlinkSteps, Steps
  <2> QED BY <1>1, <2>1, LooksOnly DEF TypeOK
<1>2. CASE PatchPrevious
  <2>1. uid' \in [Spool -> {"none", "this", "other"}]
    BY <1>2 DEF PatchPrevious, TypeOK
  <2> QED BY <1>2, <2>1 DEF PatchPrevious, TypeOK, Steps
<1>3. CASE PatchTarget
  <2>1. uid' \in [Spool -> {"none", "this", "other"}]
    BY <1>3 DEF PatchTarget, TypeOK
  <2>2. ident' \in [Spool -> Uuid \cup {NoUuid}]
    BY <1>3 DEF PatchTarget, TypeOK
  <2> QED BY <1>3, <2>1, <2>2 DEF PatchTarget, TypeOK, Steps
<1>4. CASE Patch
  <2>1. uid' \in [Spool -> {"none", "this", "other"}]
    BY <1>4 DEF Patch, TypeOK
  <2>2. ident' \in [Spool -> Uuid \cup {NoUuid}]
    BY <1>4 DEF Patch, TypeOK
  <2> QED BY <1>4, <2>1, <2>2 DEF Patch, TypeOK, Steps
<1>5. CASE List \/ Unlist
  BY <1>5, HoldersFound DEF List, Unlist, TypeOK, Steps
<1>6. ASSUME NEW f \in Form, ListMove(f) \/ UnlistEach(f) PROVE TypeOK'
  BY <1>6 DEF ListMove, UnlistEach, Unhold, TypeOK, Steps
<1>7. CASE ListAdd
  BY <1>7 DEF ListAdd, PendingInv, LinkSteps, TypeOK, Steps
<1>8. CASE Map \/ Unmap
  BY <1>8 DEF Map, Unmap, TypeOK, Steps
<1>9. CASE Unlink \/ Bind
  <2>1. ClearRecord \in Record /\ [ClearRecord EXCEPT !.bound = TRUE] \in Record
    BY DEF ClearRecord, Record, TypeOK
  <2> HIDE DEF ClearRecord
  <2>2. journal' \in Record /\ bound' \in BOOLEAN
    BY <1>9, <2>1 DEF Unlink, Bind, TypeOK
  <2> QED BY <1>9, <2>2 DEF Unlink, Bind, AfterUnpatch, TypeOK, Steps
<1>10. CASE Find
  BY <1>10 DEF Find, OrNone, Owners, TypeOK, Steps
<1>11. CASE FindOwner
  <2>1. spool' \in Spool
    BY <1>11, HoldersFound DEF FindOwner, FoundOwners, Listed, TypeOK
  <2> QED BY <1>11, <2>1 DEF FindOwner, TypeOK, Steps
<1>12. CASE FindNone
  BY <1>12 DEF FindNone, TypeOK, Steps
<1>13. CASE FindIdentity
  BY <1>13 DEF FindIdentity, OrNone, TypeOK, Steps
<1>14. CASE Review
  <2>1. uuid' \in Uuid \cup {NoUuid}
    BY <1>14 DEF Review, NamedInv, OfOwner, TypeOK
  <2> QED BY <1>14, <2>1 DEF Review, TypeOK, Steps
<1>15. CASE Forget
  BY <1>15 DEF Forget, TypeOK
<1>16. CASE Fail
  BY <1>16 DEF Fail, TypeOK
<1>17. CASE Resume
  BY <1>17 DEF Resume, TypeOK, Record
<1>18. CASE Retry
  BY <1>18 DEF Retry, TypeOK, Steps
<1>19. ASSUME NEW s \in Spool, NEW p \in Spool \cup {NoSpool}, NEW u \in Uuid, Preview(s, p, u)
       PROVE  TypeOK'
  BY <1>19 DEF Preview, TypeOK
<1>20. CASE Write
  BY <1>20 DEF Write, Record, TypeOK, Steps
<1>21. CASE Erase
  <2>1. ClearedInstance \in Uuid \cup {NoUuid}
    BY DEF ClearedInstance, TypeOK, Record
  <2> QED BY <1>21, <2>1 DEF Erase, Record, TypeOK, Steps
<1>22. CASE Restart
  BY <1>22 DEF Restart, Record, NoHolds, TypeOK
<1>23. CASE Discard
  BY <1>23 DEF Discard, TypeOK
<1>24. CASE Edit
  <2>1. edits' \in 0 .. MaxEdits[mode]
    BY <1>24, WorldAssumption DEF Edit, TypeOK
  <2>2. /\ uid' \in [Spool -> {"none", "this", "other"}]
        /\ ident' \in [Spool -> Uuid \cup {NoUuid}]
        /\ held' \in [Form -> Spool \cup {NoSpool, Filament}]
    BY <1>24 DEF Edit, TypeOK
  <2>3. UNCHANGED <<mode, durable, session, pc, seen, outcome>>
    BY <1>24 DEF Edit
  <2>4. quiet' \in BOOLEAN
    BY <1>24 DEF Edit
  <2> QED BY <2>1, <2>2, <2>3, <2>4 DEF TypeOK
<1>25. CASE UNCHANGED vars
  BY <1>25 DEF TypeOK
<1> QED
  BY <1>1, <1>2, <1>3, <1>4, <1>5, <1>6, <1>7, <1>8, <1>9, <1>10, <1>11, <1>12, <1>13, <1>14,
    <1>15, <1>16, <1>17, <1>18, <1>19, <1>20, <1>21, <1>22, <1>23, <1>24, <1>25, Actions

LEMMA ControlStep == TypeOK /\ PendingInv /\ NamedInv /\ [Next]_vars => PendingInv' /\ NamedInv'
<1> SUFFICES ASSUME TypeOK, PendingInv, NamedInv, [Next]_vars PROVE PendingInv' /\ NamedInv'
  OBVIOUS
<1> USE DEF Go, LinkSteps, UnlinkSteps, OfPrevious, OfOwner
<1>1. CASE Looking
  <2>1. PendingInv'
    BY <1>1, LooksOnly, LooksOn DEF PendingInv
  <2>2. pc' \in OfPrevious => prev \in Spool
    BY <1>1 DEF Looking, Link, Unique, Owner, PreviousIsClean, PreviousIsThis, CheckPrevious,
      Target, CheckTarget, CheckUnique, CheckOwner, ListKept, ListCheck, FindBound, ReviewUnique,
      CheckPatch, CheckUnlist, Final, FinalIdentity, AfterFields, AfterUnpatch, NamedInv, TypeOK
  <2>3. pc' \in OfOwner => spool \in Spool
    BY <1>1 DEF Looking, Link, Unique, Owner, PreviousIsClean, PreviousIsThis, CheckPrevious,
      Target, CheckTarget, CheckUnique, CheckOwner, ListKept, ListCheck, FindBound, ReviewUnique,
      CheckPatch, CheckUnlist, Final, FinalIdentity, AfterFields, AfterUnpatch, NamedInv, TypeOK
  <2>4. pc' \notin {"list_move", "unlist_each"}
    BY <1>1 DEF Looking, Link, Unique, Owner, PreviousIsClean, PreviousIsThis, CheckPrevious,
      Target, CheckTarget, CheckUnique, CheckOwner, ListKept, ListCheck, FindBound, ReviewUnique,
      CheckPatch, CheckUnlist, Final, FinalIdentity, AfterFields, AfterUnpatch
  <2> QED BY <1>1, <2>1, <2>2, <2>3, <2>4, LooksOnly DEF NamedInv
<1>2. CASE PatchPrevious \/ PatchTarget \/ ListAdd \/ Map
  BY <1>2 DEF PatchPrevious, PatchTarget, ListAdd, Map, PendingInv, NamedInv
<1>3. CASE List \/ Unlist
  BY <1>3 DEF List, Unlist, PendingInv, NamedInv
<1>4. ASSUME NEW f \in Form, ListMove(f) \/ UnlistEach(f) PROVE PendingInv' /\ NamedInv'
  <2>1. HeldBy(holds') \subseteq HeldBy(holds)
    BY <1>4 DEF ListMove, UnlistEach, Unhold, HeldBy, TypeOK
  <2>2. HeldBy(holds)' = HeldBy(holds')
    BY DEF HeldBy
  <2> QED BY <1>4, <2>1, <2>2 DEF ListMove, UnlistEach, Unhold, PendingInv, NamedInv
<1>5. CASE Unlink \/ Bind \/ Patch
  BY <1>5, RecordAssumption
  DEF Unlink, Bind, Patch, AfterUnpatch, ClearRecord, PendingInv, NamedInv, TypeOK
<1>6. CASE Find \/ FindNone \/ Unmap
  BY <1>6 DEF Find, FindNone, Unmap, PendingInv, NamedInv
<1>7. CASE FindOwner
  <2>1. spool' \in Spool
    BY <1>7, HoldersFound DEF FindOwner, FoundOwners, Listed, TypeOK
  <2> QED BY <1>7, <2>1 DEF FindOwner, PendingInv, NamedInv
<1>8. CASE FindIdentity
  BY <1>8 DEF FindIdentity, OrNone, PendingInv, NamedInv
<1>9. CASE Review
  BY <1>9 DEF Review, PendingInv, NamedInv
<1>10. CASE Forget
  BY <1>10 DEF Forget, PendingInv, NamedInv
<1>11. CASE Fail
  BY <1>11 DEF Fail, PendingInv, NamedInv, TypeOK, Steps
<1>12. CASE Resume
  BY <1>12 DEF Resume, PendingInv, NamedInv
<1>13. CASE Retry
  BY <1>13 DEF Retry, PendingInv, NamedInv, TypeOK
<1>14. ASSUME NEW s \in Spool, NEW p \in Spool \cup {NoSpool}, NEW u \in Uuid, Preview(s, p, u)
       PROVE  PendingInv' /\ NamedInv'
  BY <1>14 DEF Preview, PendingInv, NamedInv
<1>15. CASE Write
  BY <1>15 DEF Write, PendingInv, NamedInv
<1>16. CASE Erase
  BY <1>16 DEF Erase, PendingInv, NamedInv
<1>17. CASE Restart
  BY <1>17 DEF Restart, PendingInv, NamedInv
<1>18. CASE Discard
  BY <1>18 DEF Discard, PendingInv, NamedInv
<1>19. CASE Edit
  BY <1>19 DEF Edit, PendingInv, NamedInv
<1>20. CASE UNCHANGED vars
  BY <1>20 DEF PendingInv, NamedInv
<1> QED
  BY <1>1, <1>2, <1>3, <1>4, <1>5, <1>6, <1>7, <1>8, <1>9, <1>10, <1>11, <1>12, <1>13, <1>14,
    <1>15, <1>16, <1>17, <1>18, <1>19, <1>20, Actions

LEMMA SameAnswers ==
  ASSUME UNCHANGED <<mode, uid, ident, held, uuid>>
  PROVE  /\ HasFields' = HasFields /\ HasList' = HasList
         /\ Owners' = Owners /\ Identified' = Identified /\ HoldingSpools' = HoldingSpools
  BY DEF HasFields, HasList, Owners, Identified, HoldingSpools

LEMMA LinkStep ==
  TypeOK /\ PendingInv /\ NamedInv /\ LinkInv /\ LinkedInv /\ [Next]_vars
    => LinkInv' /\ LinkedInv'
<1> SUFFICES ASSUME TypeOK, PendingInv, NamedInv, LinkInv, LinkedInv, [Next]_vars
             PROVE  LinkInv' /\ LinkedInv'
  OBVIOUS
<1> USE DEF Go
<1> DEFINE P == LinkInv' /\ LinkedInv'
\* Steps after which no link is under way, or one begins.
<1>1. ASSUME pc' \notin LinkSteps, ~ (pc' = "forget" /\ pending' = "link") PROVE P
  BY <1>1 DEF LinkInv, LinkedInv, OfPrevious, LinkSteps, Linked, ListSteps
<1>2. ASSUME pc' \in {"link", "unique", "owner"} PROVE P
  BY <1>2 DEF LinkInv, LinkedInv, OfPrevious, Linked, ListSteps
<1>3. ASSUME ~quiet' PROVE P
  BY <1>3 DEF LinkInv, LinkedInv
\* Steps that change nothing but where the link is.
<1>4. ASSUME UNCHANGED <<mode, quiet, uid, ident, held, mapping, pending, spool, prev, uuid>>
      PROVE  /\ LinkInv' <=> (quiet =>
                  /\ pc' \in OfPrevious => Owners \subseteq {spool} \/ Owners \subseteq {prev}
                  /\ pc' = "previous_patch" => uid[prev] = "this"
                  /\ pc' \in {"target", "target_patch"} => Owners \subseteq {spool}
                  /\ pc' = "target_patch" => ident[spool] \in {NoUuid, uuid})
             /\ HasFields' = HasFields /\ HasList' = HasList
             /\ Owners' = Owners /\ Identified' = Identified /\ HoldingSpools' = HoldingSpools
  BY <1>4, SameAnswers DEF LinkInv
<1>5. CASE Link
  BY <1>1, <1>2, <1>4, <1>5
  DEF Link, Looks, LinkInv, LinkedInv, OfPrevious, Linked, ListSteps, HasFields
<1>6. CASE Unique
  BY <1>2, <1>6 DEF Unique
<1>7. CASE Owner
  <2>1. Owners \subseteq Spool
    BY DEF Owners
  <2>2. pc' = "target" => Owners \subseteq {spool}
    BY <1>7, <2>1, AbsentAssumption DEF Owner
  <2> QED BY <1>4, <1>7, <2>2 DEF Owner, Looks, LinkedInv, Linked, ListSteps, OfPrevious
<1>8. CASE PreviousIsClean \/ CheckPrevious
  <2>1. quiet => Owners \subseteq {spool}
    BY <1>8 DEF PreviousIsClean, CheckPrevious, LinkInv, OfPrevious, Owners
  <2> QED BY <1>4, <1>8, <2>1
    DEF PreviousIsClean, CheckPrevious, Looks, LinkedInv, Linked, ListSteps, OfPrevious
<1>9. CASE PreviousIsThis
  BY <1>4, <1>9 DEF PreviousIsThis, Looks, LinkInv, LinkedInv, Linked, ListSteps, OfPrevious
<1>10. CASE PatchPrevious
  <2>1. Owners' \subseteq Owners
    BY <1>10 DEF PatchPrevious, Owners, TypeOK
  <2> QED BY <1>10, <2>1 DEF PatchPrevious, LinkInv, LinkedInv, Linked, ListSteps, OfPrevious
<1>11. CASE Target
  BY <1>4, <1>11 DEF Target, Looks, LinkInv, LinkedInv, Linked, ListSteps, OfPrevious
<1>12. CASE PatchTarget
  BY <1>12 DEF PatchTarget, LinkInv, LinkedInv, Linked, ListSteps, OfPrevious
<1>13. CASE CheckTarget
  BY <1>4, <1>13 DEF CheckTarget, Looks, LinkedInv, Linked, ListSteps, OfPrevious
<1>14. CASE CheckUnique
  BY <1>4, <1>14
  DEF CheckUnique, UniqueIdentity, Identified, Looks, LinkedInv, Linked, ListSteps, OfPrevious
<1>15. CASE CheckOwner
  BY <1>4, <1>15
  DEF CheckOwner, AfterFields, Looks, LinkedInv, Linked, ListSteps, OfPrevious
<1>16. CASE List \/ ListAdd \/ (\E f \in Form : ListMove(f))
  <2>1. /\ UNCHANGED <<mode, quiet, uid, ident, mapping, pending, spool, prev, uuid>>
        /\ pc \in {"list", "list_move"} /\ pc' \in {"list_move", "list_check"}
    BY <1>16 DEF List, ListAdd, ListMove, Unhold
  <2>2. HasFields' = HasFields /\ Owners' = Owners /\ Identified' = Identified
    BY <2>1 DEF HasFields, Owners, Identified
  <2> QED BY <2>1, <2>2 DEF LinkInv, LinkedInv, Linked, ListSteps, OfPrevious
<1>17. CASE ListKept
  BY <1>4, <1>17 DEF ListKept, Looks, LinkedInv, Linked, ListSteps, OfPrevious
<1>18. CASE ListCheck
  BY <1>4, <1>18, HoldersFound
  DEF ListCheck, Looks, LinkedInv, Linked, ListSteps, OfPrevious
<1>19. CASE Map
  <2>1. UNCHANGED <<mode, quiet, uid, ident, held, uuid, spool, pending>> /\ mapping' = spool
    BY <1>19 DEF Map
  <2> QED BY <1>19, <2>1, SameAnswers
    DEF Map, LinkInv, LinkedInv, Linked, ListSteps, OfPrevious
<1>20. CASE Looking /\ pc \in UnlinkSteps
  BY <1>1, <1>20, LooksOn DEF LinkSteps, UnlinkSteps
<1>21. CASE Unlink \/ Find \/ FindOwner \/ FindNone \/ FindIdentity \/ Review \/ Bind \/ Patch
              \/ Unlist \/ (\E f \in Form : UnlistEach(f)) \/ Unmap
  <2>1. pc' \in UnlinkSteps \/ (pc' = "forget" /\ pending' = "unlink")
    BY <1>21 DEF Unlink, Find, FindOwner, FindNone, FindIdentity, Review, Bind, Patch, Unlist,
      UnlistEach, Unhold, Unmap, AfterUnpatch, UnlinkSteps, PendingInv
  <2> QED BY <1>1, <2>1 DEF LinkSteps, UnlinkSteps
<1>22. CASE Forget \/ Fail \/ Erase \/ Restart \/ Discard
         \/ (\E s \in Spool, p \in Spool \cup {NoSpool}, u \in Uuid : Preview(s, p, u))
  <2>1. pc' \in {"idle", "preview", "unlink"}
    BY <1>22 DEF Forget, Fail, Erase, Restart, Discard, Preview
  <2> QED BY <1>1, <2>1 DEF LinkSteps
<1>23. CASE Write \/ Retry
  BY <1>1, <1>2, <1>23 DEF Write, Retry, TypeOK, LinkSteps
<1>24. CASE Resume
  BY <1>1, <1>24 DEF Resume, LinkSteps
<1>25. CASE Edit
  BY <1>3, <1>25 DEF Edit
<1>26. CASE UNCHANGED vars
  BY <1>26, SameAnswers DEF LinkInv, LinkedInv, Linked
<1> HIDE DEF P
<1> QED
  <2>1. CASE Looking
    BY <2>1, <1>5, <1>6, <1>7, <1>8, <1>9, <1>11, <1>13, <1>14, <1>15, <1>17, <1>18, <1>20
    DEF Looking, FindBound, ReviewUnique, CheckPatch, CheckUnlist, Final, FinalIdentity,
      UnlinkSteps
  <2> QED
    BY <2>1, <1>10, <1>12, <1>16, <1>19, <1>21, <1>22, <1>23, <1>24, <1>25, <1>26, Actions
    DEF P

LEMMA UnlinkStep ==
  TypeOK /\ PendingInv /\ NamedInv /\ UnlinkInv /\ [Next]_vars => UnlinkInv'
<1> SUFFICES ASSUME TypeOK, PendingInv, NamedInv, UnlinkInv, [Next]_vars PROVE UnlinkInv'
  OBVIOUS
<1> USE DEF Go
\* Steps after which no unlink is under way, or one begins.
<1>1. ASSUME pc' \notin {"review_unique", "bind", "patch", "final", "final_identity", "unmap"},
             ~ (pc' = "forget" /\ pending' = "unlink")
      PROVE  UnlinkInv'
  BY <1>1 DEF UnlinkInv, Unlinked
<1>2. CASE ~quiet'
  BY <1>2 DEF UnlinkInv
\* Steps that change nothing but where the unlink is.
<1>3. ASSUME Looks, UNCHANGED <<mode, quiet>>
      PROVE  /\ UNCHANGED <<quiet, uid, ident, spool, uuid, mapping, pending>>
             /\ HasFields' = HasFields /\ HasList' = HasList
             /\ Owners' = Owners /\ Identified' = Identified /\ HoldingSpools' = HoldingSpools
  BY <1>3, SameAnswers DEF Looks
<1>4. CASE FindBound
  BY <1>3, <1>4 DEF FindBound, UnlinkInv, Unlinked
<1>5. CASE ReviewUnique
  BY <1>3, <1>5 DEF ReviewUnique, UnlinkInv, Unlinked
<1>6. CASE CheckPatch
  BY <1>3, <1>6 DEF CheckPatch, AfterUnpatch, UnlinkInv, Unlinked
<1>7. CASE CheckUnlist
  BY <1>3, <1>7, HoldersFound DEF CheckUnlist, UnlinkInv, Unlinked
<1>8. CASE Final
  BY <1>3, <1>8 DEF Final, UnlinkInv, Unlinked
<1>9. CASE FinalIdentity
  <2>1. uuid # NoUuid => Identified = {}
    BY <1>9 DEF FinalIdentity, Identified
  <2> QED BY <1>3, <1>9, <2>1 DEF FinalIdentity, UnlinkInv, Unlinked
<1>10. CASE FindOwner \/ FindNone \/ FindIdentity
  <2>1. /\ pc' \in {"review", "bind", "find_identity"}
        /\ pc' = "bind" => spool' = NoSpool \/ ~HasFields'
    BY <1>10 DEF FindOwner, FindNone, FindIdentity, OrNone, HasFields
  <2> QED BY <2>1 DEF UnlinkInv, Unlinked
<1>11. CASE Review
  BY <1>11 DEF Review, UnlinkInv, Unlinked
<1>12. CASE Bind
  <2>1. UNCHANGED <<mode, quiet, uid, ident, held, uuid, spool, mapping, pending>>
    BY <1>12 DEF Bind
  <2> QED BY <1>12, <2>1, SameAnswers DEF Bind, AfterUnpatch, UnlinkInv, Unlinked
<1>13. CASE Unmap
  <2>1. UNCHANGED <<mode, quiet, uid, ident, held, uuid, spool, pending>> /\ mapping' = NoSpool
    BY <1>13 DEF Unmap
  <2> QED BY <1>13, <2>1, SameAnswers DEF Unmap, UnlinkInv, Unlinked
<1>14. CASE Unlink \/ Find \/ Patch \/ Unlist \/ (\E f \in Form : UnlistEach(f))
  BY <1>1, <1>14 DEF Unlink, Find, Patch, Unlist, UnlistEach
<1>15. CASE Looking /\ pc \in LinkSteps
  BY <1>1, <1>15, LooksOn DEF LinkSteps, UnlinkSteps
<1>16. CASE PatchPrevious \/ PatchTarget \/ List \/ ListAdd \/ (\E f \in Form : ListMove(f))
  BY <1>1, <1>16 DEF PatchPrevious, PatchTarget, List, ListAdd, ListMove
<1>17. CASE Map
  BY <1>1, <1>17 DEF Map, PendingInv, LinkSteps
<1>18. CASE Forget \/ Fail \/ Write \/ Erase \/ Restart \/ Discard
         \/ (\E s \in Spool, p \in Spool \cup {NoSpool}, u \in Uuid : Preview(s, p, u))
  BY <1>1, <1>18 DEF Forget, Fail, Write, Erase, Restart, Discard, Preview
<1>19. CASE Resume \/ Retry
  BY <1>1, <1>19 DEF Resume, Retry, TypeOK
<1>20. CASE Edit
  BY <1>2, <1>20 DEF Edit
<1>21. CASE UNCHANGED vars
  BY <1>21, SameAnswers DEF UnlinkInv, Unlinked
<1> QED
  <2>1. CASE Looking
    BY <2>1, <1>4, <1>5, <1>6, <1>7, <1>8, <1>9, <1>15
    DEF Looking, Link, Unique, Owner, PreviousIsClean, PreviousIsThis, CheckPrevious, Target,
      CheckTarget, CheckUnique, CheckOwner, ListKept, ListCheck, LinkSteps
  <2> QED
    BY <2>1, <1>10, <1>11, <1>12, <1>13, <1>14, <1>16, <1>17, <1>18, <1>19, <1>20, <1>21,
      Actions

LEMMA ReportStep ==
  IInv /\ [Next]_vars => LinkedExactly' /\ UnlinkedWholly'
<1> SUFFICES ASSUME IInv, [Next]_vars PROVE LinkedExactly' /\ UnlinkedWholly'
  OBVIOUS
<1> USE DEF Go
<1>1. CASE outcome' = "none" \/ ~quiet'
  BY <1>1 DEF LinkedExactly, UnlinkedWholly
<1>2. CASE UNCHANGED vars
  <2>1. UNCHANGED <<mode, uid, ident, held, uuid, tag, mapping, spool, outcome, quiet>>
    BY <1>2
  <2> QED BY <2>1, SameAnswers DEF IInv, LinkedExactly, UnlinkedWholly, Identified
<1>3. CASE Forget
  <2>1. UNCHANGED <<mode, quiet, uid, ident, held, uuid, tag, mapping, spool>>
    BY <1>3 DEF Forget
  <2>2. /\ pc = "forget" /\ pending \in {"link", "unlink"}
        /\ outcome' = IF pending = "link" THEN "complete" ELSE "cleared"
    BY <1>3 DEF Forget, IInv, PendingInv, TypeOK
  <2>3. CASE pending = "link" /\ quiet
    <3>1. tag = uuid /\ mapping = spool /\ spool \in Spool
      BY <2>2, <2>3 DEF IInv, PendingInv, LinkedInv, Linked
    <3>2. HasFields => Owners = {spool} /\ Identified = {spool}
      BY <2>2, <2>3, <3>1 DEF IInv, LinkedInv, Linked, Identified
    <3>3. HasList => HoldingSpools = {spool}
      BY <2>2, <2>3 DEF IInv, LinkedInv, Linked
    <3> QED BY <2>1, <2>2, <2>3, <3>1, <3>2, <3>3, SameAnswers
      DEF LinkedExactly, UnlinkedWholly, Identified
  <2>4. CASE pending = "unlink" /\ quiet
    <3>1. tag = NoUuid /\ mapping = NoSpool
      BY <2>2, <2>4 DEF IInv, PendingInv, UnlinkInv, Unlinked
    <3>2. HasFields => Owners = {} /\ (uuid # NoUuid => \A s \in Spool : ident[s] # uuid)
      BY <2>2, <2>4 DEF IInv, UnlinkInv, Unlinked, Identified
    <3>3. HasList => HoldingSpools = {}
      BY <2>2, <2>4 DEF IInv, UnlinkInv, Unlinked
    <3> QED BY <2>1, <2>2, <2>4, <3>1, <3>2, <3>3, SameAnswers
      DEF LinkedExactly, UnlinkedWholly
  <2> QED BY <1>1, <2>1, <2>2, <2>3, <2>4
<1>4. CASE pc \in LinkSteps \cup UnlinkSteps /\ UNCHANGED outcome
  BY <1>1, <1>4 DEF IInv, PendingInv, LinkSteps, UnlinkSteps
<1>5. CASE Looking
  BY <1>4, <1>5, LooksOn, LooksOnly
<1>6. CASE PatchPrevious \/ PatchTarget \/ List \/ (\E f \in Form : ListMove(f)) \/ ListAdd \/ Map
  BY <1>4, <1>6 DEF PatchPrevious, PatchTarget, List, ListMove, ListAdd, Map, LinkSteps
<1>7. CASE Unlink \/ Find \/ FindOwner \/ FindNone \/ FindIdentity \/ Review \/ Bind \/ Patch
             \/ Unlist \/ (\E f \in Form : UnlistEach(f)) \/ Unmap
  BY <1>4, <1>7 DEF Unlink, Find, FindOwner, FindNone, FindIdentity, Review, Bind, Patch, Unlist,
    UnlistEach, Unmap, UnlinkSteps
<1>8. CASE Fail \/ Retry \/ Write
  BY <1>1, <1>8 DEF Fail, Retry, Write, IInv, PendingInv
<1>9. CASE Resume \/ Erase \/ Restart \/ Discard
         \/ (\E s \in Spool, p \in Spool \cup {NoSpool}, u \in Uuid : Preview(s, p, u))
  BY <1>1, <1>9 DEF Resume, Erase, Restart, Discard, Preview
<1>10. CASE Edit
  BY <1>1, <1>10 DEF Edit
<1> QED
  BY <1>2, <1>3, <1>5, <1>6, <1>7, <1>8, <1>9, <1>10, Actions

LEMMA InitInv == Init => IInv
<1> SUFFICES ASSUME Init PROVE IInv
  OBVIOUS
<1> USE DEF Init
<1>1. TypeOK
  <2>1. PICK w \in World :
          mode = w.mode /\ uid = w.uid /\ ident = w.ident /\ held = w.held /\ tag = w.tag
    BY WorldAssumption
  <2>2. /\ mode \in Mode /\ uid \in [Spool -> {"none", "this", "other"}]
        /\ ident \in [Spool -> Uuid \cup {NoUuid}]
        /\ held \in [Form -> Spool \cup {NoSpool, Filament}] /\ tag \in Uuid \cup {NoUuid}
    BY <2>1 DEF World
  <2>3. edits \in 0 .. MaxEdits[mode]
    BY <2>2, WorldAssumption
  <2> QED BY <2>2, <2>3 DEF TypeOK, NoHolds
<1>2. PendingInv /\ NamedInv
  BY DEF PendingInv, NamedInv, LinkSteps, UnlinkSteps, OfPrevious, OfOwner
<1>3. LinkInv /\ LinkedInv /\ UnlinkInv
  BY DEF LinkInv, LinkedInv, UnlinkInv, Linked, Unlinked, ListSteps, OfPrevious
<1>4. LinkedExactly /\ UnlinkedWholly
  BY DEF LinkedExactly, UnlinkedWholly
<1> QED BY <1>1, <1>2, <1>3, <1>4 DEF IInv

LEMMA Invariant == Spec => []IInv
<1>1. IInv /\ [Next]_vars => IInv'
  <2> SUFFICES ASSUME IInv, [Next]_vars PROVE IInv'
    OBVIOUS
  <2>1. TypeOK' /\ PendingInv' /\ NamedInv'
    BY TypeStep, ControlStep DEF IInv
  <2>2. LinkInv' /\ LinkedInv' /\ UnlinkInv'
    BY LinkStep, UnlinkStep DEF IInv
  <2>3. LinkedExactly' /\ UnlinkedWholly'
    BY ReportStep
  <2> QED BY <2>1, <2>2, <2>3 DEF IInv
<1> QED BY <1>1, InitInv, PTL DEF Spec

-----------------------------------------------------------------------------
(* Theorems *)

\* When the station says that tag and association are verified, the tag,
\* Spoolman's fields, its tag list and the station's own mapping name one
\* another and nothing else; when it says that the tag is ready for reuse, none
\* of them names it: unless somebody edited Spoolman during that attempt
\* (tag_writer_service.cpp:1386-1473, 1050-1214, associate() and unlink()).
THEOREM ReportedExactly == Spec => []Exact
<1>1. IInv => Exact
  BY DEF IInv, Exact
<1> QED BY <1>1, Invariant, PTL

LEMMA SecondOwnerStep ==
  ASSUME IInv, [Next]_vars, quiet', Cardinality(Owners') > 1
  PROVE  Cardinality(Owners) > 1
<1> USE DEF Go
<1>1. IsFiniteSet(Owners)
  BY SpoolAssumption, FS_Subset DEF Owners
<1>2. CASE Owners' \subseteq Owners
  <2>1. Cardinality(Owners') <= Cardinality(Owners)
    BY <1>1, <1>2, FS_Subset
  <2>2. Cardinality(Owners) \in Nat /\ Cardinality(Owners') \in Nat
    BY <1>1, <1>2, FS_Subset, FS_CardinalityType
  <2> QED BY <2>1, <2>2
<1>3. CASE UNCHANGED uid
  BY <1>2, <1>3 DEF Owners
<1>4. CASE PatchPrevious \/ Patch
  BY <1>2, <1>4 DEF PatchPrevious, Patch, Owners, IInv, TypeOK
<1>5. CASE PatchTarget
  <2>1. quiet /\ pc = "target_patch"
    BY <1>5 DEF PatchTarget
  <2>2. Owners \subseteq {spool} /\ spool \in Spool
    BY <2>1 DEF IInv, LinkInv, PendingInv, LinkSteps
  <2>3. Owners' = {spool}
    BY <1>5, <2>2 DEF PatchTarget, Owners, IInv, TypeOK
  <2> QED BY <2>3, FS_Singleton
<1>6. CASE Looking
  BY <1>3, <1>6, LooksOnly
<1>7. CASE Edit
  BY <1>7 DEF Edit
<1>8. CASE List \/ (\E f \in Form : ListMove(f)) \/ ListAdd \/ Map \/ Unlink \/ Find \/ FindOwner
             \/ FindNone \/ FindIdentity \/ Review \/ Bind \/ Unlist
             \/ (\E f \in Form : UnlistEach(f)) \/ Unmap
  BY <1>3, <1>8 DEF List, ListMove, ListAdd, Map, Unlink, Find, FindOwner, FindNone, FindIdentity,
    Review, Bind, Unlist, UnlistEach, Unhold, Unmap
<1>9. CASE Forget \/ Fail \/ Resume \/ Retry \/ Write \/ Erase \/ Restart \/ Discard
         \/ UNCHANGED vars
         \/ (\E s \in Spool, p \in Spool \cup {NoSpool}, u \in Uuid : Preview(s, p, u))
  BY <1>3, <1>9 DEF Forget, Fail, Resume, Retry, Write, Erase, Restart, Discard, Preview
<1> QED
  BY <1>4, <1>5, <1>6, <1>7, <1>8, <1>9, Actions

\* What a step may take from a spool, and from the tag list.
TakesRightly ==
  /\ \A s \in Spool :
       /\ uid[s] = "other" /\ uid'[s] # "other" => s = spool /\ pending = "link"
       /\ uid'[s] # uid[s] => s \in {spool, prev}
       /\ ident[s] # NoUuid /\ ident'[s] # ident[s] =>
            s = spool /\ pending = "unlink" /\ uid[s] # "other" /\ ident[s] = uuid
  /\ \A f \in Form : held'[f] # held[f] => held[f] \in {NoSpool, spool, prev}

LEMMA TakenStep ==
  ASSUME IInv, [Next]_vars, quiet, quiet'
  PROVE  TakesRightly
<1> USE DEF Go
<1>1. CASE UNCHANGED <<uid, ident, held>>
  BY <1>1 DEF TakesRightly
<1>2. CASE PatchPrevious
  <2>1. uid[prev] = "this" /\ UNCHANGED <<ident, held>>
    BY <1>2 DEF PatchPrevious, IInv, LinkInv
  <2> QED BY <1>2, <2>1 DEF PatchPrevious, TakesRightly, IInv, TypeOK
<1>3. CASE PatchTarget
  <2>1. ident[spool] \in {NoUuid, uuid} /\ pending = "link" /\ UNCHANGED held
    BY <1>3 DEF PatchTarget, IInv, LinkInv, PendingInv, LinkSteps
  <2> QED BY <1>3, <2>1 DEF PatchTarget, TakesRightly, IInv, TypeOK
<1>4. CASE Patch
  <2>1. /\ uid[spool] # "other" /\ ident[spool] \in {NoUuid, uuid} /\ pending = "unlink"
        /\ UNCHANGED held
    BY <1>4 DEF Patch, IInv, UnlinkInv, PendingInv, UnlinkSteps
  <2> QED BY <1>4, <2>1 DEF Patch, TakesRightly, IInv, TypeOK
<1>5. ASSUME NEW f \in Form, ListMove(f) \/ UnlistEach(f) PROVE TakesRightly
  <2>1. Unhold(f) /\ UNCHANGED <<uid, ident>>
    BY <1>5 DEF ListMove, UnlistEach, Unhold
  <2>2. holds[f] \in {spool, prev}
    BY <1>5, <2>1, AbsentAssumption DEF ListMove, UnlistEach, Unhold, IInv, NamedInv, HeldBy
  <2> QED BY <2>1, <2>2 DEF Unhold, TakesRightly, IInv, TypeOK
<1>6. CASE ListAdd
  BY <1>6 DEF ListAdd, TakesRightly, IInv, TypeOK
<1>7. CASE Looking
  BY <1>1, <1>7, LooksOnly
<1>8. CASE Edit
  BY <1>8 DEF Edit
<1>9. CASE List \/ Map \/ Unlink \/ Find \/ FindOwner \/ FindNone \/ FindIdentity \/ Review \/ Bind
             \/ Unlist \/ Unmap
  BY <1>1, <1>9 DEF List, Map, Unlink, Find, FindOwner, FindNone, FindIdentity, Review, Bind,
    Unlist, Unmap
<1>10. CASE Forget \/ Fail \/ Resume \/ Retry \/ Write \/ Erase \/ Restart \/ Discard
         \/ UNCHANGED vars
         \/ (\E s \in Spool, p \in Spool \cup {NoSpool}, u \in Uuid : Preview(s, p, u))
  BY <1>1, <1>10 DEF Forget, Fail, Resume, Retry, Write, Erase, Restart, Discard, Preview
<1> QED
  BY <1>2, <1>3, <1>4, <1>5, <1>6, <1>7, <1>8, <1>9, <1>10, Actions

\* Whatever fails on the way and wherever power is lost, a tag that moves never
\* has two owners, the spools that were not named keep what they have, and no
\* identity is replaced by another (tag_writer_service.cpp:584-620, 880-901,
\* 1050-1150, 1425-1473).
THEOREM NothingTakenOnTheWay == Spec => Careful
<1>1. IInv /\ [Next]_vars =>
        [quiet' /\ Cardinality(Owners') > 1 => Cardinality(Owners) > 1]_vars
  BY SecondOwnerStep
<1>2. IInv /\ [Next]_vars => [quiet /\ quiet' => TakesRightly]_vars
  BY TakenStep
<1> QED
  BY <1>1, <1>2, Invariant, PTL DEF Spec, Careful, NoSecondOwner, NothingTaken, TakesRightly
=============================================================================
