------------------------------ MODULE Identity ------------------------------
(* Which spool is on the station: SpoolIdentityResolver::resolve() asks    *)
(* Spoolman and the station's own list of confirmed links, one request at  *)
(* a time, while other people edit Spoolman; the probe learns and forgets  *)
(* what Spoolman can do; a confirmation by hand, a verified association    *)
(* and a verified unlink keep the list.                                    *)
(*                                                                         *)
(* The requests of one association and of one unlink are SpoolLink's; here *)
(* each is the one step its verification leaves behind.  A UID has one     *)
(* spelling in an extra field and two byte orders in Spoolman's tag list.  *)
(* Product codes and material names only ever suggest spools, which is     *)
(* the answer "none" here.                                                 *)
EXTENDS FiniteSets, SequencesExt, Integers

CONSTANTS
  Spool, Tag, Uuid,
  MaxCache,   \* maximum_spool_identity_mappings
  MaxEdits,   \* bound: edits by other people
  MaxCommands, \* bound: confirmations, associations and unlinks
  NoSpool, NoTag, NoUuid, AnySpool

ASSUME SpoolAssumption ==
  IsFiniteSet(Spool) /\ {NoSpool, AnySpool} \cap Spool = {} /\ NoSpool # AnySpool
ASSUME AbsentAssumption == NoTag \notin Tag /\ NoUuid \notin Uuid
ASSUME BoundAssumption == MaxCache \in Nat \ {0} /\ MaxEdits \in Nat /\ MaxCommands \in Nat

Form == {"canonical", "reversed"}

VARIABLES
  \* Spoolman
  native,   \* it keeps a list of tags (0.27 or later)
  fields,   \* the two extra fields are defined
  held,     \* held[t][f]: the spools that list tag t under byte order f
  uuid,     \* the extra field instance_uuid of each spool
  uid,      \* the extra field nfc_uid of each spool
  \* the tags and the station
  content,  \* the instance UUID on each tag
  cache,    \* spool_identity_mappings
  known,    \* BackendCapability::native_tags
  verified, \* verified_extra_keys_ holds the two fields
  \* one resolve()
  at, tag, hit, answer,
  \* history: the spool each tag is verified to be linked to, NoSpool when
  \* verified unlinked, AnySpool when somebody may have changed that since
  claim,
  edits, commands

spoolman == <<native, fields, held, uuid, uid>>
query == <<at, tag, hit, answer>>
vars == <<spoolman, content, cache, known, verified, query, claim, edits, commands>>

Steps == {"list", "list_uuid", "uuid", "cache_uuid", "uid", "cache_uid"}
Mapping == [spool : Spool, uuid : Uuid \cup {NoUuid}, uid : Tag]

TypeOK ==
  /\ native \in BOOLEAN /\ fields \in BOOLEAN
  /\ held \in [Tag -> [Form -> SUBSET Spool]]
  /\ uuid \in [Spool -> Uuid \cup {NoUuid}]
  /\ uid \in [Spool -> Tag \cup {NoTag}]
  /\ content \in [Tag -> Uuid \cup {NoUuid}]
  /\ cache \in Seq(Mapping) /\ Len(cache) <= MaxCache
  /\ known \in BOOLEAN /\ verified \in BOOLEAN
  /\ at \in {"idle"} \cup Steps /\ tag \in Tag \cup {NoTag}
  /\ hit \in Spool \cup {NoSpool}
  /\ answer \in [is : {"matched", "conflict", "none", "failed"}, spool : Spool \cup {NoSpool}]
  /\ claim \in [Tag -> Spool \cup {NoSpool, AnySpool}]
  /\ edits \in 0..MaxEdits /\ commands \in 0..MaxCommands

Distinct(c) == \A x, y \in Tag : x # y /\ c[x] # NoUuid => c[x] # c[y]

Init ==
  /\ native \in BOOLEAN /\ fields \in BOOLEAN
  /\ held = [t \in Tag |-> [f \in Form |-> {}]]
  /\ uuid = [s \in Spool |-> NoUuid] /\ uid = [s \in Spool |-> NoTag]
  /\ content \in {c \in [Tag -> Uuid \cup {NoUuid}] : Distinct(c)}
  /\ cache = <<>> /\ known = FALSE /\ verified = FALSE
  /\ at = "idle" /\ tag = NoTag /\ hit = NoSpool
  /\ answer = [is |-> "none", spool |-> NoSpool]
  /\ claim = [t \in Tag |-> AnySpool]
  /\ edits = 0 /\ commands = 0
-----------------------------------------------------------------------------
(* The list of confirmed links *)

\* A full list gives up the entry that was added first.
Added(m) == Append(IF Len(cache) >= MaxCache THEN Tail(cache) ELSE cache, m)

\* Configuration::validate(): no tag and no instance UUID twice.
Valid(c) == \A i, j \in DOMAIN c : i # j =>
              /\ c[i].uid # c[j].uid
              /\ c[i].uuid # NoUuid => c[i].uuid # c[j].uuid

\* confirm_spool_identity_mapping(): an identity is not moved to another
\* spool; what the identity lacks is kept from the spool's first entry.
Mapped(id, m) == (id.uuid # NoUuid /\ m.uuid = id.uuid) \/ m.uid = id.uid
Accepted(id, s) == \A m \in ToSet(cache) : Mapped(id, m) => m.spool = s
Entry(s) == {i \in DOMAIN cache : cache[i].spool = s}
Confirmed(id, s) ==
  IF Entry(s) = {} THEN Added([spool |-> s, uuid |-> id.uuid, uid |-> id.uid])
  ELSE LET i == CHOOSE i \in Entry(s) : \A j \in Entry(s) : i <= j
       IN [cache EXCEPT ![i] = [spool |-> s, uid |-> id.uid,
             uuid |-> IF id.uuid = NoUuid THEN cache[i].uuid ELSE id.uuid]]

\* verified_cache_entry(): the tag's entry, unless the UUID is another tag's.
Foreign(t, u) == \E m \in ToSet(cache) : u # NoUuid /\ m.uuid = u /\ m.uid # t
Own(t) == {i \in DOMAIN cache : cache[i].uid = t}

Synced(t, u, s) ==
  LET m == [spool |-> s, uuid |-> u, uid |-> t]
  IN IF Own(t) = {} THEN Added(m) ELSE [cache EXCEPT ![CHOOSE i \in Own(t) : TRUE] = m]

\* Mutant (Resolves): the entry of an erased tag stays.
ForgottenNever(t) == cache
Forgotten(t) == IF Own(t) = {} THEN cache ELSE RemoveAt(cache, CHOOSE i \in Own(t) : TRUE)
-----------------------------------------------------------------------------
(* What Spoolman answers *)

\* A lookup by an extra field.  One that is not defined is refused before it
\* is asked; Spoolman ignores one that was deleted since it was verified.
Refused == ~fields /\ ~verified
Holding(field, value) == IF fields THEN {s \in Spool : field[s] = value} ELSE Spool

Listed == IF held[tag]["canonical"] # {} THEN held[tag]["canonical"]
                                         ELSE held[tag]["reversed"]

\* The spool is known to hold another instance UUID than the tag.
Contradicts(s) == uuid[s] # NoUuid /\ content[tag] # NoUuid /\ uuid[s] # content[tag]

CachedByUuid == {m.spool : m \in {x \in ToSet(cache) : x.uuid = content[tag]}}
CachedByUid == {m.spool : m \in {x \in ToSet(cache) : x.uid = tag}}
-----------------------------------------------------------------------------
(* SpoolIdentityResolver::resolve() *)

Stay == UNCHANGED <<spoolman, content, cache, known, claim, edits, commands>>

Answer(is, s) ==
  /\ at' = "idle" /\ hit' = NoSpool
  /\ answer' = [is |-> is, spool |-> s]
Ask(next) == at' = next /\ UNCHANGED <<hit, answer>>

\* The first lookup after the tag list, after the UUID.
AfterList == IF content[tag] = NoUuid THEN "uid" ELSE "uuid"

\* refresh_capabilities(): a request that fails leaves the tag list unasked.
Place(t) ==
  /\ at = "idle"
  /\ known' \in {known, native}
  /\ at' = IF known' THEN "list" ELSE IF content[t] = NoUuid THEN "uid" ELSE "uuid"
  /\ tag' = t
  /\ UNCHANGED <<spoolman, content, cache, verified, hit, answer, claim, edits, commands>>

\* native_tag_match(), both byte orders.
List ==
  /\ at = "list"
  /\ CASE Listed = {} -> Ask(AfterList)
       [] Cardinality(Listed) > 1 -> Answer("conflict", NoSpool)
       [] OTHER -> \E s \in Listed :
            IF Contradicts(s) THEN Answer("conflict", NoSpool)
            ELSE IF content[tag] # NoUuid /\ uuid[s] = NoUuid
                 THEN at' = "list_uuid" /\ hit' = s /\ UNCHANGED answer
            ELSE Answer("matched", s)
  /\ UNCHANGED <<tag, verified>> /\ Stay

\* exact_extra_match(): where Spoolman keeps tags itself the fields are
\* optional; elsewhere a missing one is an error.
Exact(spools, Found, Missing) ==
  /\ \/ /\ Refused
        /\ IF known THEN Missing ELSE Answer("failed", NoSpool)
        /\ UNCHANGED verified
     \/ /\ ~Refused
        /\ verified' = TRUE
        /\ IF spools = {} THEN Missing ELSE Found
  /\ UNCHANGED tag /\ Stay

\* What a product code or a material's name suggests is for people to choose.
Suggested == Answer("none", NoSpool)

Pick(spools) ==
  IF Cardinality(spools) > 1 THEN Answer("conflict", NoSpool)
  ELSE \E s \in spools : Answer("matched", s)

\* The listed spool has no UUID: another one that has the tag's is a doubt.
ListUuid ==
  /\ at = "list_uuid"
  /\ LET spools == Holding(uuid, content[tag])
         Doubt == IF Cardinality(spools) = 1 /\ spools # {hit}
                  THEN Answer("conflict", NoSpool) ELSE Answer("matched", hit)
     IN Exact(spools, Doubt, Answer("matched", hit))

ByUuid ==
  /\ at = "uuid"
  /\ LET spools == Holding(uuid, content[tag])
     IN Exact(spools, Pick(spools), Ask("cache_uuid"))

\* cached_match(): the spool is read from Spoolman.
\* Mutant (Agrees): what it holds is not compared.
FromCacheUnread(spools, byUid) == Pick(spools)
FromCache(spools, byUid) ==
  IF \E s \in spools : Contradicts(s) \/ (byUid /\ uid[s] \notin {NoTag, tag})
  THEN Answer("conflict", NoSpool) ELSE Pick(spools)

CacheUuid ==
  /\ at = "cache_uuid"
  /\ IF CachedByUuid = {} THEN Ask("uid") ELSE FromCache(CachedByUuid, FALSE)
  /\ UNCHANGED <<tag, verified>> /\ Stay

\* A spool with this UID and another UUID is the tag's previous owner.
ByUid ==
  /\ at = "uid"
  /\ LET spools == Holding(uid, tag)
         Owner == IF Cardinality(spools) = 1 /\ \E s \in spools : Contradicts(s)
                  THEN Answer("conflict", NoSpool) ELSE Pick(spools)
         Missing == IF known THEN Suggested ELSE Ask("cache_uid")
     IN Exact(spools, Owner, Missing)

\* The local list by UID is for a Spoolman that keeps no tags.
CacheUid ==
  /\ at = "cache_uid"
  /\ IF CachedByUid = {} THEN Suggested ELSE FromCache(CachedByUid, TRUE)
  /\ UNCHANGED <<tag, verified>> /\ Stay

\* Any request may fail, or be put off for want of memory.
Fail ==
  /\ at \in Steps
  /\ Answer("failed", NoSpool)
  /\ UNCHANGED <<tag, verified>> /\ Stay
-----------------------------------------------------------------------------
(* The backend task's other commands; none runs during a resolve() *)

Command == at = "idle" /\ commands < MaxCommands /\ commands' = commands + 1

\* probe(full): everything is forgotten and asked again; a lost /info keeps
\* the version that was proven, and the field list may fail on its own.
VersionKnown == {known, native, FALSE}
FieldsSeen == {verified, fields}

Probe ==
  /\ at = "idle"
  /\ known' \in VersionKnown
  /\ verified' \in FieldsSeen
  /\ UNCHANGED <<spoolman, content, cache, query, claim, edits, commands>>

IdentityOf(t) == [uuid |-> content[t], uid |-> t]

\* The identity as the tag was read; get_spool() answered.
Confirm(t, s) ==
  /\ Command
  /\ LET id == IdentityOf(t)
     IN IF Accepted(id, s) /\ Valid(Confirmed(id, s))
        THEN cache' = Confirmed(id, s) ELSE UNCHANGED cache
  /\ claim' = [claim EXCEPT ![t] = IF @ = NoSpool THEN AnySpool ELSE @]
  /\ UNCHANGED <<spoolman, content, known, verified, query, edits>>

\* associate(), verified: the tag holds u, and every register Spoolman has
\* names it for spool s alone.
Register(t, s, u) ==
  /\ uuid' = IF fields THEN [uuid EXCEPT ![s] = u] ELSE uuid
  /\ uid' = IF ~fields THEN uid
            ELSE [x \in Spool |-> IF x = s THEN t ELSE IF uid[x] = t THEN NoTag ELSE uid[x]]
  /\ held' = IF ~known THEN held
             ELSE [held EXCEPT ![t] = [f \in Form |-> IF f = "canonical" THEN {s} ELSE {}]]

Associate(t, s, u) ==
  /\ Command
  /\ fields \/ known
  /\ \A x \in Tag \ {t} : content[x] # u
  /\ {x \in Spool : uuid[x] = u} \subseteq {s}
  /\ Register(t, s, u)
  /\ content' = [content EXCEPT ![t] = u]
  /\ cache' = IF Foreign(t, u) \/ ~Valid(Synced(t, u, s)) THEN cache ELSE Synced(t, u, s)
  /\ claim' = [x \in Tag |-> IF x = t /\ known = native THEN s
                             ELSE IF x = t \/ claim[x] = s THEN AnySpool ELSE claim[x]]
  /\ UNCHANGED <<native, fields, known, verified, query, edits>>

\* commit_clear() and unlink(), verified: the tag is blank and no register
\* names it.  An owner whose identity is another one's is refused.
Owner(t) == {s \in Spool : uid[s] = t \/ (uuid[s] # NoUuid /\ uuid[s] = content[t])}

Clear(t) ==
  /\ Command
  /\ fields \/ known
  /\ Cardinality(Owner(t)) <= 1
  /\ \A s \in Owner(t) : uid[s] \in {t, NoTag} /\ uuid[s] \in {content[t], NoUuid}
  /\ ~Foreign(t, content[t])
  /\ uid' = [s \in Spool |-> IF s \in Owner(t) THEN NoTag ELSE uid[s]]
  /\ uuid' = [s \in Spool |-> IF s \in Owner(t) THEN NoUuid ELSE uuid[s]]
  /\ held' = IF known THEN [held EXCEPT ![t] = [f \in Form |-> {}]] ELSE held
  /\ content' = [content EXCEPT ![t] = NoUuid]
  /\ cache' = Forgotten(t)
  /\ claim' = [claim EXCEPT ![t] = IF known = native THEN NoSpool ELSE AnySpool]
  /\ UNCHANGED <<native, fields, known, verified, query, edits>>
-----------------------------------------------------------------------------
(* Other people edit Spoolman, at any moment *)

Edit ==
  /\ edits < MaxEdits /\ edits' = edits + 1
  /\ UNCHANGED <<native, content, cache, known, verified, query, commands>>

Relist(t, f, spools) ==
  /\ Edit /\ native
  /\ held' = [held EXCEPT ![t][f] = spools]
  /\ claim' = [claim EXCEPT ![t] = AnySpool]
  /\ UNCHANGED <<fields, uuid, uid>>

Retype(s, u, t) ==
  /\ Edit /\ fields
  /\ uuid' = [uuid EXCEPT ![s] = u]
  /\ uid' = [uid EXCEPT ![s] = t]
  /\ claim' = [x \in Tag |-> IF claim[x] = s \/ x = t \/ (u # NoUuid /\ content[x] = u)
                             THEN AnySpool ELSE claim[x]]
  /\ UNCHANGED <<fields, held>>

\* No spool's own link may be expected to be found any more.
Doubted == [t \in Tag |-> IF claim[t] \in Spool THEN AnySpool ELSE claim[t]]

DefineFields ==
  /\ Edit /\ ~fields
  /\ fields' = TRUE
  /\ claim' = Doubted
  /\ UNCHANGED <<held, uuid, uid>>

DeleteFields ==
  /\ Edit /\ fields
  /\ fields' = FALSE
  /\ uuid' = [s \in Spool |-> NoUuid] /\ uid' = [s \in Spool |-> NoTag]
  /\ claim' = Doubted
  /\ UNCHANGED held

Resolving == List \/ ListUuid \/ ByUuid \/ CacheUuid \/ ByUid \/ CacheUid \/ Fail

Next ==
  \/ \E t \in Tag : Place(t)
  \/ Resolving
  \/ Probe
  \/ \E t \in Tag, s \in Spool : Confirm(t, s)
  \/ \E t \in Tag, s \in Spool, u \in Uuid : Associate(t, s, u)
  \/ \E t \in Tag : Clear(t)
  \/ \E t \in Tag, f \in Form, spools \in SUBSET Spool : Relist(t, f, spools)
  \/ \E s \in Spool, u \in Uuid \cup {NoUuid}, t \in Tag \cup {NoTag} : Retype(s, u, t)
  \/ DefineFields
  \/ DeleteFields

Spec == Init /\ [][Next]_vars
-----------------------------------------------------------------------------
Answered == at # "idle" /\ at' = "idle"
Matched == Answered /\ answer'.is = "matched"

\* A tag that was linked and verified is found as that spool or not at all,
\* and a tag that was cleared and verified is found as no spool, whichever of
\* Spoolman's registers and of the local list is asked and whatever the
\* station has meanwhile forgotten of Spoolman's abilities
\* (spool_identity_resolver.cpp:252-394, configuration_service.cpp:1136-1175).
\* After a field was deleted a lookup may also end in doubt, or with the only
\* spool that the server has: see Holding.
Deleted == verified /\ ~fields
Faithful ==
  [][Answered => CASE claim[tag] \in Spool ->
                        \/ answer' = [is |-> "matched", spool |-> claim[tag]]
                        \/ answer'.is = "failed"
                        \/ answer'.is = "conflict" /\ Deleted
                   [] claim[tag] = NoSpool ->
                        answer'.is = "matched" => Deleted /\ Cardinality(Spool) = 1
                   [] OTHER -> TRUE]_vars

\* A tag is resolved to the spool that it was linked to
\* (spool_identity_resolver.cpp:252-394), in a query that holds together.
Resolves == []TypeOK /\ Faithful

\* The tag is never taken for a spool that Spoolman knows by another instance
\* UUID, nor, by the local list alone, for one that it has on another tag
\* (spool_identity_resolver.cpp:232-247, 261-271, 309-320).  In the second
\* lookup for a listed spool, that spool's UUID is one request old.
Agrees ==
  [][Matched /\ at # "list_uuid" =>
       /\ ~Contradicts(answer'.spool)
       /\ at = "cache_uid" => uid[answer'.spool] \in {NoTag, tag}]_vars
=============================================================================
