--------------------------- MODULE BackendProofs ---------------------------
(* Theorems of what the station knows from its backends and its scale, for   *)
(* every set of spools, tags, toolheads and load cells and every bound: the  *)
(* resolution of a tag to a spool (Identity), the assignment of toolheads    *)
(* (Assignment) and the scale (Scale), each by an invariant of its own.      *)
EXTENDS Identity, Assignment, Scale,
        FiniteSetTheorems, SequenceTheorems, WellFoundedInduction, TLAPS

-----------------------------------------------------------------------------
(* Identity: a tag is found as the spool it was verified to be linked to or  *)
(* not at all, and never as one that Spoolman contradicts.                   *)

USE DEF vars, spoolman, query

Claim == Spool \cup {NoSpool, AnySpool}
Reply == [is : {"matched", "conflict", "none", "failed"}, spool : Spool \cup {NoSpool}]

\* What Spoolman keeps, and what the probe may think of it.
ServerInv ==
  /\ known => native
  /\ ~fields => \A s \in Spool : uuid[s] = NoUuid /\ uid[s] = NoTag

\* A tag that is verified to be linked.
LinkedInv ==
  \A t \in Tag : claim[t] \in Spool =>
    /\ content[t] \in Uuid /\ (fields \/ native)
    /\ fields => \A s \in Spool : /\ uuid[s] = content[t] <=> s = claim[t]
                                  /\ uid[s] = t <=> s = claim[t]
    /\ native => held[t]["canonical"] = {claim[t]}

\* A tag that is verified to be blank and unlinked.
UnlinkedInv ==
  \A t \in Tag : claim[t] = NoSpool =>
    /\ content[t] = NoUuid
    /\ native => \A f \in Form : held[t][f] = {}
    /\ \A s \in Spool : uid[s] # t
    /\ \A i \in DOMAIN cache : cache[i].uid # t

\* How a query may have got where it is.
QueryInv ==
  /\ at # "idle" => tag \in Tag
  /\ at \in {"list", "list_uuid"} => known
  /\ at \in {"list_uuid", "uuid", "cache_uuid"} => content[tag] # NoUuid
  /\ at = "list_uuid" => hit \in Spool /\ (claim[tag] \in Spool => hit = claim[tag])
  /\ at = "uuid" /\ known => claim[tag] \notin Spool
  /\ at \in {"cache_uuid", "uid", "cache_uid"} => claim[tag] \notin Spool

IInv ==
  /\ TypeOK /\ Valid(cache) /\ Distinct(content)
  /\ ServerInv /\ LinkedInv /\ UnlinkedInv /\ QueryInv
-----------------------------------------------------------------------------
(* The list of confirmed links *)

LEMMA Entries ==
  ASSUME TypeOK
  PROVE  /\ Len(cache) \in Nat /\ DOMAIN cache = 1..Len(cache) /\ cache \in Seq(Mapping)
         /\ \A i \in 1..Len(cache) : cache[i] \in Mapping
         /\ Len(cache) <= MaxCache /\ MaxCache \in Nat /\ MaxCache > 0
<1>1. cache \in Seq(Mapping) /\ Len(cache) <= MaxCache
  BY DEF TypeOK
<1>2. Len(cache) \in Nat /\ DOMAIN cache = 1..Len(cache)
  BY <1>1
<1>3. \A i \in 1..Len(cache) : cache[i] \in Mapping
  BY <1>1
<1>4. MaxCache \in Nat /\ MaxCache > 0
  BY BoundAssumption
<1> QED BY <1>1, <1>2, <1>3, <1>4

\* Adding an entry keeps the bound, and leaves no entry that was not there.
LEMMA AddedEntries ==
  ASSUME TypeOK, NEW m \in Mapping
  PROVE  /\ Added(m) \in Seq(Mapping) /\ Len(Added(m)) <= MaxCache
         /\ \A i \in DOMAIN Added(m) :
              Added(m)[i] = m \/ \E j \in DOMAIN cache : Added(m)[i] = cache[j]
<1>1. Len(cache) \in Nat /\ DOMAIN cache = 1..Len(cache) /\ cache \in Seq(Mapping)
  BY Entries
<1>2. CASE Len(cache) >= MaxCache
  <2>1. Len(cache) = MaxCache /\ MaxCache > 0
    BY <1>2, Entries
  <2>6. cache # <<>>
    BY <1>1, <2>1, BoundAssumption
  <2>2. /\ Tail(cache) \in Seq(Mapping) /\ Len(Tail(cache)) = Len(cache) - 1
        /\ \A i \in 1..Len(cache) - 1 : Tail(cache)[i] = cache[i + 1]
    BY <1>1, <2>6
  <2>3. Added(m) = Append(Tail(cache), m)
    BY <1>2 DEF Added
  <2>4. /\ Added(m) \in Seq(Mapping) /\ Len(Added(m)) = Len(cache)
        /\ DOMAIN Added(m) = 1..Len(cache) /\ Added(m)[Len(cache)] = m
        /\ \A i \in 1..Len(cache) - 1 : Added(m)[i] = Tail(cache)[i]
    BY <1>1, <2>1, <2>2, <2>3
  <2>5. ASSUME NEW i \in 1..Len(cache)
        PROVE  Added(m)[i] = m \/ \E j \in 1..Len(cache) : Added(m)[i] = cache[j]
    <3>1. CASE i = Len(cache)
      BY <2>4, <3>1
    <3>2. CASE i \in 1..Len(cache) - 1
      <4>1. Added(m)[i] = cache[i + 1] /\ i + 1 \in 1..Len(cache)
        BY <1>1, <2>2, <2>4, <3>2
      <4> QED BY <4>1
    <3>3. i = Len(cache) \/ i \in 1..Len(cache) - 1
      <4>1. Len(cache) \in Nat /\ i \in Int
        BY <1>1
      <4> QED BY <4>1
    <3> QED BY <3>1, <3>2, <3>3
  <2> QED BY <1>1, <2>1, <2>4, <2>5, BoundAssumption
<1>3. CASE ~(Len(cache) >= MaxCache)
  <2>1. Added(m) = Append(cache, m)
    BY <1>3 DEF Added
  <2>2. /\ Added(m) \in Seq(Mapping) /\ Len(Added(m)) = Len(cache) + 1
        /\ DOMAIN Added(m) = 1..Len(cache) + 1 /\ Added(m)[Len(cache) + 1] = m
        /\ \A i \in 1..Len(cache) : Added(m)[i] = cache[i]
    BY <1>1, <2>1
  <2>3. ASSUME NEW i \in 1..Len(cache) + 1
        PROVE  Added(m)[i] = m \/ \E j \in 1..Len(cache) : Added(m)[i] = cache[j]
    BY <1>1, <2>2
  <2> QED BY <1>1, <1>3, <2>2, <2>3, BoundAssumption
<1> QED BY <1>2, <1>3

\* So does replacing one.
LEMMA ReplacedEntries ==
  ASSUME TypeOK, NEW m \in Mapping, NEW k \in DOMAIN cache
  PROVE  LET c == [cache EXCEPT ![k] = m]
         IN /\ c \in Seq(Mapping) /\ Len(c) <= MaxCache
            /\ \A i \in DOMAIN c : c[i] = m \/ \E j \in DOMAIN cache : c[i] = cache[j]
<1>1. Len(cache) \in Nat /\ DOMAIN cache = 1..Len(cache) /\ cache \in Seq(Mapping)
  BY Entries
<1> DEFINE c == [cache EXCEPT ![k] = m]
<1>2. c \in Seq(Mapping) /\ Len(c) = Len(cache) /\ DOMAIN c = DOMAIN cache
  BY <1>1
<1>3. \A i \in DOMAIN c : c[i] = m \/ c[i] = cache[i]
  BY <1>1
<1>4. Len(c) <= MaxCache
  BY <1>2 DEF TypeOK
<1> QED BY <1>2, <1>3, <1>4

\* The entry that is erased is the tag's only one, and the others stay.
LEMMA ForgottenEntries ==
  ASSUME TypeOK, Valid(cache), NEW t \in Tag
  PROVE  /\ Forgotten(t) \in Seq(Mapping) /\ Len(Forgotten(t)) <= MaxCache
         /\ Valid(Forgotten(t))
         /\ \A i \in DOMAIN Forgotten(t) :
              /\ Forgotten(t)[i].uid # t
              /\ \E j \in DOMAIN cache : Forgotten(t)[i] = cache[j]
<1>1. Len(cache) \in Nat /\ DOMAIN cache = 1..Len(cache) /\ cache \in Seq(Mapping)
  BY Entries
<1>2. CASE Own(t) = {}
  <2>1. Forgotten(t) = cache
    BY <1>2 DEF Forgotten
  <2> QED BY <1>1, <1>2, <2>1 DEF Own, TypeOK
<1>3. CASE Own(t) # {}
  <2> DEFINE k == CHOOSE i \in Own(t) : TRUE
             c == RemoveAt(cache, k)
             n == Len(cache)
             From(i) == IF i < k THEN i ELSE i + 1
  <2>1. k \in 1..n /\ cache[k].uid = t /\ n \in Nat
    BY <1>1, <1>3 DEF Own
  <2>2. Forgotten(t) = c
    BY <1>3 DEF Forgotten
  <2> HIDE DEF k
  <2>3. /\ SubSeq(cache, 1, k - 1) \in Seq(Mapping) /\ Len(SubSeq(cache, 1, k - 1)) = k - 1
        /\ \A i \in 1..k - 1 : SubSeq(cache, 1, k - 1)[i] = cache[i]
    BY <1>1, <2>1
  <2> DEFINE before == SubSeq(cache, 1, k - 1)
             after == SubSeq(cache, k + 1, n)
  <2>12. /\ after \in Seq(Mapping) /\ Len(after) = n - k
         /\ \A i \in 1..n - k : after[i] = cache[k + 1 + i - 1]
    <3>1. \A i \in k + 1..n : cache[i] \in Mapping
      BY <1>1, <2>1
    <3>2. k + 1 \in Int /\ n \in Int /\ n - (k + 1) + 1 = n - k /\ n - k \in Nat
          /\ (k + 1 > n => n - k = 0)
      BY <2>1
    <3> HIDE DEF n
    <3>3. /\ after \in Seq(Mapping) /\ Len(after) = IF k + 1 <= n THEN n - (k + 1) + 1 ELSE 0
          /\ \A i \in 1..n - (k + 1) + 1 : after[i] = cache[k + 1 + i - 1]
      BY <3>1, <3>2, SubSeqProperties
    <3> QED BY <3>2, <3>3
  <2>4. /\ after \in Seq(Mapping) /\ Len(after) = n - k
        /\ \A i \in 1..n - k : after[i] = cache[k + i]
    <3>1. \A i \in 1..n - k : k + 1 + i - 1 = k + i
      BY <2>1
    <3> QED BY <2>12, <3>1
  <2>13. c = before \o after
    BY <2>1 DEF RemoveAt
  <2> HIDE DEF before, after
  <2>5. /\ c \in Seq(Mapping) /\ Len(c) = n - 1 /\ DOMAIN c = 1..n - 1
        /\ \A i \in 1..n - 1 : c[i] = IF i <= k - 1 THEN before[i] ELSE after[i - (k - 1)]
    <3>1. before \in Seq(Mapping) /\ Len(before) = k - 1
      BY <2>3 DEF before
    <3>2. Len(before) + Len(after) = n - 1
      BY <2>1, <2>4, <3>1
    <3> HIDE DEF c
    <3> QED BY <2>13, <2>4, <3>1, <3>2, ConcatProperties
  <2> HIDE DEF c
  <2>6. ASSUME NEW i \in 1..n - 1
        PROVE  c[i] = cache[From(i)] /\ From(i) \in 1..n /\ From(i) # k
    <3>1. CASE i < k
      BY <2>1, <2>3, <2>5, <3>1 DEF before
    <3>2. CASE ~(i < k)
      <4>1. i - (k - 1) \in 1..n - k /\ k + (i - (k - 1)) = i + 1
        BY <2>1, <3>2
      <4> QED BY <2>1, <2>4, <2>5, <3>2, <4>1
    <3> QED BY <3>1, <3>2
  <2>7. \A i, j \in 1..n - 1 : i # j => From(i) # From(j)
    BY <2>1
  <2> HIDE DEF From
  <2>8. \A i, j \in DOMAIN c : i # j => From(i) \in DOMAIN cache /\ From(j) \in DOMAIN cache
    BY <1>1, <2>5, <2>6
  <2>9. Valid(c)
    <3>1. SUFFICES ASSUME NEW i \in DOMAIN c, NEW j \in DOMAIN c, i # j
                   PROVE  c[i].uid # c[j].uid /\ (c[i].uuid # NoUuid => c[i].uuid # c[j].uuid)
      BY DEF Valid
    <3>2. c[i] = cache[From(i)] /\ c[j] = cache[From(j)]
      BY <2>5, <2>6
    <3>3. From(i) \in DOMAIN cache /\ From(j) \in DOMAIN cache
      BY <3>1, <2>8
    <3>4. From(i) # From(j)
      BY <3>1, <2>5, <2>7
    <3> QED BY <3>2, <3>3, <3>4 DEF Valid
  <2>10. \A i \in 1..n - 1 : c[i].uid # t
    BY <1>1, <2>1, <2>6 DEF Valid
  <2>11. n - 1 <= MaxCache
    BY <2>1, BoundAssumption DEF TypeOK
  <2> QED BY <1>1, <2>2, <2>5, <2>6, <2>9, <2>10, <2>11
<1> QED BY <1>2, <1>3
-----------------------------------------------------------------------------
(* A query *)

LEMMA Counted ==
  ASSUME NEW S \in SUBSET Spool
  PROVE  /\ Cardinality(S) \in Nat
         /\ Cardinality(S) = 0 <=> S = {}
         /\ Cardinality(S) = 1 <=> \E s \in Spool : S = {s}
<1>1. IsFiniteSet(S)
  BY SpoolAssumption, FS_Subset
<1>2. Cardinality(S) = 1 => \E s \in Spool : S = {s}
  BY <1>1, FS_Singleton
<1>3. (\E s \in Spool : S = {s}) => Cardinality(S) = 1
  BY FS_Singleton
<1> QED BY <1>1, <1>2, <1>3, FS_EmptySet, FS_CardinalityType

Quiet == UNCHANGED tag /\ Stay
Replied == at' = "idle" /\ hit' = NoSpool /\ answer' \in Reply

LEMMA AnswerReplies ==
  ASSUME NEW is \in {"matched", "conflict", "none", "failed"}, NEW s \in Spool \cup {NoSpool},
         Answer(is, s)
  PROVE  Replied /\ answer' = [is |-> is, spool |-> s]
BY DEF Answer, Replied, Reply

\* A choice among the spools found is the only one of them, or a conflict.
LEMMA PickReplies ==
  ASSUME NEW S \in SUBSET Spool, S # {}, Pick(S)
  PROVE  /\ Replied
         /\ \/ answer'.is = "conflict" /\ \A s \in Spool : S # {s}
            \/ \E s \in Spool : S = {s} /\ answer' = [is |-> "matched", spool |-> s]
<1>1. CASE Cardinality(S) > 1
  <2>1. Answer("conflict", NoSpool)
    BY <1>1 DEF Pick
  <2>2. \A s \in Spool : S # {s}
    BY <1>1, Counted
  <2> QED BY <2>1, <2>2, AnswerReplies
<1>2. CASE ~(Cardinality(S) > 1)
  <2>1. PICK s \in S : Answer("matched", s)
    BY <1>2 DEF Pick
  <2>2. \E x \in Spool : S = {x}
    BY <1>2, Counted
  <2> QED BY <2>1, <2>2, AnswerReplies
<1> QED BY <1>1, <1>2

LEMMA ListedSpools == TypeOK /\ tag \in Tag => Listed \in SUBSET Spool
BY DEF TypeOK, Listed, Form

LEMMA FoundSpools ==
  TypeOK => /\ \A v : Holding(uuid, v) \in SUBSET Spool /\ Holding(uid, v) \in SUBSET Spool
            /\ CachedByUuid \in SUBSET Spool /\ CachedByUid \in SUBSET Spool
<1> SUFFICES ASSUME TypeOK
             PROVE  /\ \A v : Holding(uuid, v) \in SUBSET Spool /\ Holding(uid, v) \in SUBSET Spool
                    /\ CachedByUuid \in SUBSET Spool /\ CachedByUid \in SUBSET Spool
  OBVIOUS
<1>1. \A m \in ToSet(cache) : m.spool \in Spool
  BY Entries DEF ToSet, Mapping
<1> QED BY <1>1 DEF Holding, CachedByUuid, CachedByUid

\* What a verified link or unlink means to a query of that tag.
LEMMA Meaning ==
  ASSUME IInv, at # "idle"
  PROVE  /\ tag \in Tag /\ claim[tag] \in Claim
         /\ claim[tag] \in Spool =>
              /\ content[tag] # NoUuid
              /\ ~Contradicts(claim[tag])
              /\ known => Listed = {claim[tag]}
              /\ fields => Holding(uuid, content[tag]) = {claim[tag]}
         /\ claim[tag] = NoSpool =>
              /\ content[tag] = NoUuid
              /\ known => Listed = {}
              /\ fields => Holding(uid, tag) = {}
              /\ CachedByUid = {}
<1>1. tag \in Tag /\ claim[tag] \in Claim
  BY DEF IInv, QueryInv, TypeOK, Claim
<1>2. ASSUME claim[tag] \in Spool
      PROVE  /\ content[tag] # NoUuid /\ ~Contradicts(claim[tag])
             /\ known => Listed = {claim[tag]}
             /\ fields => Holding(uuid, content[tag]) = {claim[tag]}
  <2>1. /\ content[tag] \in Uuid
        /\ fields => \A s \in Spool : uuid[s] = content[tag] <=> s = claim[tag]
        /\ native => held[tag]["canonical"] = {claim[tag]}
        /\ known => native
        /\ ~fields => \A s \in Spool : uuid[s] = NoUuid
    BY <1>1, <1>2 DEF IInv, LinkedInv, ServerInv
  <2>2. content[tag] # NoUuid
    BY <2>1, AbsentAssumption
  <2>3. ~Contradicts(claim[tag])
    BY <1>2, <2>1 DEF Contradicts
  <2> QED BY <1>2, <2>1, <2>2, <2>3 DEF Listed, Holding
<1>3. ASSUME claim[tag] = NoSpool
      PROVE  /\ content[tag] = NoUuid
             /\ known => Listed = {}
             /\ fields => Holding(uid, tag) = {}
             /\ CachedByUid = {}
  <2>1. /\ content[tag] = NoUuid
        /\ native => \A f \in Form : held[tag][f] = {}
        /\ \A s \in Spool : uid[s] # tag
        /\ \A i \in DOMAIN cache : cache[i].uid # tag
        /\ known => native
    BY <1>1, <1>3 DEF IInv, UnlinkedInv, ServerInv
  <2>2. CachedByUid = {}
    BY <2>1 DEF CachedByUid, ToSet
  <2> QED BY <2>1, <2>2 DEF Listed, Holding, Form
<1> QED BY <1>1, <1>2, <1>3

\* What is right of an answer, and of a query that goes on.
Faithfully ==
  /\ claim[tag] \in Spool =>
       \/ answer' = [is |-> "matched", spool |-> claim[tag]]
       \/ answer'.is = "failed"
       \/ answer'.is = "conflict" /\ Deleted
  /\ claim[tag] = NoSpool => (answer'.is = "matched" => Deleted /\ Cardinality(Spool) = 1)
Agreeing ==
  answer'.is = "matched" /\ at # "list_uuid" =>
    /\ ~Contradicts(answer'.spool)
    /\ at = "cache_uid" => uid[answer'.spool] \in {NoTag, tag}

AnsweredRight == Replied /\ Faithfully /\ Agreeing
Reached(step) == at' = step /\ UNCHANGED <<hit, answer>>
AskedRight ==
  \/ Reached("uid") /\ claim[tag] \notin Spool
  \/ Reached("uuid") /\ content[tag] # NoUuid /\ (known => claim[tag] \notin Spool)
  \/ Reached("cache_uuid") /\ content[tag] # NoUuid /\ claim[tag] \notin Spool
  \/ Reached("cache_uid") /\ claim[tag] \notin Spool
  \/ /\ at' = "list_uuid" /\ known /\ content[tag] # NoUuid /\ UNCHANGED answer
     /\ hit' \in Spool /\ (claim[tag] \in Spool => hit' = claim[tag])
Right == Quiet /\ verified' \in BOOLEAN /\ (AnsweredRight \/ AskedRight)

LEMMA ListStep == IInv /\ List => Right
<1> SUFFICES ASSUME IInv, List PROVE Right
  OBVIOUS
<1>1. at = "list" /\ at # "idle" /\ known /\ Quiet /\ verified' \in BOOLEAN
  BY DEF List, IInv, QueryInv, Quiet, TypeOK
<1>2. Listed \in SUBSET Spool /\ tag \in Tag
  BY <1>1, ListedSpools, Meaning DEF IInv
<1>3. CASE Listed = {}
  <2>3. ~(Cardinality(Listed) > 1)
    BY <1>2, <1>3, Counted
  <2>1. Ask(AfterList)
    BY <1>3, <2>3 DEF List
  <2>2. claim[tag] \notin Spool
    BY <1>1, <1>3, Meaning
  <2> QED BY <1>1, <2>1, <2>2 DEF Ask, AfterList, Right, AskedRight, Reached
<1>4. CASE Cardinality(Listed) > 1
  <2>1. Listed # {} /\ \A s \in Spool : Listed # {s}
    BY <1>2, <1>4, Counted
  <2>2. Answer("conflict", NoSpool)
    BY <1>4, <2>1 DEF List
  <2>3. claim[tag] \notin Spool
    BY <1>1, <2>1, Meaning
  <2>4. Replied /\ answer'.is = "conflict"
    BY <2>2, AnswerReplies
  <2> QED BY <1>1, <2>3, <2>4 DEF Right, AnsweredRight, Faithfully, Agreeing
<1>5. CASE Listed # {} /\ ~(Cardinality(Listed) > 1)
  <2>1. PICK s \in Listed :
          IF Contradicts(s) THEN Answer("conflict", NoSpool)
          ELSE IF content[tag] # NoUuid /\ uuid[s] = NoUuid
               THEN at' = "list_uuid" /\ hit' = s /\ UNCHANGED answer
          ELSE Answer("matched", s)
    BY <1>5 DEF List
  <2>2. s \in Spool /\ (claim[tag] \in Spool => claim[tag] = s)
    BY <1>1, <1>2, Meaning
  <2>3. claim[tag] # NoSpool
    BY <1>1, <1>5, Meaning
  <2>4. CASE Contradicts(s)
    <3>1. claim[tag] \notin Spool
      BY <1>1, <2>2, <2>4, Meaning
    <3>2. Replied /\ answer'.is = "conflict"
      BY <2>1, <2>4, AnswerReplies
    <3> QED BY <1>1, <2>3, <3>1, <3>2 DEF Right, AnsweredRight, Faithfully, Agreeing
  <2>5. CASE ~Contradicts(s) /\ content[tag] # NoUuid /\ uuid[s] = NoUuid
    BY <1>1, <2>1, <2>2, <2>5 DEF Right, AskedRight
  <2>6. CASE ~Contradicts(s) /\ ~(content[tag] # NoUuid /\ uuid[s] = NoUuid)
    <3>1. Replied /\ answer' = [is |-> "matched", spool |-> s]
      BY <2>1, <2>2, <2>6, AnswerReplies
    <3> QED BY <1>1, <2>2, <2>3, <2>6, <3>1 DEF Right, AnsweredRight, Faithfully, Agreeing
  <2> QED BY <2>4, <2>5, <2>6
<1> QED BY <1>3, <1>4, <1>5

\* A lookup by a field.
LEMMA ExactReplies ==
  ASSUME TypeOK, NEW S, NEW Found, NEW Missing, Exact(S, Found, Missing)
  PROVE  /\ Quiet /\ verified' \in BOOLEAN
         /\ \/ Refused /\ ~known /\ Replied /\ answer'.is = "failed"
            \/ Refused /\ known /\ Missing
            \/ ~Refused /\ S = {} /\ Missing
            \/ ~Refused /\ S # {} /\ Found
<1>1. Answer("failed", NoSpool) => Replied /\ answer'.is = "failed"
  BY AnswerReplies
<1> QED BY <1>1 DEF Exact, Quiet, TypeOK

\* Without the fields, and not knowing it, every spool is found.
LEMMA FoundAll ==
  ASSUME ~fields, ~Refused
  PROVE  Deleted /\ \A field, v : Holding(field, v) = Spool
BY DEF Refused, Deleted, Holding

LEMMA ListUuidStep == IInv /\ ListUuid => Right
<1> SUFFICES ASSUME IInv, ListUuid PROVE Right
  OBVIOUS
<1> DEFINE S == Holding(uuid, content[tag])
           Doubt == IF Cardinality(S) = 1 /\ S # {hit}
                    THEN Answer("conflict", NoSpool) ELSE Answer("matched", hit)
<1>1. at = "list_uuid" /\ at # "idle" /\ known /\ content[tag] # NoUuid
  BY DEF ListUuid, IInv, QueryInv
<1>2. hit \in Spool /\ (claim[tag] \in Spool => hit = claim[tag]) /\ claim[tag] # NoSpool
  BY <1>1, Meaning DEF IInv, QueryInv
<1>3. Exact(S, Doubt, Answer("matched", hit)) /\ TypeOK
  BY DEF ListUuid, IInv
<1>4. Answer("matched", hit) => AnsweredRight
  BY <1>1, <1>2, AnswerReplies DEF AnsweredRight, Faithfully, Agreeing
<1>5. ASSUME ~Refused, Doubt PROVE AnsweredRight
  <2>1. CASE Cardinality(S) = 1 /\ S # {hit}
    <3>1. Replied /\ answer'.is = "conflict"
      BY <1>5, <2>1, AnswerReplies
    <3>2. claim[tag] \in Spool => ~fields
      BY <1>1, <1>2, <2>1, Meaning
    <3>3. claim[tag] \in Spool => Deleted
      BY <1>5, <3>2 DEF Refused, Deleted
    <3> QED BY <1>1, <1>2, <3>1, <3>3 DEF AnsweredRight, Faithfully, Agreeing
  <2> QED BY <1>4, <1>5, <2>1
<1> HIDE DEF S, Doubt
<1>6. /\ Quiet /\ verified' \in BOOLEAN
      /\ \/ Answer("matched", hit)
         \/ ~Refused /\ Doubt
  BY <1>1, <1>3, ExactReplies
<1> QED BY <1>4, <1>5, <1>6 DEF Right

LEMMA ByUuidStep == IInv /\ ByUuid => Right
<1> SUFFICES ASSUME IInv, ByUuid PROVE Right
  OBVIOUS
<1> DEFINE S == Holding(uuid, content[tag])
<1>1. /\ at = "uuid" /\ at # "idle" /\ content[tag] # NoUuid /\ tag \in Tag
      /\ known => claim[tag] \notin Spool
  BY DEF ByUuid, IInv, QueryInv
<1>2. S \in SUBSET Spool /\ claim[tag] # NoSpool /\ TypeOK
  BY <1>1, FoundSpools, Meaning DEF IInv
<1>3. Exact(S, Pick(S), Ask("cache_uuid"))
  BY DEF ByUuid
<1>4. fields => (claim[tag] \in Spool => S = {claim[tag]})
  BY <1>1, Meaning
<1>5. ASSUME Replied, answer'.is = "failed" PROVE AnsweredRight
  BY <1>2, <1>5 DEF AnsweredRight, Faithfully, Agreeing
<1>6. ASSUME Ask("cache_uuid"), claim[tag] \notin Spool PROVE AskedRight
  BY <1>1, <1>6 DEF AskedRight, Ask, Reached
<1>7. ASSUME ~Refused, S = {} PROVE claim[tag] \notin Spool
  BY <1>4, <1>7, FoundAll
<1>8. ASSUME ~Refused, S # {}, Pick(S) PROVE AnsweredRight
  <2>1. /\ Replied
        /\ \/ answer'.is = "conflict" /\ \A s \in Spool : S # {s}
           \/ \E s \in Spool : S = {s} /\ answer' = [is |-> "matched", spool |-> s]
    BY <1>2, <1>8, PickReplies
  <2>2. CASE answer'.is = "conflict" /\ \A s \in Spool : S # {s}
    <3>1. claim[tag] \in Spool => Deleted
      BY <1>4, <1>8, <2>2, FoundAll
    <3> QED BY <1>2, <2>1, <2>2, <3>1 DEF AnsweredRight, Faithfully, Agreeing
  <2>3. CASE \E s \in Spool : S = {s} /\ answer' = [is |-> "matched", spool |-> s]
    <3>1. PICK s \in Spool : S = {s} /\ answer' = [is |-> "matched", spool |-> s]
      BY <2>3
    <3>2. claim[tag] \in Spool => claim[tag] = s
      BY <1>4, <1>8, <3>1, FoundAll
    <3>3. ~Contradicts(s)
      <4>1. CASE fields
        BY <3>1, <4>1 DEF Holding, Contradicts
      <4>2. CASE ~fields
        BY <4>2 DEF Contradicts, IInv, ServerInv
      <4> QED BY <4>1, <4>2
    <3> QED BY <1>1, <1>2, <2>1, <3>1, <3>2, <3>3 DEF AnsweredRight, Faithfully, Agreeing
  <2> QED BY <2>1, <2>2, <2>3
<1> HIDE DEF S
<1>9. /\ Quiet /\ verified' \in BOOLEAN
      /\ \/ Replied /\ answer'.is = "failed"
         \/ Refused /\ known /\ Ask("cache_uuid")
         \/ ~Refused /\ S = {} /\ Ask("cache_uuid")
         \/ ~Refused /\ S # {} /\ Pick(S)
  BY <1>2, <1>3, ExactReplies
<1> QED BY <1>1, <1>5, <1>6, <1>7, <1>8, <1>9 DEF Right

LEMMA ByUidStep == IInv /\ ByUid => Right
<1> SUFFICES ASSUME IInv, ByUid PROVE Right
  OBVIOUS
<1> DEFINE S == Holding(uid, tag)
           Owned == IF Cardinality(S) = 1 /\ \E s \in S : Contradicts(s)
                    THEN Answer("conflict", NoSpool) ELSE Pick(S)
           Missing == IF known THEN Suggested ELSE Ask("cache_uid")
<1>1. at = "uid" /\ at # "idle" /\ claim[tag] \notin Spool
  BY DEF ByUid, IInv, QueryInv
<1>2. S \in SUBSET Spool /\ TypeOK
  BY FoundSpools DEF IInv
<1>3. Exact(S, Owned, Missing)
  BY DEF ByUid
<1>4. fields /\ claim[tag] = NoSpool => S = {}
  BY <1>1, Meaning
<1>5. ASSUME Replied, answer'.is # "matched" PROVE AnsweredRight
  BY <1>1, <1>5 DEF AnsweredRight, Faithfully, Agreeing
<1>6. ASSUME Missing PROVE AnsweredRight \/ AskedRight
  <2>1. CASE known
    BY <1>5, <1>6, <2>1, AnswerReplies DEF Suggested
  <2>2. CASE ~known
    BY <1>1, <1>6, <2>2 DEF Ask, AskedRight, Reached
  <2> QED BY <2>1, <2>2
<1>7. ASSUME ~Refused, S # {}, Owned PROVE AnsweredRight
  <2>1. CASE Cardinality(S) = 1 /\ \E s \in S : Contradicts(s)
    BY <1>5, <1>7, <2>1, AnswerReplies
  <2>2. CASE ~(Cardinality(S) = 1 /\ \E s \in S : Contradicts(s))
    <3>1. /\ Replied
          /\ \/ answer'.is = "conflict"
             \/ \E s \in Spool : S = {s} /\ answer' = [is |-> "matched", spool |-> s]
      BY <1>2, <1>7, <2>2, PickReplies
    <3>2. CASE answer'.is = "conflict"
      BY <1>5, <3>1, <3>2
    <3>3. CASE \E s \in Spool : S = {s} /\ answer' = [is |-> "matched", spool |-> s]
      <4>1. PICK s \in Spool : S = {s} /\ answer' = [is |-> "matched", spool |-> s]
        BY <3>3
      <4>2. Cardinality(S) = 1 /\ ~Contradicts(s)
        BY <1>2, <2>2, <4>1, Counted
      <4>3. claim[tag] = NoSpool => Deleted /\ Cardinality(Spool) = 1
        BY <1>4, <1>7, <4>2, FoundAll
      <4> QED BY <1>1, <3>1, <4>1, <4>2, <4>3 DEF AnsweredRight, Faithfully, Agreeing
    <3> QED BY <3>1, <3>2, <3>3
  <2> QED BY <2>1, <2>2
<1> HIDE DEF S, Owned, Missing
<1>8. /\ Quiet /\ verified' \in BOOLEAN
      /\ \/ Replied /\ answer'.is = "failed"
         \/ Missing
         \/ ~Refused /\ S # {} /\ Owned
  BY <1>2, <1>3, ExactReplies
<1> QED BY <1>5, <1>6, <1>7, <1>8 DEF Right

\* What the local list says is compared with what Spoolman holds.
LEMMA FromCacheReplies ==
  ASSUME NEW S \in SUBSET Spool, S # {}, NEW byUid \in BOOLEAN, FromCache(S, byUid)
  PROVE  /\ Replied
         /\ \/ answer'.is = "conflict"
            \/ /\ answer'.is = "matched" /\ ~Contradicts(answer'.spool)
               /\ byUid => uid[answer'.spool] \in {NoTag, tag}
<1>1. CASE \E s \in S : Contradicts(s) \/ (byUid /\ uid[s] \notin {NoTag, tag})
  BY <1>1, AnswerReplies DEF FromCache
<1>2. CASE ~\E s \in S : Contradicts(s) \/ (byUid /\ uid[s] \notin {NoTag, tag})
  <2>1. Pick(S)
    BY <1>2 DEF FromCache
  <2> QED BY <1>2, <2>1, PickReplies
<1> QED BY <1>1, <1>2

LEMMA CacheUuidStep == IInv /\ CacheUuid => Right
<1> SUFFICES ASSUME IInv, CacheUuid PROVE Right
  OBVIOUS
<1>1. /\ at = "cache_uuid" /\ at # "idle" /\ claim[tag] \notin Spool
      /\ content[tag] # NoUuid
  BY DEF CacheUuid, IInv, QueryInv
<1>2. CachedByUuid \in SUBSET Spool /\ claim[tag] # NoSpool
  BY <1>1, FoundSpools, Meaning DEF IInv
<1>3. Quiet /\ verified' \in BOOLEAN
  BY DEF CacheUuid, Quiet, IInv, TypeOK
<1>4. CASE CachedByUuid = {}
  BY <1>1, <1>3, <1>4 DEF CacheUuid, Right, AskedRight, Ask, Reached
<1>5. CASE CachedByUuid # {}
  <2>1. FromCache(CachedByUuid, FALSE)
    BY <1>5 DEF CacheUuid
  <2> QED BY <1>1, <1>2, <1>3, <1>5, <2>1, FromCacheReplies
          DEF Right, AnsweredRight, Faithfully, Agreeing
<1> QED BY <1>4, <1>5

LEMMA CacheUidStep == IInv /\ CacheUid => Right
<1> SUFFICES ASSUME IInv, CacheUid PROVE Right
  OBVIOUS
<1>1. at = "cache_uid" /\ at # "idle" /\ claim[tag] \notin Spool
  BY DEF CacheUid, IInv, QueryInv
<1>2. CachedByUid \in SUBSET Spool /\ (claim[tag] = NoSpool => CachedByUid = {})
  BY <1>1, FoundSpools, Meaning DEF IInv
<1>3. Quiet /\ verified' \in BOOLEAN
  BY DEF CacheUid, Quiet, IInv, TypeOK
<1>4. CASE CachedByUid = {}
  <2>1. Replied /\ answer'.is = "none"
    BY <1>4, AnswerReplies DEF CacheUid, Suggested
  <2> QED BY <1>1, <1>3, <2>1 DEF Right, AnsweredRight, Faithfully, Agreeing
<1>5. CASE CachedByUid # {}
  <2>1. FromCache(CachedByUid, TRUE)
    BY <1>5 DEF CacheUid
  <2> QED BY <1>1, <1>2, <1>3, <1>5, <2>1, FromCacheReplies
          DEF Right, AnsweredRight, Faithfully, Agreeing
<1> QED BY <1>4, <1>5

LEMMA FailStep == IInv /\ Fail => Right
<1> SUFFICES ASSUME IInv, Fail PROVE Right
  OBVIOUS
<1>1. Replied /\ answer'.is = "failed" /\ claim[tag] \in Claim
  BY AnswerReplies, Meaning DEF Fail, Steps
<1>2. Quiet /\ verified' \in BOOLEAN
  BY DEF Fail, Quiet, IInv, TypeOK
<1> QED BY <1>1, <1>2, SpoolAssumption DEF Right, AnsweredRight, Faithfully, Agreeing

LEMMA Resolved == IInv /\ Resolving => Right /\ at # "idle"
<1>1. Resolving => at # "idle"
  BY DEF Resolving, List, ListUuid, ByUuid, CacheUuid, ByUid, CacheUid, Fail, Steps
<1> QED
  BY <1>1, ListStep, ListUuidStep, ByUuidStep, ByUidStep, CacheUuidStep, CacheUidStep, FailStep
  DEF Resolving
-----------------------------------------------------------------------------
(* The invariant *)

\* What a query leaves alone.
LEMMA ResolverQuiet ==
  ASSUME IInv, Stay
  PROVE  /\ Valid(cache)' /\ Distinct(content)' /\ ServerInv' /\ LinkedInv' /\ UnlinkedInv'
<1>1. Valid(cache)' /\ Distinct(content)'
  BY DEF IInv, Stay, Valid, Distinct
<1>2. ServerInv' /\ LinkedInv' /\ UnlinkedInv'
  BY DEF IInv, Stay, ServerInv, LinkedInv, UnlinkedInv
<1> QED BY <1>1, <1>2

LEMMA ResolvingStep == IInv /\ Resolving => IInv'
<1> SUFFICES ASSUME IInv, Resolving PROVE IInv'
  OBVIOUS
<1>1. Right /\ at # "idle" /\ tag \in Tag /\ TypeOK
  BY Resolved DEF IInv, QueryInv
<1>2. Stay /\ tag' = tag
  BY <1>1 DEF Right, Quiet
<1>3. /\ at' \in {"idle"} \cup Steps /\ hit' \in Spool \cup {NoSpool} /\ answer' \in Reply
      /\ verified' \in BOOLEAN
  BY <1>1 DEF Right, AnsweredRight, AskedRight, Replied, Reached, TypeOK, Steps, Reply
<1>4. TypeOK'
  BY <1>1, <1>2, <1>3 DEF TypeOK, Stay, Reply
<1>5. QueryInv'
  <2>1. known' = known /\ content' = content /\ claim' = claim
    BY <1>2 DEF Stay
  <2> QED BY <1>1, <1>2, <2>1 DEF Right, AnsweredRight, AskedRight, Replied, Reached, QueryInv
<1> QED BY <1>2, <1>4, <1>5, ResolverQuiet DEF IInv

LEMMA PlaceStep == ASSUME IInv, NEW t \in Tag, Place(t) PROVE IInv'
<1>1. /\ at = "idle" /\ tag' = t /\ known' \in {known, native}
      /\ at' = IF known' THEN "list" ELSE IF content[t] = NoUuid THEN "uid" ELSE "uuid"
      /\ UNCHANGED <<spoolman, content, cache, verified, hit, answer, claim, edits, commands>>
  BY DEF Place
<1>2. TypeOK'
  BY <1>1 DEF IInv, TypeOK, Steps
<1>3. Valid(cache)' /\ Distinct(content)'
  BY <1>1 DEF IInv, Valid, Distinct
<1>4. ServerInv' /\ LinkedInv' /\ UnlinkedInv'
  BY <1>1 DEF IInv, ServerInv, LinkedInv, UnlinkedInv, TypeOK
<1>5. content[t] = NoUuid => claim[t] \notin Spool
  BY AbsentAssumption DEF IInv, LinkedInv
<1>6. QueryInv'
  BY <1>1, <1>5 DEF QueryInv, IInv, TypeOK
<1> QED BY <1>2, <1>3, <1>4, <1>6 DEF IInv

LEMMA ProbeStep == IInv /\ Probe => IInv'
<1> SUFFICES ASSUME IInv, Probe PROVE IInv'
  OBVIOUS
<1>1. /\ at = "idle" /\ known' \in {known, native, FALSE} /\ verified' \in {verified, fields}
      /\ UNCHANGED <<spoolman, content, cache, query, claim, edits, commands>>
  BY DEF Probe, VersionKnown, FieldsSeen
<1>2. TypeOK'
  BY <1>1 DEF IInv, TypeOK
<1>3. Valid(cache)' /\ Distinct(content)'
  BY <1>1 DEF IInv, Valid, Distinct
<1>4. ServerInv'
  <2>1. (known => native) /\ (~fields => \A s \in Spool : uuid[s] = NoUuid /\ uid[s] = NoTag)
    BY DEF IInv, ServerInv
  <2>2. known' = known \/ known' = native \/ known' = FALSE
    BY <1>1
  <2>3. known' => native
    BY <2>1, <2>2, Zenon
  <2> QED BY <1>1, <2>1, <2>3 DEF ServerInv
<1>5. LinkedInv' /\ UnlinkedInv'
  BY <1>1 DEF IInv, LinkedInv, UnlinkedInv
<1>6. QueryInv'
  BY <1>1 DEF QueryInv
<1> QED BY <1>2, <1>3, <1>4, <1>5, <1>6 DEF IInv

\* Of several entries for a spool one is the first.
LEMMA FirstOf ==
  ASSUME NEW S \in SUBSET Nat, S # {}
  PROVE  \E i \in S : \A j \in S : i <= j
<1>1. PICK i \in S : \A j \in S : ~(<<j, i>> \in OpToRel(<, Nat))
  BY NatLessThanWellFounded, WFMin, Zenon
<1>2. ASSUME NEW j \in S PROVE ~(j < i)
  BY <1>1, Zenon DEF OpToRel
<1> QED BY <1>2

\* A list that has been changed for tag t.
ListFor(c, t) ==
  /\ c \in Seq(Mapping) /\ Len(c) <= MaxCache
  /\ \A i \in DOMAIN c : c[i].uid = t \/ \E j \in DOMAIN cache : c[i] = cache[j]

LEMMA SameList == ASSUME TypeOK, NEW t \in Tag PROVE ListFor(cache, t)
BY DEF ListFor, TypeOK

LEMMA ConfirmedList ==
  ASSUME TypeOK, NEW t \in Tag, NEW s \in Spool
  PROVE  ListFor(Confirmed(IdentityOf(t), s), t)
<1> DEFINE id == IdentityOf(t)
<1>1. id.uuid \in Uuid \cup {NoUuid} /\ id.uid = t
  BY DEF IdentityOf, TypeOK
<1> HIDE DEF id
<1>2. CASE Entry(s) = {}
  <2> DEFINE m == [spool |-> s, uuid |-> id.uuid, uid |-> id.uid]
  <2>1. m \in Mapping /\ m.uid = t
    BY <1>1 DEF Mapping
  <2>2. Confirmed(id, s) = Added(m)
    BY <1>2 DEF Confirmed
  <2> HIDE DEF m
  <2> QED BY <2>1, <2>2, AddedEntries DEF ListFor, id
<1>3. CASE Entry(s) # {}
  <2> DEFINE k == CHOOSE i \in Entry(s) : \A j \in Entry(s) : i <= j
             m == [spool |-> s, uid |-> id.uid,
                   uuid |-> IF id.uuid = NoUuid THEN cache[k].uuid ELSE id.uuid]
  <2>1. Entry(s) \in SUBSET Nat
    BY Entries DEF Entry
  <2>2. k \in Entry(s)
    BY <1>3, <2>1, FirstOf
  <2>3. k \in DOMAIN cache /\ cache[k] \in Mapping
    BY <2>2, Entries DEF Entry
  <2>4. Confirmed(id, s) = [cache EXCEPT ![k] = m]
    BY <1>3 DEF Confirmed
  <2> HIDE DEF k
  <2>5. m \in Mapping /\ m.uid = t
    BY <1>1, <2>3 DEF Mapping
  <2> HIDE DEF m
  <2> QED BY <2>3, <2>4, <2>5, ReplacedEntries DEF ListFor, id
<1> QED BY <1>2, <1>3

LEMMA SyncedList ==
  ASSUME TypeOK, NEW t \in Tag, NEW u \in Uuid, NEW s \in Spool
  PROVE  ListFor(Synced(t, u, s), t)
<1> DEFINE m == [spool |-> s, uuid |-> u, uid |-> t]
<1>1. m \in Mapping /\ m.uid = t
  BY DEF Mapping
<1>2. Synced(t, u, s) = IF Own(t) = {} THEN Added(m)
                        ELSE [cache EXCEPT ![CHOOSE i \in Own(t) : TRUE] = m]
  BY DEF Synced
<1> HIDE DEF m
<1>3. CASE Own(t) = {}
  BY <1>1, <1>2, <1>3, AddedEntries DEF ListFor
<1>4. CASE Own(t) # {}
  <2> DEFINE k == CHOOSE i \in Own(t) : TRUE
  <2>1. k \in DOMAIN cache
    BY <1>4 DEF Own
  <2>2. Synced(t, u, s) = [cache EXCEPT ![k] = m]
    BY <1>2, <1>4
  <2> HIDE DEF k
  <2> QED BY <1>1, <2>1, <2>2, ReplacedEntries DEF ListFor
<1> QED BY <1>3, <1>4

\* Another tag that has no entry is given none.
LEMMA ListKeeps ==
  ASSUME NEW c, NEW t, NEW x, x # t, ListFor(c, t), \A i \in DOMAIN cache : cache[i].uid # x
  PROVE  \A i \in DOMAIN c : c[i].uid # x
BY DEF ListFor

LEMMA ConfirmStep == ASSUME IInv, NEW t \in Tag, NEW s \in Spool, Confirm(t, s) PROVE IInv'
<1>1. /\ at = "idle" /\ commands' \in 0..MaxCommands
      /\ claim' = [claim EXCEPT ![t] = IF @ = NoSpool THEN AnySpool ELSE @]
      /\ UNCHANGED <<spoolman, content, known, verified, query, edits>>
  BY BoundAssumption DEF Confirm, Command, IInv, TypeOK
<1>2. ListFor(cache', t) /\ Valid(cache')
  <2>1. \/ cache' = Confirmed(IdentityOf(t), s) /\ Valid(Confirmed(IdentityOf(t), s))
        \/ cache' = cache
    BY DEF Confirm
  <2> QED BY <2>1, ConfirmedList, SameList DEF IInv
<1>3. /\ claim' \in [Tag -> Claim]
      /\ \A x \in Tag : claim'[x] # AnySpool =>
           claim'[x] = claim[x] /\ (x = t => claim[x] # NoSpool)
  BY <1>1, SpoolAssumption DEF IInv, TypeOK, Claim
<1>4. TypeOK'
  BY <1>1, <1>2, <1>3 DEF IInv, TypeOK, ListFor, Claim
<1>5. Valid(cache)' /\ Distinct(content)' /\ ServerInv' /\ QueryInv'
  BY <1>1, <1>2 DEF IInv, Valid, Distinct, ServerInv, QueryInv
<1>6. LinkedInv'
  BY <1>1, <1>3, SpoolAssumption DEF IInv, LinkedInv
<1>7. UnlinkedInv'
  <2>1. SUFFICES ASSUME NEW x \in Tag, claim'[x] = NoSpool
                 PROVE  /\ content[x] = NoUuid
                        /\ native => \A f \in Form : held[x][f] = {}
                        /\ \A y \in Spool : uid[y] # x
                        /\ \A i \in DOMAIN cache' : cache'[i].uid # x
    BY <1>1 DEF UnlinkedInv
  <2>2. claim[x] = NoSpool /\ x # t
    BY <1>3, <2>1, SpoolAssumption
  <2>3. /\ content[x] = NoUuid /\ (\A i \in DOMAIN cache : cache[i].uid # x)
        /\ native => \A f \in Form : held[x][f] = {}
        /\ \A y \in Spool : uid[y] # x
    BY <2>2 DEF IInv, UnlinkedInv
  <2>4. \A i \in DOMAIN cache' : cache'[i].uid # x
    BY <1>2, <2>2, <2>3, ListKeeps
  <2> QED BY <2>3, <2>4
<1> QED BY <1>4, <1>5, <1>6, <1>7 DEF IInv

\* What UnlinkedInv and LinkedInv say of one tag.
LinkedAs(x) ==
  /\ content[x] \in Uuid /\ (fields \/ native)
  /\ fields => \A s \in Spool : /\ uuid[s] = content[x] <=> s = claim[x]
                                /\ uid[s] = x <=> s = claim[x]
  /\ native => held[x]["canonical"] = {claim[x]}
UnlinkedAs(x) ==
  /\ content[x] = NoUuid
  /\ native => \A f \in Form : held[x][f] = {}
  /\ \A s \in Spool : uid[s] # x
  /\ \A i \in DOMAIN cache : cache[i].uid # x

LEMMA OneTag ==
  ASSUME IInv, NEW x \in Tag
  PROVE  (claim[x] \in Spool => LinkedAs(x)) /\ (claim[x] = NoSpool => UnlinkedAs(x))
BY DEF IInv, LinkedInv, UnlinkedInv, LinkedAs, UnlinkedAs

\* A link that has been verified.
LEMMA AssociateStep ==
  ASSUME IInv, NEW t \in Tag, NEW s \in Spool, NEW u \in Uuid, Associate(t, s, u)
  PROVE  IInv'
<1>1. /\ at = "idle" /\ commands' \in 0..MaxCommands /\ (fields \/ known)
      /\ \A x \in Tag \ {t} : content[x] # u
      /\ \A y \in Spool : uuid[y] = u => y = s
      /\ content' = [content EXCEPT ![t] = u]
      /\ UNCHANGED <<native, fields, known, verified, query, edits>>
  BY BoundAssumption DEF Associate, Command, IInv, TypeOK
<1>2. /\ uuid' = IF fields THEN [uuid EXCEPT ![s] = u] ELSE uuid
      /\ uid' = IF ~fields THEN uid
            ELSE [x \in Spool |-> IF x = s THEN t ELSE IF uid[x] = t THEN NoTag ELSE uid[x]]
      /\ held' = IF ~known THEN held
             ELSE [held EXCEPT ![t] = [f \in Form |-> IF f = "canonical" THEN {s} ELSE {}]]
  BY DEF Associate, Register
<1>3. claim' = [x \in Tag |-> IF x = t /\ known = native THEN s
                              ELSE IF x = t \/ claim[x] = s THEN AnySpool ELSE claim[x]]
  BY DEF Associate
<1>4. ListFor(cache', t) /\ Valid(cache')
  <2>1. cache' = cache \/ (cache' = Synced(t, u, s) /\ Valid(Synced(t, u, s)))
    BY DEF Associate
  <2> QED BY <2>1, SyncedList, SameList DEF IInv
<1>5. /\ TypeOK /\ Distinct(content) /\ (known => native)
      /\ ~fields => \A y \in Spool : uuid[y] = NoUuid /\ uid[y] = NoTag
  BY DEF IInv, ServerInv
<1>6. /\ uuid' \in [Spool -> Uuid \cup {NoUuid}] /\ uid' \in [Spool -> Tag \cup {NoTag}]
      /\ content' \in [Tag -> Uuid \cup {NoUuid}]
  BY <1>1, <1>2, <1>5 DEF TypeOK
<1>7. held' \in [Tag -> [Form -> SUBSET Spool]]
  BY <1>2, <1>5 DEF TypeOK
<1>8. claim' \in [Tag -> Spool \cup {NoSpool, AnySpool}]
  BY <1>3, <1>5 DEF TypeOK
<1>9. TypeOK'
  BY <1>1, <1>4, <1>5, <1>6, <1>7, <1>8 DEF TypeOK, ListFor
<1>10. Distinct(content)'
  BY <1>1, <1>5, AbsentAssumption DEF Distinct, TypeOK
<1>11. ServerInv' /\ QueryInv' /\ Valid(cache)'
  BY <1>1, <1>2, <1>4, <1>5 DEF ServerInv, QueryInv
<1>12. ASSUME NEW x \in Tag, claim'[x] \in Spool PROVE LinkedAs(x)'
  <2>1. CASE x = t
    <3>1. claim'[t] = s /\ known = native
      BY <1>3, <1>12, <2>1, SpoolAssumption
    <3>2. content'[t] = u
      BY <1>1, <1>5 DEF TypeOK
    <3>3. fields => \A y \in Spool : (uuid'[y] = u <=> y = s) /\ (uid'[y] = t <=> y = s)
      BY <1>1, <1>2, <1>5, AbsentAssumption DEF TypeOK
    <3>4. native => held'[t]["canonical"] = {s}
      BY <1>2, <1>5, <3>1 DEF TypeOK, Form
    <3> QED BY <1>1, <1>5, <2>1, <3>1, <3>2, <3>3, <3>4 DEF LinkedAs
  <2>2. CASE x # t
    <3>1. claim'[x] = claim[x] /\ claim[x] # s /\ claim[x] \in Spool
      BY <1>3, <1>12, <2>2, SpoolAssumption
    <3>2. LinkedAs(x)
      BY <3>1, OneTag
    <3>3. content'[x] = content[x] /\ content[x] # u /\ held'[x] = held[x]
      BY <1>1, <1>2, <1>5, <2>2 DEF TypeOK
    <3>4. fields => \A y \in Spool :
          /\ uuid'[y] = content[x] <=> y = claim[x]
          /\ uid'[y] = x <=> y = claim[x]
      BY <1>2, <1>5, <2>2, <3>1, <3>2, <3>3, AbsentAssumption DEF TypeOK, LinkedAs
    <3> QED BY <1>1, <3>1, <3>2, <3>3, <3>4 DEF LinkedAs
  <2> QED BY <2>1, <2>2
<1>13. ASSUME NEW x \in Tag, claim'[x] = NoSpool PROVE UnlinkedAs(x)'
  <2>1. x # t /\ claim[x] = NoSpool
    BY <1>3, <1>13, SpoolAssumption
  <2>2. UnlinkedAs(x)
    BY <2>1, OneTag
  <2>3. content'[x] = content[x] /\ held'[x] = held[x]
    BY <1>1, <1>2, <1>5, <2>1 DEF TypeOK
  <2>4. \A y \in Spool : uid'[y] # x
    BY <1>2, <1>5, <2>1, <2>2, AbsentAssumption DEF TypeOK, UnlinkedAs
  <2>5. \A i \in DOMAIN cache' : cache'[i].uid # x
    BY <1>4, <2>1, <2>2, ListKeeps DEF UnlinkedAs
  <2> QED BY <1>1, <2>2, <2>3, <2>4, <2>5 DEF UnlinkedAs
<1>14. LinkedInv' /\ UnlinkedInv'
  BY <1>12, <1>13 DEF LinkedInv, UnlinkedInv, LinkedAs, UnlinkedAs
<1> QED BY <1>9, <1>10, <1>11, <1>14 DEF IInv

\* An unlink that has been verified.
LEMMA ClearStep == ASSUME IInv, NEW t \in Tag, Clear(t) PROVE IInv'
<1>1. /\ at = "idle" /\ commands' \in 0..MaxCommands
      /\ content' = [content EXCEPT ![t] = NoUuid]
      /\ cache' = Forgotten(t)
      /\ UNCHANGED <<native, fields, known, verified, query, edits>>
  BY BoundAssumption DEF Clear, Command, IInv, TypeOK
<1>2. /\ uid' = [s \in Spool |-> IF s \in Owner(t) THEN NoTag ELSE uid[s]]
      /\ uuid' = [s \in Spool |-> IF s \in Owner(t) THEN NoUuid ELSE uuid[s]]
      /\ held' = IF known THEN [held EXCEPT ![t] = [f \in Form |-> {}]] ELSE held
      /\ claim' = [claim EXCEPT ![t] = IF known = native THEN NoSpool ELSE AnySpool]
  BY DEF Clear
<1>3. /\ cache' \in Seq(Mapping) /\ Len(cache') <= MaxCache /\ Valid(cache')
      /\ \A i \in DOMAIN cache' :
           cache'[i].uid # t /\ \E j \in DOMAIN cache : cache'[i] = cache[j]
  BY <1>1, ForgottenEntries DEF IInv
<1>4. /\ TypeOK /\ Distinct(content) /\ (known => native)
      /\ ~fields => \A y \in Spool : uuid[y] = NoUuid /\ uid[y] = NoTag
  BY DEF IInv, ServerInv
<1>5. /\ uuid' \in [Spool -> Uuid \cup {NoUuid}] /\ uid' \in [Spool -> Tag \cup {NoTag}]
      /\ content' \in [Tag -> Uuid \cup {NoUuid}]
  BY <1>1, <1>2, <1>4 DEF TypeOK
<1>6. held' \in [Tag -> [Form -> SUBSET Spool]]
  BY <1>2, <1>4 DEF TypeOK
<1>7. claim' \in [Tag -> Spool \cup {NoSpool, AnySpool}]
  BY <1>2, <1>4 DEF TypeOK
<1>8. TypeOK'
  BY <1>1, <1>3, <1>4, <1>5, <1>6, <1>7 DEF TypeOK
<1>9. Distinct(content)'
  BY <1>1, <1>4, AbsentAssumption DEF Distinct, TypeOK
<1>10. ServerInv' /\ QueryInv' /\ Valid(cache)'
  BY <1>1, <1>2, <1>3, <1>4 DEF ServerInv, QueryInv
<1>11. ASSUME NEW x \in Tag, x # t
       PROVE  content'[x] = content[x] /\ held'[x] = held[x] /\ claim'[x] = claim[x]
  BY <1>1, <1>2, <1>4, <1>11 DEF TypeOK
<1>12. ASSUME NEW x \in Tag, claim'[x] \in Spool PROVE LinkedAs(x)'
  <2>1. x # t
    BY <1>2, <1>4, <1>12, SpoolAssumption DEF TypeOK
  <2>2. LinkedAs(x) /\ claim[x] \in Spool
    BY <1>11, <1>12, <2>1, OneTag
  <2>3. content[x] # content[t] /\ content[x] # NoUuid
    BY <1>4, <2>1, <2>2, AbsentAssumption DEF Distinct, LinkedAs
  <2>4. fields => claim[x] \notin Owner(t)
    BY <2>1, <2>2, <2>3 DEF Owner, LinkedAs
  <2>5. fields => \A y \in Spool :
        /\ uuid'[y] = content[x] <=> y = claim[x]
        /\ uid'[y] = x <=> y = claim[x]
    BY <1>2, <2>2, <2>3, <2>4, AbsentAssumption DEF LinkedAs
  <2> QED BY <1>1, <1>11, <2>1, <2>2, <2>5 DEF LinkedAs
<1>13. ASSUME NEW x \in Tag, claim'[x] = NoSpool PROVE UnlinkedAs(x)'
  <2>1. CASE x = t
    <3>1. known = native
      BY <1>2, <1>4, <1>13, <2>1, SpoolAssumption DEF TypeOK
    <3>2. content'[t] = NoUuid /\ (native => \A f \in Form : held'[t][f] = {})
      BY <1>1, <1>2, <1>4, <3>1 DEF TypeOK
    <3>3. \A y \in Spool : uid'[y] # t
      BY <1>2, AbsentAssumption DEF Owner
    <3> QED BY <1>1, <1>3, <2>1, <3>2, <3>3 DEF UnlinkedAs
  <2>2. CASE x # t
    <3>1. UnlinkedAs(x)
      BY <1>11, <1>13, <2>2, OneTag
    <3>2. \A y \in Spool : uid'[y] # x
      BY <1>2, <3>1, AbsentAssumption DEF UnlinkedAs
    <3>3. \A i \in DOMAIN cache' : cache'[i].uid # x
      BY <1>3, <3>1 DEF UnlinkedAs
    <3> QED BY <1>1, <1>11, <2>2, <3>1, <3>2, <3>3 DEF UnlinkedAs
  <2> QED BY <2>1, <2>2
<1>14. LinkedInv' /\ UnlinkedInv'
  BY <1>12, <1>13 DEF LinkedInv, UnlinkedInv, LinkedAs, UnlinkedAs
<1> QED BY <1>8, <1>9, <1>10, <1>14 DEF IInv

\* Other people's edits: a claim that stays was not touched.
LEMMA EditStep ==
  ASSUME IInv, Edit,
         fields' \in BOOLEAN, held' \in [Tag -> [Form -> SUBSET Spool]],
         uuid' \in [Spool -> Uuid \cup {NoUuid}], uid' \in [Spool -> Tag \cup {NoTag}],
         claim' \in [Tag -> Spool \cup {NoSpool, AnySpool}],
         ~fields' => \A y \in Spool : uuid'[y] = NoUuid /\ uid'[y] = NoTag,
         \A x \in Tag : claim'[x] # AnySpool => claim'[x] = claim[x],
         \A x \in Tag : claim'[x] \in Spool => LinkedAs(x)',
         \A x \in Tag : claim'[x] = NoSpool => UnlinkedAs(x)'
  PROVE  IInv'
<1>1. /\ edits' \in 0..MaxEdits
      /\ UNCHANGED <<native, content, cache, known, verified, query, commands>>
  BY BoundAssumption DEF Edit, IInv, TypeOK
<1>2. TypeOK'
  BY <1>1 DEF IInv, TypeOK
<1>3. Valid(cache)' /\ Distinct(content)' /\ ServerInv'
  BY <1>1 DEF IInv, Valid, Distinct, ServerInv
<1>4. LinkedInv' /\ UnlinkedInv'
  BY DEF LinkedInv, UnlinkedInv, LinkedAs, UnlinkedAs
<1>5. \A x \in Tag : claim'[x] \in Spool => claim'[x] = claim[x]
  BY SpoolAssumption
<1>6. QueryInv'
  BY <1>1, <1>5 DEF IInv, QueryInv, TypeOK
<1> QED BY <1>2, <1>3, <1>4, <1>6 DEF IInv

LEMMA RelistStep ==
  ASSUME IInv, NEW t \in Tag, NEW f \in Form, NEW S \in SUBSET Spool, Relist(t, f, S)
  PROVE  IInv'
<1>1. /\ Edit /\ native /\ TypeOK
      /\ held' = [held EXCEPT ![t][f] = S]
      /\ claim' = [claim EXCEPT ![t] = AnySpool]
      /\ UNCHANGED <<native, content, cache, fields, uuid, uid>>
  BY DEF Relist, Edit, IInv
<1>2. /\ held' \in [Tag -> [Form -> SUBSET Spool]]
      /\ claim' \in [Tag -> Spool \cup {NoSpool, AnySpool}]
  BY <1>1 DEF TypeOK
<1>3. ASSUME NEW x \in Tag, claim'[x] # AnySpool
      PROVE  x # t /\ claim'[x] = claim[x] /\ held'[x] = held[x]
  BY <1>1, <1>3 DEF TypeOK
<1>4. ASSUME NEW x \in Tag
      PROVE  /\ claim'[x] \in Spool => LinkedAs(x)'
             /\ claim'[x] = NoSpool => UnlinkedAs(x)'
  BY <1>1, <1>3, OneTag, SpoolAssumption DEF LinkedAs, UnlinkedAs
<1> QED BY <1>1, <1>2, <1>3, <1>4, EditStep DEF TypeOK, IInv, ServerInv

LEMMA RetypeStep ==
  ASSUME IInv, NEW s \in Spool, NEW u \in Uuid \cup {NoUuid}, NEW t \in Tag \cup {NoTag},
         Retype(s, u, t)
  PROVE  IInv'
<1>1. /\ Edit /\ fields /\ TypeOK
      /\ uuid' = [uuid EXCEPT ![s] = u]
      /\ uid' = [uid EXCEPT ![s] = t]
      /\ claim' = [x \in Tag |-> IF claim[x] = s \/ x = t \/ (u # NoUuid /\ content[x] = u)
                                 THEN AnySpool ELSE claim[x]]
      /\ UNCHANGED <<native, content, cache, fields, held>>
  BY DEF Retype, Edit, IInv
<1>2. /\ uuid' \in [Spool -> Uuid \cup {NoUuid}] /\ uid' \in [Spool -> Tag \cup {NoTag}]
      /\ claim' \in [Tag -> Spool \cup {NoSpool, AnySpool}]
  BY <1>1 DEF TypeOK
<1>3. ASSUME NEW x \in Tag, claim'[x] # AnySpool
      PROVE  /\ claim'[x] = claim[x] /\ claim[x] # s /\ x # t
             /\ u # NoUuid => content[x] # u
  BY <1>1, <1>3
<1>4. ASSUME NEW x \in Tag, claim'[x] \in Spool PROVE LinkedAs(x)'
  <2>1. LinkedAs(x) /\ claim'[x] = claim[x] /\ claim[x] # s /\ x # t /\ content[x] # u
    BY <1>3, <1>4, OneTag, SpoolAssumption, AbsentAssumption DEF LinkedAs
  <2>2. \A y \in Spool : (uuid'[y] = content[x] <=> y = claim[x]) /\ (uid'[y] = x <=> y = claim[x])
    BY <1>1, <2>1 DEF TypeOK, LinkedAs
  <2> QED BY <1>1, <2>1, <2>2 DEF LinkedAs
<1>5. ASSUME NEW x \in Tag, claim'[x] = NoSpool PROVE UnlinkedAs(x)'
  <2>1. UnlinkedAs(x) /\ claim'[x] = claim[x] /\ x # t
    BY <1>3, <1>5, OneTag, SpoolAssumption
  <2>2. \A y \in Spool : uid'[y] # x
    BY <1>1, <2>1 DEF TypeOK, UnlinkedAs
  <2> QED BY <1>1, <2>1, <2>2 DEF UnlinkedAs
<1> QED BY <1>1, <1>2, <1>3, <1>4, <1>5, EditStep DEF TypeOK

\* With the fields every link is in doubt.
LEMMA FieldsStep == IInv /\ (DefineFields \/ DeleteFields) => IInv'
<1> SUFFICES ASSUME IInv, DefineFields \/ DeleteFields PROVE IInv'
  OBVIOUS
<1>1. /\ Edit /\ TypeOK
      /\ fields' \in BOOLEAN /\ claim' = Doubted
      /\ UNCHANGED <<native, content, cache, held>>
  BY DEF DefineFields, DeleteFields, Edit, IInv
<1>2. /\ uuid' \in [Spool -> Uuid \cup {NoUuid}] /\ uid' \in [Spool -> Tag \cup {NoTag}]
      /\ ~fields' => \A y \in Spool : uuid'[y] = NoUuid /\ uid'[y] = NoTag
      /\ \A y \in Spool : uid'[y] \in {NoTag, uid[y]}
  BY <1>1 DEF DefineFields, DeleteFields, TypeOK
<1>3. /\ claim' \in [Tag -> Spool \cup {NoSpool, AnySpool}]
      /\ \A x \in Tag : claim'[x] # AnySpool => claim'[x] = claim[x] /\ claim[x] \notin Spool
  BY <1>1 DEF Doubted, TypeOK
<1>4. ASSUME NEW x \in Tag
      PROVE  /\ claim'[x] \notin Spool
             /\ claim'[x] = NoSpool => UnlinkedAs(x)'
  <2>1. claim'[x] \notin Spool
    BY <1>3, SpoolAssumption
  <2>2. ASSUME claim'[x] = NoSpool PROVE UnlinkedAs(x)'
    <3>1. UnlinkedAs(x)
      BY <1>3, <2>2, OneTag, SpoolAssumption
    <3>2. \A y \in Spool : uid'[y] # x
      BY <1>2, <3>1, AbsentAssumption DEF UnlinkedAs
    <3> QED BY <1>1, <3>1, <3>2 DEF UnlinkedAs
  <2> QED BY <2>1, <2>2
<1> QED BY <1>1, <1>2, <1>3, <1>4, EditStep DEF TypeOK

LEMMA Initially == Init => IInv
<1> SUFFICES ASSUME Init PROVE IInv
  OBVIOUS
<1>1. cache = <<>> /\ cache \in Seq(Mapping) /\ Len(cache) = 0 /\ DOMAIN cache = {}
  BY DEF Init
<1>2. /\ Len(cache) <= MaxCache /\ edits \in 0..MaxEdits /\ commands \in 0..MaxCommands
  BY <1>1, BoundAssumption DEF Init
<1>5. /\ held \in [Tag -> [Form -> SUBSET Spool]] /\ content \in [Tag -> Uuid \cup {NoUuid}]
      /\ uuid \in [Spool -> Uuid \cup {NoUuid}] /\ uid \in [Spool -> Tag \cup {NoTag}]
      /\ claim \in [Tag -> Spool \cup {NoSpool, AnySpool}]
  BY DEF Init
<1>6. /\ native \in BOOLEAN /\ fields \in BOOLEAN /\ known = FALSE /\ verified = FALSE
      /\ at = "idle" /\ tag = NoTag /\ hit = NoSpool
      /\ answer = [is |-> "none", spool |-> NoSpool]
  BY DEF Init
<1>7. TypeOK
  BY <1>1, <1>2, <1>5, <1>6 DEF TypeOK
<1>3. Valid(cache) /\ Distinct(content) /\ ServerInv /\ QueryInv
  BY <1>1 DEF Init, Valid, Distinct, ServerInv, QueryInv
<1>4. LinkedInv /\ UnlinkedInv
  BY SpoolAssumption DEF Init, LinkedInv, UnlinkedInv
<1> QED BY <1>7, <1>3, <1>4 DEF IInv

LEMMA ResolverStays == IInv /\ UNCHANGED vars => IInv'
<1> SUFFICES ASSUME IInv, UNCHANGED vars PROVE IInv'
  OBVIOUS
<1>1. Stay /\ UNCHANGED <<at, tag, hit, answer, verified>>
  BY DEF Stay
<1>2. TypeOK'
  BY <1>1 DEF IInv, TypeOK, Stay
<1>3. QueryInv'
  BY <1>1 DEF IInv, QueryInv, Stay
<1> QED BY <1>1, <1>2, <1>3, ResolverQuiet DEF IInv

LEMMA Invariant == Spec => []IInv
<1>1. IInv /\ [Next]_vars => IInv'
  BY ResolvingStep, PlaceStep, ProbeStep, ConfirmStep, AssociateStep, ClearStep, RelistStep,
     RetypeStep, FieldsStep, ResolverStays
  DEF Next
<1> QED BY <1>1, Initially, PTL DEF Spec
-----------------------------------------------------------------------------
(* Theorems *)

\* Only a query answers.
LEMMA AnswerStep == IInv /\ [Next]_vars /\ Answered => AnsweredRight
<1> SUFFICES ASSUME IInv, [Next]_vars, at # "idle", at' = "idle" PROVE AnsweredRight
  BY DEF Answered
<1>1. Resolving
  BY DEF Next, Place, Probe, Confirm, Associate, Clear, Command, Relist, Retype, DefineFields,
         DeleteFields, Edit
<1>2. Right
  BY <1>1, Resolved
<1> QED BY <1>2 DEF Right, AskedRight, Reached

\* A tag that was linked and verified is found as that spool or not at all, and
\* one that was cleared and verified as none, whatever the station has forgotten
\* of Spoolman and whatever other people have done to other tags: but for a
\* field that was deleted unnoticed on a server with a single spool
\* (spool_identity_resolver.cpp:252-394, configuration_service.cpp:1136-1175,
\* spoolman_adapter.cpp:370).
THEOREM FoundAsLinked == Spec => Resolves
<1>1. IInv => TypeOK
  BY DEF IInv
<1>2. IInv /\ [Next]_vars =>
        [Answered => CASE claim[tag] \in Spool ->
                            \/ answer' = [is |-> "matched", spool |-> claim[tag]]
                            \/ answer'.is = "failed"
                            \/ answer'.is = "conflict" /\ Deleted
                       [] claim[tag] = NoSpool ->
                            answer'.is = "matched" => Deleted /\ Cardinality(Spool) = 1
                       [] OTHER -> TRUE]_vars
  BY AnswerStep, SpoolAssumption DEF AnsweredRight, Faithfully
<1> QED BY <1>1, <1>2, Invariant, PTL DEF Spec, Resolves, Faithful

\* A tag is never taken for a spool that Spoolman knows by another instance
\* UUID, nor, by the local list alone, for one that has another tag
\* (spool_identity_resolver.cpp:232-247, 261-271, 309-320).
THEOREM NeverContradicted == Spec => Agrees
<1>1. IInv /\ [Next]_vars =>
        [Matched /\ at # "list_uuid" =>
           /\ ~Contradicts(answer'.spool)
           /\ at = "cache_uid" => uid[answer'.spool] \in {NoTag, tag}]_vars
  BY AnswerStep DEF Matched, AnsweredRight, Agreeing
<1> QED BY <1>1, Invariant, PTL DEF Spec, Agrees

HIDE DEF vars, spoolman, query

-----------------------------------------------------------------------------
(* Assignment: what is sent was consented to, and what is shown was there.    *)

Carried == {"start", "list", "reread", "post", "readback", "finish"}

\* The command in hand; what it rests on is settled from "list" on.
InHand ==
  /\ worker.stage \in Carried => cmd \in Request
  /\ worker.stage \in Carried \ {"start"} =>
       ~cmd.old /\ (cmd.kind = "assign" => cmd.spool = station.spool)

\* What a probe read is taken before anything else happens.
ProbeTaken == worker.stage # "refresh" => adapter.discovery = Unlisted

\* What FilaBridge has now, and what a verified command found, belongs to what
\* it had since the list was read.
Followed ==
  station.printers # Unlisted =>
    /\ \A t \in Tools : bridge.map[t] \in had[t]
    /\ worker.stage = "finish" /\ worker.result = "verified" => Target \in had[cmd.tool]

AInv == AssignmentTyped /\ InHand /\ ProbeTaken /\ Consented /\ CacheTrue /\ Followed

LEMMA FallenTyped ==
  ASSUME NEW r \in Request, NEW f \in {"sameSpool", "sameList"}
  PROVE  /\ Fallen(r, f) \in Request
         /\ Fallen(r, f).kind = r.kind /\ Fallen(r, f).tool = r.tool
         /\ Fallen(r, f).spool = r.spool /\ Fallen(r, f).occupant = r.occupant
         /\ Fallen(r, f).state = r.state /\ Fallen(r, f).replace = r.replace
         /\ Fallen(r, f).override = r.override /\ Fallen(r, f).old = r.old
<1>1. CASE r = NoRequest
  BY <1>1 DEF Fallen
<1>2. CASE r # NoRequest
  <2>1. Fallen(r, f) = [r EXCEPT ![f] = FALSE]
    BY <1>2 DEF Fallen
  <2>2. CASE f = "sameSpool"
    BY <2>1, <2>2 DEF Request
  <2>3. CASE f = "sameList"
    BY <2>1, <2>3 DEF Request
  <2> QED BY <2>2, <2>3
<1> QED BY <1>1, <1>2

LEMMA FallenMaybe ==
  \A r \in Request \cup {NoRequest}, f \in {"sameSpool", "sameList"} :
    Fallen(r, f) \in Request \cup {NoRequest}
<1> SUFFICES ASSUME NEW r \in Request \cup {NoRequest}, NEW f \in {"sameSpool", "sameList"}
             PROVE  Fallen(r, f) \in Request \cup {NoRequest}
  OBVIOUS
<1>1. CASE r \in Request
  BY <1>1, FallenTyped
<1>2. CASE r = NoRequest
  BY <1>2 DEF Fallen
<1> QED BY <1>1, <1>2

LEMMA QueueFallen ==
  ASSUME requests \in Seq(Request), Len(requests) <= Depth,
         NEW f \in {"sameSpool", "sameList"},
         requests' = [i \in DOMAIN requests |-> Fallen(requests[i], f)]
  PROVE  requests' \in Seq(Request) /\ Len(requests') <= Depth
<1>1. Len(requests) \in Nat /\ DOMAIN requests = 1 .. Len(requests)
      /\ \A i \in 1 .. Len(requests) : requests[i] \in Request
  BY ElementOfSeq, LenProperties
<1>2. \A i \in 1 .. Len(requests) : Fallen(requests[i], f) \in Request
  BY <1>1, FallenTyped
<1>3. requests' = [i \in 1 .. Len(requests) |-> Fallen(requests[i], f)]
  BY <1>1
<1>4. requests' \in Seq(Request) /\ Len(requests') = Len(requests)
  BY <1>1, <1>2, <1>3, IsASeq, LenProperties
<1> QED BY <1>4

USE DEF AInv, AssignmentTyped, cmd, Target, Carried

\* What does not change keeps its type.
LEMMA TypesKept ==
  /\ BridgeTyped /\ bridge' = bridge => BridgeTyped'
  /\ AdapterTyped /\ adapter' = adapter => AdapterTyped'
  /\ StationTyped /\ station' = station => StationTyped'
  /\ DialogTyped /\ dialog' = dialog => DialogTyped'
  /\ RequestsTyped /\ requests' = requests => RequestsTyped'
  /\ WorkerTyped /\ worker' = worker => WorkerTyped'
<1>1. BridgeTyped /\ bridge' = bridge => BridgeTyped'
  BY DEF BridgeTyped
<1>2. AdapterTyped /\ adapter' = adapter => AdapterTyped'
  BY DEF AdapterTyped
<1>3. StationTyped /\ station' = station => StationTyped'
  BY DEF StationTyped
<1>4. DialogTyped /\ dialog' = dialog => DialogTyped'
  BY DEF DialogTyped
<1>5. RequestsTyped /\ requests' = requests => RequestsTyped'
  BY DEF RequestsTyped
<1>6. WorkerTyped /\ worker' = worker => WorkerTyped'
  BY DEF WorkerTyped
<1> QED BY <1>1, <1>2, <1>3, <1>4, <1>5, <1>6

LEMMA SwitchesKept == SwitchesTyped /\ required' = required /\ changed' = changed => SwitchesTyped'
BY Zenon DEF SwitchesTyped

LEMMA AssignmentBegins == AssignmentInit => AInv
<1> SUFFICES ASSUME AssignmentInit PROVE AInv
  OBVIOUS
<1> USE DEF AssignmentInit, AtRest, NoStatus
<1>1. BridgeTyped
  BY DEF BridgeTyped, PrinterState
<1>2. AdapterTyped
  BY DEF AdapterTyped
<1>3. StationTyped
  BY DEF StationTyped
<1>4. SwitchesTyped
  BY Zenon DEF SwitchesTyped
<1>5. DialogTyped
  BY DEF DialogTyped
<1>6. RequestsTyped
  <2> HIDE DEF AssignmentInit
  <2>1. requests = <<>>
    BY DEF AssignmentInit
  <2> QED BY <2>1, DepthAssumption DEF RequestsTyped
<1>7. WorkerTyped
  BY DEF WorkerTyped
<1>8. InHand
  BY DEF InHand
<1>9. ProbeTaken /\ Consented /\ CacheTrue /\ Followed
  BY DEF ProbeTaken, Consented, CacheTrue, Followed
<1> QED BY <1>1, <1>2, <1>3, <1>4, <1>5, <1>6, <1>7, <1>8, <1>9

LEMMA ElsewhereKeeps == AInv /\ Elsewhere => AInv'
<1> SUFFICES ASSUME AInv, Elsewhere PROVE AInv'
  OBVIOUS
<1> USE DEF Elsewhere, Witnessed
<1>1. BridgeTyped'
  BY DEF BridgeTyped, Occupancy
<1>2. InHand' /\ ProbeTaken' /\ Consented'
  BY DEF InHand, ProbeTaken, Consented
<1>3. CacheTrue'
  BY DEF CacheTrue
<1>4. Followed'
  BY DEF Followed, InHand, Request
<1> QED BY <1>1, <1>2, <1>3, <1>4, TypesKept, SwitchesKept

LEMMA SettingsKeep == AInv /\ ChangeSettings => AInv'
<1> SUFFICES ASSUME AInv, ChangeSettings PROVE AInv'
  OBVIOUS
<1> USE DEF ChangeSettings
<1>1. SwitchesTyped'
  BY Zenon DEF SwitchesTyped
<1>2. InHand' /\ ProbeTaken' /\ Consented' /\ CacheTrue' /\ Followed'
  BY DEF InHand, ProbeTaken, Consented, CacheTrue, Followed
<1> QED BY <1>1, <1>2, TypesKept

\* What an action leaves alone that changes nothing but what waits.
LEMMA WaitingKeeps ==
  ASSUME AInv, UNCHANGED <<bridge, adapter, station, required, changed, worker, had>>,
         DialogTyped', RequestsTyped'
  PROVE  AInv'
<1>1. InHand' /\ ProbeTaken' /\ Consented' /\ CacheTrue' /\ Followed'
  BY DEF InHand, ProbeTaken, Consented, CacheTrue, Followed
<1> QED BY <1>1, TypesKept, SwitchesKept

LEMMA DismissKeeps == AInv /\ Dismiss => AInv'
<1> SUFFICES ASSUME AInv, Dismiss PROVE AInv'
  OBVIOUS
<1>1. DialogTyped'
  BY DEF DialogTyped, Dismiss
<1> QED BY <1>1, WaitingKeeps, TypesKept DEF Dismiss

LEMMA ConsentKeeps == AInv /\ Consent => AInv'
<1> SUFFICES ASSUME AInv, Consent PROVE AInv'
  OBVIOUS
<1>1. dialog \in Request
  BY DEF DialogTyped, Consent
<1>2. requests' \in Seq(Request) /\ Len(requests') <= Depth
  BY <1>1, DepthAssumption DEF RequestsTyped, Consent
<1>3. DialogTyped' /\ RequestsTyped'
  BY <1>2 DEF DialogTyped, RequestsTyped, Consent
<1> QED BY <1>3, WaitingKeeps DEF Consent

LEMMA ExpireKeeps == AInv /\ Expire => AInv'
<1> SUFFICES ASSUME AInv, Expire PROVE AInv'
  OBVIOUS
<1>1. requests \in Seq(Request) /\ Len(requests) <= Depth
  BY DEF RequestsTyped
<1>2. 1 \in DOMAIN requests /\ requests[1] \in Request
  BY <1>1 DEF Expire
<1>3. [requests[1] EXCEPT !.old = TRUE] \in Request
  BY <1>2 DEF Request
<1>4. requests' = [requests EXCEPT ![1] = [requests[1] EXCEPT !.old = TRUE]]
  BY <1>2 DEF Expire
<1>5. requests' \in Seq(Request) /\ Len(requests') = Len(requests)
  BY <1>1, <1>2, <1>3, <1>4, ExceptSeq
<1>6. RequestsTyped'
  BY <1>1, <1>5 DEF RequestsTyped
<1> QED BY <1>6, WaitingKeeps, TypesKept DEF Expire

LEMMA ShowKeeps ==
  ASSUME AInv, NEW kind \in {"assign", "unassign"}, NEW t \in Tools,
         NEW replace \in BOOLEAN, NEW override \in BOOLEAN, Show(kind, t, replace, override)
  PROVE  AInv'
<1>1. station.spool \in Spools \cup {Nobody} /\ station.printers \in Listing
  BY DEF Show, StationTyped
<1>2. station.printers.map[t] \in Spools \cup {Nobody} /\ station.printers.state \in PrinterState
  BY <1>1 DEF Listing, Occupancy
<1>3. dialog' \in Request
  BY <1>1, <1>2 DEF Show, Request
<1>4. DialogTyped'
  BY <1>3 DEF DialogTyped
<1> QED BY <1>4, WaitingKeeps, TypesKept DEF Show

LEMMA SpoolMovedKeeps == ASSUME AInv, NEW s \in Spools \cup {Nobody}, SpoolMoved(s) PROVE AInv'
<1> USE DEF SpoolMoved, NoLonger
<1>1. RequestsTyped'
  BY QueueFallen DEF RequestsTyped
<1>2. DialogTyped' /\ WorkerTyped'
  BY FallenMaybe DEF DialogTyped, WorkerTyped
<1>3. StationTyped'
  BY DEF StationTyped
<1>4. worker'.stage = "idle" /\ station'.printers = station.printers
  BY DEF WorkerTyped, StationTyped
<1>5. InHand' /\ ProbeTaken' /\ Consented' /\ CacheTrue' /\ Followed'
  BY <1>4 DEF InHand, ProbeTaken, Consented, CacheTrue, Followed
<1> QED BY <1>1, <1>2, <1>3, <1>5, TypesKept, SwitchesKept

LEMMA BeginProbeKeeps == AInv /\ BeginProbe => AInv'
<1> SUFFICES ASSUME AInv, BeginProbe PROVE AInv'
  OBVIOUS
<1> USE DEF BeginProbe, AtRest
<1>1. WorkerTyped'
  BY DEF WorkerTyped
<1>2. InHand' /\ ProbeTaken' /\ Consented' /\ CacheTrue' /\ Followed'
  BY DEF InHand, ProbeTaken, Consented, CacheTrue, Followed
<1> QED BY <1>1, <1>2, TypesKept, SwitchesKept

\* What a probe does to the command in hand.
LEMMA ProbeEnds ==
  ASSUME AInv, worker.stage \in {"probe", "refresh"},
         worker' = AfterProbe \/ worker' = [AfterProbe EXCEPT !.cmd = Fallen(@, "sameList")]
  PROVE  /\ WorkerTyped' /\ worker'.stage \in {"idle", "start"}
         /\ worker'.stage = "start" => worker'.cmd \in Request
<1>1. WorkerTyped /\ AtRest.cmd = NoRequest /\ AtRest.stage = "idle"
      /\ AtRest.result = "" /\ AtRest.basis = Unlisted
  BY DEF AtRest
<1>2. CASE worker.cmd = NoRequest
  <2>1. AfterProbe = AtRest /\ Fallen(AtRest.cmd, "sameList") = NoRequest
    BY <1>1, <1>2 DEF AfterProbe, Fallen
  <2> QED BY <1>1, <2>1 DEF WorkerTyped, AtRest
<1>3. CASE worker.cmd # NoRequest
  <2>1. AfterProbe = [worker EXCEPT !.stage = "start"] /\ worker.cmd \in Request
    BY <1>3 DEF AfterProbe, WorkerTyped
  <2>2. Fallen(worker.cmd, "sameList") \in Request
    BY <2>1, FallenTyped
  <2>3. AfterProbe.cmd = worker.cmd
    BY <2>1 DEF WorkerTyped
  <2>4. /\ worker' = [worker EXCEPT !.stage = "start"]
           \/ worker' = [worker EXCEPT !.stage = "start", !.cmd = Fallen(worker.cmd, "sameList")]
    BY <2>1, <2>3 DEF WorkerTyped
  <2> QED BY <2>1, <2>2, <2>4 DEF WorkerTyped
<1> QED BY <1>2, <1>3

\* What a probe that ends leaves.
LEMMA ProbeKeeps ==
  ASSUME AInv, worker.stage \in {"probe", "refresh"}, UNCHANGED bridge,
         worker' = AfterProbe \/ worker' = [AfterProbe EXCEPT !.cmd = Fallen(@, "sameList")],
         AdapterTyped', adapter'.discovery = Unlisted, StationTyped', SwitchesTyped',
         DialogTyped', RequestsTyped',
         station'.printers # Unlisted =>
           \A t \in Tools : station'.printers.map[t] \in had'[t] /\ bridge.map[t] \in had'[t]
  PROVE  AInv'
<1>1. /\ WorkerTyped' /\ worker'.stage \in {"idle", "start"}
      /\ worker'.stage = "start" => worker'.cmd \in Request
  BY ProbeEnds
<1>2. InHand' /\ ProbeTaken' /\ Consented' /\ CacheTrue' /\ Followed'
  BY <1>1 DEF InHand, ProbeTaken, Consented, CacheTrue, Followed
<1> QED BY <1>1, <1>2, TypesKept

LEMMA ListFalls ==
  ASSUME AInv, dialog' = Fallen(dialog, "sameList"),
         requests' = [i \in DOMAIN requests |-> Fallen(requests[i], "sameList")]
  PROVE  DialogTyped' /\ RequestsTyped'
<1>1. RequestsTyped'
  BY QueueFallen DEF RequestsTyped
<1>2. DialogTyped'
  BY FallenMaybe DEF DialogTyped
<1> QED BY <1>1, <1>2

LEMMA AppliedTyped ==
  ASSUME AInv, worker.stage # "refresh" PROVE
  Applied \in [capable : BOOLEAN, healthy : BOOLEAN, version : {"", "tested", "other"},
               discovery : {Unlisted}]
<1>1. CASE changed
  BY <1>1 DEF Applied, NoStatus
<1>2. CASE ~changed
  BY <1>2 DEF Applied, ProbeTaken, AdapterTyped
<1> QED BY <1>1, <1>2

LEMMA LostKeeps ==
  ASSUME AInv, Lost, worker.stage = "probe", UNCHANGED <<bridge, had>>,
         AdapterTyped', adapter'.discovery = Unlisted, SwitchesTyped'
  PROVE  AInv'
<1>1. StationTyped' /\ station'.printers = Unlisted
  BY DEF StationTyped, Lost
<1>2. DialogTyped' /\ RequestsTyped'
  BY ListFalls DEF Lost
<1> QED BY <1>1, <1>2, ProbeKeeps DEF Lost

LEMMA WithoutWifiKeeps == AInv /\ ProbeWithoutWifi => AInv'
<1> SUFFICES ASSUME AInv, ProbeWithoutWifi PROVE AInv'
  OBVIOUS
<1>1. AdapterTyped' /\ adapter'.discovery = Unlisted
  BY AppliedTyped DEF AdapterTyped, ProbeWithoutWifi
<1>2. SwitchesTyped'
  BY Zenon DEF SwitchesTyped, ProbeWithoutWifi
<1> QED BY <1>1, <1>2, LostKeeps DEF ProbeWithoutWifi

LEMMA FailsKeeps == ASSUME AInv, NEW full \in BOOLEAN, ProbeFails(full) PROVE AInv'
<1>1. NoStatus \in [capable : BOOLEAN, healthy : BOOLEAN, version : {"", "tested", "other"},
                    discovery : {Unlisted}]
  BY DEF NoStatus
<1>2. \E a \in [capable : BOOLEAN, healthy : BOOLEAN, version : {"", "tested", "other"},
                discovery : {Unlisted}] :
        adapter' = [a EXCEPT !.discovery = Unlisted, !.version = "", !.healthy = FALSE]
  BY <1>1, AppliedTyped DEF ProbeFails
<1>3. AdapterTyped' /\ adapter'.discovery = Unlisted
  BY <1>2 DEF AdapterTyped
<1>4. SwitchesTyped'
  BY Zenon DEF SwitchesTyped, ProbeFails
<1> QED BY <1>3, <1>4, LostKeeps DEF ProbeFails

LEMMA HealthKeeps == AInv /\ ProbeHealth => AInv'
<1> SUFFICES ASSUME AInv, ProbeHealth PROVE AInv'
  OBVIOUS
<1> USE DEF ProbeHealth
<1>1. AdapterTyped' /\ adapter'.discovery = Unlisted
  BY DEF AdapterTyped, BridgeTyped
<1>2. StationTyped' /\ station'.printers = station.printers
  BY <1>1 DEF AdapterTyped, StationTyped
<1>3. required' = ~adapter.healthy /\ adapter.healthy \in BOOLEAN /\ changed' = changed
  BY DEF AdapterTyped
<1>4. SwitchesTyped'
  BY <1>3, Zenon DEF SwitchesTyped
<1>5. station'.printers # Unlisted =>
        \A t \in Tools : station'.printers.map[t] \in had'[t] /\ bridge.map[t] \in had'[t]
  BY <1>2 DEF CacheTrue, Followed
<1> QED BY <1>1, <1>2, <1>4, <1>5, ProbeKeeps, TypesKept

LEMMA PrintersTyped == BridgeTyped => Printers \in Listing
BY DEF Printers, Listing, BridgeTyped

LEMMA AllKeeps == AInv /\ ProbeAll => AInv'
<1> SUFFICES ASSUME AInv, ProbeAll PROVE AInv'
  OBVIOUS
<1> USE DEF ProbeAll
<1>1. Printers \in Listing
  BY PrintersTyped
<1>2. AdapterTyped'
  <2>1. bridge.version \in {"tested", "other"} /\ (bridge.version = "tested") \in BOOLEAN
    BY DEF BridgeTyped
  <2>2. CASE adapter' = [capable |-> bridge.version = "tested", healthy |-> TRUE,
                         version |-> bridge.version, discovery |-> Printers]
    BY <1>1, <2>1, <2>2 DEF AdapterTyped
  <2>3. CASE \E f \in Failure :
               adapter' = [capable |-> FALSE, healthy |-> f # "down",
                           version |-> bridge.version, discovery |-> Unlisted]
    <3>1. PICK f \in Failure : adapter' = [capable |-> FALSE, healthy |-> f # "down",
                                    version |-> bridge.version, discovery |-> Unlisted]
      BY <2>3
    <3>2. (f # "down") \in BOOLEAN
      OBVIOUS
    <3> QED BY <2>1, <3>1, <3>2 DEF AdapterTyped
  <2> QED BY <2>2, <2>3
<1>3. StationTyped' /\ station'.printers = station.printers /\ station'.spool = station.spool
  BY <1>2 DEF AdapterTyped, StationTyped
<1>4. SwitchesTyped'
  BY Zenon DEF SwitchesTyped
<1>5. WorkerTyped' /\ worker'.stage = "refresh"
  BY DEF WorkerTyped
<1>6. InHand' /\ ProbeTaken' /\ Consented' /\ CacheTrue' /\ Followed'
  BY <1>3, <1>5 DEF InHand, ProbeTaken, Consented, CacheTrue, Followed
<1> QED BY <1>2, <1>3, <1>4, <1>5, <1>6, TypesKept

LEMMA RefreshKeeps == AInv /\ Refresh => AInv'
<1> SUFFICES ASSUME AInv, Refresh PROVE AInv'
  OBVIOUS
<1>1. DialogTyped' /\ RequestsTyped' /\ SwitchesTyped'
  BY ListFalls, SwitchesKept DEF Refresh
<1>2. CASE \E listing \in {Printers, adapter.discovery} :
             /\ Takes(listing, adapter')
             /\ station' = [station EXCEPT !.filabridge = "online",
                              !.available = adapter.capable, !.printers = listing]
             /\ had' = [t \in Tools |-> {bridge.map[t], listing.map[t]}]
  <2>1. PICK listing \in {Printers, adapter.discovery} :
          /\ Takes(listing, adapter')
          /\ station' = [station EXCEPT !.filabridge = "online",
                           !.available = adapter.capable, !.printers = listing]
          /\ had' = [t \in Tools |-> {bridge.map[t], listing.map[t]}]
    BY <1>2
  <2>2. listing \in Listing \cup {Unlisted}
    BY <2>1, PrintersTyped DEF AdapterTyped
  <2>3. AdapterTyped' /\ adapter'.discovery = Unlisted
    BY <2>1 DEF Takes, AdapterTyped
  <2>4. StationTyped' /\ station'.printers = listing
    BY <2>1, <2>2 DEF StationTyped, AdapterTyped
  <2>5. \A t \in Tools : station'.printers.map[t] \in had'[t] /\ bridge.map[t] \in had'[t]
    BY <2>1, <2>4
  <2>6. worker.stage \in {"probe", "refresh"} /\ UNCHANGED bridge
        /\ worker' = [AfterProbe EXCEPT !.cmd = Fallen(@, "sameList")]
    BY DEF Refresh
  <2> QED BY <1>1, <2>3, <2>4, <2>5, <2>6, ProbeKeeps
<1>3. CASE \E f \in Failure :
             /\ adapter.discovery = Unlisted
             /\ adapter' = AfterFailure(f)
             /\ station' = [station EXCEPT !.available = FALSE, !.printers = Unlisted,
                              !.filabridge = IF ConnectionFailure(f) THEN "offline" ELSE "online"]
  <2>1. AdapterTyped' /\ adapter'.discovery = Unlisted
    BY <1>3 DEF AfterFailure, AdapterTyped
  <2>2. StationTyped' /\ station'.printers = Unlisted
    BY <1>3 DEF StationTyped
  <2> QED BY <1>1, <2>1, <2>2, ProbeKeeps DEF Refresh
<1> QED BY <1>2, <1>3 DEF Refresh

LEMMA TakeKeeps == AInv /\ Take => AInv'
<1> SUFFICES ASSUME AInv, Take PROVE AInv'
  OBVIOUS
<1>1. requests[1] \in Request /\ RequestsTyped'
  <2>1. requests \in Seq(Request) /\ Len(requests) <= Depth /\ requests # <<>>
        /\ requests' = Tail(requests)
    BY DEF Take, RequestsTyped
  <2>2. requests[1] \in Request
    BY <2>1
  <2>3. requests' \in Seq(Request) /\ Len(requests') <= Depth
    BY <2>1, DepthAssumption, HeadTailProperties
  <2> QED BY <2>2, <2>3 DEF RequestsTyped
<1>2. WorkerTyped' /\ worker'.cmd = requests[1] /\ worker'.stage \in {"probe", "start"}
  BY <1>1 DEF Take, AtRest, WorkerTyped
<1>3. InHand' /\ ProbeTaken' /\ Consented' /\ CacheTrue' /\ Followed'
  BY <1>1, <1>2 DEF Take, InHand, ProbeTaken, Consented, CacheTrue, Followed
<1> QED BY <1>1, <1>2, <1>3, TypesKept, SwitchesKept DEF Take

LEMMA StartKeeps == AInv /\ Start => AInv'
<1> SUFFICES ASSUME AInv, Start PROVE AInv'
  OBVIOUS
<1>1. CASE Startable
  <2>1. WorkerTyped' /\ worker' = [worker EXCEPT !.stage = "list"] /\ worker'.cmd = worker.cmd
        /\ worker'.stage = "list"
    BY <1>1 DEF Start, WorkerTyped
  <2>2. InHand'
    BY <1>1, <2>1 DEF Start, InHand, Startable, Current
  <2>3. ProbeTaken' /\ Consented' /\ CacheTrue' /\ Followed'
    BY <2>1 DEF Start, ProbeTaken, Consented, CacheTrue, Followed
  <2> QED BY <2>1, <2>2, <2>3, TypesKept, SwitchesKept DEF Start
<1>2. CASE ~Startable
  <2>1. WorkerTyped' /\ worker'.stage = "idle"
    BY <1>2 DEF Start, AtRest, WorkerTyped
  <2>2. InHand' /\ ProbeTaken' /\ Consented' /\ CacheTrue' /\ Followed'
    BY <2>1 DEF Start, InHand, ProbeTaken, Consented, CacheTrue, Followed
  <2> QED BY <2>1, <2>2, TypesKept, SwitchesKept DEF Start
<1> QED BY <1>1, <1>2

\* A step of a command that ends it, or goes on without the result.
LEMMA CommandKeeps ==
  ASSUME AInv, worker.stage \in Carried \ {"start"}, WorkerTyped', AdapterTyped',
         adapter'.discovery = Unlisted, UNCHANGED <<station, required, changed, dialog, requests>>,
         BridgeTyped', worker'.stage \in Carried \ {"start"}, worker'.cmd = worker.cmd,
         Consented',
         \A t \in Tools : had[t] \subseteq had'[t],
         station.printers # Unlisted => \A t \in Tools : bridge'.map[t] \in had'[t],
         worker'.stage = "finish" /\ worker'.result = "verified" /\ station.printers # Unlisted
           => cmd.spool \in had'[cmd.tool]
  PROVE  AInv'
<1>1. InHand' /\ ProbeTaken'
  BY DEF InHand, ProbeTaken
<1>2. CacheTrue' /\ Followed'
  BY DEF CacheTrue, Followed
<1> QED BY <1>1, <1>2, TypesKept, SwitchesKept

LEMMA FailureAdapts ==
  ASSUME AInv, worker.stage # "refresh", NEW f \in Failure
  PROVE  AfterFailure(f) \in [capable : BOOLEAN, healthy : BOOLEAN,
                              version : {"", "tested", "other"}, discovery : {Unlisted}]
BY DEF AfterFailure, ProbeTaken, AdapterTyped

LEMMA EndsTyped ==
  ASSUME AInv, NEW r \in {"odd", "verified", "asks", "down", "refused"}
  PROVE  /\ Ends(r) \in [stage : {"finish"}, cmd : Request \cup {NoRequest}, result : {r},
                         basis : Listing \cup {Unlisted}]
         /\ Ends(r).cmd = worker.cmd
BY DEF Ends, WorkerTyped

\* A step of a command that ends it with a failure.
LEMMA EndKeeps ==
  ASSUME AInv, worker.stage \in Carried \ {"start"}, AdapterTyped', adapter'.discovery = Unlisted,
         NEW r \in {"odd", "asks", "down", "refused"}, worker' = Ends(r), BridgeTyped',
         UNCHANGED <<station, required, changed, dialog, requests>>,
         \A t \in Tools : had[t] \subseteq had'[t],
         station.printers # Unlisted => \A t \in Tools : bridge'.map[t] \in had'[t]
  PROVE  AInv'
<1>1. WorkerTyped' /\ worker'.stage = "finish" /\ worker'.result = r /\ worker'.cmd = worker.cmd
  BY EndsTyped DEF WorkerTyped
<1>2. Consented'
  BY <1>1 DEF Consented
<1> QED BY <1>1, <1>2, CommandKeeps

\* What revalidate() decides.
LEMMA JudgedKeeps ==
  ASSUME AInv, worker.stage = "list", worker' = Judged(Printers), AdapterTyped',
         adapter'.discovery = Unlisted,
         UNCHANGED <<bridge, station, required, changed, dialog, requests, had>>
  PROVE  AInv'
<1>1. station.printers # Unlisted => \A t \in Tools : bridge'.map[t] \in had'[t]
  BY DEF Followed
<1>2. cmd \in Request /\ BridgeTyped'
  BY TypesKept DEF InHand
<1>3. CASE ~Matches(Printers) \/ (Printers.map[cmd.tool] # Target /\ ~Permitted(Printers))
  <2>1. PICK r \in {"odd", "asks"} : worker' = Ends(r)
    BY <1>3 DEF Judged
  <2> QED BY <1>1, <1>2, <2>1, EndKeeps
<1>4. CASE Matches(Printers) /\ Printers.map[cmd.tool] = Target
  <2>1. worker' = Ends("verified")
    BY <1>4 DEF Judged
  <2>2. WorkerTyped' /\ worker'.stage = "finish" /\ worker'.cmd = worker.cmd
    BY <2>1, EndsTyped DEF WorkerTyped
  <2>3. Consented'
    BY <2>2 DEF Consented
  <2>4. station.printers # Unlisted => cmd.spool \in had'[cmd.tool]
    BY <1>1, <1>2, <1>4 DEF Printers, Request
  <2> QED BY <1>1, <1>2, <2>2, <2>3, <2>4, CommandKeeps
<1>5. CASE Matches(Printers) /\ Printers.map[cmd.tool] # Target /\ Permitted(Printers)
  <2>1. worker' = [worker EXCEPT !.stage = "reread", !.basis = Printers]
    BY <1>5 DEF Judged
  <2>2. WorkerTyped' /\ worker'.stage = "reread" /\ worker'.cmd = worker.cmd
        /\ worker'.basis = Printers
    BY <2>1, PrintersTyped DEF WorkerTyped
  <2>3. ~cmd.old /\ (cmd.kind = "assign" => cmd.spool = station.spool)
    BY DEF InHand
  <2>4. Printers.map[cmd.tool] = cmd.occupant /\ Printers.state = cmd.state
    BY <1>5 DEF Matches
  <2>5. cmd.state # "idle" => cmd.override
    BY <1>2, <1>5, <2>4 DEF Permitted, Active, Unverified, Request, PrinterState
  <2>6. cmd.kind = "assign" /\ cmd.occupant # Nobody => cmd.replace
    BY <1>5, <2>4 DEF Permitted
  <2>7. Consented'
    BY <2>2, <2>3, <2>4, <2>5, <2>6 DEF Consented
  <2> QED BY <1>1, <1>2, <2>2, <2>7, CommandKeeps
<1> QED BY <1>3, <1>4, <1>5

LEMMA RevalidateKeeps == AInv /\ Revalidate => AInv'
<1> SUFFICES ASSUME AInv, Revalidate PROVE AInv'
  OBVIOUS
<1>1. adapter.discovery = Unlisted /\ worker.stage = "list"
  BY DEF Revalidate, ProbeTaken
<1>2. CASE \E seen \in {Printers, adapter.discovery} :
             Takes(seen, adapter') /\ worker' = Judged(seen)
  <2>1. PICK seen \in {Printers, adapter.discovery} :
          Takes(seen, adapter') /\ worker' = Judged(seen)
    BY <1>2
  <2>2. seen = Printers /\ adapter' = [adapter EXCEPT !.discovery = Unlisted]
    BY <1>1, <2>1 DEF Takes
  <2>3. AdapterTyped' /\ adapter'.discovery = Unlisted
    BY <2>2 DEF AdapterTyped
  <2> QED BY <1>1, <2>1, <2>2, <2>3, JudgedKeeps DEF Revalidate
<1>3. CASE \E f \in Failure : adapter' = AfterFailure(f) /\ worker' = Ends(f)
  <2>1. PICK f \in Failure : adapter' = AfterFailure(f) /\ worker' = Ends(f)
    BY <1>3
  <2>2. AdapterTyped' /\ adapter'.discovery = Unlisted
    BY <1>1, <2>1, FailureAdapts DEF AdapterTyped
  <2>3. f \in {"odd", "asks", "down", "refused"}
    BY DEF Failure
  <2>4. station.printers # Unlisted => \A t \in Tools : bridge'.map[t] \in had'[t]
    BY DEF Revalidate, Followed
  <2> QED BY <1>1, <2>1, <2>2, <2>3, <2>4, EndKeeps, TypesKept DEF Revalidate
<1> QED BY <1>2, <1>3 DEF Revalidate

LEMMA RereadKeeps == AInv /\ Reread => AInv'
<1> SUFFICES ASSUME AInv, Reread PROVE AInv'
  OBVIOUS
<1>1. worker.stage = "reread" /\ BridgeTyped'
  BY TypesKept DEF Reread
<1>2. station.printers # Unlisted => \A t \in Tools : bridge'.map[t] \in had'[t]
  BY DEF Reread, Followed
<1>3. CASE \E f \in Failure :
             adapter' = [AfterFailure(f) EXCEPT !.discovery = Unlisted] /\ worker' = Ends(f)
  <2>1. PICK f \in Failure :
          adapter' = [AfterFailure(f) EXCEPT !.discovery = Unlisted] /\ worker' = Ends(f)
    BY <1>3
  <2>2. AdapterTyped' /\ adapter'.discovery = Unlisted
    BY <1>1, <2>1, FailureAdapts DEF AdapterTyped
  <2>3. f \in {"odd", "asks", "down", "refused"}
    BY DEF Failure
  <2> QED BY <1>1, <1>2, <2>1, <2>2, <2>3, EndKeeps DEF Reread
<1>4. CASE /\ adapter' = [adapter EXCEPT !.discovery = Unlisted]
           /\ worker' = IF adapter.capable THEN [worker EXCEPT !.stage = "post"] ELSE Ends("odd")
  <2>1. AdapterTyped' /\ adapter'.discovery = Unlisted
    BY <1>4 DEF AdapterTyped
  <2>2. CASE worker' = Ends("odd")
    BY <1>1, <1>2, <2>1, <2>2, EndKeeps DEF Reread
  <2>3. CASE worker' = [worker EXCEPT !.stage = "post"]
    <3>1. WorkerTyped' /\ worker'.stage = "post" /\ worker'.cmd = worker.cmd
          /\ worker'.basis = worker.basis
      BY <2>3 DEF WorkerTyped
    <3>2. Consented'
      BY <1>1, <3>1 DEF Consented, Reread
    <3> QED BY <1>1, <1>2, <2>1, <3>1, <3>2, CommandKeeps DEF Reread
  <2> QED BY <1>4, <2>2, <2>3
<1> QED BY <1>3, <1>4 DEF Reread

LEMMA PostKeeps == AInv /\ Post => AInv'
<1> SUFFICES ASSUME AInv, Post PROVE AInv'
  OBVIOUS
<1>1. worker.stage = "post" /\ cmd \in Request /\ adapter.discovery = Unlisted
  BY DEF Post, InHand, ProbeTaken
<1>2. BridgeTyped'
  BY <1>1, TypesKept DEF Post, BridgeTyped, Occupancy, Request
<1>3. \A t \in Tools : had'[t] = had[t] \cup {bridge'.map[t]}
  BY DEF Post, Witnessed
<1>4. CASE worker' = [worker EXCEPT !.stage = "readback"] /\ UNCHANGED adapter
  <2>1. WorkerTyped' /\ worker'.stage = "readback" /\ worker'.cmd = worker.cmd
    BY <1>4 DEF WorkerTyped
  <2>2. Consented'
    BY <2>1 DEF Consented
  <2> QED BY <1>1, <1>2, <1>3, <1>4, <2>1, <2>2, CommandKeeps, TypesKept DEF Post
<1>5. CASE \E f \in Failure : adapter' = AfterFailure(f) /\ worker' = Ends(f)
  <2>1. PICK f \in Failure : adapter' = AfterFailure(f) /\ worker' = Ends(f)
    BY <1>5
  <2>2. AdapterTyped' /\ adapter'.discovery = Unlisted
    BY <1>1, <2>1, FailureAdapts DEF AdapterTyped
  <2>3. f \in {"odd", "asks", "down", "refused"}
    BY DEF Failure
  <2> QED BY <1>1, <1>2, <1>3, <2>1, <2>2, <2>3, EndKeeps DEF Post
<1> QED BY <1>4, <1>5 DEF Post

LEMMA ReadbackKeeps == AInv /\ Readback => AInv'
<1> SUFFICES ASSUME AInv, Readback PROVE AInv'
  OBVIOUS
<1>1. worker.stage = "readback" /\ cmd \in Request /\ adapter.discovery = Unlisted
      /\ BridgeTyped'
  BY TypesKept DEF Readback, InHand, ProbeTaken
<1>2. station.printers # Unlisted => \A t \in Tools : bridge'.map[t] \in had'[t]
  BY DEF Readback, Followed
<1>3. CASE bridge.map[cmd.tool] = Target /\ worker' = Ends("verified") /\ UNCHANGED adapter
  <2>1. WorkerTyped' /\ worker'.stage = "finish" /\ worker'.cmd = worker.cmd
    BY <1>3, EndsTyped DEF WorkerTyped
  <2>2. Consented'
    BY <2>1 DEF Consented
  <2>3. station.printers # Unlisted => cmd.spool \in had'[cmd.tool]
    BY <1>1, <1>2, <1>3 DEF Readback, Request
  <2> QED BY <1>1, <1>2, <1>3, <2>1, <2>2, <2>3, CommandKeeps, TypesKept DEF Readback
<1>4. CASE worker' = Ends("odd") /\ UNCHANGED adapter
  BY <1>1, <1>2, <1>4, EndKeeps, TypesKept DEF Readback
<1>5. CASE \E f \in Failure : adapter' = AfterFailure(f) /\ worker' = Ends(f)
  <2>1. PICK f \in Failure : adapter' = AfterFailure(f) /\ worker' = Ends(f)
    BY <1>5
  <2>2. AdapterTyped' /\ adapter'.discovery = Unlisted
    BY <1>1, <2>1, FailureAdapts DEF AdapterTyped
  <2>3. f \in {"odd", "asks", "down", "refused"}
    BY DEF Failure
  <2> QED BY <1>1, <1>2, <2>1, <2>2, <2>3, EndKeeps DEF Readback
<1> QED BY <1>3, <1>4, <1>5 DEF Readback

LEMMA FinishKeeps == AInv /\ Finish => AInv'
<1> SUFFICES ASSUME AInv, Finish PROVE AInv'
  OBVIOUS
<1>1. worker.stage = "finish" /\ cmd \in Request /\ cmd.tool \in Tools
      /\ cmd.spool \in Spools \cup {Nobody}
  BY DEF Finish, InHand, Request
<1>2. WorkerTyped' /\ worker'.stage = "idle"
  BY DEF Finish, AtRest, WorkerTyped
<1>3. CASE worker.result = "verified"
  <2>1. DialogTyped' /\ RequestsTyped'
    BY <1>3, ListFalls DEF Finish, Recorded
  <2>2. CASE station.printers = Unlisted
    <3>1. station' = station
      BY <1>3, <2>2 DEF Finish, Recorded
    <3>2. InHand' /\ ProbeTaken' /\ Consented' /\ CacheTrue' /\ Followed'
      BY <1>1, <1>2, <2>2, <3>1 DEF Finish, InHand, ProbeTaken, Consented, CacheTrue, Followed
    <3> QED BY <1>2, <2>1, <3>1, <3>2, TypesKept, SwitchesKept DEF Finish
  <2>3. CASE station.printers # Unlisted
    <3>1. station' = [station EXCEPT !.printers.map[cmd.tool] = cmd.spool]
      BY <1>3, <2>3 DEF Finish, Recorded
    <3>2. station.printers \in Listing
      BY <2>3 DEF StationTyped
    <3>3. StationTyped' /\ \A t \in Tools :
             station'.printers.map[t] = IF t = cmd.tool THEN cmd.spool ELSE station.printers.map[t]
      BY <1>1, <3>1, <3>2 DEF StationTyped, Listing, Occupancy
    <3>4. CacheTrue'
      BY <1>1, <1>3, <2>3, <3>3 DEF Finish, CacheTrue, Followed
    <3>5. InHand' /\ ProbeTaken' /\ Consented' /\ Followed'
      BY <1>1, <1>2, <2>3 DEF Finish, InHand, ProbeTaken, Consented, Followed
    <3> QED BY <1>2, <2>1, <3>3, <3>4, <3>5, TypesKept, SwitchesKept DEF Finish
  <2> QED BY <2>2, <2>3
<1>4. CASE worker.result # "verified"
  <2>1. StationTyped' /\ station'.printers = station.printers
    BY <1>4 DEF Finish, StationTyped
  <2>2. InHand' /\ ProbeTaken' /\ Consented' /\ CacheTrue' /\ Followed'
    BY <1>1, <1>2, <1>4, <2>1 DEF Finish, InHand, ProbeTaken, Consented, CacheTrue, Followed
  <2> QED BY <1>2, <1>4, <2>1, <2>2, TypesKept, SwitchesKept DEF Finish
<1> QED BY <1>3, <1>4

LEMMA AssignmentStep == AInv /\ [AssignmentNext]_assignment => AInv'
<1> SUFFICES ASSUME AInv, [AssignmentNext]_assignment PROVE AInv'
  OBVIOUS
<1> HIDE DEF AInv
<1>1. CASE UNCHANGED assignment
  BY <1>1, TypesKept, SwitchesKept
  DEF assignment, AInv, InHand, ProbeTaken, Consented, CacheTrue, Followed
<1>2. CASE AssignmentNext
  BY <1>2, ElsewhereKeeps, SettingsKeep, SpoolMovedKeeps, ShowKeeps, DismissKeeps, ConsentKeeps,
     ExpireKeeps, BeginProbeKeeps, WithoutWifiKeeps, FailsKeeps, HealthKeeps, AllKeeps,
     RefreshKeeps, TakeKeeps, StartKeeps, RevalidateKeeps, RereadKeeps, PostKeeps,
     ReadbackKeeps, FinishKeeps
  DEF AssignmentNext
<1> QED BY <1>1, <1>2

\* toolhead_assignment_service.cpp:113-138, station_workflow.cpp:305-318: a change
\* that is on its way to FilaBridge is one the user consented to.
THEOREM ChangedWithConsent == AssignmentSpec => []Consented
<1>1. AInv => Consented
  OBVIOUS
<1> QED BY <1>1, AssignmentBegins, AssignmentStep, PTL DEF AssignmentSpec

\* station_workflow.cpp:362-381: the station shows what FilaBridge had.
THEOREM ShownWasThere == AssignmentSpec => []Mirrors
<1>1. AInv => Mirrors
  BY DEF Mirrors
<1> QED BY <1>1, AssignmentBegins, AssignmentStep, PTL DEF AssignmentSpec

HIDE DEF AInv, AssignmentTyped, cmd, Target, Carried

-----------------------------------------------------------------------------
(* Scale: commands are answered for the load cell they were meant for, and    *)
(* nothing is weighed without a zero.                                         *)

\* The records have their fields, whatever numbers are in them.
SoundCal(k) ==
  k = [zero |-> k.zero, gain |-> k.gain, cell |-> k.cell] /\ k.cell \in Cells \cup {"none"}

Shaped(s) ==
  s = [state |-> s.state, ready |-> s.ready, cell |-> s.cell, cal |-> s.cal,
       pending |-> s.pending, tared |-> s.tared, moved |-> s.moved,
       correction |-> s.correction, dwell |-> s.dwell, failures |-> s.failures,
       refused |-> s.refused]

SoundService(s) ==
  /\ Shaped(s) /\ SoundCal(s.cal)
  /\ s.state \in {"uninitialized", "sampling", "disconnected", "fault"}
  /\ s.cell \in Cells /\ s.dwell \in 0 .. Hold /\ s.failures \in 0 .. FailedPolls

ServiceKept == SoundService(service)

ConfigKept ==
  config = [cell |-> config.cell, cal |-> config.cal] /\ config.cell \in Cells
  /\ SoundCal(config.cal) /\ OwnCell

FilterKept ==
  /\ filter = [raws |-> filter.raws, held |-> filter.held, plateau |-> filter.plateau,
               gross |-> filter.gross, steady |-> filter.steady, stable |-> filter.stable,
               settled |-> filter.settled, overload |-> filter.overload]
  /\ filter.raws \in Seq(Int) /\ FilterTyped

SoundSession(s) ==
  /\ s = [purpose |-> s.purpose, state |-> s.state, age |-> s.age, grams |-> s.grams]
  /\ s.purpose \in Purposes
  /\ s.state \in {"idle", "settling", "ready", "completed", "timed_out", "failed"}

SessionKept == SoundSession(session)

QueueKept == queue \in Seq(Purposes) /\ CommandsTyped

LoopKept ==
  /\ loop \in [at : {"poll", "sample", "command"}, initialized : BOOLEAN]
  /\ service.ready => loop.initialized
  /\ Measuring(session) => loop.initialized

\* A measurement is that of the command that waits for it, and at the top of
\* the loop the command's measurement runs.
Paired ==
  /\ Answerable
  /\ Measuring(session) => active = session.purpose
  /\ loop.at = "poll" /\ active # "none" => Measuring(session)

\* Without a zero there is no valid one, but while a tare is looking for it.
Zeroed ==
  /\ ~zeroed => \/ ~service.tared
                \/ service.moved /\ Measuring(session) /\ session.purpose = "tare"
  /\ Measuring(session) /\ session.purpose = "weigh" => zeroed

SInv ==
  /\ load \in Loads /\ ChipTyped /\ ConfigKept /\ ServiceKept /\ FilterKept /\ SessionKept
  /\ LoopKept /\ QueueKept /\ Paired /\ Zeroed

LEMMA NoneSound == SoundCal(None) /\ None.cell = "none"
BY DEF SoundCal, None

\* A service whose plain fields change.
LEMMA ServiceMade ==
  ASSUME NEW s, SoundService(s), NEW t,
         NEW state \in {"uninitialized", "sampling", "disconnected", "fault"},
         NEW ready, NEW cal, SoundCal(cal), NEW pending, NEW tared, NEW moved, NEW correction,
         NEW dwell \in 0 .. Hold, NEW failures \in 0 .. FailedPolls, NEW refused,
         t = [state |-> state, ready |-> ready, cell |-> s.cell, cal |-> cal,
              pending |-> pending, tared |-> tared, moved |-> moved, correction |-> correction,
              dwell |-> dwell, failures |-> failures, refused |-> refused]
  PROVE  SoundService(t)
<1>1. Shaped(t)
  BY DEF Shaped
<1>2. t.cal = cal /\ t.state = state /\ t.cell = s.cell /\ t.dwell = dwell /\ t.failures = failures
  OBVIOUS
<1> QED BY <1>1, <1>2 DEF SoundService

LEMMA InvalidatedSound ==
  ASSUME NEW s, SoundService(s)
  PROVE  /\ SoundService(Invalidated(s)) /\ Invalidated(s).cal = s.cal
         /\ Invalidated(s).ready = s.ready /\ Invalidated(s).cell = s.cell
         /\ Invalidated(s).state = s.state /\ Invalidated(s).failures = s.failures
         /\ Invalidated(s).tared => s.tared /\ ~s.moved
<1>1. CASE s.moved
  <2>1. Invalidated(s) = [state |-> s.state, ready |-> s.ready, cell |-> s.cell, cal |-> s.cal,
          pending |-> s.pending, tared |-> FALSE, moved |-> FALSE, correction |-> s.correction,
          dwell |-> s.dwell, failures |-> s.failures, refused |-> s.refused]
    BY <1>1 DEF Invalidated, SoundService, Shaped
  <2> HIDE DEF Invalidated
  <2>2. SoundService(Invalidated(s))
    BY <2>1, ServiceMade DEF SoundService
  <2> QED BY <2>1, <2>2
<1>2. CASE ~s.moved
  BY <1>2 DEF Invalidated
<1> QED BY <1>1, <1>2

LEMMA LoadedSound ==
  ASSUME NEW cell \in Cells, ConfigKept
  PROVE  SoundService(Loaded(cell)) /\ Loaded(cell).cell = cell /\ Loaded(cell).ready = FALSE
<1> DEFINE cal == IF config.cal.cell = cell THEN config.cal ELSE None
<1>1. SoundCal(cal)
  BY NoneSound DEF ConfigKept
<1>2. Loaded(cell) = [state |-> "uninitialized", ready |-> FALSE, cell |-> cell, cal |-> cal,
        pending |-> IF cal # None THEN cal.zero ELSE NoCount, tared |-> cal # None,
        moved |-> FALSE, correction |-> 0, dwell |-> 0, failures |-> 0,
        refused |-> service.refused]
  <2>1. Loaded(cell) = [Fresh(cell) EXCEPT !.refused = service.refused, !.cal = cal,
          !.tared = cal # None, !.pending = IF cal # None THEN cal.zero ELSE NoCount]
    BY DEF Loaded
  <2> HIDE DEF cal
  <2> QED BY <2>1 DEF Fresh
<1>3. Shaped(Loaded(cell)) /\ Loaded(cell).cal = cal /\ Loaded(cell).cell = cell
      /\ Loaded(cell).state = "uninitialized" /\ Loaded(cell).dwell = 0
      /\ Loaded(cell).failures = 0 /\ Loaded(cell).ready = FALSE
  <2> HIDE DEF cal
  <2> QED BY <1>2 DEF Shaped
<1>4. 0 \in 0 .. Hold /\ 0 \in 0 .. FailedPolls
  BY FilterAssumption, CountAssumption
<1> QED BY <1>1, <1>3, <1>4 DEF SoundService

LEMMA FollowsSound ==
  ASSUME NEW s, SoundService(s), NEW mean, NEW steady \in BOOLEAN, NEW measuring \in BOOLEAN
  PROVE  LET t == Follows(s, mean, steady, measuring)
         IN  SoundService(t) /\ t.cal = s.cal /\ t.tared = s.tared /\ t.moved = s.moved
             /\ t.cell = s.cell /\ t.ready = s.ready
<1> DEFINE t == Follows(s, mean, steady, measuring)
<1>1. \E c : \E d \in 0 .. Hold : t = [s EXCEPT !.correction = c, !.dwell = d]
                                  \/ t = [s EXCEPT !.dwell = d]
  <2>1. 0 \in 0 .. Hold /\ 1 \in 0 .. Hold /\ (s.dwell < Hold => s.dwell + 1 \in 0 .. Hold)
    BY FilterAssumption DEF SoundService
  <2>2. CASE s.cal = None
    BY <2>1, <2>2 DEF Follows
  <2>3. CASE s.cal # None
    <3> DEFINE near == \A c \in {mean - s.cal.zero, mean - s.cal.zero - s.correction} :
                         Abs(Grams(s.cal, c)) <= Deadband
    <3>1. CASE measuring \/ ~steady \/ ~near
      BY <2>1, <2>3, <3>1 DEF Follows
    <3>2. CASE ~(measuring \/ ~steady \/ ~near)
      <4>1. CASE s.dwell < Hold
        BY <2>1, <2>3, <3>2, <4>1 DEF Follows
      <4>2. CASE ~(s.dwell < Hold)
        <5>1. PICK c : t = [s EXCEPT !.dwell = 1, !.correction = c]
          BY <2>3, <3>2, <4>2 DEF Follows
        <5>2. [s EXCEPT !.dwell = 1, !.correction = c] = [s EXCEPT !.correction = c, !.dwell = 1]
          OBVIOUS
        <5> QED BY <2>1, <5>1, <5>2
      <4> QED BY <4>1, <4>2
    <3> QED BY <3>1, <3>2
  <2> QED BY <2>2, <2>3
<1> HIDE DEF t
<1>2. PICK e, d : /\ d \in 0 .. Hold
                  /\ t = [state |-> s.state, ready |-> s.ready, cell |-> s.cell, cal |-> s.cal,
                          pending |-> s.pending, tared |-> s.tared, moved |-> s.moved,
                          correction |-> e, dwell |-> d, failures |-> s.failures,
                          refused |-> s.refused]
  <2>1. PICK c : \E d \in 0 .. Hold : t = [s EXCEPT !.correction = c, !.dwell = d]
                                      \/ t = [s EXCEPT !.dwell = d]
    BY <1>1
  <2>2. PICK d \in 0 .. Hold : t = [s EXCEPT !.correction = c, !.dwell = d]
                               \/ t = [s EXCEPT !.dwell = d]
    BY <2>1
  <2>3. s = [state |-> s.state, ready |-> s.ready, cell |-> s.cell, cal |-> s.cal,
             pending |-> s.pending, tared |-> s.tared, moved |-> s.moved,
             correction |-> s.correction, dwell |-> s.dwell, failures |-> s.failures,
             refused |-> s.refused]
    BY DEF SoundService, Shaped
  <2>4. CASE t = [s EXCEPT !.correction = c, !.dwell = d]
    BY <2>3, <2>4
  <2>5. CASE t = [s EXCEPT !.dwell = d]
    BY <2>3, <2>5
  <2> QED BY <2>2, <2>4, <2>5
<1>3. SoundService(t)
  BY <1>2, ServiceMade DEF SoundService
<1>4. t.cal = s.cal /\ t.tared = s.tared /\ t.moved = s.moved /\ t.cell = s.cell
      /\ t.ready = s.ready
  BY <1>2
<1> QED BY <1>3, <1>4 DEF t

USE DEF SInv, ServiceKept, SessionKept

LEMMA ScaleBegins == ScaleInit => SInv
<1> SUFFICES ASSUME ScaleInit PROVE SInv
  OBVIOUS
<1>1. load \in Loads /\ ChipTyped
  BY LoadAssumption DEF ScaleInit, ChipTyped
<1>2. PICK c \in Cells :
        /\ config \in {[cell |-> c, cal |-> k] :
                   k \in {None} \cup {[zero |-> chip.offset, gain |-> Reference, cell |-> b] :
                                      b \in {c} \cap {d \in Cells : Reference <= Capacity[d]}}}
        /\ service = Fresh(c)
  BY DEF ScaleInit
<1>3. ConfigKept
  <2>1. PICK k : /\ config = [cell |-> c, cal |-> k]
                 /\ k = None \/ k = [zero |-> chip.offset, gain |-> Reference, cell |-> c]
    BY <1>2
  <2>2. SoundCal(k)
    BY <2>1, NoneSound DEF SoundCal
  <2>3. k # None => k.cell = c
    BY <2>1
  <2> QED BY <2>1, <2>2, <2>3 DEF ConfigKept, OwnCell
<1>4. ServiceKept /\ service.ready = FALSE /\ service.cell = c
  <2>1. 0 \in 0 .. Hold /\ 0 \in 0 .. FailedPolls
    BY FilterAssumption, CountAssumption
  <2>2. Shaped(service) /\ service.cal = None /\ service.cell = c /\ service.ready = FALSE
        /\ service.state = "uninitialized" /\ service.dwell = 0 /\ service.failures = 0
    BY <1>2 DEF Fresh, Shaped
  <2> QED BY <2>1, <2>2, NoneSound DEF SoundService
<1>5. FilterKept
  BY FilterAssumption DEF ScaleInit, EmptyFilter, FilterKept, FilterTyped
<1>6. SessionKept /\ session.state = "idle"
  BY DEF ScaleInit, Idle, SoundSession, Purposes
<1>7. QueueKept
  BY CountAssumption DEF ScaleInit, QueueKept, CommandsTyped, Purposes
<1>8. LoopKept
  BY <1>4, <1>6 DEF ScaleInit, LoopKept, Measuring
<1>9. Paired /\ Zeroed
  BY <1>6 DEF ScaleInit, Paired, Answerable, Zeroed, Measuring
<1> QED BY <1>1, <1>3, <1>4, <1>5, <1>6, <1>7, <1>8, <1>9

LEMMA EmptyFilterSound == filter' = EmptyFilter => FilterKept'
BY FilterAssumption DEF EmptyFilter, FilterKept, FilterTyped

LEMMA IdleSound == SoundSession(Idle) /\ Idle.state = "idle"
BY DEF Idle, SoundSession, Purposes

LEMMA InitializeKeeps ==
  ASSUME SInv, NEW was, NEW cell \in Cells, NEW s, SoundSession(s),
         NEW then \in {"sample", "command"}, Initialize(was, cell, s, then),
         active # "none" => Outlives(was, s)
  PROVE  SInv'
<1>1. load' \in Loads /\ ConfigKept' /\ QueueKept'
  BY DEF Initialize, bounds, ConfigKept, OwnCell, QueueKept, CommandsTyped
<1>2. FilterKept'
  BY EmptyFilterSound DEF Initialize
<1>3. SessionKept' /\ ~Measuring(session)' /\ (active # "none" => session'.state = "failed")
  <2>1. CASE Outlives(was, s)
    <3>1. session' = [s EXCEPT !.grams = NoGrams] /\ s.state = "failed"
      BY <2>1 DEF Initialize, Outlives
    <3>2. SoundSession(session') /\ session'.state = "failed"
      BY <3>1 DEF SoundSession
    <3> QED BY <3>2 DEF Measuring
  <2>2. CASE ~Outlives(was, s)
    BY <2>2, IdleSound DEF Initialize, Measuring
  <2> QED BY <2>1, <2>2
<1>4. ChipTyped'
  <2>1. CASE UNCHANGED chip
    BY <2>1 DEF ChipTyped
  <2>2. CASE \E o \in Offsets :
               chip' = [powered |-> chip.powered \/ ~chip.initialized, offset |-> o,
                        initialized |-> TRUE]
    BY <2>2 DEF ChipTyped
  <2> QED BY <2>1, <2>2 DEF Initialize
<1>5. PICK state \in {"sampling", "disconnected", "fault"}, ready \in BOOLEAN,
           next \in {then, "command"} :
        /\ service' = [Loaded(cell) EXCEPT !.state = state, !.ready = ready]
        /\ loop' = [at |-> next, initialized |-> ready]
  <2>1. CASE service' = [Loaded(cell) EXCEPT !.state = "sampling", !.ready = TRUE]
              /\ loop' = [at |-> then, initialized |-> TRUE]
    BY <2>1
  <2>2. ASSUME NEW state \in {"disconnected", "fault"},
               service' = [Loaded(cell) EXCEPT !.state = state],
               loop' = [at |-> "command", initialized |-> FALSE]
        PROVE  /\ service' = [Loaded(cell) EXCEPT !.state = state, !.ready = FALSE]
               /\ loop' = [at |-> "command", initialized |-> FALSE]
    <3>1. Shaped(Loaded(cell)) /\ Loaded(cell).ready = FALSE
      BY LoadedSound DEF SoundService
    <3> HIDE DEF Loaded
    <3> QED BY <2>2, <3>1 DEF Shaped
  <2>3. CASE service' = [Loaded(cell) EXCEPT !.state = "disconnected"]
              /\ loop' = [at |-> "command", initialized |-> FALSE]
    BY <2>2, <2>3
  <2>4. CASE service' = [Loaded(cell) EXCEPT !.state = "fault"]
              /\ loop' = [at |-> "command", initialized |-> FALSE]
    BY <2>2, <2>4
  <2> QED BY <2>1, <2>3, <2>4 DEF Initialize
<1>6. ServiceKept' /\ service'.ready = ready
  <2> DEFINE L == Loaded(cell)
  <2>1. SoundService(L)
    BY LoadedSound
  <2>2. service' = [L EXCEPT !.state = state, !.ready = ready]
    BY <1>5
  <2> HIDE DEF L
  <2>3. service' = [state |-> state, ready |-> ready, cell |-> L.cell, cal |-> L.cal,
          pending |-> L.pending, tared |-> L.tared, moved |-> L.moved,
          correction |-> L.correction, dwell |-> L.dwell, failures |-> L.failures,
          refused |-> L.refused]
    BY <2>1, <2>2 DEF SoundService, Shaped
  <2>4. SoundService(service')
    BY <2>1, <2>3, ServiceMade DEF SoundService
  <2> QED BY <2>3, <2>4
<1>7. LoopKept'
  BY <1>3, <1>5, <1>6 DEF LoopKept
<1>8. Paired' /\ Zeroed'
  BY <1>3, <1>5 DEF Initialize, Paired, Answerable, Zeroed
<1> QED BY <1>1, <1>2, <1>3, <1>4, <1>6, <1>7, <1>8

LEMMA ReconfigureKeeps == SInv /\ Reconfigure => SInv'
<1> SUFFICES ASSUME SInv, Reconfigure PROVE SInv'
  OBVIOUS
<1> DEFINE s == IF Measuring(session) THEN [session EXCEPT !.state = "failed"] ELSE Idle
<1>1. config.cell \in Cells /\ loop.at = "poll"
  BY DEF Reconfigure, ConfigKept
<1>2. SoundSession(s) /\ (Measuring(session) => s.state = "failed")
  BY IdleSound DEF SoundSession
<1>3. active # "none" => Outlives("uninitialized", s)
  BY <1>1, <1>2 DEF Paired, Outlives
<1>4. Initialize("uninitialized", config.cell, s, "sample")
  BY DEF Reconfigure
<1> HIDE DEF s
<1> QED BY <1>1, <1>2, <1>3, <1>4, InitializeKeeps

LEMMA RetryKeeps == SInv /\ Retry => SInv'
<1> SUFFICES ASSUME SInv, Retry PROVE SInv'
  OBVIOUS
<1>1. service.cell \in Cells /\ loop.at = "poll" /\ ~loop.initialized
  BY DEF Retry, SoundService
<1>2. active = "none"
  BY <1>1 DEF LoopKept, Paired
<1>3. Initialize(service.state, service.cell, session, "command")
  BY DEF Retry
<1> QED BY <1>1, <1>2, <1>3, InitializeKeeps

LEMMA NewestSound ==
  ASSUME NEW raws \in Seq(Int), Len(raws) <= Window, NEW x \in Int
  PROVE  Newest(Append(raws, x)) \in Seq(Int) /\ Len(Newest(Append(raws, x))) <= Window
<1>1. Append(raws, x) \in Seq(Int) /\ Len(Append(raws, x)) = Len(raws) + 1
  BY AppendProperties
<1> DEFINE t == Append(raws, x)
<1>2. t \in Seq(Int) /\ Len(t) \in Nat /\ Len(t) <= Window + 1 /\ Len(t) >= 1
  BY <1>1, FilterAssumption
<1> HIDE DEF t
<1>3. CASE Len(t) > Window
  <2>1. Newest(t) = SubSeq(t, 2, Len(t))
    BY <1>3 DEF Newest
  <2>2. 2 \in 1 .. Len(t) + 1 /\ Len(t) \in 2 - 1 .. Len(t)
    BY <1>2, <1>3, FilterAssumption
  <2>3. /\ SubSeq(t, 2, Len(t)) \in Seq(Int)
        /\ Len(SubSeq(t, 2, Len(t))) = IF 2 <= Len(t) THEN Len(t) - 2 + 1 ELSE 0
    BY <1>2, <2>2, SubSeqProperties
  <2> QED BY <1>2, <1>3, <2>1, <2>3, FilterAssumption DEF t
<1>4. CASE ~(Len(t) > Window)
  <2>1. Newest(t) = SubSeq(t, 1, Len(t))
    BY <1>4 DEF Newest
  <2>2. SubSeq(t, 1, Len(t)) \in Seq(Int) /\ Len(SubSeq(t, 1, Len(t))) = Len(t)
    BY <1>2, SubSeqProperties
  <2> QED BY <1>2, <1>4, <2>1, <2>2, FilterAssumption DEF t
<1> QED BY <1>3, <1>4

LEMMA SampleKeeps == SInv /\ Sample => SInv'
<1> SUFFICES ASSUME SInv, Sample PROVE SInv'
  OBVIOUS
<1>1. load' \in Loads /\ ChipTyped' /\ ConfigKept' /\ QueueKept'
  BY DEF Sample, bounds, ChipTyped, ConfigKept, OwnCell, QueueKept, CommandsTyped
<1> DEFINE raws == Newest(Append(filter.raws, load + chip.offset))
           went == [service EXCEPT !.failures = 0, !.state = "sampling"]
           s == Follows(went, Mean(raws), Uniform(raws), Measuring(session))
           f == Pushed(s, raws)
<1>2. raws \in Seq(Int) /\ Len(raws) <= Window
  <2>1. load + chip.offset \in Int
    <3>1. load \in Nat
      BY LoadAssumption
    <3>2. chip.offset \in Nat
      BY LoadAssumption DEF ChipTyped
    <3> QED BY <3>1, <3>2
  <2> QED BY <2>1, NewestSound DEF FilterKept, FilterTyped
<1>3. SoundService(went) /\ went.tared = service.tared /\ went.moved = service.moved
      /\ went.ready = service.ready
  <2>1. went = [state |-> "sampling", ready |-> service.ready, cell |-> service.cell,
          cal |-> service.cal, pending |-> service.pending, tared |-> service.tared,
          moved |-> service.moved, correction |-> service.correction,
          dwell |-> service.dwell, failures |-> 0, refused |-> service.refused]
    <3>1. Shaped(service)
      BY DEF SoundService
    <3> DEFINE fresh == [service EXCEPT !.failures = 0]
    <3>2. fresh = [state |-> service.state, ready |-> service.ready, cell |-> service.cell,
            cal |-> service.cal, pending |-> service.pending, tared |-> service.tared,
            moved |-> service.moved, correction |-> service.correction,
            dwell |-> service.dwell, failures |-> 0, refused |-> service.refused]
      BY <3>1 DEF Shaped
    <3>3. went = [fresh EXCEPT !.state = "sampling"]
      OBVIOUS
    <3> HIDE DEF fresh, went
    <3> QED BY <3>2, <3>3
  <2> HIDE DEF went
  <2>2. 0 \in 0 .. FailedPolls
    BY CountAssumption
  <2>3. SoundService(went)
    BY <2>1, <2>2, ServiceMade DEF SoundService
  <2> QED BY <2>1, <2>3
<1>4. SoundService(s) /\ s.tared = service.tared /\ s.moved = service.moved
      /\ s.ready = service.ready
  <2>1. Uniform(raws) \in BOOLEAN /\ Measuring(session) \in BOOLEAN
    BY DEF Uniform, Measuring
  <2> DEFINE mean == Mean(raws)
             steady == Uniform(raws)
             measuring == Measuring(session)
  <2> HIDE DEF went, mean, steady, measuring
  <2>2. LET t == Follows(went, mean, steady, measuring)
        IN  SoundService(t) /\ t.tared = went.tared /\ t.moved = went.moved
            /\ t.ready = went.ready
    BY <1>3, <2>1, FollowsSound DEF steady, measuring
  <2>3. s = Follows(went, mean, steady, measuring)
    BY DEF mean, steady, measuring
  <2> HIDE DEF s
  <2> QED BY <1>3, <2>2, <2>3
<1>5. filter' = f /\ Advanced(f, s)
  BY DEF Sample
<1>6. FilterKept'
  <2>1. f = [raws |-> f.raws, held |-> f.held, plateau |-> f.plateau, gross |-> f.gross,
             steady |-> f.steady, stable |-> f.stable, settled |-> f.settled,
             overload |-> f.overload] /\ f.raws = raws
    <3> HIDE DEF s, raws
    <3> QED BY DEF Pushed
  <2> HIDE DEF f, raws
  <2> QED BY <1>2, <1>5, <2>1 DEF FilterKept, FilterTyped
<1> HIDE DEF f, s
<1>7. /\ SessionKept' /\ session'.purpose = session.purpose
      /\ Measuring(session)' => Measuring(session)
      /\ Measuring(session) /\ ~Measuring(session)' =>
           \/ session'.state = "timed_out"
           \/ session'.state = "completed" /\ session.purpose = "weigh"
      /\ ~Measuring(session) => session' = session
  BY <1>5 DEF Advanced, SoundSession, Measuring
<1>8. /\ ServiceKept' /\ service'.ready = service.ready
      /\ service' = s \/ service' = Invalidated(s)
      /\ Measuring(session) /\ ~Measuring(session)' /\ session.purpose # "weigh"
           => service' = Invalidated(s)
  BY <1>4, <1>5, InvalidatedSound DEF Advanced, SoundSession, Measuring
<1>9. LoopKept' /\ loop'.at = "command"
  BY <1>7, <1>8 DEF Sample, Polls, Goes, LoopKept
<1>10. Paired'
  BY <1>7, <1>9 DEF Sample, Paired, Answerable
<1>11. Zeroed'
  <2>1. zeroed' = zeroed
    BY DEF Sample
  <2>2. CASE service' = s /\ ~(service' = Invalidated(s))
    <3>1. service'.tared = service.tared /\ service'.moved = service.moved
      BY <1>4, <2>2
    <3>2. Measuring(session) /\ session.purpose # "weigh" => Measuring(session)'
      BY <1>8, <2>2
    <3> QED BY <1>7, <2>1, <3>1, <3>2 DEF Zeroed
  <2>3. CASE service' = Invalidated(s)
    BY <1>4, <1>7, <2>1, <2>3, InvalidatedSound DEF Zeroed
  <2> QED BY <1>8, <2>2, <2>3
<1> QED BY <1>1, <1>6, <1>7, <1>8, <1>9, <1>10, <1>11

LEMMA FailedSound ==
  ASSUME NEW s, SoundSession(s)
  PROVE  /\ SoundSession(Failed(s)) /\ Failed(s).purpose = s.purpose
         /\ Measuring(s) => Failed(s).state = "failed"
         /\ ~Measuring(s) => Failed(s) = s
         /\ ~Measuring(Failed(s))
BY DEF Failed, SoundSession, Measuring

LEMMA PollFailsKeeps == SInv /\ PollFails => SInv'
<1> SUFFICES ASSUME SInv, PollFails PROVE SInv'
  OBVIOUS
<1>1. load' \in Loads /\ ChipTyped' /\ ConfigKept' /\ QueueKept'
  BY DEF PollFails, bounds, ChipTyped, ConfigKept, OwnCell, QueueKept, CommandsTyped
<1>2. FilterKept'
  BY DEF PollFails, FilterKept, FilterTyped
<1>3. SessionKept' /\ ~Measuring(session)' /\ (~Measuring(session) => session' = session)
      /\ (Measuring(session) => session'.state = "failed")
  BY FailedSound DEF PollFails, Measuring
<1> DEFINE s == IF Measuring(session) THEN Invalidated(service) ELSE service
           lost == service.failures + 1 >= FailedPolls
<1>4. SoundService(s) /\ s.failures = service.failures
      /\ (s.tared => service.tared) /\ (Measuring(session) /\ s.tared => ~service.moved)
      /\ (~Measuring(session) => s = service)
  BY InvalidatedSound
<1>5. PICK n \in 0 .. FailedPolls :
        /\ service' = [s EXCEPT !.failures = n, !.state = "disconnected", !.ready = ~lost]
        /\ loop' = [at |-> "command", initialized |-> ~lost]
  <2>1. lost \in BOOLEAN /\ (IF lost THEN FailedPolls ELSE s.failures + 1) \in 0 .. FailedPolls
    BY <1>4, CountAssumption DEF SoundService
  <2>2. /\ service' = [s EXCEPT !.failures = IF lost THEN FailedPolls ELSE @ + 1,
                                !.state = "disconnected", !.ready = ~lost]
        /\ loop' = [at |-> "command", initialized |-> ~lost]
    BY DEF PollFails
  <2> QED BY <2>1, <2>2
<1>6. ServiceKept' /\ service'.ready = ~lost /\ service'.tared = s.tared
      /\ service'.moved = s.moved
  <2> HIDE DEF s
  <2>1. service' = [state |-> "disconnected", ready |-> ~lost, cell |-> s.cell, cal |-> s.cal,
          pending |-> s.pending, tared |-> s.tared, moved |-> s.moved,
          correction |-> s.correction, dwell |-> s.dwell, failures |-> n,
          refused |-> s.refused]
    BY <1>4, <1>5 DEF SoundService, Shaped
  <2>2. SoundService(service')
    BY <1>4, <2>1, ServiceMade DEF SoundService
  <2> QED BY <2>1, <2>2
<1> HIDE DEF s, lost
<1>7. LoopKept' /\ loop'.at = "command"
  <2>1. lost \in BOOLEAN
    BY DEF lost
  <2> QED BY <1>3, <1>5, <1>6, <2>1 DEF LoopKept
<1>8. Paired'
  BY <1>3, <1>7 DEF PollFails, Paired, Answerable
<1>9. Zeroed'
  BY <1>3, <1>4, <1>6 DEF PollFails, Zeroed
<1> QED BY <1>1, <1>2, <1>3, <1>6, <1>7, <1>8, <1>9

\* What an action leaves that changes only where the loop is, or what waits.
LEMMA ScaleQuiet ==
  ASSUME SInv, UNCHANGED <<service, filter, session, zeroed>>, load' \in Loads, ChipTyped',
         ConfigKept', LoopKept', QueueKept', Paired'
  PROVE  SInv'
<1>1. ServiceKept' /\ FilterKept' /\ SessionKept'
  BY DEF FilterKept, FilterTyped
<1>2. Zeroed'
  BY DEF Zeroed, Measuring
<1> QED BY <1>1, <1>2

LEMMA WaitsKeeps == SInv /\ Waits => SInv'
<1> SUFFICES ASSUME SInv, Waits PROVE SInv'
  OBVIOUS
<1> USE DEF Waits, Goes, bounds
<1>1. ChipTyped' /\ ConfigKept' /\ QueueKept'
  BY DEF ChipTyped, ConfigKept, OwnCell, QueueKept, CommandsTyped
<1>2. LoopKept' /\ Paired'
  BY DEF LoopKept, Paired, Answerable, Measuring
<1> QED BY <1>1, <1>2, ScaleQuiet

LEMMA MoveKeeps == SInv /\ Move => SInv'
<1> SUFFICES ASSUME SInv, Move PROVE SInv'
  OBVIOUS
<1> USE DEF Move
<1>1. ChipTyped' /\ ConfigKept' /\ QueueKept' /\ load' \in Loads
  BY DEF ChipTyped, ConfigKept, OwnCell, QueueKept, CommandsTyped
<1>2. LoopKept' /\ Paired'
  BY DEF LoopKept, Paired, Answerable, Measuring
<1> QED BY <1>1, <1>2, ScaleQuiet

LEMMA ProfileKeeps == SInv /\ ChangeProfile => SInv'
<1> SUFFICES ASSUME SInv, ChangeProfile PROVE SInv'
  OBVIOUS
<1> USE DEF ChangeProfile
<1>1. PICK c \in Cells : config' = [cell |-> c, cal |-> None]
  OBVIOUS
<1>2. ConfigKept'
  BY <1>1, NoneSound DEF ConfigKept, OwnCell
<1>3. ChipTyped' /\ QueueKept'
  BY DEF ChipTyped, QueueKept, CommandsTyped
<1>4. LoopKept' /\ Paired'
  BY DEF LoopKept, Paired, Answerable, Measuring
<1> QED BY <1>2, <1>3, <1>4, ScaleQuiet

LEMMA BrownoutKeeps == SInv /\ Brownout => SInv'
<1> SUFFICES ASSUME SInv, Brownout PROVE SInv'
  OBVIOUS
<1> USE DEF Brownout, bounds
<1>1. ChipTyped' /\ ConfigKept' /\ QueueKept'
  BY DEF ChipTyped, ConfigKept, OwnCell, QueueKept, CommandsTyped
<1>2. LoopKept' /\ Paired'
  BY DEF LoopKept, Paired, Answerable, Measuring
<1> QED BY <1>1, <1>2, ScaleQuiet

LEMMA SubmitKeeps == SInv /\ Submit => SInv'
<1> SUFFICES ASSUME SInv, Submit PROVE SInv'
  OBVIOUS
<1> USE DEF Submit
<1>1. PICK p \in Purposes : queue' = Append(queue, p)
  OBVIOUS
<1>2. queue' \in Seq(Purposes) /\ Len(queue') <= MaxQueue
  BY <1>1, CountAssumption DEF QueueKept
<1>3. ChipTyped' /\ ConfigKept' /\ QueueKept'
  BY <1>2 DEF ChipTyped, ConfigKept, OwnCell, QueueKept, CommandsTyped
<1>4. LoopKept' /\ Paired'
  BY DEF LoopKept, Paired, Answerable, Measuring
<1> QED BY <1>3, <1>4, ScaleQuiet

LEMMA NothingKeeps == SInv /\ Nothing => SInv'
<1> SUFFICES ASSUME SInv, Nothing PROVE SInv'
  OBVIOUS
<1> USE DEF Nothing, Processes, bounds
<1>1. ChipTyped' /\ ConfigKept' /\ QueueKept'
  BY DEF ChipTyped, ConfigKept, OwnCell, QueueKept, CommandsTyped
<1>2. LoopKept' /\ Paired'
  BY DEF LoopKept, Paired, Answerable, Measuring
<1> QED BY <1>1, <1>2, ScaleQuiet

LEMMA AnswerEndKeeps == SInv /\ AnswerEnd => SInv'
<1> SUFFICES ASSUME SInv, AnswerEnd PROVE SInv'
  OBVIOUS
<1> USE DEF AnswerEnd, Processes, bounds
<1>1. ChipTyped' /\ ConfigKept' /\ QueueKept'
  BY DEF ChipTyped, ConfigKept, OwnCell, QueueKept, CommandsTyped
<1>2. LoopKept' /\ Paired'
  BY DEF LoopKept, Paired, Answerable, Measuring
<1> QED BY <1>1, <1>2, ScaleQuiet

LEMMA QueueTaken ==
  ASSUME QueueKept, queue # <<>>
  PROVE  Head(queue) \in Purposes /\ Tail(queue) \in Seq(Purposes) /\ Len(Tail(queue)) <= MaxQueue
BY CountAssumption, HeadTailProperties DEF QueueKept, CommandsTyped

LEMMA DropKeeps == SInv /\ Drop => SInv'
<1> SUFFICES ASSUME SInv, Drop PROVE SInv'
  OBVIOUS
<1> USE DEF Drop, Processes, bounds
<1>1. ChipTyped' /\ ConfigKept'
  BY DEF ChipTyped, ConfigKept, OwnCell
<1>2. QueueKept'
  BY QueueTaken DEF QueueKept, CommandsTyped
<1>3. LoopKept' /\ Paired'
  BY DEF LoopKept, Paired, Answerable, Measuring
<1> QED BY <1>1, <1>2, <1>3, ScaleQuiet

LEMMA BeginKeeps == SInv /\ Begin => SInv'
<1> SUFFICES ASSUME SInv, Begin PROVE SInv'
  OBVIOUS
<1>1. load' \in Loads /\ ConfigKept'
  BY DEF Begin, ConfigKept, OwnCell
<1>2. Head(queue) \in Purposes /\ QueueKept' /\ active' = Head(queue)
  BY QueueTaken DEF Begin, QueueKept, CommandsTyped
<1>3. SessionKept' /\ session'.purpose = Head(queue) /\ session'.state = "settling"
  BY <1>2 DEF Begin, Starts, SoundSession
<1>4. FilterKept'
  BY EmptyFilterSound DEF Begin
<1>5. CASE Head(queue) = "tare"
  <2>1. /\ service' = [service EXCEPT !.refused = FALSE, !.moved = TRUE]
        /\ zeroed' = FALSE
        /\ \E o \in Offsets : chip' = [chip EXCEPT !.offset = o]
    BY <1>5 DEF Begin
  <2>2. ChipTyped'
    BY <2>1 DEF ChipTyped
  <2>3. service' = [state |-> service.state, ready |-> service.ready, cell |-> service.cell,
          cal |-> service.cal, pending |-> service.pending, tared |-> service.tared,
          moved |-> TRUE, correction |-> service.correction, dwell |-> service.dwell,
          failures |-> service.failures, refused |-> FALSE]
    <3>1. Shaped(service)
      BY DEF SoundService
    <3> QED BY <2>1, <3>1 DEF Shaped
  <2>4. ServiceKept'
    BY <2>3, ServiceMade DEF SoundService
  <2>5. LoopKept'
    BY <1>3, <2>3 DEF Begin, Processes, LoopKept
  <2>6. Paired'
    BY <1>2, <1>3 DEF Paired, Answerable, Measuring
  <2>7. Zeroed'
    BY <1>3, <1>5, <2>3 DEF Zeroed, Measuring
  <2> QED BY <1>1, <1>2, <1>3, <1>4, <2>2, <2>4, <2>5, <2>6, <2>7
<1>6. CASE Head(queue) # "tare"
  <2>1. /\ UNCHANGED <<service, chip, zeroed>>
        /\ Head(queue) = "weigh" => service.tared
    BY <1>2, <1>6 DEF Begin, Purposes
  <2>2. ServiceKept' /\ ChipTyped'
    BY <2>1 DEF ChipTyped
  <2>3. LoopKept'
    BY <1>3, <2>1 DEF Begin, Processes, LoopKept
  <2>4. Paired'
    BY <1>2, <1>3 DEF Paired, Answerable, Measuring
  <2>5. ~zeroed => ~service.tared
    BY DEF Begin, Zeroed
  <2>6. Zeroed'
    BY <1>3, <2>1, <2>5 DEF Zeroed
  <2> QED BY <1>1, <1>2, <1>3, <1>4, <2>2, <2>3, <2>4, <2>6
<1> QED BY <1>5, <1>6

LEMMA RefuseKeeps == SInv /\ Refuse => SInv'
<1> SUFFICES ASSUME SInv, Refuse PROVE SInv'
  OBVIOUS
<1>1. load' \in Loads /\ ConfigKept'
  BY DEF Refuse, bounds, ConfigKept, OwnCell
<1>2. QueueKept'
  BY QueueTaken DEF Refuse, QueueKept, CommandsTyped
<1>3. FilterKept' /\ SessionKept'
  BY DEF Refuse, FilterKept, FilterTyped
<1>4. ChipTyped'
  <2>1. CASE UNCHANGED chip
    BY <2>1 DEF ChipTyped
  <2>2. CASE \E o \in Offsets : chip' = [chip EXCEPT !.offset = o]
    BY <2>2 DEF ChipTyped
  <2> QED BY <2>1, <2>2 DEF Refuse
<1>5. ~Measuring(session)
  BY DEF Refuse, Paired, SoundSession, Purposes
<1>6. /\ ServiceKept' /\ service'.ready = service.ready
      /\ \/ zeroed' = zeroed /\ service'.tared = service.tared
         \/ ~service'.tared
  <2>0. Shaped(service)
    BY DEF SoundService
  <2>1. CASE UNCHANGED <<service, zeroed>>
    BY <2>1
  <2>2. CASE service' = [service EXCEPT !.refused = TRUE] /\ UNCHANGED zeroed
    <3>1. service' = [state |-> service.state, ready |-> service.ready, cell |-> service.cell,
            cal |-> service.cal, pending |-> service.pending, tared |-> service.tared,
            moved |-> service.moved, correction |-> service.correction,
            dwell |-> service.dwell, failures |-> service.failures, refused |-> TRUE]
      BY <2>0, <2>2 DEF Shaped
    <3>2. ServiceKept'
      BY <3>1, ServiceMade DEF SoundService
    <3> QED BY <2>2, <3>1, <3>2
  <2>3. CASE service' = [service EXCEPT !.refused = FALSE, !.tared = FALSE]
    <3>1. service' = [state |-> service.state, ready |-> service.ready, cell |-> service.cell,
            cal |-> service.cal, pending |-> service.pending, tared |-> FALSE,
            moved |-> service.moved, correction |-> service.correction,
            dwell |-> service.dwell, failures |-> service.failures, refused |-> FALSE]
      BY <2>0, <2>3 DEF Shaped
    <3>2. ServiceKept'
      BY <3>1, ServiceMade DEF SoundService
    <3> QED BY <3>1, <3>2
  <2> QED BY <2>1, <2>2, <2>3 DEF Refuse
<1>7. LoopKept'
  BY <1>6 DEF Refuse, Processes, LoopKept, Measuring
<1>8. Paired'
  BY <1>5 DEF Refuse, Paired, Answerable, Measuring
<1>9. Zeroed'
  BY <1>5, <1>6 DEF Refuse, Zeroed, Measuring
<1> QED BY <1>1, <1>2, <1>3, <1>4, <1>6, <1>7, <1>8, <1>9

\* A tare or a calibration that was made, stored or not.
LEMMA FoundKeeps ==
  ASSUME SInv, Processes, session.state = "ready", active' = "none", zeroed' = TRUE,
         UNCHANGED <<load, chip, queue>>, ConfigKept',
         NEW s, SoundService(s), s.ready = service.ready, Completes(s) \/ Gives(s)
  PROVE  SInv'
<1>1. load' \in Loads /\ ChipTyped' /\ QueueKept'
  BY DEF ChipTyped, QueueKept, CommandsTyped, Purposes
<1>2. Measuring(session)
  BY DEF Measuring
<1>3. /\ ServiceKept' /\ FilterKept' /\ SessionKept'
      /\ service'.ready = service.ready /\ session'.state \in {"completed", "failed"}
  <2>1. CASE Completes(s)
    <3>1. service' = [state |-> s.state, ready |-> s.ready, cell |-> s.cell, cal |-> s.cal,
            pending |-> s.pending, tared |-> s.tared, moved |-> s.moved, correction |-> 0,
            dwell |-> 0, failures |-> s.failures, refused |-> s.refused]
      <4> DEFINE still == [s EXCEPT !.correction = 0]
      <4>1. still = [state |-> s.state, ready |-> s.ready, cell |-> s.cell, cal |-> s.cal,
              pending |-> s.pending, tared |-> s.tared, moved |-> s.moved, correction |-> 0,
              dwell |-> s.dwell, failures |-> s.failures, refused |-> s.refused]
        BY DEF SoundService, Shaped
      <4>2. service' = [still EXCEPT !.dwell = 0]
        BY <2>1 DEF Completes
      <4> HIDE DEF still
      <4> QED BY <4>1, <4>2
    <3>2. 0 \in 0 .. Hold
      BY FilterAssumption
    <3>3. ServiceKept'
      BY <3>1, <3>2, ServiceMade DEF SoundService
    <3>4. SessionKept' /\ session'.state = "completed"
      BY <2>1 DEF Completes, SoundSession
    <3>5. FilterKept'
      BY <2>1, EmptyFilterSound DEF Completes
    <3> QED BY <3>1, <3>3, <3>4, <3>5
  <2>2. CASE Gives(s)
    <3>1. ServiceKept' /\ service'.ready = service.ready
      BY <2>2 DEF Gives
    <3>2. FilterKept'
      BY <2>2 DEF Gives, FilterKept, FilterTyped
    <3>3. SoundSession(Failed(session)) /\ Failed(session).state = "failed"
      BY <1>2, FailedSound
    <3>4. SessionKept' /\ session'.state = "failed"
      <4>1. session' = [Failed(session) EXCEPT !.grams = NoGrams]
        BY <2>2 DEF Gives
      <4> DEFINE ended == Failed(session)
      <4> HIDE DEF ended
      <4>2. SoundSession(ended) /\ ended.state = "failed"
        BY <3>3 DEF ended
      <4>3. session' = [ended EXCEPT !.grams = NoGrams]
        BY <4>1 DEF ended
      <4> QED BY <4>2, <4>3 DEF SoundSession
    <3> QED BY <3>1, <3>2, <3>4
  <2> QED BY <2>1, <2>2
<1>4. LoopKept'
  BY <1>3 DEF Processes, LoopKept, Measuring
<1>5. Paired' /\ Zeroed'
  BY <1>3 DEF Paired, Answerable, Zeroed, Measuring
<1> QED BY <1>1, <1>3, <1>4, <1>5

LEMMA SavesSound ==
  ASSUME ConfigKept, NEW cal, SoundCal(cal), Saves(cal) \/ SaveFails(cal)
  PROVE  ConfigKept'
<1>1. CASE Saves(cal)
  <2>1. config' = [cell |-> config.cell, cal |-> cal] /\ cal.cell = config.cell
    BY <1>1 DEF Saves, ConfigKept
  <2> QED BY <2>1 DEF ConfigKept, OwnCell
<1>2. CASE SaveFails(cal)
  BY <1>2 DEF SaveFails, ConfigKept, OwnCell
<1> QED BY <1>1, <1>2

LEMMA TareKeeps == SInv /\ Tare => SInv'
<1> SUFFICES ASSUME SInv, Tare PROVE SInv'
  OBVIOUS
<1> DEFINE zero == Mean(filter.raws)
           cal == IF service.cal = None THEN None ELSE [service.cal EXCEPT !.zero = zero]
           s == [service EXCEPT !.pending = zero, !.moved = FALSE, !.tared = TRUE, !.cal = cal]
<1>1. SoundCal(cal)
  <2>1. CASE service.cal = None
    BY <2>1, NoneSound
  <2>2. CASE service.cal # None
    <3>1. SoundCal(service.cal)
      BY DEF SoundService
    <3> HIDE DEF zero
    <3>2. cal = [zero |-> zero, gain |-> service.cal.gain, cell |-> service.cal.cell]
      BY <2>2, <3>1 DEF SoundCal
    <3> QED BY <3>1, <3>2 DEF SoundCal
  <2> QED BY <2>1, <2>2
<1>2. SoundService(s) /\ s.ready = service.ready /\ s.cal = cal
  <2> HIDE DEF zero, cal
  <2>1. Shaped(service)
    BY DEF SoundService
  <2> DEFINE first == [service EXCEPT !.pending = zero]
             still == [first EXCEPT !.moved = FALSE]
             found == [still EXCEPT !.tared = TRUE, !.cal = cal]
  <2>4. s = found
    OBVIOUS
  <2> HIDE DEF s
  <2>6. first = [state |-> service.state, ready |-> service.ready, cell |-> service.cell,
          cal |-> service.cal, pending |-> zero, tared |-> service.tared,
          moved |-> service.moved, correction |-> service.correction, dwell |-> service.dwell,
          failures |-> service.failures, refused |-> service.refused]
    BY <2>1 DEF Shaped
  <2> HIDE DEF first
  <2>5. still = [state |-> service.state, ready |-> service.ready, cell |-> service.cell,
          cal |-> service.cal, pending |-> zero, tared |-> service.tared, moved |-> FALSE,
          correction |-> service.correction, dwell |-> service.dwell,
          failures |-> service.failures, refused |-> service.refused]
    <3>1. still = [first EXCEPT !.moved = FALSE]
      OBVIOUS
    <3> HIDE DEF still
    <3> QED BY <2>6, <3>1
  <2> HIDE DEF still
  <2>2. s = [state |-> service.state, ready |-> service.ready, cell |-> service.cell,
          cal |-> cal, pending |-> zero, tared |-> TRUE, moved |-> FALSE,
          correction |-> service.correction, dwell |-> service.dwell,
          failures |-> service.failures, refused |-> service.refused]
    BY <2>4, <2>5
  <2> HIDE DEF found
  <2>3. SoundService(s)
    BY <1>1, <2>2, ServiceMade DEF SoundService
  <2> QED BY <2>2, <2>3
<1>3. \/ s.cal = None /\ UNCHANGED config /\ Completes(s)
      \/ s.cal # None /\ Saves(s.cal) /\ Completes(s)
      \/ s.cal # None /\ SaveFails(s.cal) /\ Gives(s)
  BY DEF Tare
<1> HIDE DEF s, cal
<1>4. ConfigKept'
  <2>1. CASE UNCHANGED config
    BY <2>1 DEF ConfigKept, OwnCell
  <2>2. CASE Saves(s.cal) \/ SaveFails(s.cal)
    BY <1>1, <1>2, <2>2, SavesSound
  <2> QED BY <1>3, <2>1, <2>2
<1>5. Completes(s) \/ Gives(s)
  BY <1>3
<1> QED BY <1>2, <1>4, <1>5, FoundKeeps DEF Tare

LEMMA CalibrateKeeps == SInv /\ Calibrate => SInv'
<1> SUFFICES ASSUME SInv, Calibrate PROVE SInv'
  OBVIOUS
<1> DEFINE delta == Mean(filter.raws) - service.pending
           cal == [zero |-> service.pending, gain |-> delta, cell |-> config.cell]
           s == [service EXCEPT !.cal = cal, !.tared = TRUE]
<1>1. CASE UNCHANGED <<config, service, filter>> /\ session' = Failed(session)
  <2>1. Measuring(session)
    BY DEF Calibrate, Measuring
  <2>2. SessionKept' /\ session'.state = "failed"
    BY <1>1, <2>1, FailedSound
  <2>3. load' \in Loads /\ ChipTyped' /\ QueueKept' /\ ConfigKept'
    BY <1>1 DEF Calibrate, ChipTyped, QueueKept, CommandsTyped, Purposes, ConfigKept, OwnCell
  <2>4. ServiceKept' /\ FilterKept'
    BY <1>1 DEF FilterKept, FilterTyped
  <2>5. LoopKept'
    BY <1>1, <2>2 DEF Calibrate, Processes, LoopKept, Measuring
  <2>6. Paired' /\ Zeroed'
    BY <2>2 DEF Calibrate, Paired, Answerable, Zeroed, Measuring
  <2> QED BY <2>2, <2>3, <2>4, <2>5, <2>6
<1>2. ASSUME Saves(cal) \/ SaveFails(cal), Completes(s) \/ Gives(s)
      PROVE  SInv'
  <2>1. SoundCal(cal)
    BY DEF SoundCal, ConfigKept
  <2>2. ConfigKept'
    <3> HIDE DEF cal
    <3> QED BY <1>2, <2>1, SavesSound
  <2>3. SoundService(s) /\ s.ready = service.ready
    <3> HIDE DEF cal
    <3>1. Shaped(service)
      BY DEF SoundService
    <3>4. s = [service EXCEPT !.cal = cal, !.tared = TRUE]
      OBVIOUS
    <3> HIDE DEF s
    <3>2. s = [state |-> service.state, ready |-> service.ready, cell |-> service.cell,
            cal |-> cal, pending |-> service.pending, tared |-> TRUE,
            moved |-> service.moved, correction |-> service.correction,
            dwell |-> service.dwell, failures |-> service.failures,
            refused |-> service.refused]
      BY <3>1, <3>4 DEF Shaped
    <3>3. SoundService(s)
      BY <2>1, <3>2, ServiceMade DEF SoundService
    <3> QED BY <3>2, <3>3
  <2> HIDE DEF s, cal, delta
  <2>4. Completes(s) \/ Gives(s)
    BY <1>2
  <2>5. /\ Processes /\ session.state = "ready" /\ active' = "none" /\ zeroed' = TRUE
        /\ UNCHANGED <<load, chip, queue>>
    BY DEF Calibrate
  <2> QED BY <2>2, <2>3, <2>4, <2>5, FoundKeeps
<1>3. \/ UNCHANGED <<config, service, filter>> /\ session' = Failed(session)
      \/ (Saves(cal) \/ SaveFails(cal)) /\ (Completes(s) \/ Gives(s))
  BY DEF Calibrate
<1>4. CASE (Saves(cal) \/ SaveFails(cal)) /\ (Completes(s) \/ Gives(s))
  <2> HIDE DEF s, cal
  <2> QED BY <1>2, <1>4
<1> HIDE DEF s, cal
<1> QED BY <1>1, <1>3, <1>4

LEMMA ScaleStep == SInv /\ [ScaleNext]_scale => SInv'
<1> SUFFICES ASSUME SInv, [ScaleNext]_scale PROVE SInv'
  OBVIOUS
<1>1. CASE Poll
  BY <1>1, ReconfigureKeeps, RetryKeeps, SampleKeeps, PollFailsKeeps, WaitsKeeps DEF Poll
<1>2. CASE ProcessOne
  BY <1>2, NothingKeeps, AnswerEndKeeps, DropKeeps, BeginKeeps, RefuseKeeps, TareKeeps,
     CalibrateKeeps DEF ProcessOne
<1>3. CASE UNCHANGED scale
  <2> USE <1>3 DEF scale
  <2>1. ChipTyped' /\ ConfigKept' /\ QueueKept'
    BY DEF ChipTyped, ConfigKept, OwnCell, QueueKept, CommandsTyped
  <2>2. LoopKept' /\ Paired'
    BY DEF LoopKept, Paired, Answerable, Measuring
  <2> QED BY <2>1, <2>2, ScaleQuiet
<1> QED BY <1>1, <1>2, <1>3, MoveKeeps, ProfileKeeps, BrownoutKeeps, SubmitKeeps DEF ScaleNext

LEMMA ScaleKept == ScaleSpec => []SInv
BY ScaleBegins, ScaleStep, PTL DEF ScaleSpec

\* scale_command_queue.cpp:92-152, scale_service.cpp:149-212, application.cpp:
\* 572-600: every command is answered, and for the load cell it was meant for.
THEOREM MeantForItsCell == ScaleSpec => []CommandsTrue
<1>1. SInv => CommandsTrue
  <2> SUFFICES ASSUME SInv PROVE CommandsTrue
    OBVIOUS
  <2>1. ConfigTyped
    BY DEF ConfigKept, SoundCal, ConfigTyped
  <2>2. ServiceTyped
    BY DEF SoundService, ServiceTyped
  <2>3. FilterTyped /\ CommandsTyped /\ Answerable /\ OwnCell
    BY DEF FilterKept, QueueKept, Paired, ConfigKept
  <2>4. SessionTyped
    BY DEF SoundSession, SessionTyped
  <2> QED BY <2>1, <2>2, <2>3, <2>4 DEF CommandsTrue, ScaleTyped
<1> QED BY <1>1, ScaleKept, PTL

\* scale_service.cpp:171-175, 451-464: without a zero nothing is weighed.
THEOREM WeighedFromZero == ScaleSpec => ZeroKnown
<1>1. SInv /\ Weighs => zeroed
  BY DEF Zeroed, Weighs, Measuring
<1>2. SInv /\ [ScaleNext]_scale => [Weighs => zeroed]_scale
  BY <1>1
<1> QED BY <1>2, ScaleKept, PTL DEF ScaleSpec, ZeroKnown
=============================================================================
