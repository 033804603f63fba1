-------------------------- MODULE TagWriterProofs --------------------------
(* Theorems of the tag writer for every set of tags, spools, images and    *)
(* blocks: its types; why the recovery record is always the right one (the *)
(* inductive invariant behind RecoveryCovers, PendingSurvives,             *)
(* ForeignRecordKept and WriteAhead); and, from it, why what is linked is  *)
(* what was written (Coherent).                                            *)
EXTENDS TagWriter, TLAPS

USE DEF world, flags, service, history, vars

LEMMA BlankType == Blank \in Image
BY WordAssumption DEF Blank, Image

LEMMA ImagesType == \A s \in Spool : Images[s] \subseteq Image
BY ImageAssumption

LEMMA RecordType ==
  ASSUME TypeOK, NEW p \in Plan
  PROVE  RecordOf(p) \in Record
BY DEF TypeOK, RecordOf, Record, Plan, Operation

LEMMA PlanType ==
  ASSUME NEW r \in Record
  PROVE  PlanOf(r) \in Plan
BY DEF PlanOf, Record, Plan, Operation, JournalState

LEMMA ReadPlanType ==
  ASSUME TypeOK, NEW t \in Tag, NEW j \in JournalState
  PROVE  ReadPlan(t, j) \in Plan /\ ClearPlan(t, j) \in Plan
BY BlankType DEF TypeOK, ReadPlan, ClearPlan, Plan, Operation, Image

\* The updates the steps make to a plan.
LEMMA PlanUpdates ==
  ASSUME NEW p \in Plan, NEW image \in Image
  PROVE  /\ [p EXCEPT !.target = image] \in Plan
         /\ [p EXCEPT !.attempted = TRUE] \in Plan
         /\ [p EXCEPT !.verified = TRUE] \in Plan
         /\ [p EXCEPT !.erased = FALSE] \in Plan
         /\ [p EXCEPT !.verified = TRUE, !.erased = TRUE] \in Plan
BY DEF Plan

LEMMA PreviousType == TypeOK => Previous \in Plan \cup {NoPlan}
BY PlanType DEF TypeOK, Previous

LEMMA ServiceType == TypeOK /\ Restored =>
  /\ plan' \in Plan \cup {NoPlan} /\ phase' \in Phase
  /\ assoc' \in BOOLEAN /\ unlink' \in BOOLEAN
  /\ clearReq' \in BOOLEAN /\ moved' \in BOOLEAN
  /\ spool' \in Spool \cup {NoSpool}
  /\ captured' \in Setting \cup {NoSetting}
<1> SUFFICES ASSUME TypeOK, Restored PROVE
      /\ plan' \in Plan \cup {NoPlan} /\ phase' \in Phase
      /\ assoc' \in BOOLEAN /\ unlink' \in BOOLEAN
      /\ clearReq' \in BOOLEAN /\ moved' \in BOOLEAN
      /\ spool' \in Spool \cup {NoSpool}
      /\ captured' \in Setting \cup {NoSetting}
  OBVIOUS
<1>1. journal # NoRecord => PlanOf(journal) \in Plan /\ journal.spool \in Spool \cup {NoSpool}
  BY PlanType DEF TypeOK, Record
<1> QED BY <1>1 DEF TypeOK, Restored, Phase

\* In these steps of a command a plan is in memory.
HasPlan ==
  pc \in {"load", "save", "validate", "commit", "link", "persist", "unlink", "forget"}
    => plan # NoPlan

TypeInv == TypeOK /\ HasPlan

\* The variables keep their types.
LEMMA TypeStep == TypeInv /\ [Next]_vars => TypeInv'
<1> SUFFICES ASSUME TypeInv, [Next]_vars PROVE TypeInv'
  OBVIOUS
<1> USE AbsentAssumption DEF TypeInv, HasPlan, PC, Command, Action, Physical, NoCommand, Finish, Fails, Forgotten, Admitted
<1>1. ASSUME NEW a \in Action, NEW s \in Spool \cup {NoSpool}, Receive(a, s) PROVE TypeInv'
  BY <1>1, ServiceType DEF TypeOK, Receive
<1>2. CASE Boot
  BY <1>2, ServiceType DEF TypeOK, Boot
<1>3. CASE Refuse
  BY <1>3 DEF TypeOK, Refuse, Phase
<1>4. CASE Conclude
  BY <1>4, ServiceType DEF TypeOK, Conclude, Phase
<1>5. CASE Edit
  BY <1>5 DEF TypeOK, Edit, Phase
<1>6. CASE Browse
  BY <1>6 DEF TypeOK, Browse, Phase
<1>7. CASE StartRead
  BY <1>7 DEF TypeOK, StartRead, Phase
<1>8. CASE ClearElsewhere
  BY <1>8 DEF TypeOK, ClearElsewhere
<1>9. CASE ReadFailed
  BY <1>9, PreviousType DEF TypeOK, ReadFailed
<1>10. CASE ShowPreview
  <2>1. plan \in Plan /\ spool \in Spool
    BY <1>10 DEF TypeOK, ShowPreview
  <2>2. plan' \in Plan
    BY <1>10, <2>1, ImagesType, PlanUpdates DEF ShowPreview
  <2> QED BY <1>10, <2>2 DEF TypeOK, ShowPreview, Phase
<1>11. CASE LoadFailed
  BY <1>11 DEF TypeOK, LoadFailed
<1>12. CASE Confirm
  BY <1>12 DEF TypeOK, Confirm, CanWrite, CanClear
<1>13. CASE ConfirmRefused
  BY <1>13 DEF TypeOK, ConfirmRefused
<1>14. CASE SaveRecord
  BY <1>14, RecordType DEF TypeOK, SaveRecord, Phase
<1>15. CASE SaveFailed
  BY <1>15 DEF TypeOK, SaveFailed
<1>16. CASE Validate
  <2>1. plan' \in Plan
    BY <1>16, PlanUpdates, BlankType DEF TypeOK, Validate
  <2>2. TypeOK'
    BY <1>16, <2>1 DEF TypeOK, Validate
  <2>3. HasPlan'
    BY <1>16, <2>1 DEF TypeOK, Validate
  <2> QED BY <2>2, <2>3
<1>17. CASE ValidateRefused
  <2>1. journal' \in {journal, NoRecord} /\ clearReq' \in BOOLEAN
    BY <1>17 DEF TypeOK, ValidateRefused
  <2> QED BY <1>17, <2>1 DEF TypeOK, ValidateRefused
<1>18. CASE ExecuteStopped
  BY <1>18 DEF TypeOK, ExecuteStopped
<1>19. CASE VerifyWrite
  <2>1. plan' \in Plan /\ plan.uid \in Tag
    BY <1>19, PlanUpdates, BlankType DEF TypeOK, Verified, VerifyWrite, Plan
  <2> QED BY <1>19, <2>1 DEF TypeOK, Verified, VerifyWrite
<1>20. CASE VerifyClear
  <2>1. plan' \in Plan /\ plan.uid \in Tag
    BY <1>20, PlanUpdates, BlankType DEF TypeOK, Verified, VerifyClear, Plan
  <2> QED BY <1>20, <2>1 DEF TypeOK, Verified, VerifyClear
<1>21. CASE Retry
  BY <1>21 DEF TypeOK, Retry, CanLink, CanUnlink
<1>22. CASE RetryRefused
  BY <1>22 DEF TypeOK, RetryRefused
<1>23. CASE Link
  BY <1>23 DEF TypeOK, Link, Phase
<1>24. CASE LinkFailed
  BY <1>24 DEF TypeOK, LinkFailed
<1>25. CASE Persist
  BY <1>25, RecordType DEF TypeOK, Persist, Phase
<1>26. CASE PersistFailed
  BY <1>26 DEF TypeOK, PersistFailed
<1>27. CASE Unlink
  BY <1>27 DEF TypeOK, Unlink
<1>28. CASE UnlinkFailed
  BY <1>28 DEF TypeOK, UnlinkFailed
<1>29. CASE ForgetWrite
  <2>1. journal' \in {journal, NoRecord}
    BY <1>29 DEF ForgetWrite
  <2>2. CASE assoc' = FALSE /\ Finish("complete")
    BY <1>29, <2>1, <2>2 DEF TypeOK, ForgetWrite, Phase
  <2>3. CASE Fails /\ UNCHANGED <<assoc, phase>>
    BY <1>29, <2>1, <2>3 DEF TypeOK, ForgetWrite
  <2> QED BY <1>29, <2>2, <2>3 DEF ForgetWrite
<1>30. CASE ForgetClear
  <2>1. journal' \in {journal, NoRecord} /\ plan' \in Plan
    BY <1>30, PlanUpdates, BlankType DEF ForgetClear, TypeOK
  <2>2. CASE unlink' = FALSE /\ clearReq' = FALSE /\ Finish("cleared")
    BY <1>30, <2>1, <2>2 DEF TypeOK, ForgetClear, Phase
  <2>3. CASE Fails /\ UNCHANGED <<plan, unlink, clearReq, phase>>
    BY <1>30, <2>1, <2>3 DEF TypeOK, ForgetClear
  <2> QED BY <1>30, <2>2, <2>3 DEF ForgetClear
<1>31. CASE Crash
  BY <1>31 DEF TypeOK, Crash, Phase
<1>32. ASSUME NEW t \in Tag, RecoverLink(t) PROVE TypeInv'
  <2>1. plan' \in Plan
    BY <1>32, ReadPlanType, PlanUpdates, BlankType DEF RecoverLink, JournalState
  <2>2. spool' \in Spool \cup {NoSpool}
    BY <1>32 DEF TypeOK, RecoverLink, JournalSpool, Record
  <2> QED BY <1>32, <2>1, <2>2 DEF TypeOK, RecoverLink, Phase
<1>33. ASSUME NEW t \in Tag, RecoverLinkFailed(t) PROVE TypeInv'
  BY <1>33, ReadPlanType DEF TypeOK, RecoverLinkFailed, JournalState
<1>34. ASSUME NEW t \in Tag, NEW j \in JournalState, ReadForWrite(t, j) PROVE TypeInv'
  BY <1>34, ReadPlanType DEF TypeOK, ReadForWrite, Phase
<1>35. ASSUME NEW t \in Tag, NEW j \in JournalState, ReadForClear(t, j) PROVE TypeInv'
  BY <1>35, ReadPlanType DEF TypeOK, ReadForClear, Phase
<1>36. ASSUME NEW t \in Tag, NEW saved \in BOOLEAN, RecoverUnlink(t, saved) PROVE TypeInv'
  <2> DEFINE p == [ClearPlan(t, "target") EXCEPT !.verified = TRUE, !.erased = TRUE]
  <2>1. p \in Plan
    BY ReadPlanType, PlanUpdates, BlankType DEF JournalState
  <2> HIDE DEF p
  <2>2. plan' = p /\ (journal' = journal \/ journal' = RecordOf(p))
    BY <1>36 DEF RecoverUnlink, p
  <2>3. journal' \in Record \cup {NoRecord}
    BY <2>1, <2>2, RecordType DEF TypeOK
  <2>4. dirty' \subseteq Tag /\ owed' \subseteq Tag
    BY <1>36 DEF TypeOK, RecoverUnlink
  <2>5. /\ phase' \in Phase /\ pc' \in {"idle", "failed"} /\ cmd' \in Command
        /\ spool' = NoSpool /\ captured' = settings /\ unlink' = TRUE /\ done' = {}
        /\ UNCHANGED <<world, assoc, clearReq, moved>>
    BY <1>36 DEF TypeOK, RecoverUnlink, Phase
  <2> QED BY <2>1, <2>2, <2>3, <2>4, <2>5 DEF TypeOK
<1>37. ASSUME NEW b \in Block, CommitBlock(b) PROVE TypeInv'
  BY <1>37 DEF TypeOK, CommitBlock, Due, Changed, Plan, Image
<1>38. ASSUME NEW b \in Block, CommitTorn(b) PROVE TypeInv'
  BY <1>38, WordAssumption DEF TypeOK, CommitTorn, Due, Changed, Plan, Image
<1>39. ASSUME NEW t \in Tag, Discard(t) PROVE TypeInv'
  <2>1. /\ journal' \in {journal, NoRecord}
        /\ dirty' \in {dirty, {}} /\ owed' \in {owed, {}}
    BY <1>39 DEF Discard
  <2>2. CASE UNCHANGED service
    BY <1>39, <2>1, <2>2 DEF TypeOK, Discard
  <2>3. CASE ~UNCHANGED service
    BY <1>39, <2>1, <2>3 DEF TypeOK, Discard, Phase
  <2> QED BY <2>2, <2>3
<1>40. ASSUME NEW t \in Tag, Place(t) PROVE TypeInv'
  BY <1>40 DEF TypeOK, Place
<1>41. ASSUME NEW t \in Tag, Lift(t) PROVE TypeInv'
  BY <1>41 DEF TypeOK, Lift
<1>42. ASSUME NEW t \in Tag, NEW image \in ForeignImages, ForeignWrite(t, image) PROVE TypeInv'
  BY <1>42, ImageAssumption DEF TypeOK, ForeignWrite
<1>43. ASSUME NEW s \in Setting, ChangeSettings(s) PROVE TypeInv'
  BY <1>43 DEF TypeOK, ChangeSettings
<1>44. CASE UNCHANGED vars
  BY <1>44 DEF TypeOK
<1> QED
  BY <1>1, <1>2, <1>3, <1>4, <1>5, <1>6, <1>7, <1>8, <1>9, <1>10, <1>11, <1>12, <1>13, <1>14, <1>15, <1>16, <1>17, <1>18, <1>19, <1>20, <1>21, <1>22, <1>23, <1>24, <1>25, <1>26, <1>27, <1>28, <1>29, <1>30, <1>31, <1>32, <1>33, <1>34, <1>35, <1>36, <1>37, <1>38, <1>39, <1>40, <1>41, <1>42, <1>43, <1>44
  DEF Next, Requests, Serving, Reading, Executing, Linking, Environment

LEMMA InitType == Init => TypeInv
<1> SUFFICES ASSUME Init PROVE TypeInv
  OBVIOUS
<1>1. {Blank} \cup ForeignImages \cup UNION {Images[s] : s \in Spool} \subseteq Image
  BY BlankType, ImagesType, ImageAssumption
<1>2. memory \in [Tag -> Image]
  BY <1>1 DEF Init
<1>3. cmd \in Command
  BY DEF Init, Command, NoCommand
<1> QED BY <1>2, <1>3 DEF Init, TypeInv, HasPlan, TypeOK, PC, Phase

\* Every variable of the service keeps its type, whatever the tags, images and
\* settings are.
THEOREM Typed == Spec => []TypeOK
<1>1. Init => TypeInv
  BY InitType
<1>2. TypeInv /\ [Next]_vars => TypeInv'
  BY TypeStep
<1>3. TypeInv => TypeOK
  BY DEF TypeInv
<1> QED BY <1>1, <1>2, <1>3, PTL DEF Spec
-----------------------------------------------------------------------------
(* The record *)

\* A half-changed tag is the one the record describes, and the record does
\* not claim that the tag is finished.
DirtyInv == \A t \in dirty : Covered(t) /\ ~journal.erased

\* While blocks are being written the record holds the plan, and the tag is
\* as far as done says.
ExecInv ==
  pc \in {"validate", "commit"} =>
    /\ journal # NoRecord
    /\ journal.uid = plan.uid
    /\ journal.original = plan.original /\ journal.target = plan.target
    /\ ~journal.erased
    /\ phase = "working"
    /\ pc = "commit" =>
         \A b \in Block : memory[plan.uid][b] =
           IF b \in done THEN plan.target[b] ELSE plan.original[b]

\* A plan on which a confirmation may come, or has come.
Reviewed ==
  plan # NoPlan /\ (phase \in {"preview", "clear_preview"} \/ pc \in {"load", "save", "validate"})

\* What is known of it: it starts from the bytes on the tag if a change to
\* that tag is unfinished, and if nothing was interrupted nothing is owed.
ReviewInv ==
  Reviewed =>
    /\ ~plan.attempted /\ ~plan.verified /\ ~plan.erased
    /\ plan.uid \in dirty => memory[plan.uid] = plan.original
    /\ plan.jstate = "none" => plan.uid \notin dirty \cup owed
    /\ phase = "clear_preview" =>
         plan.op = "clear" /\ (journal # NoRecord => journal.uid = plan.uid)
    /\ pc = "save" => (journal # NoRecord => journal.uid = plan.uid)

UnlinkInv ==
  unlink =>
    /\ plan # NoPlan
    /\ plan.op = "clear" /\ plan.verified /\ plan.erased
    /\ plan.uid \notin dirty
    /\ journal # NoRecord => journal.uid = plan.uid

AssocInv ==
  assoc =>
    /\ plan # NoPlan
    /\ plan.op = "write" /\ plan.verified
    /\ plan.uid \notin dirty
    /\ journal # NoRecord => journal.uid = plan.uid

\* The record says "erased" only while the unlink is pending, or before the
\* service has looked at the record, or under other settings.
ErasedInv ==
  journal # NoRecord /\ journal.erased =>
    /\ journal.op = "clear"
    /\ \/ unlink
       \/ pc = "boot"
       \/ pc = "idle" /\ plan = NoPlan
       \/ pc = "gate" /\ moved /\ plan = NoPlan

\* A plan whose execution did not finish is put away before the next command.
AttemptInv ==
  plan # NoPlan /\ plan.attempted /\ ~plan.verified =>
    pc \in {"commit", "failed"} /\ cmd.action \in Physical /\ journal # NoRecord

\* Which command a step belongs to.
StepInv ==
  /\ pc \in {"read", "load", "save", "validate", "commit"} => cmd.action \in Physical
  /\ pc = "boot" => ~unlink /\ ~assoc
  /\ pc # "commit" => done = {}
  /\ pc \in {"read", "load", "save", "validate", "commit"} => ~unlink /\ ~assoc
  /\ pc = "read" => phase = "reading"
  /\ pc = "load" => phase = "loading_spool"
  /\ pc = "link" => assoc
  /\ pc \in {"persist", "unlink"} => unlink
  /\ pc = "forget" => (assoc \/ unlink) /\ plan.uid \notin owed

OwedInv == PendingSurvives

IInv ==
  /\ DirtyInv /\ ExecInv /\ ReviewInv /\ UnlinkInv /\ AssocInv
  /\ ErasedInv /\ AttemptInv /\ StepInv /\ OwedInv
\* What a recovered plan, a saved record and an updated plan consist of.
LEMMA RecoveredPlan ==
  ASSUME NEW r \in Record, r.erased
  PROVE  LET p == PlanOf(r) IN
         p # NoPlan /\ p.uid = r.uid /\ p.op = r.op /\ p.verified /\ p.erased
<1>1. r.erased = TRUE
  BY DEF Record
<1> QED BY <1>1, PlanType, AbsentAssumption DEF PlanOf

LEMMA SavedRecord ==
  ASSUME TypeOK, NEW p \in Plan
  PROVE  LET r == RecordOf(p) IN
         /\ r # NoRecord
         /\ r.uid = p.uid /\ r.op = p.op /\ r.erased = p.erased
         /\ r.original = p.original /\ r.target = p.target
BY RecordType, AbsentAssumption DEF RecordOf

LEMMA Attempted ==
  ASSUME NEW p \in Plan
  PROVE  LET q == [p EXCEPT !.attempted = TRUE] IN
         q.uid = p.uid /\ q.original = p.original /\ q.target = p.target
BY DEF Plan

LEMMA Finished ==
  ASSUME NEW p \in Plan
  PROVE  /\ LET q == [p EXCEPT !.verified = TRUE] IN
             q # NoPlan /\ q.uid = p.uid /\ q.op = p.op /\ q.verified = TRUE
         /\ LET q == [p EXCEPT !.verified = TRUE, !.erased = TRUE] IN
             /\ q # NoPlan /\ q.uid = p.uid /\ q.op = p.op
             /\ q.verified = TRUE /\ q.erased = TRUE
<1>1. [p EXCEPT !.verified = TRUE] # NoPlan
  BY PlanUpdates, BlankType, AbsentAssumption
<1>2. [p EXCEPT !.verified = TRUE, !.erased = TRUE] # NoPlan
  BY PlanUpdates, BlankType, AbsentAssumption
<1> QED BY <1>1, <1>2 DEF Plan

LEMMA Cleared ==
  ASSUME NEW p \in Plan
  PROVE  LET q == [p EXCEPT !.erased = FALSE] IN
         /\ q # NoPlan /\ q.uid = p.uid /\ q.op = p.op
         /\ q.verified = p.verified /\ q.attempted = p.attempted
<1>1. [p EXCEPT !.erased = FALSE] # NoPlan
  BY PlanUpdates, BlankType, AbsentAssumption
<1> QED BY <1>1 DEF Plan

LEMMA FreshFinished ==
  ASSUME TypeOK, NEW t \in Tag
  PROVE  /\ LET q == [ReadPlan(t, "target") EXCEPT !.verified = TRUE] IN
             q # NoPlan /\ q.uid = t /\ q.op = "write" /\ q.verified = TRUE
         /\ LET q == [ClearPlan(t, "target") EXCEPT !.verified = TRUE, !.erased = TRUE] IN
             /\ q \in Plan /\ q # NoPlan /\ q.uid = t /\ q.op = "clear"
             /\ q.verified = TRUE /\ q.erased = TRUE
<1>0. "target" \in JournalState
  BY DEF JournalState
<1> DEFINE r == ReadPlan(t, "target")
           c == ClearPlan(t, "target")
<1>1. r \in Plan /\ r.uid = t /\ r.op = "write" /\ c \in Plan /\ c.uid = t /\ c.op = "clear"
  <2>1. r \in Plan /\ c \in Plan
    BY <1>0, ReadPlanType
  <2> QED BY <2>1 DEF ReadPlan, ClearPlan
<1> HIDE DEF r, c
<1>2. LET q == [r EXCEPT !.verified = TRUE] IN
        q # NoPlan /\ q.uid = t /\ q.op = "write" /\ q.verified = TRUE
  BY <1>1, Finished
<1>3. LET q == [c EXCEPT !.verified = TRUE, !.erased = TRUE] IN
        /\ q \in Plan /\ q # NoPlan /\ q.uid = t /\ q.op = "clear"
        /\ q.verified = TRUE /\ q.erased = TRUE
  BY <1>1, Finished, PlanUpdates, BlankType
<1> QED BY <1>2, <1>3 DEF r, c

\* A clear is previewed only for the tag the record names.
LEMMA ClearsOwn ==
  ASSUME TypeInv, IInv, pc = "read", journal # NoRecord, NEW t \in Tag, ~OtherInterrupted(t)
  PROVE  journal.uid = t
<1>1. ~journal.erased
  BY DEF IInv, ErasedInv, StepInv
<1>2. PlanOf(journal) # NoPlan
  BY PlanType, AbsentAssumption DEF TypeInv, TypeOK
<1> QED BY <1>1, <1>2 DEF OtherInterrupted, Previous, PlanOf

\* A read compares the tag with a record, never with a plan the record forgot;
\* if it finds no interrupted change of this tag, there is none.
LEMMA ReadsRecord ==
  ASSUME TypeInv, IInv, NEW t \in Tag, NEW j \in JournalState, Reads(t, j)
  PROVE  /\ j # "none" => journal # NoRecord /\ journal.uid = t
         /\ j = "none" => t \notin dirty \cup owed
<1>1. journal # NoRecord => ~journal.erased
  BY DEF Reads, IInv, ErasedInv, StepInv
<1>2. plan # NoPlan => ~plan.attempted \/ plan.verified
  BY DEF Reads, IInv, AttemptInv
<1>3. ASSUME Interrupted(Previous, t) PROVE journal # NoRecord /\ journal.uid = t
  BY <1>2, <1>3 DEF Interrupted, Previous, PlanOf
<1>4. ASSUME journal # NoRecord, journal.uid = t PROVE Interrupted(Previous, t)
  <2>1. PlanOf(journal) # NoPlan
    BY <1>4, PlanType, AbsentAssumption DEF TypeInv, TypeOK
  <2> QED BY <1>1, <1>4, <2>1 DEF Interrupted, Previous, PlanOf
<1> QED BY <1>3, <1>4 DEF Reads, Classify, IInv, DirtyInv, Covered, OwedInv, PendingSurvives

LEMMA RecoveryStep == TypeInv /\ IInv /\ [Next]_vars => IInv'
<1> SUFFICES ASSUME TypeInv, IInv, [Next]_vars PROVE IInv'
  OBVIOUS
<1> USE AbsentAssumption DEF TypeInv, TypeOK, HasPlan, IInv, DirtyInv, ExecInv, ReviewInv, Reviewed, UnlinkInv, AssocInv,
  ErasedInv, AttemptInv, StepInv, OwedInv, PendingSurvives, Covered, Finish, Fails, Forgotten, Admitted, NoCommand
<1>1. ASSUME NEW a \in Action, NEW s \in Spool \cup {NoSpool}, Receive(a, s) PROVE IInv'
  <2>0. journal # NoRecord => PlanOf(journal) \in Plan
    BY PlanType
  <2>1. DirtyInv'
    BY <1>1, <2>0 DEF Receive, Restored, PlanOf
  <2>2. ExecInv'
    BY <1>1, <2>0 DEF Receive, Restored, PlanOf
  <2>3. ReviewInv'
    BY <1>1, <2>0 DEF Receive, Restored, PlanOf
  <2>4. UnlinkInv'
    BY <1>1, <2>0, RecoveredPlan DEF Receive, Restored
  <2>5. AssocInv'
    BY <1>1, <2>0 DEF Receive, Restored, PlanOf
  <2>6. ErasedInv'
    BY <1>1, <2>0 DEF Receive, Restored, PlanOf
  <2>7. StepInv'
    BY <1>1, <2>0 DEF Receive, Restored, PlanOf
  <2>8. OwedInv'
    BY <1>1, <2>0 DEF Receive, Restored, PlanOf
  <2>9. AttemptInv'
    BY <1>1, <2>0, RecoveredPlan DEF Receive, Restored
  <2> QED BY <2>1, <2>2, <2>3, <2>4, <2>5, <2>6, <2>7, <2>8, <2>9
<1>2. CASE Boot
  <2>0. journal # NoRecord => PlanOf(journal) \in Plan
    BY PlanType
  <2>1. DirtyInv'
    BY <1>2, <2>0 DEF Boot, Restored, PlanOf
  <2>2. ExecInv'
    BY <1>2, <2>0 DEF Boot, Restored, PlanOf
  <2>3. ReviewInv'
    BY <1>2, <2>0 DEF Boot, Restored, PlanOf
  <2>4. UnlinkInv'
    BY <1>2, <2>0, RecoveredPlan DEF Boot, Restored
  <2>5. AssocInv'
    BY <1>2, <2>0, RecoveredPlan DEF Boot, Restored
  <2>6. ErasedInv'
    BY <1>2, <2>0 DEF Boot, Restored, PlanOf
  <2>7. StepInv'
    BY <1>2, <2>0 DEF Boot, Restored, PlanOf
  <2>8. OwedInv'
    BY <1>2, <2>0 DEF Boot, Restored, PlanOf
  <2>9. AttemptInv'
    BY <1>2, <2>0, RecoveredPlan DEF Boot, Restored
  <2> QED BY <2>1, <2>2, <2>3, <2>4, <2>5, <2>6, <2>7, <2>8, <2>9
<1>3. CASE Refuse
  BY <1>3 DEF Refuse, Gated, Silent
<1>4. CASE Conclude
  BY <1>4 DEF Conclude, Restored, PlanOf
<1>5. CASE Edit
  BY <1>5 DEF Edit, Gated, Silent
<1>6. CASE Browse
  BY <1>6 DEF Browse, Gated, Silent
<1>7. CASE StartRead
  BY <1>7 DEF StartRead, Gated, Silent, Physical
<1>8. CASE ClearElsewhere
  BY <1>8 DEF ClearElsewhere, Gated, Silent
<1>9. CASE ReadFailed
  BY <1>9 DEF ReadFailed, Previous
<1>10. CASE ShowPreview
  BY <1>10 DEF ShowPreview
<1>11. CASE LoadFailed
  BY <1>11 DEF LoadFailed
<1>12. CASE Confirm
  BY <1>12 DEF Confirm, CanWrite, CanClear, OtherJournaled, Gated, Silent, Physical
<1>13. CASE ConfirmRefused
  BY <1>13 DEF ConfirmRefused, Gated, Silent
<1>14. CASE SaveRecord
  <2>1. DirtyInv'
    BY <1>14, SavedRecord, BlockAssumption DEF SaveRecord
  <2>2. ExecInv'
    BY <1>14, SavedRecord, BlockAssumption DEF SaveRecord
  <2>3. ReviewInv'
    BY <1>14 DEF SaveRecord, RecordOf
  <2>4. UnlinkInv'
    BY <1>14 DEF SaveRecord, RecordOf
  <2>5. AssocInv'
    BY <1>14 DEF SaveRecord, RecordOf
  <2>6. ErasedInv'
    BY <1>14 DEF SaveRecord, RecordOf
  <2>7. StepInv'
    BY <1>14 DEF SaveRecord, RecordOf
  <2>8. OwedInv'
    BY <1>14, SavedRecord, BlockAssumption DEF SaveRecord
  <2>9. AttemptInv'
    BY <1>14 DEF SaveRecord, RecordOf
  <2> QED BY <2>1, <2>2, <2>3, <2>4, <2>5, <2>6, <2>7, <2>8, <2>9
<1>15. CASE SaveFailed
  BY <1>15 DEF SaveFailed
<1>16. CASE Validate
  <2>1. DirtyInv'
    BY <1>16 DEF Validate
  <2>2. ExecInv'
    BY <1>16, Attempted DEF Validate
  <2>3. ReviewInv'
    BY <1>16 DEF Validate
  <2>4. UnlinkInv'
    BY <1>16 DEF Validate
  <2>5. AssocInv'
    BY <1>16 DEF Validate
  <2>6. ErasedInv'
    BY <1>16 DEF Validate
  <2>7. StepInv'
    BY <1>16 DEF Validate
  <2>8. OwedInv'
    BY <1>16 DEF Validate
  <2>9. AttemptInv'
    BY <1>16 DEF Validate
  <2> QED BY <2>1, <2>2, <2>3, <2>4, <2>5, <2>6, <2>7, <2>8, <2>9
<1>17. CASE ValidateRefused
  BY <1>17 DEF ValidateRefused
<1>18. CASE ExecuteStopped
  BY <1>18 DEF ExecuteStopped
<1>19. CASE VerifyWrite
  <2>1. DirtyInv'
    BY <1>19 DEF VerifyWrite, Verified
  <2>2. ExecInv'
    BY <1>19 DEF VerifyWrite, Verified
  <2>3. ReviewInv'
    BY <1>19 DEF VerifyWrite, Verified
  <2>4. UnlinkInv'
    BY <1>19 DEF VerifyWrite, Verified
  <2>5. AssocInv'
    <3>1. plan \in Plan /\ plan' = [plan EXCEPT !.verified = TRUE]
      BY <1>19 DEF VerifyWrite, Verified
    <3>2. plan' # NoPlan /\ plan'.uid = plan.uid /\ plan'.op = "write" /\ plan'.verified
      BY <1>19, <3>1, Finished DEF VerifyWrite
    <3> QED BY <1>19, <3>2 DEF VerifyWrite, Verified
  <2>6. ErasedInv'
    BY <1>19 DEF VerifyWrite, Verified
  <2>7. StepInv'
    BY <1>19 DEF VerifyWrite, Verified
  <2>8. OwedInv'
    BY <1>19 DEF VerifyWrite, Verified
  <2>9. AttemptInv'
    BY <1>19 DEF VerifyWrite, Verified
  <2> QED BY <2>1, <2>2, <2>3, <2>4, <2>5, <2>6, <2>7, <2>8, <2>9
<1>20. CASE VerifyClear
  <2>1. DirtyInv'
    BY <1>20 DEF VerifyClear, Verified
  <2>2. ExecInv'
    BY <1>20 DEF VerifyClear, Verified
  <2>3. ReviewInv'
    BY <1>20 DEF VerifyClear, Verified
  <2>4. UnlinkInv'
    <3>1. plan \in Plan /\ plan' = [plan EXCEPT !.verified = TRUE, !.erased = TRUE]
      BY <1>20 DEF VerifyClear, Verified
    <3>2. /\ plan' # NoPlan /\ plan'.uid = plan.uid /\ plan'.op = "clear"
          /\ plan'.verified /\ plan'.erased
      BY <1>20, <3>1, Finished DEF VerifyClear
    <3> QED BY <1>20, <3>2 DEF VerifyClear, Verified
  <2>5. AssocInv'
    BY <1>20 DEF VerifyClear, Verified
  <2>6. ErasedInv'
    BY <1>20 DEF VerifyClear, Verified
  <2>7. StepInv'
    BY <1>20 DEF VerifyClear, Verified
  <2>8. OwedInv'
    BY <1>20 DEF VerifyClear, Verified
  <2>9. AttemptInv'
    BY <1>20 DEF VerifyClear, Verified
  <2> QED BY <2>1, <2>2, <2>3, <2>4, <2>5, <2>6, <2>7, <2>8, <2>9
<1>21. CASE Retry
  BY <1>21 DEF Retry, CanLink, CanUnlink
<1>22. CASE RetryRefused
  BY <1>22 DEF RetryRefused, Gated, Silent
<1>23. CASE Link
  BY <1>23 DEF Link
<1>24. CASE LinkFailed
  BY <1>24 DEF LinkFailed
<1>25. CASE Persist
  <2>1. DirtyInv'
    BY <1>25 DEF Persist, RecordOf
  <2>2. ExecInv'
    BY <1>25 DEF Persist, RecordOf
  <2>3. ReviewInv'
    BY <1>25 DEF Persist, RecordOf
  <2>4. UnlinkInv'
    BY <1>25 DEF Persist, RecordOf
  <2>5. AssocInv'
    BY <1>25 DEF Persist, RecordOf
  <2>6. ErasedInv'
    BY <1>25 DEF Persist, RecordOf
  <2>7. StepInv'
    BY <1>25 DEF Persist, RecordOf
  <2>8. OwedInv'
    BY <1>25, SavedRecord DEF Persist
  <2>9. AttemptInv'
    BY <1>25 DEF Persist, RecordOf
  <2> QED BY <2>1, <2>2, <2>3, <2>4, <2>5, <2>6, <2>7, <2>8, <2>9
<1>26. CASE PersistFailed
  BY <1>26 DEF PersistFailed
<1>27. CASE Unlink
  BY <1>27 DEF Unlink
<1>28. CASE UnlinkFailed
  BY <1>28 DEF UnlinkFailed
<1>29. CASE ForgetWrite
  BY <1>29 DEF ForgetWrite
<1>30. CASE ForgetClear
  <2>1. plan \in Plan /\ ~assoc
    BY <1>30 DEF ForgetClear
  <2>2. CASE Fails /\ UNCHANGED <<plan, unlink, clearReq, phase>>
    BY <1>30, <2>2 DEF ForgetClear
  <2>3. CASE /\ journal' = NoRecord /\ unlink' = FALSE
             /\ plan' = [plan EXCEPT !.erased = FALSE] /\ Finish("cleared")
    <3>1. plan'.verified = plan.verified
      BY <2>1, <2>3, Cleared
    <3>2. plan.verified /\ plan.uid \notin dirty \cup owed
      BY <1>30, <2>1 DEF ForgetClear
    <3>3. dirty = {} /\ owed = {}
      BY <1>30, <2>1, <3>2 DEF ForgetClear
    <3> QED BY <1>30, <2>1, <2>3, <3>1, <3>2, <3>3 DEF ForgetClear
  <2> QED BY <1>30, <2>2, <2>3 DEF ForgetClear
<1>31. CASE Crash
  BY <1>31 DEF Crash
<1>32. ASSUME NEW t \in Tag, RecoverLink(t) PROVE IInv'
  <2>1. DirtyInv'
    BY <1>32 DEF RecoverLink, Reads, ReadPlan, Interrupted, Previous, PlanOf
  <2>2. ExecInv'
    BY <1>32 DEF RecoverLink, Reads, ReadPlan, Interrupted, Previous, PlanOf
  <2>3. ReviewInv'
    BY <1>32 DEF RecoverLink, Reads, ReadPlan, Interrupted, Previous, PlanOf
  <2>4. UnlinkInv'
    BY <1>32 DEF RecoverLink, Reads, ReadPlan, Interrupted, Previous, PlanOf
  <2>5. AssocInv'
    <3>1. plan' = [ReadPlan(t, "target") EXCEPT !.verified = TRUE]
      BY <1>32 DEF RecoverLink
    <3>2. plan' # NoPlan /\ plan'.uid = t /\ plan'.op = "write" /\ plan'.verified
      BY <3>1, FreshFinished
    <3>3. journal # NoRecord /\ journal.uid = t
      BY <1>32, ReadsRecord DEF RecoverLink, JournalState
    <3> QED BY <1>32, <3>2, <3>3 DEF RecoverLink
  <2>6. ErasedInv'
    BY <1>32 DEF RecoverLink, Reads, ReadPlan, Interrupted, Previous, PlanOf
  <2>7. StepInv'
    BY <1>32 DEF RecoverLink, Reads, ReadPlan, Interrupted, Previous, PlanOf
  <2>8. OwedInv'
    BY <1>32, ReadsRecord DEF RecoverLink, JournalState
  <2>9. AttemptInv'
    BY <1>32 DEF RecoverLink, Reads, ReadPlan, Interrupted, Previous, PlanOf
  <2> QED BY <2>1, <2>2, <2>3, <2>4, <2>5, <2>6, <2>7, <2>8, <2>9
<1>33. ASSUME NEW t \in Tag, RecoverLinkFailed(t) PROVE IInv'
  BY <1>33 DEF RecoverLinkFailed, Reads, ReadPlan, Interrupted, Previous, PlanOf
<1>34. ASSUME NEW t \in Tag, NEW j \in JournalState, ReadForWrite(t, j) PROVE IInv'
  <2>1. DirtyInv'
    BY <1>34 DEF ReadForWrite, Reads, ReadPlan, Interrupted, Previous, PlanOf
  <2>2. ExecInv'
    BY <1>34 DEF ReadForWrite, Reads, ReadPlan, Interrupted, Previous, PlanOf
  <2>3. ReviewInv'
    <3>1. /\ plan' # NoPlan /\ plan'.uid = t /\ plan'.op = "write" /\ plan'.original = memory[t]
          /\ plan'.jstate = j
          /\ plan'.attempted = FALSE /\ plan'.verified = FALSE /\ plan'.erased = FALSE
      <4>1. plan' = ReadPlan(t, j)
        BY <1>34 DEF ReadForWrite
      <4>2. plan' # NoPlan
        BY <4>1, ReadPlanType
      <4> QED BY <4>1, <4>2 DEF ReadPlan
    <3>2. (j = "none" => t \notin dirty \cup owed)
      BY <1>34, ReadsRecord DEF ReadForWrite
    <3> QED BY <1>34, <3>1, <3>2 DEF ReadForWrite
  <2>4. UnlinkInv'
    BY <1>34 DEF ReadForWrite, Reads, ReadPlan, Interrupted, Previous, PlanOf
  <2>5. AssocInv'
    BY <1>34 DEF ReadForWrite, Reads, ReadPlan, Interrupted, Previous, PlanOf
  <2>6. ErasedInv'
    BY <1>34 DEF ReadForWrite, Reads, ReadPlan, Interrupted, Previous, PlanOf
  <2>7. StepInv'
    BY <1>34 DEF ReadForWrite, Reads, ReadPlan, Interrupted, Previous, PlanOf
  <2>8. OwedInv'
    BY <1>34 DEF ReadForWrite, Reads, ReadPlan, Interrupted, Previous, PlanOf
  <2>9. AttemptInv'
    BY <1>34 DEF ReadForWrite, Reads, ReadPlan, Interrupted, Previous, PlanOf
  <2> QED BY <2>1, <2>2, <2>3, <2>4, <2>5, <2>6, <2>7, <2>8, <2>9
<1>35. ASSUME NEW t \in Tag, NEW j \in JournalState, ReadForClear(t, j) PROVE IInv'
  <2>1. DirtyInv'
    BY <1>35 DEF ReadForClear, Reads, ReadPlan, ClearPlan, Interrupted, Previous, PlanOf, OtherInterrupted
  <2>2. ExecInv'
    BY <1>35 DEF ReadForClear, Reads, ReadPlan, ClearPlan, Interrupted, Previous, PlanOf, OtherInterrupted
  <2>3. ReviewInv'
    <3>1. /\ plan' # NoPlan /\ plan'.uid = t /\ plan'.op = "clear" /\ plan'.original = memory[t]
          /\ plan'.jstate = j
          /\ plan'.attempted = FALSE /\ plan'.verified = FALSE /\ plan'.erased = FALSE
      <4>1. plan' = ClearPlan(t, j)
        BY <1>35 DEF ReadForClear
      <4>2. plan' # NoPlan
        BY <4>1, ReadPlanType
      <4> QED BY <4>1, <4>2 DEF ReadPlan, ClearPlan
    <3>2. (j = "none" => t \notin dirty \cup owed) /\ (journal # NoRecord => journal.uid = t)
      BY <1>35, ReadsRecord, ClearsOwn DEF ReadForClear, Reads
    <3> QED BY <1>35, <3>1, <3>2 DEF ReadForClear
  <2>4. UnlinkInv'
    BY <1>35 DEF ReadForClear, Reads, ReadPlan, ClearPlan, Interrupted, Previous, PlanOf, OtherInterrupted
  <2>5. AssocInv'
    BY <1>35 DEF ReadForClear, Reads, ReadPlan, ClearPlan, Interrupted, Previous, PlanOf, OtherInterrupted
  <2>6. ErasedInv'
    BY <1>35 DEF ReadForClear, Reads, ReadPlan, ClearPlan, Interrupted, Previous, PlanOf, OtherInterrupted
  <2>7. StepInv'
    BY <1>35 DEF ReadForClear, Reads, ReadPlan, ClearPlan, Interrupted, Previous, PlanOf, OtherInterrupted
  <2>8. OwedInv'
    BY <1>35 DEF ReadForClear, Reads, ReadPlan, ClearPlan, Interrupted, Previous, PlanOf, OtherInterrupted
  <2>9. AttemptInv'
    BY <1>35 DEF ReadForClear, Reads, ReadPlan, ClearPlan, Interrupted, Previous, PlanOf, OtherInterrupted
  <2> QED BY <2>1, <2>2, <2>3, <2>4, <2>5, <2>6, <2>7, <2>8, <2>9
<1>36. ASSUME NEW t \in Tag, NEW saved \in BOOLEAN, RecoverUnlink(t, saved) PROVE IInv'
  <2>1. DirtyInv'
    BY <1>36 DEF RecoverUnlink, Reads, ReadPlan, ClearPlan, Interrupted, Previous, PlanOf, OtherInterrupted, RecordOf
  <2>2. ExecInv'
    BY <1>36 DEF RecoverUnlink, Reads, ReadPlan, ClearPlan, Interrupted, Previous, PlanOf, OtherInterrupted, RecordOf
  <2>3. ReviewInv'
    BY <1>36 DEF RecoverUnlink, Reads, ReadPlan, ClearPlan, Interrupted, Previous, PlanOf, OtherInterrupted, RecordOf
  <2>4. UnlinkInv'
    <3>1. plan' = [ClearPlan(t, "target") EXCEPT !.verified = TRUE, !.erased = TRUE]
      BY <1>36 DEF RecoverUnlink
    <3>2. /\ plan' \in Plan /\ plan' # NoPlan /\ plan'.uid = t /\ plan'.op = "clear"
          /\ plan'.verified /\ plan'.erased
      BY <3>1, FreshFinished
    <3>3. journal' # NoRecord => journal'.uid = t
      <4>1. journal.uid = t
        BY <1>36, ReadsRecord DEF RecoverUnlink, JournalState
      <4>2. journal' = journal \/ journal' = RecordOf(plan')
        BY <1>36, <3>1 DEF RecoverUnlink
      <4> QED BY <3>2, <4>1, <4>2, SavedRecord
    <3> QED BY <1>36, <3>2, <3>3 DEF RecoverUnlink
  <2>5. AssocInv'
    BY <1>36 DEF RecoverUnlink, Reads, ReadPlan, ClearPlan, Interrupted, Previous, PlanOf, OtherInterrupted, RecordOf
  <2>6. ErasedInv'
    BY <1>36 DEF RecoverUnlink, Reads, ReadPlan, ClearPlan, Interrupted, Previous, PlanOf, OtherInterrupted, RecordOf
  <2>7. StepInv'
    BY <1>36 DEF RecoverUnlink, Reads, ReadPlan, ClearPlan, Interrupted, Previous, PlanOf, OtherInterrupted, RecordOf
  <2>8. OwedInv'
    <3>1. plan' = [ClearPlan(t, "target") EXCEPT !.verified = TRUE, !.erased = TRUE]
      BY <1>36 DEF RecoverUnlink
    <3>2. plan' \in Plan /\ plan'.uid = t
      BY <3>1, FreshFinished
    <3>3. journal # NoRecord /\ journal.uid = t
      BY <1>36, ReadsRecord DEF RecoverUnlink, JournalState
    <3>4. journal' = journal \/ journal' = RecordOf(plan')
      BY <1>36, <3>1 DEF RecoverUnlink
    <3>5. journal' # NoRecord /\ journal'.uid = t
      BY <3>2, <3>3, <3>4, SavedRecord
    <3> QED BY <1>36, <3>3, <3>5 DEF RecoverUnlink
  <2>9. AttemptInv'
    BY <1>36 DEF RecoverUnlink, Reads, ReadPlan, ClearPlan, Interrupted, Previous, PlanOf, OtherInterrupted, RecordOf
  <2> QED BY <2>1, <2>2, <2>3, <2>4, <2>5, <2>6, <2>7, <2>8, <2>9
<1>37. ASSUME NEW b \in Block, CommitBlock(b) PROVE IInv'
  <2>1. DirtyInv'
    BY <1>37 DEF CommitBlock
  <2>2. ExecInv'
    <3>1. plan \in Plan /\ memory[plan.uid] \in [Block -> Word]
      BY <1>37 DEF CommitBlock, Plan, Image
    <3>2. memory'[plan.uid] = [memory[plan.uid] EXCEPT ![b] = plan.target[b]]
      BY <1>37, <3>1 DEF CommitBlock, Plan
    <3>3. ASSUME NEW c \in Block
          PROVE  memory'[plan.uid][c] = IF c \in done' THEN plan.target[c] ELSE plan.original[c]
      BY <1>37, <3>1, <3>2 DEF CommitBlock
    <3> QED BY <1>37, <3>3 DEF CommitBlock
  <2>3. ReviewInv'
    BY <1>37 DEF CommitBlock
  <2>4. UnlinkInv'
    BY <1>37 DEF CommitBlock
  <2>5. AssocInv'
    BY <1>37 DEF CommitBlock
  <2>6. ErasedInv'
    BY <1>37 DEF CommitBlock
  <2>7. StepInv'
    BY <1>37 DEF CommitBlock
  <2>8. OwedInv'
    BY <1>37 DEF CommitBlock
  <2>9. AttemptInv'
    BY <1>37 DEF CommitBlock
  <2> QED BY <2>1, <2>2, <2>3, <2>4, <2>5, <2>6, <2>7, <2>8, <2>9
<1>38. ASSUME NEW b \in Block, CommitTorn(b) PROVE IInv'
  BY <1>38 DEF CommitTorn
<1>39. ASSUME NEW t \in Tag, Discard(t) PROVE IInv'
  BY <1>39 DEF Discard
<1>40. ASSUME NEW t \in Tag, Place(t) PROVE IInv'
  BY <1>40 DEF Place
<1>41. ASSUME NEW t \in Tag, Lift(t) PROVE IInv'
  BY <1>41 DEF Lift
<1>42. ASSUME NEW t \in Tag, NEW image \in ForeignImages, ForeignWrite(t, image) PROVE IInv'
  BY <1>42 DEF ForeignWrite
<1>43. ASSUME NEW s \in Setting, ChangeSettings(s) PROVE IInv'
  BY <1>43 DEF ChangeSettings
<1>44. CASE UNCHANGED vars
  BY <1>44
<1> QED
  BY <1>1, <1>2, <1>3, <1>4, <1>5, <1>6, <1>7, <1>8, <1>9, <1>10, <1>11, <1>12, <1>13, <1>14, <1>15, <1>16, <1>17, <1>18, <1>19, <1>20, <1>21, <1>22, <1>23, <1>24, <1>25, <1>26, <1>27, <1>28, <1>29, <1>30, <1>31, <1>32, <1>33, <1>34, <1>35, <1>36, <1>37, <1>38, <1>39, <1>40, <1>41, <1>42, <1>43, <1>44
  DEF Next, Requests, Serving, Reading, Executing, Linking, Environment, Action, Physical

LEMMA InitRecovery == Init => IInv
BY AbsentAssumption DEF Init, IInv, DirtyInv, ExecInv, Reviewed, ReviewInv, UnlinkInv, AssocInv,
  ErasedInv, AttemptInv, StepInv, OwedInv, PendingSurvives, NoCommand

LEMMA Recovery == Spec => [](TypeInv /\ IInv)
<1>1. Init => TypeInv /\ IInv
  BY InitType, InitRecovery
<1>2. TypeInv /\ IInv /\ [Next]_vars => TypeInv' /\ IInv'
  BY TypeStep, RecoveryStep
<1> QED BY <1>1, <1>2, PTL DEF Spec

\* A tag the station left half written or half erased is described by the
\* durable record, for any number of tags, blocks, spools and settings.
THEOREM Recoverable == Spec => []RecoveryCovers
<1>1. IInv => RecoveryCovers
  BY DEF IInv, DirtyInv, RecoveryCovers
<1> QED BY <1>1, Recovery, PTL

\* A link or an unlink that Spoolman does not have yet is never forgotten.
THEOREM PendingKept == Spec => []PendingSurvives
<1>1. IInv => PendingSurvives
  BY DEF IInv, OwedInv
<1> QED BY <1>1, Recovery, PTL

\* Where a step replaces the record, the plan it saves is of the same tag.
LEMMA SameTag ==
  ASSUME TypeInv, IInv, [Next]_vars, journal # NoRecord, journal' # NoRecord
  PROVE  journal'.uid = journal.uid
<1> USE DEF TypeInv, TypeOK, HasPlan
<1>1. CASE SaveRecord
  BY <1>1, SavedRecord DEF SaveRecord, IInv, ReviewInv, Reviewed
<1>2. CASE Persist
  BY <1>2, SavedRecord DEF Persist, IInv, UnlinkInv, StepInv
<1>3. ASSUME NEW t \in Tag, NEW saved \in BOOLEAN, RecoverUnlink(t, saved)
      PROVE journal'.uid = journal.uid
  <2>1. journal.uid = t
    BY <1>3, ReadsRecord DEF RecoverUnlink, JournalState
  <2> DEFINE p == [ClearPlan(t, "target") EXCEPT !.verified = TRUE, !.erased = TRUE]
  <2>2. p \in Plan /\ p.uid = t
    BY FreshFinished
  <2>3. journal' = journal \/ journal' = RecordOf(p)
    BY <1>3 DEF RecoverUnlink
  <2> HIDE DEF p
  <2> QED BY <2>1, <2>2, <2>3, SavedRecord
<1>4. ASSUME ~SaveRecord, ~Persist,
             \A t \in Tag, saved \in BOOLEAN : ~RecoverUnlink(t, saved)
      PROVE journal' \in {journal, NoRecord}
  BY <1>4 DEF Next, Requests, Serving, Reading, Executing, Linking, Environment, Receive,
    Boot, Refuse, Conclude, Edit, Browse, StartRead, ClearElsewhere, ReadFailed, ShowPreview,
    LoadFailed, RecoverLink, RecoverLinkFailed, ReadForWrite, ReadForClear, Confirm,
    ConfirmRefused, SaveFailed, Validate, ValidateRefused, CommitBlock, CommitTorn,
    ExecuteStopped, Verified, VerifyWrite, VerifyClear, Retry, RetryRefused, Link, LinkFailed,
    PersistFailed, Unlink, UnlinkFailed, ForgetWrite, ForgetClear, Forgotten, Discard, Crash,
    Place, Lift, ForeignWrite, ChangeSettings
<1> QED BY <1>1, <1>2, <1>3, <1>4

\* The record of one tag never gives way to the record of another: between the
\* two, it is used up or discarded.
THEOREM RecordKept == Spec => ForeignRecordKept
<1>1. TypeInv /\ IInv /\ [Next]_vars =>
        [journal # NoRecord /\ journal' # NoRecord => journal'.uid = journal.uid]_vars
  BY SameTag
<1> QED BY <1>1, Recovery, PTL DEF ForeignRecordKept, Spec

\* Only two steps change a tag under way, and both change the planned one.
LEMMA OnlyPlanned ==
  ASSUME TypeInv, IInv, [Next]_vars, NEW t \in Tag, pc = "commit", memory'[t] # memory[t]
  PROVE  /\ journal # NoRecord
         /\ journal.uid = t
         /\ journal.original = plan.original /\ journal.target = plan.target
         /\ \A b \in Block : memory[t][b] =
              IF b \in done THEN journal.target[b] ELSE journal.original[b]
<1> USE DEF TypeInv, TypeOK, HasPlan
<1>1. /\ journal # NoRecord
      /\ journal.uid = plan.uid
      /\ journal.original = plan.original /\ journal.target = plan.target
      /\ \A b \in Block : memory[plan.uid][b] =
           IF b \in done THEN plan.target[b] ELSE plan.original[b]
  BY DEF IInv, ExecInv
<1>2. t = plan.uid
  <2>1. ASSUME NEW b \in Block, CommitBlock(b) PROVE t = plan.uid
    BY <2>1 DEF CommitBlock
  <2>2. ASSUME NEW b \in Block, CommitTorn(b) PROVE t = plan.uid
    BY <2>2 DEF CommitTorn
  <2>3. ASSUME \A b \in Block : ~CommitBlock(b) /\ ~CommitTorn(b) PROVE memory' = memory
    BY <2>3 DEF Next, Requests, Serving, Reading, Executing, Linking, Environment, Receive,
      Boot, Refuse, Conclude, Edit, Browse, StartRead, ClearElsewhere, ReadFailed, Reads,
      ShowPreview, LoadFailed, RecoverLink, RecoverLinkFailed, ReadForWrite, ReadForClear,
      RecoverUnlink, Confirm, ConfirmRefused, SaveRecord, SaveFailed, Validate,
      ValidateRefused, ExecuteStopped, Verified, VerifyWrite, VerifyClear, Retry,
      RetryRefused, Link, LinkFailed, Persist, PersistFailed, Unlink, UnlinkFailed,
      ForgetWrite, ForgetClear, Discard, Crash, Place, Lift, ForeignWrite, ChangeSettings
  <2> QED BY <2>1, <2>2, <2>3
<1> QED BY <1>1, <1>2

\* No block of a tag is changed before the durable record holds that tag, its
\* original image and its target, or on a tag that is not as reviewed.
THEOREM WrittenAhead == Spec => WriteAhead
<1>1. TypeInv /\ IInv /\ [Next]_vars =>
        [\A t \in Tag : pc = "commit" /\ memory'[t] # memory[t] =>
           /\ journal # NoRecord
           /\ journal.uid = t
           /\ journal.original = plan.original /\ journal.target = plan.target
           /\ \A b \in Block : memory[t][b] =
                IF b \in done THEN journal.target[b] ELSE journal.original[b]]_vars
  BY OnlyPlanned
<1> QED BY <1>1, Recovery, PTL DEF WriteAhead, Spec
-----------------------------------------------------------------------------
(* Why what is linked is what was written, and why a half-written tag can   *)
(* still be told apart: the inductive invariant behind Coherent.            *)

\* The plan carries an image proposed for the spool to be linked.
Proposed == spool # NoSpool /\ plan.target \in Images[spool]

\* What a confirmation is asked for.
PreviewInv ==
  /\ pc = "load" => plan.op = "write"
  /\ phase = "preview" /\ plan # NoPlan => plan.op = "write" /\ Proposed
  /\ phase = "clear_preview" /\ plan # NoPlan => plan.target = Blank

\* What was confirmed is carried out under the settings of the preview.
ConfirmedInv ==
  pc \in {"save", "validate", "commit"} =>
    /\ captured = settings
    /\ plan.op = "write" => Proposed
    /\ plan.op = "clear" => plan.target = Blank

\* The record of the change under way says all of that.
RecordedInv ==
  pc \in {"validate", "commit"} =>
    /\ journal.op = plan.op
    /\ journal.settings = settings
    /\ plan.op = "write" => journal.spool = spool

\* Any record, also one that is read back later.
JournalInv ==
  journal # NoRecord =>
    /\ journal.spool # NoSpool => journal.target \in Images[journal.spool]
    /\ journal.op = "clear" => journal.target = Blank

LinkInv ==
  /\ assoc =>
       /\ Proposed
       /\ journal # NoRecord =>
            /\ journal.target = plan.target
            /\ journal.spool = spool /\ journal.settings = captured
  /\ unlink => plan.target = Blank
  /\ pc = "link" => captured = settings
  /\ pc = "unlink" => journal # NoRecord /\ journal.erased /\ journal.settings = settings

\* Blocks are written in the order the plan gives them.
DoneInv ==
  pc = "commit" =>
    \A b \in done : b \in Changed(plan) /\ Changed(plan) \cap After(plan.op, b) \subseteq done

CInv ==
  /\ PreviewInv /\ ConfirmedInv /\ RecordedInv /\ JournalInv /\ LinkInv
  /\ DoneInv /\ EnvelopeLast

LEMMA CoherentStep == TypeInv /\ IInv /\ CInv /\ [Next]_vars => CInv'
<1> SUFFICES ASSUME TypeInv, IInv, CInv, [Next]_vars PROVE CInv'
  OBVIOUS
<1> USE AbsentAssumption DEF TypeInv, TypeOK, HasPlan, IInv, DirtyInv, ExecInv, ReviewInv, Reviewed,
  UnlinkInv, AssocInv, ErasedInv, AttemptInv, StepInv, OwedInv, PendingSurvives, Covered, CInv,
  PreviewInv, ConfirmedInv, RecordedInv, JournalInv, LinkInv, DoneInv, EnvelopeLast, Proposed,
  Finish, Fails, Forgotten, Admitted, NoCommand
<1>1. CASE Boot
  BY <1>1 DEF Boot, Restored, PlanOf, Record
<1>2. CASE Refuse
  BY <1>2 DEF Refuse
<1>3. CASE Conclude
  BY <1>3 DEF Conclude, Restored, PlanOf, Record
<1>4. CASE Edit
  <2>1. UNCHANGED <<world, journal, flags, spool, captured, history>>
        /\ plan' = NoPlan /\ phase' \in {"updated", "failed"} /\ pc' = "idle"
    BY <1>4 DEF Edit
  <2>2. ~assoc /\ ~unlink
    BY <1>4 DEF Edit, Gated
  <2> QED BY <2>1, <2>2
<1>5. CASE Browse
  BY <1>5 DEF Browse
<1>6. CASE StartRead
  BY <1>6 DEF StartRead
<1>7. CASE ClearElsewhere
  BY <1>7 DEF ClearElsewhere
<1>8. CASE ReadFailed
  BY <1>8 DEF ReadFailed
<1>9. CASE ShowPreview
  BY <1>9 DEF ShowPreview
<1>10. CASE LoadFailed
  BY <1>10 DEF LoadFailed
<1>11. CASE Confirm
  BY <1>11 DEF Confirm, CanWrite, CanClear
<1>12. CASE ConfirmRefused
  BY <1>12 DEF ConfirmRefused
<1>13. CASE SaveRecord
  <2>1. /\ journal' # NoRecord
        /\ journal'.uid = plan.uid /\ journal'.op = plan.op
        /\ journal'.original = plan.original /\ journal'.target = plan.target
        /\ journal'.settings = settings
        /\ journal'.spool = IF plan.op = "write" THEN spool ELSE NoSpool
    BY <1>13, SavedRecord DEF SaveRecord, RecordOf
  <2>2. PreviewInv' /\ ConfirmedInv' /\ LinkInv' /\ DoneInv'
    BY <1>13 DEF SaveRecord
  <2>3. RecordedInv' /\ JournalInv'
    <3>1. plan.op \in {"write", "clear"}
      BY <1>13 DEF SaveRecord, Plan, Operation
    <3> QED BY <1>13, <2>1, <3>1 DEF SaveRecord
  <2>4. EnvelopeLast'
    <3>1. ASSUME NEW t \in dirty PROVE t = plan.uid /\ memory[t] = plan.original
      BY <1>13, <3>1 DEF SaveRecord
    <3> QED BY <1>13, <2>1, <3>1 DEF SaveRecord
  <2> QED BY <2>2, <2>3, <2>4
<1>14. CASE SaveFailed
  BY <1>14 DEF SaveFailed
<1>15. CASE Validate
  BY <1>15 DEF Validate
<1>16. CASE ValidateRefused
  BY <1>16 DEF ValidateRefused
<1>17. CASE ExecuteStopped
  BY <1>17 DEF ExecuteStopped
<1>18. CASE VerifyWrite
  BY <1>18 DEF VerifyWrite, Verified
<1>19. CASE VerifyClear
  BY <1>19 DEF VerifyClear, Verified
<1>20. CASE Retry
  BY <1>20 DEF Retry, CanLink, CanUnlink
<1>21. CASE RetryRefused
  BY <1>21 DEF RetryRefused
<1>22. CASE Link
  BY <1>22 DEF Link
<1>23. CASE LinkFailed
  BY <1>23 DEF LinkFailed
<1>24. CASE Persist
  <2>1. /\ plan \in Plan
        /\ plan.op = "clear" /\ plan.erased /\ plan.target = Blank
        /\ dirty = {} /\ ~assoc
    BY <1>24 DEF Persist
  <2>2. /\ journal' # NoRecord
        /\ journal'.op = "clear" /\ journal'.target = Blank /\ journal'.erased
        /\ journal'.settings = settings /\ journal'.spool = NoSpool
    BY <1>24, <2>1, SavedRecord DEF Persist, RecordOf
  <2> QED BY <1>24, <2>1, <2>2 DEF Persist
<1>25. CASE PersistFailed
  BY <1>25 DEF PersistFailed
<1>26. CASE Unlink
  BY <1>26 DEF Unlink
<1>27. CASE UnlinkFailed
  BY <1>27 DEF UnlinkFailed
<1>28. CASE ForgetWrite
  BY <1>28 DEF ForgetWrite
<1>29. CASE ForgetClear
  BY <1>29 DEF ForgetClear
<1>30. CASE Crash
  BY <1>30 DEF Crash
<1>31. ASSUME NEW a \in Action, NEW s \in Spool \cup {NoSpool}, Receive(a, s) PROVE CInv'
  BY <1>31 DEF Receive, Restored, PlanOf, Record
<1>32. ASSUME NEW t \in Tag, RecoverLink(t) PROVE CInv'
  <2>1. journal # NoRecord /\ journal.uid = t
    BY <1>32, ReadsRecord DEF RecoverLink, JournalState
  <2>2. memory[t] = journal.target
    BY <1>32, <2>1 DEF RecoverLink, Reads, Classify, Previous, PlanOf
  <2>3. plan' # NoPlan /\ plan'.op = "write" /\ plan'.target = memory[t]
    BY <1>32, FreshFinished, ReadPlanType DEF RecoverLink, ReadPlan
  <2>4. spool' = journal.spool /\ journal.spool # NoSpool
        /\ journal.settings = settings /\ captured' = settings
    BY <1>32, <2>1 DEF RecoverLink, JournalSpool, JournalSettings
  <2>5. /\ UNCHANGED <<memory, settings, journal, unlink>>
        /\ assoc' /\ pc' = "idle" /\ phase' = "association_pending" /\ dirty' \subseteq dirty
        /\ ~unlink
    BY <1>32 DEF RecoverLink, Reads
  <2> QED BY <2>1, <2>2, <2>3, <2>4, <2>5
<1>33. ASSUME NEW t \in Tag, RecoverLinkFailed(t) PROVE CInv'
  BY <1>33 DEF RecoverLinkFailed, Reads, ReadPlan
<1>34. ASSUME NEW t \in Tag, NEW j \in JournalState, ReadForWrite(t, j) PROVE CInv'
  BY <1>34 DEF ReadForWrite, ReadPlan, Reads
<1>35. ASSUME NEW t \in Tag, NEW j \in JournalState, ReadForClear(t, j) PROVE CInv'
  BY <1>35 DEF ReadForClear, ClearPlan, ReadPlan, Reads
<1>36. ASSUME NEW t \in Tag, NEW saved \in BOOLEAN, RecoverUnlink(t, saved) PROVE CInv'
  <2>1. journal # NoRecord /\ journal.uid = t
    BY <1>36, ReadsRecord DEF RecoverUnlink, JournalState
  <2> DEFINE p == [ClearPlan(t, "target") EXCEPT !.verified = TRUE, !.erased = TRUE]
  <2>2. p \in Plan /\ p.op = "clear"
    BY FreshFinished
  <2>3. p.target = Blank
    BY DEF ClearPlan, ReadPlan
  <2>4. plan' = p /\ (journal' = journal \/ journal' = RecordOf(p))
    BY <1>36 DEF RecoverUnlink
  <2> HIDE DEF p
  <2>5. RecordOf(p) # NoRecord /\ RecordOf(p).target = p.target
    BY <2>2, SavedRecord
  <2>6. RecordOf(p).spool = NoSpool
    BY <2>2 DEF RecordOf
  <2>7. journal' # NoRecord
        /\ (journal' = journal
            \/ (journal'.spool = NoSpool /\ journal'.target = Blank))
    BY <2>1, <2>3, <2>4, <2>5, <2>6
  <2>8. /\ dirty' = {}
        /\ UNCHANGED <<memory, settings, assoc>> /\ ~assoc
        /\ pc' \in {"idle", "failed"} /\ phase' \in {"unlink_pending", "reading"}
    BY <1>36, <2>1 DEF RecoverUnlink, Reads
  <2> QED BY <2>2, <2>3, <2>4, <2>7, <2>8
<1>37. ASSUME NEW b \in Block, CommitBlock(b) PROVE CInv'
  <2>1. PreviewInv' /\ ConfirmedInv' /\ RecordedInv' /\ JournalInv' /\ LinkInv'
    BY <1>37 DEF CommitBlock
  <2>2. DoneInv'
    BY <1>37 DEF CommitBlock, Due, Changed
  <2>3. EnvelopeLast'
    <3>1. ExecInv'
      BY <1>37, RecoveryStep
    <3>2. /\ plan' = plan /\ journal' = journal /\ pc' = "commit"
          /\ journal.op = plan.op /\ journal.uid = plan.uid
          /\ journal.original = plan.original /\ journal.target = plan.target
      BY <1>37 DEF CommitBlock
    <3>3. ASSUME NEW t \in dirty', Covered(t)', NEW x \in Block,
                 memory'[t][x] = journal.target[x], journal.target[x] # journal.original[x],
                 NEW c \in After(journal.op, x)
          PROVE  memory'[t][c] = journal.target[c]
      <4>1. t = plan.uid
        BY <3>2, <3>3
      <4>2. c \in Block
        BY <3>3 DEF After
      <4>3. x \in done'
        BY <3>1, <3>2, <3>3, <4>1
      <4>4. c \in Changed(plan) => c \in done'
        BY <2>2, <3>2, <3>3, <4>3
      <4>5. c \notin Changed(plan) => plan.target[c] = plan.original[c]
        BY <4>2 DEF Changed
      <4> QED BY <3>1, <3>2, <4>1, <4>2, <4>4, <4>5
    <3> QED BY <3>2, <3>3
  <2> QED BY <2>1, <2>2, <2>3
<1>38. ASSUME NEW b \in Block, CommitTorn(b) PROVE CInv'
  <2>1. PreviewInv' /\ ConfirmedInv' /\ RecordedInv' /\ JournalInv' /\ LinkInv' /\ DoneInv'
    BY <1>38 DEF CommitTorn
  <2>2. EnvelopeLast'
    <3>2. /\ journal' = journal /\ done \subseteq Block
          /\ journal.op = plan.op /\ journal.uid = plan.uid
          /\ journal.original = plan.original /\ journal.target = plan.target
          /\ \A c \in Block : memory[plan.uid][c] =
               IF c \in done THEN plan.target[c] ELSE plan.original[c]
      BY <1>38 DEF CommitTorn
    <3>1. \A c \in Block \ {b} : memory'[plan.uid][c] = memory[plan.uid][c]
      <4>1. plan \in Plan
        BY <1>38 DEF CommitTorn
      <4>2. plan.uid \in Tag /\ memory[plan.uid] \in [Block -> Word]
        BY <4>1 DEF Plan, Image
      <4>3. PICK w : memory' = [memory EXCEPT ![plan.uid][b] = w]
        BY <1>38 DEF CommitTorn
      <4> QED BY <4>2, <4>3
    <3>3. ASSUME NEW t \in dirty', Covered(t)', NEW x \in Block,
                 memory'[t][x] = journal.target[x], journal.target[x] # journal.original[x],
                 NEW c \in After(journal.op, x)
          PROVE  memory'[t][c] = journal.target[c]
      <4>1. t = plan.uid
        BY <3>2, <3>3
      <4>2. c \in Block /\ c # x
        BY <3>3, BlockAssumption DEF After
      <4>3. x = b \/ x \in done
        BY <3>1, <3>2, <3>3, <4>1
      <4>4. c \in Changed(plan) => c \in done
        BY <1>38, <3>2, <3>3, <4>3 DEF CommitTorn, Due
      <4>5. b \in Changed(plan) \ done
        BY <1>38 DEF CommitTorn, Due
      <4>6. c # b
        BY <4>4, <4>5
      <4>7. c \notin Changed(plan) => plan.target[c] = plan.original[c]
        BY <4>2 DEF Changed
      <4> QED BY <3>1, <3>2, <4>1, <4>2, <4>4, <4>6, <4>7
    <3> QED BY <3>2, <3>3
  <2> QED BY <2>1, <2>2
<1>39. ASSUME NEW t \in Tag, Discard(t) PROVE CInv'
  BY <1>39 DEF Discard
<1>40. ASSUME NEW t \in Tag, Place(t) PROVE CInv'
  BY <1>40 DEF Place
<1>41. ASSUME NEW t \in Tag, Lift(t) PROVE CInv'
  BY <1>41 DEF Lift
<1>42. ASSUME NEW t \in Tag, NEW image \in ForeignImages, ForeignWrite(t, image) PROVE CInv'
  BY <1>42 DEF ForeignWrite
<1>43. ASSUME NEW s \in Setting, ChangeSettings(s) PROVE CInv'
  BY <1>43 DEF ChangeSettings
<1>44. CASE UNCHANGED vars
  BY <1>44
<1> HIDE DEF CInv, TypeInv, IInv
<1> QED
  BY <1>1, <1>2, <1>3, <1>4, <1>5, <1>6, <1>7, <1>8, <1>9, <1>10, <1>11, <1>12, <1>13, <1>14,
    <1>15, <1>16, <1>17, <1>18, <1>19, <1>20, <1>21, <1>22, <1>23, <1>24, <1>25, <1>26, <1>27,
    <1>28, <1>29, <1>30, <1>31, <1>32, <1>33, <1>34, <1>35, <1>36, <1>37, <1>38, <1>39, <1>40,
    <1>41, <1>42, <1>43, <1>44
  DEF Next, Requests, Serving, Reading, Executing, Linking, Environment, Action, Physical

LEMMA InitCoherent == Init => CInv
BY AbsentAssumption DEF Init, CInv, PreviewInv, ConfirmedInv, RecordedInv, JournalInv, LinkInv,
  DoneInv, EnvelopeLast, Proposed

\* The station links a tag to the spool whose image the tag was given and
\* recorded with, unlinks only a tag seen blank, and leaves a half-written tag
\* in a state that tells it apart, for any number of tags, blocks, spools and
\* settings (tag_writer_service.cpp:1300-1460, openprinttag_writer.cpp).
THEOREM LinkedAsWritten == Spec => []Coherent
<1>1. Init => TypeInv /\ IInv /\ CInv
  BY InitType, InitRecovery, InitCoherent
<1>2. TypeInv /\ IInv /\ CInv /\ [Next]_vars => TypeInv' /\ IInv' /\ CInv'
  BY TypeStep, RecoveryStep, CoherentStep
<1>3. TypeInv /\ IInv /\ CInv => Coherent
  <2> SUFFICES ASSUME TypeInv, IInv, CInv PROVE LinkFaithful
    BY DEF Coherent, TypeInv, CInv
  <2>1. CASE pc = "link"
    BY <2>1 DEF LinkFaithful, IInv, AssocInv, StepInv, CInv, LinkInv, Proposed
  <2>2. CASE pc = "unlink"
    BY <2>2 DEF LinkFaithful, IInv, UnlinkInv, StepInv, CInv, LinkInv
  <2> QED BY <2>1, <2>2 DEF LinkFaithful
<1> QED BY <1>1, <1>2, <1>3, PTL DEF Spec
=============================================================================
