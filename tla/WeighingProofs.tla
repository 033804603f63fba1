--------------------------- MODULE WeighingProofs ---------------------------
(* Theorems of the way from the tag to the saved weight, for every number   *)
(* of tags, spools and servers, every queue and every bound: the current    *)
(* spool is that of the tag on the reader, and a measurement is saved once, *)
(* for its tag and over the value that the user saw.                        *)
EXTENDS Weighing, SequenceTheorems, TLAPS

USE DEF world, station_vars, backend, history, vars

\* A lookup in the queue is of a tag.
Lookups == {c \in Command : c.type = "lookup" => c.tag \in Tag}

\* The types, variable by variable.
WorldOK ==
  /\ remain \in [Backend -> [Spool -> Weight]]
  /\ station \in Tag \cup {NoTag}
  /\ config \in [rev : Revision, url : Backend, auto : BOOLEAN]
NfcOK ==
  nfc \in [tag : Tag \cup {NoTag}, read : BOOLEAN, missed : BOOLEAN,
          submitted : BOOLEAN, retries : 0 .. MaxRetries]
WfOK ==
  wf \in [gen : Generation, tag : Tag \cup {NoTag}, stage : Stage,
         spool : Spool \cup {NoSpool}, seen : Weight,
         online : {"unknown", "online", "offline"}, unreachable : BOOLEAN]
\* While a tag is read its generation is not the last one.
ReadOK == nfc.read => wf.gen + 1 \in Generation
AdapterOK == adapter \in [rev : Revision, url : Backend, capable : BOOLEAN]
QueueOK == queue \in Seq(Command) /\ Len(queue) <= QueueLimit /\ queue \in Seq(Lookups)
PcOK == pc \in PC /\ outcome \in {"failed", "conflict"}
ActOK == act \in [id : Measurement, gen : Generation, spool : Spool \cup {NoSpool}]
ScaleOK ==
  scale \in [state : {"idle", "queued", "starting", "measuring"},
            id : Measurement, rev : Revision, auto : BOOLEAN]
SessionOK == session \in Session /\ session.measured >= 0
HistoryOK == origin \in Backend /\ gone \in BOOLEAN /\ raced \in BOOLEAN /\ writes \in Nat

TypeInv ==
  /\ WorldOK /\ NfcOK /\ WfOK /\ ReadOK /\ AdapterOK /\ QueueOK /\ PcOK /\ ActOK
  /\ ScaleOK /\ SessionOK /\ HistoryOK

\* The workflow has a tag exactly while the reader has read one, and has a
\* spool only then.
TagInv ==
  /\ nfc.read => nfc.tag # NoTag /\ wf.tag = nfc.tag
  /\ ~nfc.read => wf.tag = NoTag /\ wf.stage = "awaiting" /\ wf.spool = NoSpool
  /\ wf.stage = "ready" => wf.spool # NoSpool /\ wf.spool = Link[origin][wf.tag]

\* A generation has one tag, and a session whose tag has been seen to leave
\* is of an earlier one.
SessionInv ==
  /\ session.gen <= wf.gen
  /\ session.gen = wf.gen => session.tag = wf.tag
  /\ gone /\ session.gen = wf.gen => session.tag = NoTag
  /\ session.spool # NoSpool =>
       session.tag \in Tag /\ \E b \in Backend : session.spool = Link[b][session.tag]

AtRequests == {"caps", "fence", "get", "confirm", "patch", "verify", "fresh"}

\* While an update is at its requests its session stays, and after the first
\* fence the tag cannot leave unseen.
UpdateInv ==
  /\ pc \in AtRequests => session.phase = "updating" /\ session.consumed
  /\ pc \in {"get", "confirm", "patch"} => SameSpool
  /\ pc \in {"confirm", "patch"} => raced \/ Held = session.expected

\* The PATCHes of this session, by what may still follow.
WritesInv ==
  /\ pc \in {"caps", "fence", "get", "confirm", "patch"} => writes = 0
  /\ session.phase = "measuring" \/ (session.phase = "ready" /\ ~session.consumed) => writes = 0
  /\ pc = "verify" => writes = 1
  /\ writes <= 1
  /\ outcome = "conflict" => pc = "fresh" /\ writes = 0

IInv == TagInv /\ SessionInv /\ UpdateInv /\ WritesInv
-----------------------------------------------------------------------------
(* Bounds and the queue *)

LEMMA Generations ==
  /\ 0 \in Generation /\ 0 \in Measurement /\ 0 \in Revision
  /\ \A g \in Generation : g \in Nat
  /\ \A i \in Measurement : i \in Nat
  /\ \A r \in Revision : r \in Nat
<1>1. PICK b \in Bounds : TRUE
  BY BoundAssumption
<1>2. b.generation \in Nat /\ b.measurement \in Nat /\ b.revision \in Nat
  BY BoundAssumption
<1>3. 0 \in 0 .. b.generation /\ 0 \in 0 .. b.measurement /\ 0 \in 0 .. b.revision
  BY <1>2
<1>4. 0 \in Generation /\ 0 \in Measurement /\ 0 \in Revision
  BY <1>1, <1>3 DEF Generation, Measurement, Revision
<1>5. ASSUME NEW g, g \in Generation \/ g \in Measurement \/ g \in Revision
      PROVE  g \in Nat
  <2>1. PICK c \in Bounds : g \in 0 .. c.generation \/ g \in 0 .. c.measurement
                               \/ g \in 0 .. c.revision
    BY <1>5 DEF Generation, Measurement, Revision
  <2> QED BY <2>1
<1> QED BY <1>4, <1>5

LEMMA Bounded ==
  ASSUME NEW g \in Nat, NEW i \in Nat, NEW r \in Nat, Within(g, i, r)
  PROVE  g \in Generation /\ i \in Measurement /\ r \in Revision
<1>1. PICK b \in Bounds : g <= b.generation /\ i <= b.measurement /\ r <= b.revision
  BY DEF Within
<1>2. b.generation \in Nat /\ b.measurement \in Nat /\ b.revision \in Nat
  BY BoundAssumption
<1>3. g \in 0 .. b.generation /\ i \in 0 .. b.measurement /\ r \in 0 .. b.revision
  BY <1>1, <1>2
<1> QED BY <1>3 DEF Generation, Measurement, Revision

LEMMA Smaller ==
  ASSUME NEW g \in Nat, g + 1 \in Generation
  PROVE  g \in Generation
<1>1. PICK b \in Bounds : g + 1 \in 0 .. b.generation
  BY DEF Generation
<1>2. b.generation \in Nat
  BY BoundAssumption
<1>3. g \in 0 .. b.generation
  BY <1>1, <1>2
<1> QED BY <1>3 DEF Generation

LEMMA Queued ==
  ASSUME TypeInv, NEW c \in Lookups, Room(queue)
  PROVE  /\ Append(queue, c) \in Seq(Lookups) /\ Append(queue, c) \in Seq(Command)
         /\ Len(Append(queue, c)) <= QueueLimit
<1>1. c \in Command /\ queue \in Seq(Command) /\ queue \in Seq(Lookups) /\ Len(queue) \in Nat
  BY DEF Lookups, TypeInv, QueueOK
<1>2. Len(Append(queue, c)) = Len(queue) + 1
  BY <1>1
<1> QED BY <1>1, <1>2, LimitAssumption DEF Room

LEMMA Taken ==
  ASSUME TypeInv, queue # <<>>
  PROVE  /\ Tail(queue) \in Seq(Lookups) /\ Tail(queue) \in Seq(Command)
         /\ Len(Tail(queue)) <= QueueLimit
         /\ Head(queue) \in Lookups
<1>1. queue \in Seq(Command) /\ queue \in Seq(Lookups) /\ Len(queue) <= QueueLimit
  BY DEF TypeInv, QueueOK
<1>2. Len(queue) \in Nat \ {0} /\ Len(Tail(queue)) = Len(queue) - 1
  BY <1>1
<1> QED BY <1>1, <1>2, LimitAssumption

LEMMA Typed == TypeInv => TypeOK
BY DEF TypeInv, TypeOK, WorldOK, NfcOK, WfOK, AdapterOK, QueueOK, PcOK, ActOK, ScaleOK, SessionOK,
  HistoryOK

-----------------------------------------------------------------------------
(* What the steps make of a session and of the workflow's state *)

LEMMA SessionUpdates ==
  ASSUME NEW x \in Session, x.measured >= 0, NEW phase \in Phase
  PROVE  /\ [x EXCEPT !.phase = phase] \in Session
         /\ [x EXCEPT !.phase = phase].measured >= 0
         /\ [x EXCEPT !.phase = phase, !.consumed = TRUE] \in Session
         /\ [x EXCEPT !.phase = phase, !.consumed = TRUE].measured >= 0
         /\ \A g \in Grams : g >= 0 =>
              /\ [x EXCEPT !.phase = phase, !.measured = g] \in Session
              /\ [x EXCEPT !.phase = phase, !.measured = g].measured >= 0
BY DEF Session

LEMMA Opens ==
  ASSUME WfOK, ScaleOK
  PROVE  Opened \in Session /\ Opened.measured >= 0
<1> DEFINE s == IF Known THEN wf.spool ELSE NoSpool
           w == IF Known THEN wf.seen ELSE 0
<1>1. /\ scale.id \in Measurement /\ wf.gen \in Generation /\ wf.tag \in Tag \cup {NoTag}
      /\ scale.rev \in Revision /\ scale.auto \in BOOLEAN
      /\ wf.spool \in Spool \cup {NoSpool} /\ wf.seen \in Weight
  BY DEF WfOK, ScaleOK
<1>2. 0 \in Weight /\ "measuring" \in Phase
  BY WeightAssumption DEF Weight, Phase
<1>3. s \in Spool \cup {NoSpool} /\ w \in Weight
  BY <1>1, <1>2
<1>4. Opened = [NoSession EXCEPT !.id = scale.id, !.phase = "measuring", !.gen = wf.gen,
                  !.tag = wf.tag, !.rev = scale.rev, !.auto = scale.auto, !.spool = s,
                  !.expected = w]
  BY DEF Opened
<1> HIDE DEF s, w
<1>5. Opened = [id |-> scale.id, phase |-> "measuring", gen |-> wf.gen, tag |-> wf.tag,
                spool |-> s, rev |-> scale.rev, auto |-> scale.auto, expected |-> w,
                measured |-> 0, consumed |-> FALSE]
  BY <1>4 DEF NoSession
<1> QED BY <1>1, <1>2, <1>3, <1>5 DEF Session

\* The states that the workflow may be in.
Flow ==
  [gen : Generation, tag : Tag \cup {NoTag}, stage : Stage,
   spool : Spool \cup {NoSpool}, seen : Weight,
   online : {"unknown", "online", "offline"}, unreachable : BOOLEAN]

LEMMA Clears ==
  ASSUME WfOK, wf.gen + 1 \in Generation
  PROVE  /\ Cleared \in Flow
         /\ Cleared.gen = wf.gen + 1 /\ Cleared.tag = NoTag /\ Cleared.stage = "awaiting"
         /\ Cleared.spool = NoSpool
         /\ \A t \in Tag \cup {NoTag} :
              /\ Begun(t) \in Flow
              /\ Begun(t).gen = wf.gen + 1 /\ Begun(t).tag = t /\ Begun(t).stage = "resolving"
              /\ Begun(t).spool = NoSpool
<1>1. 0 \in Weight /\ "awaiting" \in Stage /\ "resolving" \in Stage
  BY WeightAssumption DEF Weight, Stage
<1>2. wf \in Flow
  BY DEF WfOK, Flow
<1> DEFINE g == wf.gen + 1
<1>3. g \in Generation
  OBVIOUS
<1>4. Cleared = [wf EXCEPT !.gen = g, !.tag = NoTag, !.stage = "awaiting", !.spool = NoSpool,
                           !.seen = 0, !.unreachable = FALSE]
  BY DEF Cleared
<1> HIDE DEF g
<1>5. /\ Cleared \in Flow
      /\ Cleared.gen = g /\ Cleared.tag = NoTag /\ Cleared.stage = "awaiting"
      /\ Cleared.spool = NoSpool
  BY <1>1, <1>2, <1>3, <1>4 DEF Flow
<1>6. ASSUME NEW t \in Tag \cup {NoTag}
      PROVE  /\ Begun(t) \in Flow
             /\ Begun(t).gen = g /\ Begun(t).tag = t /\ Begun(t).stage = "resolving"
             /\ Begun(t).spool = NoSpool
  BY <1>1, <1>5 DEF Begun, Flow
<1> QED BY <1>5, <1>6 DEF g

LEMMA IdentifyBounded ==
  ASSUME TypeInv, Identify
  PROVE  wf.gen \in Nat /\ wf.gen + 1 \in Generation /\ (wf.gen + 1) + 1 \in Generation
<1>1. wf.gen \in Nat /\ scale.id \in Nat /\ config.rev \in Nat
  BY Generations DEF TypeInv, WfOK, ScaleOK, WorldOK
<1>2. wf.gen + 2 \in Nat /\ (wf.gen + 1) + 1 = wf.gen + 2
  BY <1>1
<1>3. (wf.gen + 1) + 1 \in Generation
  BY <1>1, <1>2, Bounded DEF Identify
<1> QED BY <1>1, <1>3, Smaller


LEMMA TypeStep == TypeInv /\ TagInv /\ [Next]_vars => TypeInv'
<1> SUFFICES ASSUME TypeInv, TagInv, [Next]_vars PROVE TypeInv'
  OBVIOUS
<1> USE DEF TypeInv
<1>1. ASSUME NEW t \in Tag, Place(t) PROVE TypeInv'
  <2>1. WorldOK'
    BY <1>1 DEF Place, WorldOK
  <2> QED BY <1>1, <2>1 DEF Place, NfcOK, WfOK, ReadOK, AdapterOK, QueueOK, PcOK,
    ActOK, ScaleOK, SessionOK, HistoryOK
<1>2. CASE Lift
  <2>1. WorldOK'
    BY <1>2 DEF Lift, WorldOK
  <2> QED BY <1>2, <2>1 DEF Lift, NfcOK, WfOK, ReadOK, AdapterOK, QueueOK, PcOK,
    ActOK, ScaleOK, SessionOK, HistoryOK
<1>3. ASSUME NEW b \in Backend, NEW auto \in BOOLEAN, Configure(b, auto) PROVE TypeInv'
  <2>1. WorldOK'
    <3>1. wf.gen \in Nat /\ scale.id \in Nat /\ config.rev + 1 \in Nat
      BY Generations DEF WfOK, ScaleOK, WorldOK
    <3>2. config.rev + 1 \in Revision
      BY <1>3, <3>1, Bounded DEF Configure
    <3> QED BY <1>3, <3>2 DEF Configure, WorldOK
  <2> QED BY <1>3, <2>1 DEF Configure, NfcOK, WfOK, ReadOK, AdapterOK, QueueOK, PcOK,
    ActOK, ScaleOK, SessionOK, HistoryOK
<1>4. ASSUME NEW b \in Backend, NEW s \in Spool, NEW w \in EditedTo, Edit(b, s, w) PROVE TypeInv'
  <2>1. WorldOK'
    BY <1>4, WeightAssumption DEF Edit, Concerns, WorldOK, Weight
  <2>2. HistoryOK'
    BY <1>4 DEF Edit, Concerns, HistoryOK
  <2> QED BY <1>4, <2>1, <2>2 DEF Edit, Concerns, NfcOK, WfOK, ReadOK, AdapterOK,
    QueueOK, PcOK, ActOK, ScaleOK, SessionOK
<1>5. CASE Weigh
  <2>1. ScaleOK'
    <3>1. wf.gen \in Nat /\ scale.id + 1 \in Nat /\ config.rev \in Nat
      BY Generations DEF WfOK, ScaleOK, WorldOK
    <3>2. scale.id + 1 \in Measurement
      BY <1>5, <3>1, Bounded DEF Weigh
    <3> QED BY <1>5, <3>2 DEF Weigh, ScaleOK
  <2> QED BY <1>5, <2>1 DEF Weigh, WorldOK, NfcOK, WfOK, ReadOK, AdapterOK, QueueOK,
    PcOK, ActOK, SessionOK, HistoryOK
<1>6. ASSUME NEW id \in Measurement, RequestUpdate(id) PROVE TypeInv'
  <2>1. QueueOK'
    BY <1>6, Queued, Generations DEF RequestUpdate, Update, QueueOK, Lookups, Command
  <2> QED BY <1>6, <2>1 DEF RequestUpdate, Update, WorldOK, NfcOK, WfOK, ReadOK,
    AdapterOK, PcOK, ActOK, ScaleOK, SessionOK, HistoryOK
<1>7. CASE WeighRefused
  <2>1. ScaleOK'
    BY <1>7 DEF WeighRefused, ScaleOK
  <2> QED BY <1>7, <2>1 DEF WeighRefused, WorldOK, NfcOK, WfOK, ReadOK, AdapterOK,
    QueueOK, PcOK, ActOK, SessionOK, HistoryOK
<1>8. CASE StartWeigh
  <2>1. ScaleOK'
    BY <1>8 DEF StartWeigh, ScaleOK, WorldOK
  <2> QED BY <1>8, <2>1 DEF StartWeigh, WorldOK, NfcOK, WfOK, ReadOK, AdapterOK,
    QueueOK, PcOK, ActOK, SessionOK, HistoryOK
<1>9. CASE BeginWeigh
  <2>1. ScaleOK'
    BY <1>9 DEF BeginWeigh, Opened, NoSession, Known, ScaleOK
  <2>2. SessionOK'
    <3>1. session' = session \/ session' = Opened
      BY <1>9 DEF BeginWeigh
    <3> QED BY <3>1, Opens DEF SessionOK
  <2>3. HistoryOK'
    <3>1. /\ writes' = writes \/ writes' = 0
          /\ gone' = gone \/ gone' = FALSE
          /\ UNCHANGED <<origin, raced>>
      BY <1>9 DEF BeginWeigh
    <3>2. origin' \in Backend /\ raced' \in BOOLEAN
      BY <3>1 DEF HistoryOK
    <3>3. gone' \in BOOLEAN
      BY <3>1, Zenon DEF HistoryOK
    <3>4. writes' \in Nat
      BY <3>1 DEF HistoryOK
    <3> QED BY <3>2, <3>3, <3>4 DEF HistoryOK
  <2> QED BY <1>9, <2>1, <2>2, <2>3 DEF BeginWeigh, Opened, NoSession, Known, WorldOK,
    NfcOK, WfOK, ReadOK, AdapterOK, QueueOK, PcOK, ActOK
<1>10. CASE Capture
  <2>1. ScaleOK'
    BY <1>10 DEF Capture, EndWeigh, Measuring, ScaleOK
  <2>2. SessionOK'
    <3>1. PICK g \in Grams :
            session' =
              IF ~Measuring THEN session
              ELSE IF session.spool = NoSpool \/ g < 0
              THEN [session EXCEPT !.phase = "unavailable"]
              ELSE [session EXCEPT !.phase = "ready", !.measured = g]
      BY <1>10 DEF Capture
    <3>2. g \in Int /\ "unavailable" \in Phase /\ "ready" \in Phase
      BY WeightAssumption DEF Phase
    <3>3. CASE session' = session
      BY <3>3 DEF SessionOK
    <3>4. CASE session' = [session EXCEPT !.phase = "unavailable"]
      BY <3>2, <3>4, SessionUpdates DEF SessionOK
    <3>5. CASE g >= 0 /\ session' = [session EXCEPT !.phase = "ready", !.measured = g]
      BY <3>2, <3>5, SessionUpdates DEF SessionOK
    <3> QED BY <3>1, <3>2, <3>3, <3>4, <3>5
  <2> QED BY <1>10, <2>1, <2>2 DEF Capture, EndWeigh, Measuring, WorldOK, NfcOK, WfOK,
    ReadOK, AdapterOK, QueueOK, PcOK, ActOK, HistoryOK
<1>11. CASE FailWeigh
  <2>1. ScaleOK'
    BY <1>11 DEF FailWeigh, EndWeigh, Measuring, ScaleOK
  <2>2. SessionOK'
    BY <1>11 DEF FailWeigh, EndWeigh, Measuring, SessionOK, Session, Phase
  <2> QED BY <1>11, <2>1, <2>2 DEF FailWeigh, EndWeigh, Measuring, WorldOK, NfcOK,
    WfOK, ReadOK, AdapterOK, QueueOK, PcOK, ActOK, HistoryOK
<1>12. CASE Poll /\ PollMissed
  <2>1. NfcOK'
    BY <1>12 DEF Poll, PollStep, PollMissed, NfcOK
  <2>2. ReadOK'
    BY <1>12 DEF Poll, PollStep, PollMissed, ReadOK, NfcOK, WfOK
  <2> QED BY <1>12, <2>1, <2>2 DEF Poll, PollStep, PollMissed, WorldOK, WfOK,
    AdapterOK, QueueOK, PcOK, ActOK, ScaleOK, SessionOK, HistoryOK
<1>13. CASE Poll /\ PollLost
  <2>1. NfcOK'
    <3>1. PICK tag \in Tag \cup {NoTag} : nfc' = [NoRead EXCEPT !.tag = tag]
      BY <1>13 DEF PollLost, Forgets, WorldOK
    <3>2. nfc' = [tag |-> tag, read |-> FALSE, missed |-> FALSE, submitted |-> FALSE, retries |-> 0]
      BY <3>1 DEF NoRead
    <3>3. 0 \in 0 .. MaxRetries
      BY LimitAssumption
    <3> QED BY <3>2, <3>3 DEF NfcOK
  <2>2. WfOK'
    <3>1. wf' = wf \/ (nfc.read /\ wf' = Cleared)
      BY <1>13 DEF PollLost, Forgets
    <3> QED BY <3>1, Clears DEF WfOK, ReadOK, Flow
  <2>3. ReadOK'
    <3>1. nfc' = [NoRead EXCEPT !.tag = nfc'.tag]
      BY <1>13 DEF PollLost, Forgets, NoRead
    <3> QED BY <3>1 DEF NoRead, ReadOK
  <2>4. HistoryOK'
    BY <1>13 DEF Poll, PollStep, PollLost, Forgets, Cleared, NoRead, HistoryOK
  <2> QED BY <1>13, <2>1, <2>2, <2>3, <2>4 DEF Poll, PollStep, PollLost, Forgets, Cleared,
    NoRead, WorldOK, AdapterOK, QueueOK, PcOK, ActOK, ScaleOK, SessionOK
<1>14. CASE Poll /\ PollOther
  <2>1. NfcOK'
    <3>1. PICK tag \in Tag \cup {NoTag} : nfc' = [NoRead EXCEPT !.tag = tag]
      BY <1>14 DEF PollOther, Forgets, WorldOK
    <3>2. nfc' = [tag |-> tag, read |-> FALSE, missed |-> FALSE, submitted |-> FALSE, retries |-> 0]
      BY <3>1 DEF NoRead
    <3>3. 0 \in 0 .. MaxRetries
      BY LimitAssumption
    <3> QED BY <3>2, <3>3 DEF NfcOK
  <2>2. WfOK'
    <3>1. wf' = wf \/ (nfc.read /\ wf' = Cleared)
      BY <1>14 DEF PollOther, Forgets
    <3> QED BY <3>1, Clears DEF WfOK, ReadOK, Flow
  <2>3. ReadOK'
    <3>1. nfc' = [NoRead EXCEPT !.tag = nfc'.tag]
      BY <1>14 DEF PollOther, Forgets, NoRead
    <3> QED BY <3>1 DEF NoRead, ReadOK
  <2>4. HistoryOK'
    BY <1>14 DEF Poll, PollStep, PollOther, Forgets, Cleared, NoRead, HistoryOK
  <2> QED BY <1>14, <2>1, <2>2, <2>3, <2>4 DEF Poll, PollStep, PollOther, Forgets, Cleared,
    NoRead, WorldOK, AdapterOK, QueueOK, PcOK, ActOK, ScaleOK, SessionOK
<1>15. CASE Poll /\ PollSame
  <2>1. NfcOK'
    <3> DEFINE room == Room(queue)
    <3>0. room \in BOOLEAN
      BY DEF Room
    <3>1. CASE Identify
      <4>1. nfc' = [nfc EXCEPT !.read = TRUE, !.missed = FALSE, !.submitted = room]
        BY <3>1 DEF Identify
      <4> HIDE DEF room
      <4> QED BY <3>0, <4>1 DEF NfcOK
    <3>2. CASE Resubmit
      <4>1. nfc' = [nfc EXCEPT !.missed = FALSE, !.submitted = room]
        BY <3>2 DEF Resubmit
      <4> HIDE DEF room
      <4> QED BY <3>0, <4>1 DEF NfcOK
    <3>3. CASE Retry
      <4>1. nfc.retries + 1 \in 0 .. MaxRetries
        BY <3>3, LimitAssumption DEF Retry, CanRetry, NfcOK
      <4> QED BY <3>3, <4>1 DEF Retry, NfcOK
    <3>4. CASE Steady
      BY <1>15, <3>4 DEF Steady, NfcOK
    <3> QED BY <1>15, <3>1, <3>2, <3>3, <3>4 DEF PollSame
  <2>2. WfOK'
    <3>1. CASE Identify
      <4>1. wf.gen \in Nat /\ scale.id \in Nat /\ config.rev \in Nat
        BY Generations DEF WfOK, ScaleOK, WorldOK
      <4>2. wf.gen + 1 \in Generation
        BY <3>1, <4>1, IdentifyBounded
      <4>3. nfc.tag \in Tag \cup {NoTag}
        BY DEF NfcOK
      <4> QED BY <3>1, <4>2, <4>3, Clears DEF Identify, WfOK, Flow
    <3>2. CASE Retry
      BY <3>2 DEF Retry, WfOK, Stage
    <3>3. CASE UNCHANGED wf
      BY <3>3 DEF WfOK
    <3> QED BY <1>15, <3>1, <3>2, <3>3 DEF PollSame, Resubmit, Steady
  <2>3. ReadOK'
    <3>1. CASE Identify
      <4>1. wf.gen \in Nat /\ wf.gen + 1 \in Generation /\ (wf.gen + 1) + 1 \in Generation
        BY <3>1, IdentifyBounded
      <4>2. wf'.gen = wf.gen + 1
        BY <3>1, <4>1, Clears DEF Identify, NfcOK
      <4> QED BY <4>1, <4>2 DEF ReadOK
    <3>2. CASE ~Identify
      <4>1. wf'.gen = wf.gen /\ nfc'.read = nfc.read
        BY <1>15, <3>2 DEF PollSame, Resubmit, Retry, Steady, NfcOK, WfOK
      <4> QED BY <4>1 DEF ReadOK
    <3> QED BY <3>1, <3>2
  <2>4. QueueOK'
    <3>1. PICK gen : queue' = queue \/ (gen \in Generation /\ Submit(nfc.tag, gen))
      <4>1. CASE Identify
        BY <4>1, IdentifyBounded DEF Identify
      <4>2. CASE Resubmit \/ Retry
        BY <4>2 DEF Resubmit, Retry, WfOK
      <4> QED BY <1>15, <4>1, <4>2 DEF PollSame, Steady
    <3>2. nfc.tag \in Tag
      BY <1>15, AbsentAssumption DEF PollSame, WorldOK, NfcOK
    <3>3. gen \in Generation => Lookup(nfc.tag, gen) \in Lookups
      BY <3>2, Generations DEF Lookup, Lookups, Command
    <3> QED BY <3>1, <3>3, Queued DEF Submit, QueueOK
  <2> QED BY <1>15, <2>1, <2>2, <2>3, <2>4 DEF Poll, PollStep, PollSame, Identify, Resubmit,
    Retry, CanRetry, Steady, Submit, Begun, Cleared, Lookup, WorldOK, AdapterOK, PcOK,
    ActOK, ScaleOK, SessionOK, HistoryOK
<1>16. CASE Probe
  <2>1. WfOK'
    BY <1>16 DEF Probe, Applied, WfOK, Stage, ReadOK
  <2>2. ReadOK'
    BY <1>16 DEF Probe, Applied, ReadOK, NfcOK, WfOK
  <2>3. AdapterOK'
    BY <1>16 DEF Probe, Applied, AdapterOK, WorldOK
  <2> QED BY <1>16, <2>1, <2>2, <2>3 DEF Probe, Applied, WorldOK, NfcOK, QueueOK,
    PcOK, ActOK, ScaleOK, SessionOK, HistoryOK
<1>17. CASE TakeLookup
  <2>1. QueueOK'
    BY <1>17, Taken DEF TakeLookup, Applied, Current, Resolved, Unresolved, NotTried, QueueOK
  <2>2. AdapterOK'
    BY <1>17, Taken DEF TakeLookup, Applied, Current, Resolved, Unresolved, NotTried,
      AdapterOK, WorldOK
  <2>3. WfOK'
    <3> DEFINE c == Head(queue)
    <3>1. c \in Lookups /\ c.type = "lookup"
      BY <1>17, Taken DEF TakeLookup
    <3>2. c.tag \in Tag /\ Applied.url \in Backend
      BY <3>1 DEF Lookups, Applied, WorldOK, AdapterOK
    <3>3. CASE Resolved(c)
      <4>1. Link[Applied.url][c.tag] \in Spool \cup {NoSpool}
        BY <3>2, LinkAssumption
      <4>2. Link[Applied.url][c.tag] # NoSpool =>
              remain[Applied.url][Link[Applied.url][c.tag]] \in Weight
        BY <3>2, <4>1 DEF WorldOK
      <4> HIDE DEF c
      <4> QED BY <3>3, <4>1, <4>2 DEF Resolved, WfOK, Stage
    <3>4. CASE Unresolved
      BY <3>4 DEF Unresolved, WfOK, Stage
    <3>5. CASE NotTried
      BY <3>5 DEF NotTried, WfOK
    <3> QED BY <1>17, <3>3, <3>4, <3>5 DEF TakeLookup, WfOK
  <2>4. ReadOK'
    <3>1. wf'.gen = wf.gen
      BY <1>17 DEF TakeLookup, Resolved, Unresolved, NotTried, WfOK
    <3> QED BY <1>17, <3>1 DEF TakeLookup, ReadOK
  <2>5. HistoryOK'
    <3>1. origin' \in {origin, Applied.url}
      BY <1>17 DEF TakeLookup, Resolved, Unresolved, NotTried
    <3>2. Applied.url \in Backend
      BY DEF Applied, WorldOK, AdapterOK
    <3> QED BY <1>17, <3>1, <3>2 DEF TakeLookup, HistoryOK
  <2>6. UNCHANGED <<world, nfc, pc, act, outcome, scale, session, history>>
    BY <1>17 DEF TakeLookup
  <2> QED
    BY <2>1, <2>2, <2>3, <2>4, <2>5, <2>6
    DEF WorldOK, NfcOK, PcOK, ActOK, ScaleOK, SessionOK
<1>18. CASE TakeUpdate
  <2>1. QueueOK'
    BY <1>18, Taken DEF TakeUpdate, Process, Applied, Finish, NoUpdate, QueueOK
  <2>2. AdapterOK'
    BY <1>18, Taken DEF TakeUpdate, Process, Applied, Finish, NoUpdate, AdapterOK, WorldOK
  <2>3. ActOK'
    BY <1>18, Taken, Generations DEF TakeUpdate, Process, Applied, Finish, NoUpdate, ActOK,
      Lookups, Command
  <2>4. PcOK'
    BY <1>18 DEF TakeUpdate, Process, Applied, Finish, NoUpdate, PcOK, PC
  <2>5. SessionOK'
    <3>1. PICK i : Process(i)
      BY <1>18 DEF TakeUpdate
    <3>2. \/ session' = session
          \/ session' = [session EXCEPT !.phase = "failed"]
          \/ session' = [session EXCEPT !.phase = "updating", !.consumed = TRUE]
      BY <3>1 DEF Process, Finish
    <3>3. "failed" \in Phase /\ "updating" \in Phase
      BY DEF Phase
    <3> QED BY <3>2, <3>3, SessionUpdates DEF SessionOK
  <2> QED BY <1>18, <2>1, <2>2, <2>3, <2>4, <2>5 DEF TakeUpdate, Process, Applied, Finish,
    NoUpdate, WorldOK, NfcOK, WfOK, ReadOK, ScaleOK, HistoryOK
<1>19. CASE AutoUpdate
  <2>1. AdapterOK'
    BY <1>19 DEF AutoUpdate, Process, Applied, Finish, NoUpdate, AdapterOK, WorldOK
  <2>2. ActOK'
    BY <1>19, Generations DEF AutoUpdate, Process, Applied, Finish, NoUpdate, ActOK, SessionOK,
      Session
  <2>3. PcOK'
    BY <1>19 DEF AutoUpdate, Process, Applied, Finish, NoUpdate, PcOK, PC
  <2>4. SessionOK'
    <3>1. PICK i : Process(i)
      BY <1>19 DEF AutoUpdate
    <3>2. \/ session' = session
          \/ session' = [session EXCEPT !.phase = "failed"]
          \/ session' = [session EXCEPT !.phase = "updating", !.consumed = TRUE]
      BY <3>1 DEF Process, Finish
    <3>3. "failed" \in Phase /\ "updating" \in Phase
      BY DEF Phase
    <3> QED BY <3>2, <3>3, SessionUpdates DEF SessionOK
  <2> QED BY <1>19, <2>1, <2>2, <2>3, <2>4 DEF AutoUpdate, Process, Applied, Finish, NoUpdate,
    TypeInv, WorldOK, NfcOK, WfOK, ReadOK, QueueOK, ScaleOK, HistoryOK
<1>20. CASE Capabilities
  <2>1. PcOK'
    BY <1>20 DEF Capabilities, Step, Finish, PcOK, PC
  <2>2. AdapterOK'
    BY <1>20 DEF Capabilities, Step, Finish, AdapterOK
  <2>3. SessionOK'
    BY <1>20 DEF Capabilities, Step, Finish, SessionOK, Session, Phase
  <2> QED BY <1>20, <2>1, <2>2, <2>3 DEF Capabilities, Step, Finish, WorldOK, NfcOK,
    WfOK, ReadOK, QueueOK, ActOK, ScaleOK, HistoryOK
<1>21. CASE FirstFence
  <2>1. PcOK'
    BY <1>21 DEF FirstFence, Step, Finish, Fence, PcOK, PC
  <2>2. SessionOK'
    BY <1>21 DEF FirstFence, Step, Finish, Fence, SessionOK, Session, Phase
  <2> QED BY <1>21, <2>1, <2>2 DEF FirstFence, Step, Finish, Fence, WorldOK, NfcOK,
    WfOK, ReadOK, AdapterOK, QueueOK, ActOK, ScaleOK, HistoryOK
<1>22. CASE Get
  <2>1. PcOK'
    BY <1>22 DEF Get, Refused, Step, PcOK, PC
  <2>2. HistoryOK'
    BY <1>22 DEF Get, Refused, Step, HistoryOK
  <2> QED BY <1>22, <2>1, <2>2 DEF Get, Refused, Step, WorldOK, NfcOK, WfOK, ReadOK,
    AdapterOK, QueueOK, ActOK, ScaleOK, SessionOK
<1>23. CASE SecondFence
  <2>1. PcOK'
    BY <1>23 DEF SecondFence, Refused, Step, Fence, PcOK, PC
  <2> QED BY <1>23, <2>1 DEF SecondFence, Refused, Step, Fence, WorldOK, NfcOK, WfOK,
    ReadOK, AdapterOK, QueueOK, ActOK, ScaleOK, SessionOK, HistoryOK
<1>24. CASE Patch
  <2>1. PcOK'
    BY <1>24 DEF Patch, Refused, Step, PcOK, PC
  <2>2. WorldOK'
    <3>1. Saved \in Weight
      <4>1. session.measured \in Grams \cup {0} /\ session.measured >= 0
        BY DEF SessionOK, Session
      <4>2. \A g \in Grams : g \in Int
        BY WeightAssumption
      <4>3. session.measured \in Int
        BY <4>1, <4>2
      <4> QED BY <4>1, <4>3, WeightAssumption DEF Saved, Weight
    <3>2. remain' = remain \/ remain' = [remain EXCEPT ![adapter.url][session.spool] = Saved]
      BY <1>24 DEF Patch
    <3>3. remain' \in [Backend -> [Spool -> Weight]]
      BY <3>1, <3>2 DEF WorldOK
    <3> QED BY <1>24, <3>3 DEF Patch, WorldOK
  <2>3. HistoryOK'
    <3>1. writes' \in {writes, writes + 1} /\ raced' = FALSE /\ UNCHANGED <<origin, gone>>
      BY <1>24 DEF Patch
    <3>2. origin' \in Backend /\ raced' \in BOOLEAN /\ gone' \in BOOLEAN
      BY <3>1 DEF HistoryOK
    <3>3. writes' \in Nat
      BY <3>1 DEF HistoryOK
    <3> QED BY <3>2, <3>3 DEF HistoryOK
  <2> QED BY <1>24, <2>1, <2>2, <2>3 DEF Patch, Refused, Step, NfcOK, WfOK, ReadOK,
    AdapterOK, QueueOK, ActOK, ScaleOK, SessionOK
<1>25. CASE Verify
  <2>1. PcOK'
    BY <1>25 DEF Verify, Refused, Step, Finish, PcOK, PC
  <2>2. SessionOK'
    BY <1>25 DEF Verify, Refused, Step, Finish, SessionOK, Session, Phase
  <2> QED BY <1>25, <2>1, <2>2 DEF Verify, Refused, Step, Finish, WorldOK, NfcOK,
    WfOK, ReadOK, AdapterOK, QueueOK, ActOK, ScaleOK, HistoryOK
<1>26. CASE Fresh
  <2>1. PcOK'
    BY <1>26 DEF Fresh, Step, Finish, PcOK, PC
  <2>2. SessionOK'
    <3>1. outcome \in Phase
      BY DEF PcOK, Phase
    <3> QED BY <1>26, <3>1, SessionUpdates DEF Fresh, Finish, SessionOK
  <2> QED BY <1>26, <2>1, <2>2 DEF Fresh, Step, Finish, WorldOK, NfcOK, WfOK, ReadOK,
    AdapterOK, QueueOK, ActOK, ScaleOK, HistoryOK
<1>27. CASE Snapshot
  <2>1. PcOK'
    BY <1>27 DEF Snapshot, Step, NoUpdate, PcOK, PC
  <2>2. ActOK'
    <3>1. act' = NoUpdate \/ act' = [act EXCEPT !.gen = session.gen, !.spool = session.spool]
      BY <1>27 DEF Snapshot
    <3>2. session.gen \in Generation /\ session.spool \in Spool \cup {NoSpool}
      BY DEF SessionOK, Session
    <3>3. NoUpdate \in [id : Measurement, gen : Generation, spool : Spool \cup {NoSpool}]
      BY Generations DEF NoUpdate
    <3> QED BY <3>1, <3>2, <3>3 DEF ActOK
  <2> QED BY <1>27, <2>1, <2>2 DEF Snapshot, Step, NoUpdate, WorldOK, NfcOK, WfOK,
    ReadOK, AdapterOK, QueueOK, ScaleOK, SessionOK, HistoryOK
<1>28. CASE Readback
  <2>1. PcOK'
    BY <1>28 DEF Readback, Step, NoUpdate, PcOK, PC
  <2>2. ActOK'
    BY <1>28, Generations DEF Readback, Step, NoUpdate, ActOK, SessionOK, Session
  <2>3. WfOK'
    BY <1>28 DEF Readback, Step, NoUpdate, WfOK, WorldOK, AdapterOK, ActOK
  <2>4. ReadOK'
    BY <1>28 DEF Readback, Step, NoUpdate, ReadOK, NfcOK, WfOK
  <2> QED BY <1>28, <2>1, <2>2, <2>3, <2>4 DEF Readback, Step, NoUpdate, WorldOK,
    NfcOK, AdapterOK, QueueOK, ScaleOK, SessionOK, HistoryOK
<1>29. CASE UNCHANGED vars
  BY <1>29 DEF WorldOK, NfcOK, WfOK, ReadOK, AdapterOK, QueueOK, PcOK, ActOK, ScaleOK, SessionOK,
    HistoryOK
<1> QED
  BY <1>1, <1>2, <1>3, <1>4, <1>5, <1>6, <1>7, <1>8, <1>9, <1>10, <1>11, <1>12, <1>13, <1>14,
    <1>15, <1>16, <1>17, <1>18, <1>19, <1>20, <1>21, <1>22, <1>23, <1>24, <1>25, <1>26, <1>27,
    <1>28, <1>29
  DEF Next, BackendStep, UpdateStep, ScaleStep, Environment, Poll, PollStep

-----------------------------------------------------------------------------
(* What the steps keep *)

\* What of a session does not change once it is open.
Opening == <<session.gen, session.tag, session.spool, session.expected>>

LEMMA KeepsOpening ==
  ASSUME TypeInv, [Next]_vars
  PROVE  \/ BeginWeigh /\ session' = Opened /\ session.phase # "updating" /\ gone' = FALSE
         \/ Opening' = Opening
<1>1. ASSUME NEW S, session' = session \/ session' = [session EXCEPT !.phase = S]
      PROVE  Opening' = Opening
  BY <1>1 DEF Opening, TypeInv, SessionOK, Session
<1>2. ASSUME NEW id, Process(id) PROVE Opening' = Opening
  BY <1>2 DEF Process, Finish, Opening, TypeInv, SessionOK, Session
<1>3. CASE BeginWeigh
  BY <1>3 DEF BeginWeigh, Opening
<1>4. CASE Capture
  BY <1>4 DEF Capture, Opening, TypeInv, SessionOK, Session
<1>5. CASE FailWeigh
  BY <1>1, <1>5 DEF FailWeigh
<1>6. CASE TakeUpdate \/ AutoUpdate
  BY <1>2, <1>6 DEF TakeUpdate, AutoUpdate
<1>7. CASE Capabilities \/ FirstFence \/ Verify \/ Fresh
  BY <1>1, <1>7 DEF Capabilities, FirstFence, Verify, Fresh, Finish
<1>8. CASE UNCHANGED session
  BY <1>8 DEF Opening
<1>9. CASE Get \/ SecondFence \/ Patch \/ Snapshot \/ Readback \/ Poll \/ Probe \/ TakeLookup
             \/ WeighRefused \/ StartWeigh \/ Environment
  BY <1>8, <1>9 DEF Get, SecondFence, Patch, Snapshot, Readback, Poll, PollStep, Probe, TakeLookup,
    WeighRefused, StartWeigh, Environment, Place, Lift, Configure, Edit, Weigh, RequestUpdate
<1> QED
  BY <1>3, <1>4, <1>5, <1>6, <1>7, <1>8, <1>9 DEF Next, BackendStep, UpdateStep, ScaleStep

LEMMA KeepsFlow ==
  ASSUME TypeInv, [Next]_vars
  PROVE  \/ Poll
         \/ /\ wf'.gen = wf.gen /\ wf'.tag = wf.tag
            /\ gone' = gone \/ BeginWeigh
<1>1. CASE Probe
  BY <1>1 DEF Probe, TypeInv, WfOK
<1>2. CASE TakeLookup
  BY <1>2 DEF TakeLookup, Resolved, Unresolved, NotTried, TypeInv, WfOK
<1>3. CASE Readback
  BY <1>3 DEF Readback, TypeInv, WfOK
<1>4. CASE UNCHANGED <<wf, gone>>
  BY <1>4
<1>5. CASE BeginWeigh
  BY <1>5 DEF BeginWeigh
<1>6. CASE TakeUpdate \/ AutoUpdate \/ Capabilities \/ FirstFence \/ Get \/ SecondFence \/ Patch
             \/ Verify \/ Fresh \/ Snapshot \/ WeighRefused \/ StartWeigh \/ Capture \/ FailWeigh
             \/ Environment
  BY <1>4, <1>6 DEF TakeUpdate, AutoUpdate, Process, Capabilities, FirstFence, Get, SecondFence,
    Patch, Verify, Fresh, Snapshot, WeighRefused, StartWeigh, Capture, FailWeigh, EndWeigh,
    Environment, Place, Lift, Configure, Edit, Weigh, RequestUpdate
<1> QED
  BY <1>1, <1>2, <1>3, <1>4, <1>5, <1>6 DEF Next, BackendStep, UpdateStep, ScaleStep

LEMMA TagStep == TypeInv /\ TagInv /\ [Next]_vars => TagInv'
<1> SUFFICES ASSUME TypeInv, TagInv, [Next]_vars PROVE TagInv'
  OBVIOUS
<1>1. CASE PollMissed /\ Poll
  BY <1>1 DEF PollMissed, Poll, PollStep, TagInv, TypeInv, NfcOK
<1>2. ASSUME NEW tag, Forgets(tag), UNCHANGED origin PROVE TagInv'
  <2>1. nfc' = [tag |-> tag, read |-> FALSE, missed |-> FALSE, submitted |-> FALSE, retries |-> 0]
    BY <1>2 DEF Forgets, NoRead
  <2>2. CASE nfc.read
    <3>1. wf.gen + 1 \in Generation
      BY <2>2 DEF TypeInv, ReadOK
    <3>2. wf' = Cleared
      BY <1>2, <2>2 DEF Forgets
    <3>3. wf'.tag = NoTag /\ wf'.stage = "awaiting" /\ wf'.spool = NoSpool
      BY <3>1, <3>2, Clears DEF TypeInv
    <3> QED BY <2>1, <3>3 DEF TagInv
  <2>3. CASE ~nfc.read
    BY <1>2, <2>1, <2>3 DEF Forgets, TagInv
  <2> QED BY <2>2, <2>3
<1>3. CASE PollSame /\ Poll
  <2>1. nfc.tag \in Tag /\ UNCHANGED origin
    BY <1>3, AbsentAssumption DEF PollSame, Poll, PollStep, TypeInv, WorldOK, NfcOK
  <2>2. CASE Identify
    <3>1. wf.gen + 1 \in Generation
      BY <2>2, IdentifyBounded
    <3>2. wf' = Begun(nfc.tag) /\ nfc'.read /\ nfc'.tag = nfc.tag
      BY <2>2 DEF Identify, TypeInv, NfcOK
    <3>3. wf'.tag = nfc.tag /\ wf'.stage = "resolving"
      BY <2>1, <3>1, <3>2, Clears DEF TypeInv
    <3> QED BY <2>1, <3>2, <3>3, AbsentAssumption DEF TagInv
  <2>3. CASE Resubmit \/ Steady
    BY <2>1, <2>3 DEF Resubmit, Steady, TagInv, TypeInv, NfcOK
  <2>4. CASE Retry
    BY <2>1, <2>4 DEF Retry, CanRetry, TagInv, TypeInv, NfcOK, WfOK
  <2> QED BY <1>3, <2>2, <2>3, <2>4 DEF PollSame
<1>4. CASE Probe
  BY <1>4 DEF Probe, TagInv, TypeInv, WfOK
<1>5. CASE TakeLookup
  <2> DEFINE c == Head(queue)
  <2>1. UNCHANGED nfc
    BY <1>5 DEF TakeLookup
  <2>2. CASE Current(c) /\ Resolved(c)
    <3>1. c \in Lookups /\ c.type = "lookup"
      BY <1>5, Taken DEF TakeLookup
    <3>2. wf.tag \in Tag /\ c.tag = wf.tag
      BY <2>2, <3>1 DEF Current, Lookups
    <3>3. nfc.read
      BY <3>2, AbsentAssumption DEF TagInv
    <3> HIDE DEF c
    <3> QED BY <2>1, <2>2, <3>2, <3>3 DEF Resolved, TagInv, TypeInv, WfOK
  <2>3. CASE Current(c) /\ Unresolved
    <3>1. wf.tag \in Tag
      BY <1>5, <2>3, Taken DEF TakeLookup, Current, Lookups
    <3>2. nfc.read
      BY <3>1, AbsentAssumption DEF TagInv
    <3> QED BY <2>1, <2>3, <3>2 DEF Unresolved, TagInv, TypeInv, WfOK
  <2>4. CASE NotTried
    BY <2>1, <2>4 DEF NotTried, TagInv, TypeInv, WfOK
  <2>5. CASE UNCHANGED <<wf, origin>>
    BY <2>1, <2>5 DEF TagInv
  <2> QED BY <1>5, <2>2, <2>3, <2>4, <2>5 DEF TakeLookup
<1>6. CASE Readback
  BY <1>6 DEF Readback, TagInv, TypeInv, WfOK
<1>7. CASE UNCHANGED station_vars
  BY <1>7 DEF TagInv
<1>8. CASE TakeUpdate \/ AutoUpdate \/ Capabilities \/ FirstFence \/ Get \/ SecondFence \/ Patch
             \/ Verify \/ Fresh \/ Snapshot \/ ScaleStep \/ Environment
  BY <1>7, <1>8 DEF TakeUpdate, AutoUpdate, Process, Capabilities, FirstFence, Get, SecondFence,
    Patch, Verify, Fresh, Snapshot, ScaleStep, WeighRefused, StartWeigh, BeginWeigh, Capture,
    FailWeigh, EndWeigh, Environment, Place, Lift, Configure, Edit, Weigh, RequestUpdate
<1> QED
  BY <1>1, <1>2, <1>3, <1>4, <1>5, <1>6, <1>7, <1>8
  DEF Next, BackendStep, UpdateStep, Poll, PollStep, PollLost, PollOther

LEMMA SessionStep == TypeInv /\ TagInv /\ SessionInv /\ [Next]_vars => SessionInv'
<1> SUFFICES ASSUME TypeInv, TagInv, SessionInv, [Next]_vars PROVE SessionInv'
  OBVIOUS
<1> DEFINE OfTag(x) ==
      x.spool # NoSpool => x.tag \in Tag /\ \E b \in Backend : x.spool = Link[b][x.tag]
<1>1. session.gen \in Nat /\ wf.gen \in Nat /\ OfTag(session)
  BY Generations DEF TypeInv, SessionOK, Session, WfOK, SessionInv
<1>2. CASE Opening' = Opening /\ wf'.gen = wf.gen /\ wf'.tag = wf.tag /\ gone' = gone
  BY <1>2 DEF Opening, SessionInv
<1>3. CASE BeginWeigh /\ session' = Opened /\ gone' = FALSE
  <2>1. UNCHANGED wf
    BY <1>3 DEF BeginWeigh
  <2>2. Opened.gen = wf.gen /\ Opened.tag = wf.tag
    BY DEF Opened, NoSession
  <2>3. Opened.spool # NoSpool => Known /\ Opened.spool = wf.spool
    BY DEF Opened, NoSession
  <2>4. Known => wf.tag \in Tag /\ wf.spool = Link[origin][wf.tag] /\ origin \in Backend
    BY DEF Known, TagInv, TypeInv, WfOK, HistoryOK
  <2>5. OfTag(session')
    BY <1>3, <2>2, <2>3, <2>4
  <2> QED BY <1>1, <1>3, <2>1, <2>2, <2>5 DEF SessionInv
<1>4. CASE Poll /\ Opening' = Opening
  <2>0. session'.gen = session.gen /\ session'.tag = session.tag /\ OfTag(session')
    BY <1>1, <1>4 DEF Opening
  <2>1. CASE PollMissed
    BY <1>2, <1>4, <2>1 DEF PollMissed
  <2>2. ASSUME NEW tag, Forgets(tag) PROVE SessionInv'
    <3>1. CASE nfc.read
      <4>1. wf.gen + 1 \in Generation
        BY <3>1 DEF TypeInv, ReadOK
      <4>2. wf'.gen = wf.gen + 1
        BY <2>2, <3>1, <4>1, Clears DEF Forgets, TypeInv
      <4> QED BY <1>1, <2>0, <4>2 DEF SessionInv
    <3>2. CASE ~nfc.read
      <4>1. UNCHANGED wf /\ wf.tag = NoTag
        BY <2>2, <3>2 DEF Forgets, TagInv
      <4> QED BY <1>1, <2>0, <4>1 DEF SessionInv
    <3> QED BY <3>1, <3>2
  <2>3. CASE PollSame
    <3>1. UNCHANGED gone
      BY <2>3 DEF PollSame
    <3>2. CASE Identify
      <4>1. wf.gen + 1 \in Generation /\ nfc.tag \in Tag \cup {NoTag}
        BY <3>2, IdentifyBounded DEF TypeInv, NfcOK
      <4>2. wf'.gen = wf.gen + 1
        BY <3>2, <4>1, Clears DEF Identify, TypeInv
      <4> QED BY <1>1, <2>0, <4>2 DEF SessionInv
    <3>3. CASE ~Identify
      <4>1. wf'.gen = wf.gen /\ wf'.tag = wf.tag
        BY <2>3, <3>3 DEF PollSame, Resubmit, Retry, Steady, TypeInv, WfOK
      <4> QED BY <1>2, <1>4, <3>1, <4>1
    <3> QED BY <3>2, <3>3
  <2> QED BY <1>4, <2>1, <2>2, <2>3 DEF Poll, PollStep, PollLost, PollOther
<1>5. Poll => ~BeginWeigh
  BY DEF Poll, PollStep, BeginWeigh, TypeInv, ScaleOK
<1>6. CASE BeginWeigh /\ Opening' = Opening
  <2>1. gone' = gone \/ (session' = Opened /\ gone' = FALSE)
    BY <1>6 DEF BeginWeigh
  <2> QED BY <1>2, <1>3, <1>5, <1>6, <2>1, KeepsFlow
<1> QED BY <1>2, <1>3, <1>4, <1>5, <1>6, KeepsOpening, KeepsFlow

LEMMA RequestsStep == TypeInv /\ UpdateInv /\ [Next]_vars => UpdateInv'
<1> SUFFICES ASSUME TypeInv, UpdateInv, [Next]_vars PROVE UpdateInv'
  OBVIOUS
<1> USE DEF AtRequests
<1>1. CASE pc' \notin AtRequests
  BY <1>1 DEF UpdateInv
<1>2. CASE Poll \/ Probe \/ TakeLookup
  BY <1>1, <1>2 DEF Poll, PollStep, Probe, TakeLookup
<1>3. ASSUME NEW id, Process(id) PROVE UpdateInv'
  <2>1. CASE pc' = "caps" /\ session' = [session EXCEPT !.phase = "updating", !.consumed = TRUE]
    BY <2>1 DEF UpdateInv, TypeInv, SessionOK, Session
  <2> QED BY <1>1, <1>3, <2>1 DEF Process
<1>4. CASE Capabilities
  BY <1>1, <1>4 DEF Capabilities, Step, UpdateInv
<1>5. CASE FirstFence
  <2>1. CASE pc' = "get" /\ Fence /\ pc = "fence" /\ UNCHANGED <<session, wf>>
    BY <2>1 DEF Fence, SameSpool, UpdateInv
  <2> QED BY <1>1, <1>5, <2>1 DEF FirstFence, Step
<1>6. CASE Get
  <2>1. CASE pc = "get" /\ pc' = "confirm" /\ Held = session.expected
    BY <1>6, <2>1 DEF Get, UpdateInv, SameSpool, Held
  <2>2. CASE pc = "get" /\ pc' = "fresh"
    BY <1>6, <2>2 DEF Get, UpdateInv
  <2> QED BY <1>6, <2>1, <2>2 DEF Get, Refused, Step
<1>7. CASE SecondFence
  <2>1. CASE pc = "confirm" /\ pc' \in {"patch", "fresh"}
    BY <1>7, <2>1 DEF SecondFence, UpdateInv, SameSpool, Held
  <2> QED BY <1>7, <2>1 DEF SecondFence, Refused, Step
<1>8. CASE Patch
  <2>1. pc = "patch" /\ pc' \in {"verify", "fresh"} /\ UNCHANGED session
    BY <1>8 DEF Patch, Refused, Step
  <2> QED BY <2>1 DEF UpdateInv
<1>9. CASE Verify
  <2>1. CASE pc = "verify" /\ pc' = "fresh" /\ UNCHANGED session
    BY <2>1 DEF UpdateInv
  <2> QED BY <1>1, <1>9, <2>1 DEF Verify, Refused, Step
<1>10. CASE Fresh \/ Snapshot \/ Readback
  BY <1>1, <1>10 DEF Fresh, Snapshot, Readback, Step
<1>11. CASE UNCHANGED <<remain, adapter, wf, pc, session, raced>>
  BY <1>11 DEF UpdateInv, SameSpool, Held
<1>12. CASE Weigh \/ WeighRefused \/ StartWeigh \/ Lift
  BY <1>11, <1>12 DEF Weigh, WeighRefused, StartWeigh, Lift
<1>13. ASSUME NEW t, Place(t) \/ RequestUpdate(t) PROVE UpdateInv'
  BY <1>11, <1>13 DEF Place, RequestUpdate
<1>14. ASSUME NEW b, NEW auto, Configure(b, auto) PROVE UpdateInv'
  BY <1>11, <1>14 DEF Configure
<1>15. ASSUME NEW b \in Backend, NEW s \in Spool, NEW w \in EditedTo, Edit(b, s, w)
       PROVE  UpdateInv'
  <2>1. /\ remain' = [remain EXCEPT ![b][s] = w]
        /\ raced' = (raced \/ (Concerns(b, s) /\ pc \in {"confirm", "patch"}))
        /\ UNCHANGED <<adapter, wf, pc, session>>
    BY <1>15 DEF Edit
  <2>2. CASE Concerns(b, s) /\ pc \in {"confirm", "patch"}
    BY <2>1, <2>2 DEF UpdateInv, SameSpool
  <2>3. CASE pc \notin {"confirm", "patch"}
    BY <2>1, <2>3 DEF UpdateInv, SameSpool
  <2>4. CASE ~Concerns(b, s)
    <3>1. Held' = Held
      BY <2>1, <2>4 DEF Concerns, Held, WorldOK
    <3> QED BY <2>1, <2>4, <3>1 DEF UpdateInv, SameSpool
  <2> QED BY <2>2, <2>3, <2>4
<1>16. CASE BeginWeigh \/ Capture \/ FailWeigh
  <2>1. UNCHANGED <<remain, adapter, wf, pc, raced>>
    BY <1>16 DEF BeginWeigh, Capture, FailWeigh, EndWeigh
  <2>2. session.phase = "updating" => UNCHANGED session
    BY <1>16 DEF BeginWeigh, Capture, FailWeigh, Measuring
  <2>3. CASE pc \in AtRequests
    BY <1>11, <2>1, <2>2, <2>3 DEF UpdateInv
  <2> QED BY <1>1, <2>1, <2>3
<1> QED
  BY <1>2, <1>3, <1>4, <1>5, <1>6, <1>7, <1>8, <1>9, <1>10, <1>11, <1>12, <1>13, <1>14, <1>15,
    <1>16
  DEF Next, BackendStep, UpdateStep, ScaleStep, Environment, TakeUpdate, AutoUpdate

LEMMA WritesStep == TypeInv /\ UpdateInv /\ WritesInv /\ [Next]_vars => WritesInv'
<1> SUFFICES ASSUME TypeInv, UpdateInv, WritesInv, [Next]_vars PROVE WritesInv'
  OBVIOUS
<1>1. writes \in {0, 1}
  BY DEF TypeInv, HistoryOK, WritesInv
<1>2. CASE UNCHANGED <<pc, session, writes, outcome>>
  BY <1>2 DEF WritesInv
<1>3. CASE Poll \/ Probe \/ TakeLookup \/ Snapshot \/ Readback \/ WeighRefused \/ StartWeigh
             \/ Environment
  <2>1. UNCHANGED <<session, writes, outcome>>
    BY <1>3 DEF Poll, PollStep, Probe, TakeLookup, Snapshot, Readback, WeighRefused, StartWeigh,
      Environment, Place, Lift, Configure, Edit, Weigh, RequestUpdate
  <2>2. UNCHANGED pc \/ (pc \in {"snapshot", "readback"} /\ pc' \in {"readback", "idle"})
    BY <1>3 DEF Poll, PollStep, Probe, TakeLookup, Snapshot, Readback, Step, WeighRefused,
      StartWeigh, Environment, Place, Lift, Configure, Edit, Weigh, RequestUpdate
  <2> QED BY <2>1, <2>2 DEF WritesInv
<1>4. ASSUME NEW id, Process(id), pc = "idle" PROVE WritesInv'
  <2>1. UNCHANGED <<writes, outcome>> /\ outcome = "failed"
    BY <1>4 DEF Process, WritesInv, TypeInv, PcOK
  <2>2. CASE pc' = "snapshot" /\ (UNCHANGED session \/ Finish("failed"))
    BY <2>1, <2>2 DEF Finish, WritesInv, TypeInv, SessionOK, Session
  <2>3. CASE /\ pc' = "caps" /\ session.phase = "ready" /\ ~session.consumed
             /\ session' = [session EXCEPT !.phase = "updating", !.consumed = TRUE]
    BY <2>1, <2>3 DEF WritesInv, TypeInv, SessionOK, Session
  <2> QED BY <1>4, <2>2, <2>3 DEF Process
<1>5. CASE Capabilities \/ FirstFence
  <2>1. /\ pc \in {"caps", "fence"} /\ pc' \in {"fence", "get", "snapshot"}
        /\ UNCHANGED <<writes, outcome>>
    BY <1>5 DEF Capabilities, FirstFence, Step
  <2>2. \/ UNCHANGED session
        \/ session' = [session EXCEPT !.phase = "failed"]
        \/ session' = [session EXCEPT !.phase = "unchanged"]
    BY <1>5 DEF Capabilities, FirstFence, Finish
  <2>3. writes = 0 /\ outcome = "failed"
    BY <2>1 DEF WritesInv, TypeInv, PcOK
  <2> QED BY <2>1, <2>2, <2>3 DEF WritesInv, TypeInv, SessionOK, Session
<1>6. CASE Get \/ SecondFence
  <2>1. /\ pc \in {"get", "confirm"} /\ pc' \in {"confirm", "patch", "fresh"}
        /\ UNCHANGED <<writes, session>>
        /\ pc' = "fresh" \/ UNCHANGED outcome
    BY <1>6 DEF Get, SecondFence, Refused, Step
  <2>2. writes = 0 /\ outcome = "failed"
    BY <2>1 DEF WritesInv, TypeInv, PcOK
  <2> QED BY <2>1, <2>2 DEF WritesInv
<1>7. CASE Patch
  <2>1. /\ pc = "patch" /\ UNCHANGED session /\ writes = 0 /\ outcome = "failed"
        /\ session.phase = "updating"
    BY <1>7 DEF Patch, Refused, Step, WritesInv, UpdateInv, AtRequests, TypeInv, PcOK
  <2>2. /\ pc' \in {"verify", "fresh"} /\ outcome' = "failed"
        /\ writes' = 1 \/ (pc' # "verify" /\ writes' = 0)
    BY <1>7, <2>1 DEF Patch, Refused, Step
  <2> QED BY <2>1, <2>2 DEF WritesInv
<1>8. CASE Verify
  <2>1. /\ pc = "verify" /\ writes = 1 /\ UNCHANGED writes /\ outcome' = "failed"
        /\ session.phase = "updating"
    BY <1>8 DEF Verify, Refused, Step, WritesInv, UpdateInv, AtRequests, TypeInv, PcOK
  <2>2. /\ pc' \in {"fresh", "snapshot"}
        /\ UNCHANGED session \/ session' = [session EXCEPT !.phase = "updated"]
    BY <1>8 DEF Verify, Refused, Step, Finish
  <2> QED BY <2>1, <2>2 DEF WritesInv, TypeInv, SessionOK, Session
<1>9. CASE Fresh
  <2>1. /\ pc' = "snapshot" /\ outcome' = "failed" /\ UNCHANGED writes
        /\ session' = [session EXCEPT !.phase = outcome] /\ outcome \in {"failed", "conflict"}
    BY <1>9 DEF Fresh, Step, Finish, TypeInv, PcOK
  <2> QED BY <2>1 DEF WritesInv, TypeInv, SessionOK, Session
<1>10. CASE BeginWeigh /\ session.phase # "updating"
  <2>1. pc \notin AtRequests /\ UNCHANGED <<pc, outcome>> /\ writes' = 0
    BY <1>10 DEF BeginWeigh, UpdateInv
  <2> QED BY <2>1 DEF WritesInv, AtRequests
<1>11. CASE BeginWeigh /\ session.phase = "updating"
  BY <1>2, <1>11 DEF BeginWeigh
<1>12. CASE Capture \/ FailWeigh
  <2>1. UNCHANGED <<pc, outcome, writes>>
    BY <1>12 DEF Capture, FailWeigh, EndWeigh
  <2>2. CASE session.phase = "measuring"
    <3>1. writes = 0
      BY <2>2 DEF WritesInv
    <3> QED BY <2>1, <3>1 DEF WritesInv
  <2>3. CASE session.phase # "measuring"
    BY <1>2, <1>12, <2>1, <2>3 DEF Capture, FailWeigh, Measuring
  <2> QED BY <2>2, <2>3
<1> QED
  BY <1>2, <1>3, <1>4, <1>5, <1>6, <1>7, <1>8, <1>9, <1>10, <1>11, <1>12
  DEF Next, BackendStep, UpdateStep, ScaleStep, TakeUpdate, AutoUpdate

LEMMA InitInv == Init => TypeInv /\ IInv
<1> SUFFICES ASSUME Init PROVE TypeInv /\ IInv
  OBVIOUS
<1> USE Generations, LimitAssumption DEF Init, NoRead, NoSession, NoUpdate
<1>1. 0 \in Weight
  BY WeightAssumption DEF Weight
<1>2. WorldOK /\ AdapterOK /\ HistoryOK
  BY DEF WorldOK, AdapterOK, HistoryOK
<1>3. NfcOK /\ ReadOK /\ ScaleOK /\ ActOK
  BY DEF NfcOK, ReadOK, ScaleOK, ActOK
<1>4. WfOK /\ PcOK
  BY <1>1 DEF WfOK, Stage, PcOK, PC
<1>5. SessionOK
  BY <1>1 DEF SessionOK, Session, Phase
<1>6. QueueOK
  BY DEF QueueOK
<1>7. IInv
  BY DEF IInv, TagInv, SessionInv, UpdateInv, WritesInv, AtRequests
<1> QED BY <1>2, <1>3, <1>4, <1>5, <1>6, <1>7 DEF TypeInv

LEMMA Invariant == Spec => [](TypeInv /\ IInv)
<1>1. Init => TypeInv /\ IInv
  BY InitInv
<1>2. TypeInv /\ IInv /\ [Next]_vars => TypeInv' /\ IInv'
  BY TypeStep, TagStep, SessionStep, RequestsStep, WritesStep DEF IInv
<1> QED BY <1>1, <1>2, PTL DEF Spec

-----------------------------------------------------------------------------
(* Theorems *)

\* The current spool of the station is what the server that answered has for
\* the tag that lies on the reader, whatever was placed, read, missed, queued
\* or answered late in between (station_workflow.cpp:98-100,
\* nfc_workflow_handoff.hpp:34-54).
THEOREM CurrentSpoolOfTag == Spec => []IdentityMatches
<1>1. TypeInv /\ IInv => IdentityMatches
  BY DEF TypeInv, HistoryOK, IInv, TagInv, IdentityMatches
<1> QED BY <1>1, Invariant, PTL

\* Only a PATCH adds to the saves, and it is sent between the fences.
LEMMA SavesByPatch ==
  ASSUME TypeInv, IInv, [Next]_vars, Saves
  PROVE  /\ SameSpool /\ ~gone
         /\ raced \/ Held = session.expected
         /\ session.tag \in Tag /\ \E b \in Backend : session.spool = Link[b][session.tag]
<1>1. writes \in Nat
  BY DEF TypeInv, HistoryOK
<1>2. CASE Patch
  <2>1. pc = "patch"
    BY <1>2 DEF Patch, Refused, Step
  <2>2. SameSpool /\ (raced \/ Held = session.expected)
    BY <2>1 DEF IInv, UpdateInv
  <2>3. session.tag \in Tag /\ \E b \in Backend : session.spool = Link[b][session.tag]
    BY <2>2 DEF SameSpool, IInv, SessionInv
  <2>4. ~gone
    BY <2>2, <2>3, AbsentAssumption DEF SameSpool, IInv, SessionInv
  <2> QED BY <2>2, <2>3, <2>4
<1>3. CASE writes' = writes \/ writes' = 0
  BY <1>1, <1>3 DEF Saves
<1>4. CASE BeginWeigh
  BY <1>3, <1>4 DEF BeginWeigh
<1>5. CASE Poll \/ Probe \/ TakeLookup \/ TakeUpdate \/ AutoUpdate \/ Capabilities \/ FirstFence
             \/ Get \/ SecondFence \/ Verify \/ Fresh \/ Snapshot \/ Readback \/ WeighRefused
             \/ StartWeigh \/ Capture \/ FailWeigh \/ Environment \/ UNCHANGED vars
  BY <1>3, <1>5 DEF Poll, PollStep, Probe, TakeLookup, TakeUpdate, AutoUpdate, Process,
    Capabilities, FirstFence, Get, SecondFence, Verify, Fresh, Snapshot, Readback, WeighRefused,
    StartWeigh, Capture, FailWeigh, EndWeigh, Environment, Place, Lift, Configure, Edit, Weigh,
    RequestUpdate
<1> QED BY <1>2, <1>4, <1>5 DEF Next, BackendStep, UpdateStep, ScaleStep

\* A weight is saved only while its tag has stayed on the reader since the
\* weigh began, to a spool that one of the servers has for that tag, and over
\* the value that the user saw.  Where the servers differ, this need not be the
\* server that is asked now: a lookup's answer outlives a change of the
\* settings (weigh_commands.cpp:62-87, spoolman_adapter.cpp:817-823).
SavesForATag ==
  [][Saves => ~gone /\ \E b \in Backend : session.spool = Link[b][session.tag]]_vars

THEOREM SavedForATag == Spec => SavesForATag /\ OverwritesWhatWasShown
<1>1. TypeInv /\ IInv /\ [Next]_vars =>
        /\ [Saves => ~gone /\ \E b \in Backend : session.spool = Link[b][session.tag]]_vars
        /\ [Saves => raced \/ Held = session.expected]_vars
  BY SavesByPatch
<1> QED BY <1>1, Invariant, PTL DEF Spec, SavesForATag, OverwritesWhatWasShown

\* Where all servers know the tags alike, as when there is one server, the
\* weight goes to the spool that the server which is asked has for the tag
\* (weigh_commands.cpp:62-87, spoolman_adapter.cpp:817-823).
THEOREM SavedForItsTag ==
  ASSUME \A b, c \in Backend : Link[b] = Link[c]
  PROVE  Spec => SavesRightly
<1>1. TypeInv /\ IInv /\ [Next]_vars =>
        [Saves => ~gone /\ session.spool = Link[adapter.url][session.tag]]_vars
  BY SavesByPatch DEF TypeInv, AdapterOK
<1>2. TypeInv /\ IInv /\ [Next]_vars => [Saves => raced \/ Held = session.expected]_vars
  BY SavesByPatch
<1> QED
  BY <1>1, <1>2, Invariant, PTL DEF Spec, SavesRightly, SavesForItsTag, OverwritesWhatWasShown

\* The step that says how an update went says what has become of the spool.
LEMMA OutcomeStep ==
  ASSUME TypeInv, IInv, [Next]_vars, session'.phase # session.phase
  PROVE  /\ session'.phase = "updated" => writes = 1 /\ Held = Saved
         /\ session'.phase = "conflict" => writes = 0
<1> DEFINE Told ==
      /\ session'.phase = "updated" => writes = 1 /\ Held = Saved
      /\ session'.phase = "conflict" => writes = 0
<1>1. ASSUME NEW S, S \notin {"updated", "conflict"},
             session' = [session EXCEPT !.phase = S] \/ session' = session
      PROVE  Told
  BY <1>1 DEF TypeInv, SessionOK, Session
<1>2. CASE Verify
  <2>1. pc = "verify" /\ (session' = session \/ Held = Saved)
    BY <1>2 DEF Verify, Refused, Step
  <2>2. writes = 1
    BY <2>1 DEF IInv, WritesInv
  <2>3. session' = session \/ session' = [session EXCEPT !.phase = "updated"]
    BY <1>2 DEF Verify, Finish
  <2> QED BY <2>1, <2>2, <2>3 DEF TypeInv, SessionOK, Session
<1>3. CASE Fresh
  <2>1. session' = [session EXCEPT !.phase = outcome]
    BY <1>3 DEF Fresh, Finish
  <2>2. outcome = "conflict" => writes = 0
    BY DEF IInv, WritesInv
  <2> QED BY <2>1, <2>2 DEF TypeInv, SessionOK, Session, PcOK
<1>4. CASE Capabilities \/ FirstFence
  <2>1. PICK S \in {"failed", "unchanged"} :
          session' = [session EXCEPT !.phase = S] \/ session' = session
    BY <1>4 DEF Capabilities, FirstFence, Finish
  <2> QED BY <1>1, <2>1
<1>5. ASSUME NEW id, Process(id) PROVE Told
  <2>1. \/ session' = [session EXCEPT !.phase = "failed"] \/ session' = session
        \/ session' = [session EXCEPT !.phase = "updating", !.consumed = TRUE]
    BY <1>5 DEF Process, Finish
  <2> QED BY <2>1 DEF TypeInv, SessionOK, Session
<1>6. CASE BeginWeigh
  <2>1. session' = session \/ session' = Opened
    BY <1>6 DEF BeginWeigh
  <2>2. Opened.phase = "measuring"
    BY DEF Opened, NoSession
  <2> QED BY <2>1, <2>2
<1>7. CASE Capture
  BY <1>7 DEF Capture, TypeInv, SessionOK, Session
<1>8. CASE FailWeigh
  BY <1>8, <1>1 DEF FailWeigh
<1>9. CASE Poll \/ Probe \/ TakeLookup \/ Get \/ SecondFence \/ Patch \/ Snapshot \/ Readback
             \/ WeighRefused \/ StartWeigh \/ Environment \/ UNCHANGED vars
  BY <1>9 DEF Poll, PollStep, Probe, TakeLookup, Get, SecondFence, Patch, Snapshot, Readback,
    WeighRefused, StartWeigh, Environment, Place, Lift, Configure, Edit, Weigh, RequestUpdate
<1> QED
  BY <1>2, <1>3, <1>4, <1>5, <1>6, <1>7, <1>8, <1>9
  DEF Next, BackendStep, UpdateStep, ScaleStep, TakeUpdate, AutoUpdate

\* A measurement changes Spoolman at most once, however often its update is
\* asked for and whatever answers are lost, and "updated" or "conflict" is said
\* only when it is true (weigh_sync.cpp:79-90, 130-145).
THEOREM MeasurementSavedOnce == Spec => SavedOnce
<1>1. TypeInv /\ IInv => TypeOK /\ PatchOnce
  BY Typed DEF IInv, WritesInv, PatchOnce
<1>2. TypeInv /\ IInv /\ [Next]_vars =>
        [session'.phase # session.phase =>
           /\ session'.phase = "updated" => writes = 1 /\ Held = Saved
           /\ session'.phase = "conflict" => writes = 0]_vars
  BY OutcomeStep
<1> QED BY <1>1, <1>2, Invariant, PTL DEF Spec, SavedOnce, OutcomeTrue
=============================================================================
