---------------------------- MODULE TagFlowProofs ----------------------------
(* Theorems of the Manage tag page in front of the writer, for every number *)
(* of tags, commands and places in the queue: the prompt of an unfinished   *)
(* change returns, and what is changed is what was confirmed.               *)
EXTENDS TagFlow, SequenceTheorems, TLAPS

USE DEF vars, writer, screen, outside

\* With these a change is over, or none was begun.
Over == {"complete", "cleared", "recovery_discarded", "idle"}

\* A confirmation is of the preview that its sender saw.
Honest(c) == c.action \in {"write", "clear"} => c.shown = <<c.action, c.plan>>

\* What the page is at any time, and what it is where it shows the tag, if
\* the screen was told of a recovery.
Holds(f, t) == f \in Flow /\ f.back # "choose" /\ (t => f.recovery \in Prompts)
Good(f, t) == Holds(f, t) /\ (t /\ f.page \in {"tag", "choose"} => f.phase \in Prompts)

\* The types that TypeOK names, by the tasks that change them.
CountInv ==
  /\ field \in Tag \cup {NoTag}
  /\ ops \in 0..MaxOps /\ browsed \in 0..MaxBrowser /\ ops - browsed <= MaxTouch
QueueInv ==
  /\ queue \in Seq(Command) /\ Len(queue) <= MaxQueue
  /\ \A i \in DOMAIN queue : Honest(queue[i])
RunInv ==
  /\ run \in Command \cup {NoRun} /\ Honest(run)
  /\ stage \in {"none", "begin", "read", "change", "link", "edit"}
  /\ stage = "read" => run.action \in Reviews
Plans == [id : 0..MaxOps, action : {"none", "write", "clear"}, uid : Tag \cup {NoTag},
          again : BOOLEAN]
Records == {NoRecord} \cup [uid : Tag \cup {NoTag}, phase : Prompts]
WriterInv == plan \in Plans /\ record \in Records /\ snapshot \in Snapshot
FlagInv == news \in BOOLEAN /\ failed \in BOOLEAN /\ open \in BOOLEAN /\ told \in BOOLEAN

\* While the writer owes the recovery it was shown, the page remembers it, and
\* the writer reports no end.
PromptInv == Good(flow, told) /\ (told => snapshot.phase \notin Over)

IInv == CountInv /\ QueueInv /\ RunInv /\ WriterInv /\ FlagInv /\ PromptInv

LEMMA Recorded ==
  /\ NoRecord.uid = NoTag /\ NoRecord.phase = ""
  /\ \A r \in Records :
       /\ r \in [uid : Tag \cup {NoTag}, phase : Prompts \cup {""}]
       /\ r.uid \in Tag \cup {NoTag} /\ r.phase \in Prompts \cup {""}
       /\ r # NoRecord => r.phase \in Prompts
<1>1. /\ NoRecord \in [uid : Tag \cup {NoTag}, phase : Prompts \cup {""}]
      /\ NoRecord.uid = NoTag /\ NoRecord.phase = ""
  BY DEF NoRecord
<1>2. ASSUME NEW r \in [uid : Tag \cup {NoTag}, phase : Prompts]
      PROVE  /\ r \in [uid : Tag \cup {NoTag}, phase : Prompts \cup {""}]
             /\ r.uid \in Tag \cup {NoTag} /\ r.phase \in Prompts
  OBVIOUS
<1> QED BY <1>1, <1>2 DEF Records

LEMMA Typed == IInv => TypeOK
<1> SUFFICES ASSUME IInv PROVE TypeOK
  OBVIOUS
<1>1. record \in [uid : Tag \cup {NoTag}, phase : Prompts \cup {""}]
  BY Recorded DEF IInv, WriterInv
<1>2. /\ plan \in [id : 0..MaxOps, action : {"none", "write", "clear"}, uid : Tag \cup {NoTag},
                   again : BOOLEAN]
      /\ snapshot \in Snapshot
  BY DEF IInv, WriterInv, Plans
<1>3. flow \in Flow
  BY DEF IInv, PromptInv, Good, Holds
<1> QED BY <1>1, <1>2, <1>3 DEF IInv, TypeOK, CountInv, QueueInv, RunInv, FlagInv
-----------------------------------------------------------------------------
(* The methods of the page *)

LEMMA Sizes == MaxOps \in Nat /\ 0 \in 0..MaxOps /\ MaxTouch \in Nat /\ MaxBrowser \in Nat
  BY FlowAssumption DEF MaxOps

LEMMA Names ==
  /\ Prompts \subseteq Steps
  /\ "queued" \in Steps /\ "idle" \in Steps
  /\ "tag" \in Pages /\ "error" \in Pages /\ "progress" \in Pages /\ "sources" \in Pages
  /\ "choose" \in Pages /\ "skip_review" \in Pages /\ "selected" \in Pages
  /\ "create" \in Pages /\ "catalog" \in Pages /\ "created" \in Pages
  BY DEF Steps, Pages

\* A way back to the tag remembers what is owed.
LEMMA ResumedGood ==
  ASSUME NEW f, NEW t \in BOOLEAN, Holds(f, t)
  PROVE  Good(Resumed(f), t)
<1>1. CASE f.recovery = ""
  BY <1>1 DEF Resumed, Good, Holds, Prompts
<1>2. CASE f.recovery # ""
  <2>1. f.recovery \in Prompts /\ Prompts \subseteq Steps
    BY <1>2 DEF Holds, Flow, Prompts, Steps
  <2>2. Resumed(f) = [f EXCEPT !.phase = f.recovery]
    BY <1>2 DEF Resumed
  <2> QED BY <2>1, <2>2 DEF Good, Holds, Flow
<1> QED BY <1>1, <1>2

\* A page that is not the tag's.
LEMMA AwayGood ==
  ASSUME NEW f, NEW t \in BOOLEAN, Holds(f, t), f.page \notin {"tag", "choose"}
  PROVE  Good(f, t)
  BY DEF Good

LEMMA FailGood ==
  ASSUME NEW f, NEW t \in BOOLEAN, Holds(f, t)
  PROVE  Good(Fail(f), t)
<1>1. Holds(Fail(f), t) /\ Fail(f).page = "error"
  BY Names DEF Fail, Holds, Flow
<1> QED BY <1>1, AwayGood

LEMMA WaitsGood ==
  ASSUME NEW f, NEW t \in BOOLEAN, Holds(f, t), NEW id \in 0..MaxOps
  PROVE  Good(Waits(f, id), t)
<1>1. Holds(Waits(f, id), t) /\ Waits(f, id).page = "progress"
  BY Names DEF Waits, Holds, Flow
<1> QED BY <1>1, AwayGood

LEMMA LeftGood ==
  ASSUME NEW f, NEW t \in BOOLEAN, Holds(f, t)
  PROVE  Good(Left(f), t)
<1> DEFINE op == IF f.waiting THEN 0 ELSE f.op
           g == [f EXCEPT !.page = "tag", !.phase = "", !.stalled = FALSE,
                          !.waiting = FALSE, !.op = op]
<1>1. op \in 0..MaxOps
  BY Sizes DEF Holds, Flow
<1>2. Left(f) = Resumed(g)
  BY DEF Left
<1> HIDE DEF op
<1>3. Holds(g, t)
  BY <1>1, Names DEF Holds, Flow
<1> QED BY <1>2, <1>3, ResumedGood

LEMMA ObservedGood ==
  ASSUME NEW f, NEW t \in BOOLEAN, Good(f, t), NEW x \in Tag \cup {NoTag}
  PROVE  Good(Observed(f, x), t)
<1> DEFINE restart == /\ ~f.waiting
                      /\ f.phase \notin Physical \cup Linking \cup Prompts
                      /\ x # NoTag /\ f.last # NoTag /\ x # f.last
           g == IF restart THEN Resumed([f EXCEPT !.page = "tag", !.phase = ""]) ELSE f
           last == IF x # NoTag THEN x ELSE g.last
<1>1. Good(g, t)
  <2>1. Holds([f EXCEPT !.page = "tag", !.phase = ""], t)
    BY Names DEF Good, Holds, Flow
  <2> QED BY <2>1, ResumedGood
<1>2. Observed(f, x) = [g EXCEPT !.uid = x, !.last = last]
  BY <1>1 DEF Observed, Good, Holds, Flow
<1>3. last \in Tag \cup {NoTag}
  BY <1>1 DEF Good, Holds, Flow
<1> HIDE DEF g, last
<1> QED BY <1>1, <1>2, <1>3 DEF Good, Holds, Flow

LEMMA TimedGood ==
  ASSUME NEW f, NEW t \in BOOLEAN, Good(f, t), NEW late \in BOOLEAN
  PROVE  Good(Timed(f, late), t)
<1> DEFINE stalled == late /\ f.waiting /\ f.phase \notin Physical
<1>1. Timed(f, late) = [f EXCEPT !.stalled = stalled]
  BY DEF Timed
<1>2. stalled \in BOOLEAN
  OBVIOUS
<1> HIDE DEF stalled
<1> QED BY <1>1, <1>2 DEF Good, Holds, Flow

LEMMA Leads ==
  ASSUME NEW p, NEW page \in Pages
  PROVE  /\ PageOf(p, page) \in Pages
         /\ PageOf(p, page) \in {"tag", "choose"} => p \in Prompts \cup {"idle"}
  <1>1. PageOf(p, page) \in {page, "catalog", "review", "created", "ready", "reuse", "tag",
                             "error", "progress"}
    BY DEF PageOf
  <1>2. {"catalog", "review", "created", "ready", "reuse", "tag", "error", "progress"}
          \subseteq Pages
    BY DEF Pages
  <1>3. p \notin Prompts \cup {"idle"} =>
          PageOf(p, page) \in {"catalog", "review", "created", "ready", "reuse", "error",
                              "progress"}
    BY DEF PageOf
  <1> QED BY <1>1, <1>2, <1>3

\* A snapshot that ends no change leaves the prompt that the page remembers;
\* one that asks for a recovery puts it there.
LEMMA ConsumedGood ==
  ASSUME NEW f, NEW t \in BOOLEAN, Good(f, t), NEW s \in Snapshot,
         t => s.phase \notin Over
  PROVE  /\ Good(Consumed(f, s), t)
         /\ Taken(f, s) /\ s.phase \in Prompts => Good(Consumed(f, s), TRUE)
<1> DEFINE over == s.phase \in {"complete", "cleared", "recovery_discarded"}
           g == IF over THEN Forget(f) ELSE f
           page == PageOf(s.phase, f.page)
           view == [uid |-> s.uid, plan |-> IF s.phase \in Reviews THEN s.op ELSE 0]
           recovery == IF s.phase \in Prompts THEN s.phase ELSE g.recovery
           waiting == g.waiting /\ page = "progress"
           op == IF page = "progress" THEN g.op ELSE 0
           new == [g EXCEPT !.view = view, !.phase = s.phase, !.page = page,
                            !.recovery = recovery, !.waiting = waiting, !.op = op]
           dull == Elsewhere(f, s) \/ s.phase \in {"editing", "updated"}
<1>1. f \in Flow /\ s.phase \in Steps /\ s.uid \in Tag \cup {NoTag} /\ s.op \in 0..MaxOps
  BY DEF Good, Holds, Snapshot
<1>2. over => ~t
  BY DEF Over
<1>3. Good(g, t) /\ g.page = f.page
  BY <1>1, <1>2 DEF Forget, Good, Holds, Flow, Prompts
<1>4. Consumed(f, s) = IF Stranger(f, s) THEN f ELSE IF dull THEN g ELSE new
  <2>1. new = [g EXCEPT !.view = view, !.phase = s.phase, !.page = page,
                !.recovery = IF s.phase \in Prompts THEN s.phase ELSE @,
                !.waiting = @ /\ page = "progress",
                !.op = IF page = "progress" THEN @ ELSE 0]
    BY <1>3 DEF Good, Holds, Flow
  <2> QED BY <2>1 DEF Consumed
<1>5. page \in Pages /\ (page \in {"tag", "choose"} => s.phase \in Prompts \cup {"idle"})
  BY <1>1, Leads DEF Flow
<1>6. g \in Flow /\ g.back # "choose"
  BY <1>3 DEF Good, Holds
<1> HIDE DEF g, page
<1>7. view \in View
  BY <1>1, Sizes DEF View
<1>8. recovery \in Prompts \cup {""} /\ waiting \in BOOLEAN /\ op \in 0..MaxOps
  BY <1>6, Sizes DEF Flow
<1> HIDE DEF view, recovery, waiting, op
<1>9. new \in Flow /\ new.back # "choose" /\ new.recovery = recovery /\ new.page = page
      /\ new.phase = s.phase
  BY <1>1, <1>5, <1>6, <1>7, <1>8 DEF Flow
<1>10. (t => recovery \in Prompts) /\ (s.phase \in Prompts => recovery \in Prompts)
  BY <1>3 DEF Good, Holds, recovery
<1> HIDE DEF new
<1>11. Good(new, t) /\ (s.phase \in Prompts => Good(new, TRUE))
  BY <1>5, <1>9, <1>10 DEF Good, Holds, Over
<1>12. Taken(f, s) /\ s.phase \in Prompts => Consumed(f, s) = new
  BY <1>4 DEF Taken, Prompts
<1> QED BY <1>3, <1>4, <1>11, <1>12

\* A button that turns a page.
LEMMA TurnedGood ==
  ASSUME NEW f, NEW t \in BOOLEAN, Good(f, t), NEW b \in Buttons(f), b # "home", Turns(f, b)
  PROVE  Good(Turned(f, b), t)
<1>1. f \in Flow /\ Holds(f, t) /\ f.back \in Pages /\ f.back # "choose" /\ f.page \in Pages
  BY DEF Good, Holds, Flow
<1>2. ASSUME NEW page \in Pages, page \notin {"tag", "choose"}
      PROVE  Good([f EXCEPT !.page = page], t)
  BY <1>1, <1>2 DEF Good, Holds, Flow
<1>3. CASE b = "sources"
  BY <1>2, <1>3, Names DEF Turned
<1>4. CASE b = "choose"
  <2>1. f.page = "tag" /\ f.phase \notin Prompts
    BY <1>1, <1>4 DEF Buttons, OnTag, OnProgress, Pages
  <2>2. ~t
    BY <2>1 DEF Good
  <2>3. Turned(f, b) = [f EXCEPT !.page = "choose"]
    BY <1>4 DEF Turned
  <2> QED BY <1>1, <2>2, <2>3, Names DEF Good, Holds, Flow
<1>5. CASE b = "skip"
  <2>1. Turned(f, b) = [f EXCEPT !.page = "skip_review", !.back = "tag"]
    BY <1>5 DEF Turned
  <2> QED BY <1>1, <2>1, Names DEF Good, Holds, Flow
<1>6. CASE b = "back"
  <2> DEFINE to == CASE f.page \in {"selected", "create"} -> "catalog"
              [] f.page = "catalog" -> "sources"
              [] f.page \in {"review", "skip_review"} -> f.back
              [] OTHER -> "tag"
  <2>1. to \in {"catalog", "sources", f.back, "tag"}
    OBVIOUS
  <2>2. to \in Pages /\ to # "choose"
    BY <1>1, <2>1, Names
  <2>3. Turned(f, b) = IF to = "tag" THEN Resumed([f EXCEPT !.page = to])
                                     ELSE [f EXCEPT !.page = to]
    BY <1>6 DEF Turned, Return
  <2> HIDE DEF to
  <2>4. Holds([f EXCEPT !.page = to], t)
    BY <1>1, <2>2 DEF Holds, Flow
  <2> QED BY <1>2, <2>2, <2>3, <2>4, ResumedGood
<1>7. CASE b = "row"
  <2>1. Turned(f, b) = [f EXCEPT !.page = IF f.page = "choose" THEN "tag" ELSE "selected"]
    BY <1>1, <1>7 DEF Turned, Flow
  <2>2. CASE f.page = "choose"
    BY <1>1, <2>1, <2>2, Names DEF Good, Holds, Flow
  <2> QED BY <1>2, <2>1, <2>2, Names
<1>8. CASE b = "use"
  BY <1>2, <1>8, Names DEF Turned
<1> QED BY <1>3, <1>4, <1>5, <1>6, <1>7, <1>8 DEF Turns

\* A button that asks: the page stays as it was owed, and what is asked is no
\* confirmation but the one on the page.
Asking ==
  [op : {0}, action : Actions, uid : Tag \cup {NoTag}, plan : 0..MaxOps,
   shown : {<<"nothing", 0>>} \cup ({"write", "clear"} \X (0..MaxOps))]

LEMMA AskAsks ==
  ASSUME NEW a \in Actions \ {"write", "clear"}
  PROVE  Ask(a) \in Asking /\ Honest(Ask(a))
  BY Sizes DEF Ask, NoRun, Asking, Honest

LEMMA AskedGood ==
  ASSUME NEW f, NEW t \in BOOLEAN, Good(f, t), NEW b \in Buttons(f), b # "home", ~Turns(f, b)
  PROVE  /\ Holds(Asked(f, b)[1], t)
         /\ Asked(f, b)[2] \in Asking /\ Honest(Asked(f, b)[2])
<1>1. f \in Flow /\ Holds(f, t) /\ f.page \in Pages /\ f.view \in View
      /\ f.uid \in Tag \cup {NoTag} /\ f.last \in Tag \cup {NoTag}
  BY DEF Good, Holds, Flow
<1>2. {"catalog", "preview", "clear_preview", "create_spool", "retry_association", "retry_unlink"}
        \subseteq Actions \ {"write", "clear"}
  BY DEF Actions
<1>3. CASE b \in {"spools", "filaments"}
  <2>1. Asked(f, b) = <<[f EXCEPT !.page = "catalog", !.spools = b = "spools"], Ask("catalog")>>
    BY <1>3 DEF Asked
  <2>2. Holds([f EXCEPT !.page = "catalog", !.spools = b = "spools"], t)
    BY <1>1, Names DEF Holds, Flow
  <2> QED BY <1>2, <2>1, <2>2, AskAsks
<1>4. CASE b = "search"
  BY <1>1, <1>2, <1>4, AskAsks DEF Asked
<1>5. CASE b \in {"row", "use"}
  <2>1. Asked(f, b) = <<[f EXCEPT !.back = f.page], Ask("preview")>>
    BY <1>5 DEF Asked
  <2>2. f.page # "choose"
    BY <1>5 DEF Turns, Buttons
  <2>3. Holds([f EXCEPT !.back = f.page], t)
    BY <1>1, <2>2 DEF Holds, Flow
  <2> QED BY <1>2, <2>1, <2>3, AskAsks
<1>6. Holds([f EXCEPT !.back = "tag"], t)
  BY <1>1, Names DEF Holds, Flow
<1>7. CASE b = "update"
  BY <1>2, <1>6, <1>7, AskAsks DEF Asked
<1>8. CASE b = "clear"
  BY <1>2, <1>6, <1>8, AskAsks DEF Asked
<1>9. CASE b = "retry"
  <2>1. Retried(f) \in Actions \ {"write", "clear"}
    BY <1>2 DEF Retried
  <2>2. Asked(f, b) = <<[f EXCEPT !.back = IF f.phase = "write_recovery" THEN "tag" ELSE f.back],
                        Ask(Retried(f))>>
    BY <1>1, <1>9 DEF Asked, Flow
  <2>3. Holds([f EXCEPT !.back = IF f.phase = "write_recovery" THEN "tag" ELSE f.back], t)
    BY <1>1, Names DEF Holds, Flow
  <2> QED BY <2>1, <2>2, <2>3, AskAsks
<1>10. CASE b = "create"
  BY <1>1, <1>2, <1>10, AskAsks DEF Asked
<1>11. CASE b = "write"
  <2>1. Asked(f, b) = <<f, IF f.page = "skip_review" THEN Skip(f) ELSE Confirm(f)>>
    BY <1>11 DEF Asked
  <2>2. Skip(f) \in Asking /\ Honest(Skip(f))
    BY <1>1, Sizes DEF Skip, Ask, NoRun, Asking, Honest, View, Actions
  <2>3. Confirm(f) \in Asking /\ Honest(Confirm(f))
    <3> DEFINE a == IF f.phase = "clear_preview" THEN "clear" ELSE "write"
               mine == <<a, f.view.plan>>
    <3>1. a \in {"write", "clear"} /\ a \in Actions
      BY DEF Actions
    <3>2. Confirm(f) = [Ask(a) EXCEPT !.uid = f.view.uid, !.plan = f.view.plan, !.shown = mine]
      BY DEF Confirm
    <3>3. f.view.uid \in Tag \cup {NoTag} /\ f.view.plan \in 0..MaxOps
      BY <1>1 DEF View
    <3>4. mine \in {"write", "clear"} \X (0..MaxOps)
      BY <3>1, <3>3
    <3>5. Ask(a) \in Asking /\ Ask(a).action = a
      BY <3>1, Sizes DEF Ask, NoRun, Asking
    <3> HIDE DEF a, mine
    <3>6. Confirm(f) \in Asking
      BY <3>2, <3>3, <3>4, <3>5 DEF Asking
    <3>7. Confirm(f).action = a /\ Confirm(f).plan = f.view.plan /\ Confirm(f).shown = mine
      BY <3>2, <3>5 DEF Asking
    <3> QED BY <3>6, <3>7 DEF Honest, mine
  <2> QED BY <1>1, <2>1, <2>2, <2>3
<1>12. b \in {"retry", "skip", "home", "sources", "update", "clear", "choose", "spools",
              "filaments", "back", "search", "row", "use", "create", "write"}
  BY <1>1 DEF Buttons, OnTag, OnProgress, Pages
<1> QED BY <1>3, <1>4, <1>5, <1>7, <1>8, <1>9, <1>10, <1>11, <1>12 DEF Turns
-----------------------------------------------------------------------------
(* The screen, the browser and the reader *)

LEMMA Queued ==
  ASSUME CountInv, QueueInv, NEW c \in Asking, Honest(c), Len(queue) < MaxQueue,
         ops + 1 \in 1..MaxOps, queue' = Append(queue, [c EXCEPT !.op = ops + 1])
  PROVE  QueueInv'
<1> DEFINE new == [c EXCEPT !.op = ops + 1]
<1>1. new \in Command /\ new.action = c.action /\ new.plan = c.plan /\ new.shown = c.shown
  BY DEF Asking, Command
<1> HIDE DEF new
<1>2. queue' = Append(queue, new)
  BY DEF new
<1>3. /\ queue \in Seq(Command) /\ Len(queue) \in Nat /\ DOMAIN queue = 1..Len(queue)
      /\ MaxQueue \in Nat
  BY FlowAssumption DEF QueueInv
<1>4. /\ queue' \in Seq(Command) /\ Len(queue') = Len(queue) + 1
      /\ DOMAIN queue' = 1..Len(queue) + 1 /\ queue'[Len(queue) + 1] = new
      /\ \A i \in 1..Len(queue) : queue'[i] = queue[i]
  BY <1>1, <1>2, <1>3
<1>5. Honest(new)
  BY <1>1 DEF Honest
<1>6. ASSUME NEW i \in DOMAIN queue' PROVE Honest(queue'[i])
  <2>1. CASE i = Len(queue) + 1
    BY <1>4, <1>5, <2>1
  <2>2. CASE i \in 1..Len(queue)
    <3>1. Honest(queue[i])
      BY <1>3, <2>2 DEF QueueInv
    <3>2. queue'[i] = queue[i]
      BY <1>4, <2>2
    <3> QED BY <3>1, <3>2
  <2>3. i \in 1..Len(queue) + 1
    BY <1>4
  <2> QED BY <1>3, <2>1, <2>2, <2>3
<1>7. Len(queue') <= MaxQueue
  BY <1>3, <1>4
<1>8. \A i \in DOMAIN queue' : Honest(queue'[i])
  BY <1>6, Zenon
<1> QED BY <1>4, <1>7, <1>8, Zenon DEF QueueInv

LEMMA SubmitStep ==
  ASSUME CountInv, QueueInv, NEW f, NEW t \in BOOLEAN, Holds(f, t), NEW c \in Asking, Honest(c),
         Submit(f, c), UNCHANGED <<field, browsed>>
  PROVE  CountInv' /\ QueueInv' /\ Good(flow', t)
<1>1. CASE flow' = Fail(f) /\ UNCHANGED <<ops, queue>>
  BY <1>1, FailGood DEF CountInv, QueueInv
<1>2. CASE /\ ops - browsed < MaxTouch /\ Len(queue) < MaxQueue /\ ops' = ops + 1
           /\ queue' = Append(queue, [c EXCEPT !.op = ops + 1]) /\ flow' = Waits(f, ops + 1)
  <2>1. /\ ops \in Nat /\ browsed \in Nat /\ browsed <= MaxBrowser
        /\ MaxTouch \in Nat /\ MaxBrowser \in Nat /\ MaxOps = MaxTouch + MaxBrowser
    BY Sizes DEF CountInv, MaxOps
  <2>2. ops + 1 \in 1..MaxOps /\ ops + 1 \in 0..MaxOps
    BY <1>2, <2>1
  <2>3. CountInv'
    BY <1>2, <2>1, <2>2 DEF CountInv
  <2> QED BY <1>2, <2>2, <2>3, Queued, WaitsGood
<1> QED BY <1>1, <1>2 DEF Submit

LEMMA PressStep ==
  ASSUME IInv, NEW b \in Buttons(flow), Press(b)
  PROVE  IInv'
<1>1. Good(flow, told) /\ told \in BOOLEAN /\ failed \in BOOLEAN /\ Holds(flow, told)
  BY DEF IInv, PromptInv, FlagInv, Good
<1>2. UNCHANGED <<field, browsed, writer, news, told>> /\ open' \in BOOLEAN /\ failed' \in BOOLEAN
  BY <1>1 DEF Press, IInv, FlagInv
<1>3. CountInv' /\ QueueInv' /\ Good(flow', told)
  <2>1. CASE b = "home" /\ flow' = Left(flow) /\ UNCHANGED <<ops, queue>>
    BY <1>1, <1>2, <2>1, LeftGood DEF IInv, CountInv, QueueInv
  <2>2. CASE b # "home" /\ Turns(flow, b) /\ flow' = Turned(flow, b) /\ UNCHANGED <<ops, queue>>
    BY <1>1, <1>2, <2>2, TurnedGood DEF IInv, CountInv, QueueInv
  <2>3. CASE b # "home" /\ ~Turns(flow, b) /\ Submit(Asked(flow, b)[1], Asked(flow, b)[2])
    BY <1>1, <1>2, <2>3, AskedGood, SubmitStep DEF IInv
  <2> QED BY <2>1, <2>2, <2>3 DEF Press
<1>4. RunInv' /\ WriterInv'
  BY <1>2 DEF IInv, RunInv, WriterInv
<1> QED BY <1>1, <1>2, <1>3, <1>4 DEF IInv, FlagInv, PromptInv

LEMMA RefreshStep ==
  ASSUME IInv, Refresh, open' \in BOOLEAN
  PROVE  IInv'
<1>1. Good(flow, told) /\ told \in BOOLEAN /\ failed \in BOOLEAN /\ news \in BOOLEAN
      /\ snapshot \in Snapshot /\ (told => snapshot.phase \notin Over)
      /\ field \in Tag \cup {NoTag}
  BY DEF IInv, PromptInv, FlagInv, WriterInv, CountInv
<1>2. PICK late \in BOOLEAN :
        LET observed == Observed(flow, field)
            shown == IF news THEN Consumed(observed, snapshot) ELSE observed
            due == news /\ Due(observed, snapshot)
            ended == shown.op # 0 /\ failed
        IN /\ news' = (news /\ ~Taken(observed, snapshot))
           /\ told' = (told \/ (/\ news /\ Taken(observed, snapshot)
                                /\ snapshot.phase \in Prompts /\ record # NoRecord))
           /\ \/ /\ due
                 /\ Submit([shown EXCEPT !.back = "created"], Ask("preview"))
              \/ /\ ~due
                 /\ flow' = Timed(IF ended THEN Fail([shown EXCEPT !.op = 0]) ELSE shown, late)
                 /\ UNCHANGED <<ops, queue>>
           /\ failed' = (failed /\ flow'.op = flow.op)
           /\ UNCHANGED <<field, browsed, writer>>
  BY DEF Refresh
<1> DEFINE observed == Observed(flow, field)
           shown == IF news THEN Consumed(observed, snapshot) ELSE observed
           due == news /\ Due(observed, snapshot)
           ended == shown.op # 0 /\ failed
<1>3. Good(observed, told)
  BY <1>1, ObservedGood
<1>4. told' \in BOOLEAN /\ news' \in BOOLEAN /\ failed' \in BOOLEAN
  BY <1>1, <1>2
<1> HIDE DEF observed
<1>5. Good(shown, told') /\ (told' => snapshot.phase \notin Over)
  <2>1. CASE news
    BY <1>1, <1>2, <1>3, <2>1, ConsumedGood DEF observed, Over, Prompts
  <2>2. CASE ~news
    BY <1>1, <1>2, <1>3, <2>2
  <2> QED BY <1>1, <2>1, <2>2
<1> HIDE DEF shown
<1>6. CountInv' /\ QueueInv' /\ Good(flow', told')
  <2>1. CASE due /\ Submit([shown EXCEPT !.back = "created"], Ask("preview"))
    <3>1. Holds([shown EXCEPT !.back = "created"], told')
      BY <1>5, Names DEF Good, Holds, Flow
    <3>2. Ask("preview") \in Asking /\ Honest(Ask("preview"))
      BY AskAsks DEF Actions
    <3> QED BY <1>2, <1>4, <2>1, <3>1, <3>2, SubmitStep DEF IInv
  <2>2. CASE /\ flow' = Timed(IF ended THEN Fail([shown EXCEPT !.op = 0]) ELSE shown, late)
             /\ UNCHANGED <<ops, queue>>
    <3>1. Good(Fail([shown EXCEPT !.op = 0]), told')
      <4>1. Holds([shown EXCEPT !.op = 0], told')
        BY <1>5, Sizes DEF Good, Holds, Flow
      <4> QED BY <1>4, <4>1, FailGood
    <3>2. Good(flow', told')
      BY <1>4, <1>5, <2>2, <3>1, TimedGood
    <3> QED BY <1>2, <2>2, <3>2 DEF IInv, CountInv, QueueInv
  <2> QED BY <1>2, <2>1, <2>2 DEF observed, shown
<1>7. RunInv' /\ WriterInv'
  BY <1>2 DEF IInv, RunInv, WriterInv
<1> QED BY <1>2, <1>4, <1>5, <1>6, <1>7 DEF IInv, FlagInv, PromptInv

LEMMA BrowseStep ==
  ASSUME IInv, NEW a \in Asks, Browse(a)
  PROVE  IInv'
<1>1. UNCHANGED <<field, writer, screen, failed, news, told>>
  BY DEF Browse
<1>2. PICK c : /\ queue' = Append(queue, [c EXCEPT !.op = ops + 1])
               /\ c = IF a \in {"write", "clear"}
                      THEN [Ask(a) EXCEPT !.uid = snapshot.uid, !.plan = snapshot.op,
                                          !.shown = <<a, snapshot.op>>]
                      ELSE [Ask(a) EXCEPT !.uid = IF a = "discard_recovery" THEN snapshot.uid
                                                                             ELSE NoTag]
  BY DEF Browse
<1>3. a \in Actions /\ snapshot.uid \in Tag \cup {NoTag} /\ snapshot.op \in 0..MaxOps
  BY FlowAssumption DEF IInv, WriterInv, Snapshot
<1>4. Ask(a) \in Asking /\ Ask(a).action = a
  BY <1>3, Sizes DEF Ask, NoRun, Asking
<1>5. c \in Asking /\ Honest(c)
  <2>1. CASE a \in {"write", "clear"}
    <3> DEFINE mine == <<a, snapshot.op>>
    <3>1. mine \in {"write", "clear"} \X (0..MaxOps)
      BY <1>3, <2>1
    <3>2. c = [Ask(a) EXCEPT !.uid = snapshot.uid, !.plan = snapshot.op, !.shown = mine]
      BY <1>2, <2>1
    <3> HIDE DEF mine
    <3>3. c \in Asking /\ c.action = a /\ c.plan = snapshot.op /\ c.shown = mine
      BY <1>3, <1>4, <3>1, <3>2 DEF Asking
    <3> QED BY <3>3 DEF Honest, mine
  <2>2. CASE a \notin {"write", "clear"}
    <3>1. c \in Asking /\ c.action = a
      BY <1>2, <1>3, <1>4, <2>2 DEF Asking
    <3> QED BY <2>2, <3>1 DEF Honest
  <2> QED BY <2>1, <2>2
<1>6. /\ ops \in Nat /\ browsed \in Nat /\ browsed < MaxBrowser /\ ops - browsed <= MaxTouch
      /\ MaxTouch \in Nat /\ MaxBrowser \in Nat /\ MaxOps = MaxTouch + MaxBrowser
      /\ ops' = ops + 1 /\ browsed' = browsed + 1 /\ Len(queue) < MaxQueue
  BY Sizes DEF Browse, IInv, CountInv, MaxOps
<1>7. ops + 1 \in 1..MaxOps /\ ops' \in 0..MaxOps /\ browsed' \in 0..MaxBrowser
      /\ ops' - browsed' <= MaxTouch
  BY <1>6
<1>8. CountInv' /\ QueueInv'
  BY <1>1, <1>2, <1>5, <1>6, <1>7, Queued DEF IInv, CountInv
<1> QED BY <1>1, <1>8 DEF IInv, RunInv, WriterInv, FlagInv, PromptInv

LEMMA PlaceStep ==
  ASSUME IInv, NEW t \in Tag \cup {NoTag}, Place(t)
  PROVE  IInv'
  BY DEF Place, IInv, CountInv, QueueInv, RunInv, WriterInv, FlagInv, PromptInv
-----------------------------------------------------------------------------
(* The writer *)

\* What a step of the writer leaves as it should be.
Written ==
  /\ run' \in Command \cup {NoRun} /\ Honest(run')
  /\ stage' \in {"none", "begin", "read", "change", "link", "edit"}
  /\ stage' = "read" => run'.action \in Reviews
  /\ plan' \in Plans /\ record' \in Records /\ snapshot' \in Snapshot
  /\ news' \in BOOLEAN /\ failed' \in BOOLEAN
  /\ told' \in {told, FALSE} /\ (told' => snapshot'.phase \notin Over)

\* What a snapshot may say while a recovery is owed.
Saying == Steps \ Over

LEMMA Said ==
  /\ Prompts \subseteq Saying /\ Reviews \subseteq Saying
  /\ "failed" \in Saying /\ "reading" \in Saying /\ "editing" \in Saying
  /\ "updated" \in Saying /\ "catalog" \in Saying /\ "spool_selected" \in Saying
  /\ "writing" \in Saying /\ "clearing" \in Saying /\ "associating" \in Saying
  /\ "unlinking" \in Saying /\ Saying \subseteq Steps
  /\ "complete" \in Steps /\ "cleared" \in Steps /\ "recovery_discarded" \in Steps
  BY DEF Saying, Steps, Prompts, Reviews, Physical, Linking, Over

LEMMA NoRunHonest == NoRun \in Command \cup {NoRun} /\ Honest(NoRun) /\ NoRun.op = 0
  BY DEF NoRun, Honest

\* The types of what the writer has.
LEMMA Has ==
  ASSUME IInv
  PROVE  /\ run \in Command \cup {NoRun} /\ Honest(run) /\ run.op \in 0..MaxOps
         /\ stage \in {"none", "begin", "read", "change", "link", "edit"}
         /\ (stage = "read" => run.action \in Reviews)
         /\ plan \in Plans /\ plan.uid \in Tag \cup {NoTag}
         /\ record \in Records /\ record.uid \in Tag \cup {NoTag}
         /\ record.phase \in Prompts \cup {""} /\ (record # NoRecord => record.phase \in Prompts)
         /\ snapshot \in Snapshot /\ snapshot.uid \in Tag \cup {NoTag}
         /\ news \in BOOLEAN /\ failed \in BOOLEAN /\ told \in BOOLEAN
         /\ (told => snapshot.phase \notin Over)
         /\ field \in Tag \cup {NoTag}
         /\ NoPlan \in Plans /\ NoRecord \in Records
<1>1. run.op \in 0..MaxOps
  BY Sizes, NoRunHonest DEF IInv, RunInv, Command
<1>2. /\ record \in Records /\ record.uid \in Tag \cup {NoTag}
      /\ record.phase \in Prompts \cup {""} /\ (record # NoRecord => record.phase \in Prompts)
  BY Recorded DEF IInv, WriterInv
<1>3. plan \in Plans /\ plan.uid \in Tag \cup {NoTag} /\ NoPlan \in Plans
  BY Sizes DEF IInv, WriterInv, Plans, NoPlan
<1>4. snapshot \in Snapshot /\ snapshot.uid \in Tag \cup {NoTag}
  BY DEF IInv, WriterInv, Snapshot
<1> QED BY <1>1, <1>2, <1>3, <1>4 DEF IInv, RunInv, FlagInv, CountInv, PromptInv, Records

LEMMA Published ==
  ASSUME IInv, NEW p \in Steps, NEW u \in Tag \cup {NoTag}, Publish(p, u)
  PROVE  snapshot' \in Snapshot /\ snapshot'.phase = p /\ news' \in BOOLEAN
<1>1. run.op \in 0..MaxOps
  BY Has
<1> QED BY <1>1 DEF Publish, Snapshot

LEMMA Done ==
  ASSUME IInv, Fails \/ Succeeds
  PROVE  run' = NoRun /\ stage' = "none" /\ failed' \in BOOLEAN
  BY Has DEF Fails, Succeeds

\* A command that failed.
LEMMA Concluded ==
  ASSUME IInv, NEW rec \in {record, NoRecord}, Conclude(rec)
  PROVE  /\ run' = NoRun /\ stage' = "none" /\ failed' \in BOOLEAN
         /\ plan' \in Plans /\ snapshot' \in Snapshot /\ snapshot'.phase \in Saying
         /\ news' \in BOOLEAN
<1>1. PICK p \in Saying, u \in Tag \cup {NoTag} : Publish(p, u)
  <2>1. rec.uid \in Tag \cup {NoTag} /\ (rec # NoRecord => rec.phase \in Prompts)
    BY Has, Recorded
  <2>2. rec.phase \in {"unlink_pending", "association_pending"} => rec.phase \in Saying
    BY Said DEF Prompts
  <2> QED BY <2>1, <2>2, Has, Said DEF Conclude, Show
<1>2. plan' \in {plan, NoPlan} /\ Fails
  BY DEF Conclude
<1> QED BY <1>1, <1>2, Has, Said, Published, Done

LEMMA BeginStep ==
  ASSUME IInv, Begin
  PROVE  Written /\ QueueInv'
<1>1. /\ queue \in Seq(Command) /\ Len(queue) \in Nat \ {0} /\ DOMAIN queue = 1..Len(queue)
      /\ MaxQueue \in Nat /\ Len(queue) <= MaxQueue
  BY FlowAssumption DEF IInv, QueueInv, Begin
<1>2. Head(queue) = queue[1] /\ queue[1] \in Command /\ 1 \in DOMAIN queue
  BY <1>1
<1>3. /\ Tail(queue) \in Seq(Command) /\ Len(Tail(queue)) = Len(queue) - 1
      /\ DOMAIN Tail(queue) = 1..Len(queue) - 1
  BY <1>1
<1>4. \A i \in DOMAIN Tail(queue) : i + 1 \in DOMAIN queue /\ Tail(queue)[i] = queue[i + 1]
  BY <1>1, <1>3
<1>5. QueueInv'
  BY <1>1, <1>3, <1>4 DEF Begin, IInv, QueueInv
<1> QED BY <1>2, <1>5, Has DEF Begin, Written, IInv, QueueInv

\* Commands that end before they have done anything, and those that only ask.
LEMMA RefusedStep ==
  ASSUME IInv, Rejected \/ Refused \/ Discard \/ Answer \/ Edit \/ StartRead
  PROVE  Written
<1>1. CASE Rejected
  BY <1>1, Has, Done, NoRunHonest DEF Rejected, Silent, Written
<1>2. CASE Refused
  <2>1. CASE record.phase = "clear_recovery" /\ Fails /\ Silent
    BY <1>2, <2>1, Has, Done, NoRunHonest DEF Refused, Silent, Written
  <2>2. CASE Publish(record.phase, record.uid) /\ (Fails \/ Succeeds)
    <3>1. record.phase \in Prompts
      BY <1>2, Has DEF Refused, Gate, Prompts
    <3>2. record.phase \in Steps /\ record.phase \notin Over
      BY <3>1, Said DEF Saying
    <3> QED BY <1>2, <2>2, <3>2, Has, Done, NoRunHonest, Published DEF Refused, Written
  <2> QED BY <1>2, <2>1, <2>2 DEF Refused
<1>3. CASE Discard
  <2>1. CASE Settled /\ plan' = NoPlan /\ Publish("recovery_discarded", NoTag) /\ Succeeds
    BY <2>1, Has, Done, Said, NoRunHonest, Published DEF Settled, Written
  <2>2. CASE Fails /\ Silent /\ UNCHANGED <<plan, record, told>>
    BY <2>2, Has, Done, NoRunHonest DEF Silent, Written
  <2> QED BY <1>3, <2>1, <2>2 DEF Discard
<1>4. CASE Answer
  <2>1. CASE /\ Publish(IF run.action = "catalog" THEN "catalog" ELSE "spool_selected", NoTag)
             /\ Succeeds /\ UNCHANGED plan
    <3>1. PICK p \in Saying : Publish(p, NoTag)
      BY <2>1, Said
    <3> QED BY <1>4, <2>1, <3>1, Has, Done, Said, NoRunHonest, Published DEF Answer, Written, Saying
  <2>2. CASE Conclude(NoRecord)
    BY <1>4, <2>2, Has, NoRunHonest, Concluded DEF Answer, Written, Saying
  <2> QED BY <1>4, <2>1, <2>2 DEF Answer
<1>5. CASE Edit
  <2>1. PICK p \in {"editing", "updated", "failed"} : Publish(p, NoTag)
    BY <1>5 DEF Edit
  <2>2. p \in Saying
    BY Said
  <2>3. snapshot' \in Snapshot /\ snapshot'.phase \in Saying /\ news' \in BOOLEAN
    BY <2>1, <2>2, Said, Published
  <2>4. /\ run' \in {run, NoRun} /\ failed' \in BOOLEAN /\ stage' \in {"edit", "none"}
    BY <1>5, Has, Done DEF Edit, Goes
  <2> QED BY <1>5, <2>3, <2>4, Has, NoRunHonest DEF Edit, Written, Saying
<1>6. CASE StartRead
  <2>1. snapshot' \in Snapshot /\ snapshot'.phase = "reading" /\ news' \in BOOLEAN
    BY <1>6, Said, Published DEF StartRead
  <2> QED BY <1>6, <2>1, Has, Said DEF StartRead, Admitted, Goes, Written, Saying
<1> QED BY <1>1, <1>2, <1>3, <1>4, <1>5, <1>6

LEMMA ReadStep ==
  ASSUME IInv, Read
  PROVE  Written
<1>1. CASE Conclude(record) /\ UNCHANGED <<record, told>>
  BY <1>1, Has, NoRunHonest, Concluded DEF Written, Saying
<1>2. CASE ~(Conclude(record) /\ UNCHANGED <<record, told>>)
  <2>1. /\ run.action \in Reviews /\ Succeeds
        /\ plan' = [id |-> run.op, uid |-> field, again |-> record.uid = field,
                    action |-> IF run.action = "preview" THEN "write" ELSE "clear"]
    BY <1>2, Has DEF Read
  <2>2. plan' \in Plans
    BY <2>1, Has DEF Plans
  <2>3. CASE Publish(run.action, field) /\ UNCHANGED <<record, told>>
    <3>1. run.action \in Saying
      BY <2>1, Said
    <3>2. run.action \in Steps /\ run.action \notin Over
      BY <3>1 DEF Saying
    <3> QED BY <2>1, <2>2, <2>3, <3>2, Has, Done, NoRunHonest, Published DEF Written
  <2>4. CASE \E p \in {"association_pending", "unlink_pending"} :
               Publish(p, field) /\ Owes(field, p)
    <3>1. PICK p \in {"association_pending", "unlink_pending"} : Publish(p, field) /\ Owes(field, p)
      BY <2>4
    <3>2. p \in Prompts /\ p \in Steps /\ p \notin Over
      BY Said DEF Prompts, Saying
    <3>3. record' \in Records /\ UNCHANGED told
      BY <3>1, <3>2, Has DEF Owes, Records
    <3> QED BY <2>1, <2>2, <3>1, <3>2, <3>3, Has, Done, NoRunHonest, Published DEF Written
  <2> QED BY <1>2, <2>3, <2>4 DEF Read
<1> QED BY <1>1, <1>2

\* A change, from its confirmation to its verification.
LEMMA ChangeStep ==
  ASSUME IInv, Commit \/ Change
  PROVE  Written
<1>1. CASE Conclude(record) /\ UNCHANGED <<record, told>>
  BY <1>1, Has, NoRunHonest, Concluded DEF Written, Saying
<1>2. CASE Settled /\ Conclude(NoRecord)
  BY <1>2, Has, NoRunHonest, Concluded DEF Settled, Written, Saying
<1>3. ASSUME NEW p \in {"writing", "clearing", "associating", "unlinking"}, NEW q \in Prompts,
             NEW s \in {"change", "link"}, Show(p), Owes(plan.uid, q), Goes(s), UNCHANGED plan
      PROVE  Written
  <2>1. p \in Steps /\ p \notin Over
    BY Said DEF Saying
  <2>2. snapshot' \in Snapshot /\ snapshot'.phase = p /\ news' \in BOOLEAN
    BY <1>3, <2>1, Has, Published DEF Show
  <2>3. record' \in Records /\ UNCHANGED told
    BY <1>3, Has DEF Owes, Records
  <2> QED BY <1>3, <2>1, <2>2, <2>3, Has DEF Goes, Written
<1>4. CASE Commit
  BY <1>1, <1>3, <1>4 DEF Commit, Prompts
<1>5. CASE Change
  BY <1>1, <1>2, <1>3, <1>5 DEF Change, Prompts
<1> QED BY <1>4, <1>5

\* What is owed to Spoolman.
LEMMA LinkStep ==
  ASSUME IInv, Relink \/ Link
  PROVE  Written
<1>1. CASE Conclude(record) /\ UNCHANGED <<record, told>>
  BY <1>1, Has, NoRunHonest, Concluded DEF Written, Saying
<1>2. CASE Relink
  <2>1. CASE /\ \E p \in {"unlinking", "associating"} : Publish(p, record.uid)
             /\ Goes("link") /\ UNCHANGED <<plan, record, told>>
    <3>1. PICK p \in {"unlinking", "associating"} : Publish(p, record.uid)
      BY <2>1
    <3>2. p \in Steps /\ p \notin Over
      BY Said DEF Saying
    <3> QED BY <2>1, <3>1, <3>2, Has, Published DEF Goes, Written
  <2> QED BY <1>1, <1>2, <2>1 DEF Relink
<1>3. CASE Link
  <2>1. CASE /\ Show(IF snapshot.phase = "associating" THEN "complete" ELSE "cleared")
             /\ Settled /\ Succeeds /\ UNCHANGED plan
    <3>1. PICK p \in {"complete", "cleared"} : Publish(p, snapshot.uid)
      BY <2>1 DEF Show
    <3>2. p \in Steps
      BY Said
    <3> QED BY <2>1, <3>1, <3>2, Has, Done, NoRunHonest, Published DEF Settled, Written
  <2> QED BY <1>1, <1>3, <2>1 DEF Link
<1> QED BY <1>2, <1>3

LEMMA WriterStep ==
  ASSUME IInv, Write
  PROVE  IInv'
<1>1. Written
  BY BeginStep, RefusedStep, ReadStep, ChangeStep, LinkStep DEF Write
<1>2. QueueInv' /\ UNCHANGED outside
  <2>1. CASE Begin
    BY <2>1, BeginStep DEF Begin
  <2>2. CASE ~Begin
    <3>1. UNCHANGED <<queue, outside>>
      BY <2>2 DEF Write, Rejected, Discard, Refused, Answer, Edit, StartRead, Read, Commit,
        Change, Relink, Link
    <3> QED BY <3>1 DEF IInv, QueueInv
  <2> QED BY <2>1, <2>2
<1>3. CountInv' /\ RunInv' /\ WriterInv' /\ FlagInv'
  BY <1>1, <1>2 DEF IInv, CountInv, RunInv, WriterInv, FlagInv, Written
<1>4. PromptInv'
  <2>1. Good(flow, told) /\ UNCHANGED flow /\ (told' => snapshot'.phase \notin Over)
    BY <1>1, <1>2 DEF IInv, PromptInv, Written
  <2>2. Good(flow, FALSE)
    BY <2>1 DEF Good, Holds
  <2>3. told' = told \/ told' = FALSE
    BY <1>1 DEF Written
  <2> QED BY <2>1, <2>2, <2>3 DEF PromptInv
<1> QED BY <1>2, <1>3, <1>4 DEF IInv
-----------------------------------------------------------------------------
(* Theorems *)

LEMMA InitInv == Init => IInv
<1> SUFFICES ASSUME Init PROVE IInv
  OBVIOUS
<1>1. CountInv /\ QueueInv /\ RunInv /\ FlagInv
  <2>1. 0 \in 0..MaxBrowser /\ 0 - 0 <= MaxTouch
    BY Sizes
  <2>2. CountInv
    BY <2>1, Sizes DEF Init, CountInv
  <2>3. QueueInv
    <3>1. queue = <<>>
      BY DEF Init
    <3>2. queue \in Seq(Command) /\ Len(queue) = 0
      BY <3>1
    <3>3. DOMAIN queue = {}
      BY <3>2
    <3> QED BY <3>2, <3>3, FlowAssumption DEF QueueInv
  <2> QED BY <2>2, <2>3, NoRunHonest DEF Init, RunInv, FlagInv
<1>2. Blank \in Snapshot /\ NoPlan \in Plans /\ NoRecord \in Records
  BY Sizes, Names DEF Blank, Snapshot, NoPlan, Plans, Records
<1>3. record \in Records /\ snapshot \in Snapshot
  <2>1. CASE record = NoRecord /\ snapshot = Blank
    BY <1>2, <2>1
  <2>2. CASE ~(record = NoRecord /\ snapshot = Blank)
    <3>1. PICK t \in Tag, p \in {"write_recovery", "clear_recovery", "unlink_pending"} :
            /\ record = [uid |-> t, phase |-> p]
            /\ snapshot = [Blank EXCEPT !.phase = p, !.uid = t]
      BY <2>2 DEF Init
    <3>2. p \in Prompts /\ p \in Steps
      BY Names DEF Prompts
    <3> QED BY <1>2, <3>1, <3>2 DEF Records, Snapshot
  <2> QED BY <2>1, <2>2
<1>4. Fresh \in Flow /\ Fresh.back # "choose"
  BY Sizes, Names DEF Fresh, Flow, View
<1>5. PromptInv
  BY <1>4 DEF Init, PromptInv, Good, Holds
<1> QED BY <1>1, <1>2, <1>3, <1>5 DEF Init, IInv, WriterInv

LEMMA Invariant == Spec => []IInv
<1>1. IInv /\ [Next]_vars => IInv'
  <2> SUFFICES ASSUME IInv, [Next]_vars PROVE IInv'
    OBVIOUS
  <2>1. CASE Open \/ Poll
    <3>1. Refresh /\ open' \in BOOLEAN
      BY <2>1 DEF Open, Poll, IInv, FlagInv
    <3> QED BY <3>1, RefreshStep
  <2>2. CASE UNCHANGED vars
    BY <2>2 DEF IInv, CountInv, QueueInv, RunInv, WriterInv, FlagInv, PromptInv
  <2> QED BY <2>1, <2>2, PressStep, BrowseStep, PlaceStep, WriterStep DEF Next
<1> QED BY <1>1, InitInv, PTL DEF Spec

\* Type correctness (the state that tag_flow.hpp and tag_writer_service.cpp keep).
THEOREM FlowTyped == Spec => []TypeOK
  BY Invariant, Typed, PTL

\* Whenever the page is the tag's, it shows the prompt of the unfinished change
\* that the screen was told of, for as long as the writer owes its recovery: no
\* button, no other tag and no command of the browser loses it
\* (tag_flow.hpp:173-177, 265-295, 325-349, 545-558, 581-586).
THEOREM PromptReturns == Spec => []Prompted
<1>1. IInv => Prompted
  BY DEF IInv, PromptInv, Good, Prompted
<1> QED BY <1>1, Invariant, PTL

\* What the writer changes is what was confirmed: its kind and its preview are
\* those on the page where WRITE or ERASE was pressed, though the other client
\* may have asked for a preview since (tag_flow.hpp:491-498, 933-984,
\* tag_writer_service.cpp:1015-1026, 1475-1485).
THEOREM ChangedAsConfirmed == Spec => Confirmed
<1>1. IInv /\ [Next]_vars =>
        [stage # "change" /\ stage' = "change" => run.shown = <<plan.action, plan.id>>]_vars
  <2> SUFFICES ASSUME IInv, [Next]_vars, stage # "change", stage' = "change"
               PROVE  run.shown = <<plan.action, plan.id>>
    OBVIOUS
  <2>1. Commit /\ Matches
    BY DEF Next, Press, Open, Poll, Refresh, Browse, Place, Write, Begin, Rejected, Discard,
      Refused, Answer, Edit, StartRead, Read, Commit, Change, Relink, Link, Conclude, Fails,
      Succeeds, Goes
  <2>2. run.action \in {"write", "clear"} /\ run.plan = plan.id /\ run.action = plan.action
    BY <2>1 DEF Commit, Matches, Admitted
  <2> QED BY <2>2 DEF IInv, RunInv, Honest
<1> QED BY <1>1, Invariant, PTL DEF Spec, Confirmed
=============================================================================
