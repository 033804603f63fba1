------------------------------ MODULE TagFlow ------------------------------
(***************************************************************************)
(* The Manage tag page of the touch screen (TagFlow and the part of        *)
(* UiService that drives it) in front of the tag writer.  The screen and   *)
(* the browser send their commands to one queue; the backend task runs     *)
(* them one after the other and publishes a snapshot at every step, each   *)
(* in the place of the one before; the screen looks at the last one once a *)
(* second, while its page is open, and may never see the others.           *)
(*                                                                         *)
(* The page is the value of one variable and every method of TagFlow a     *)
(* function on it, composed as refresh_tags() and tag_action() call them.  *)
(* The writer is TagWriter's, reduced to what it publishes and to the      *)
(* recovery it owes.  Spools, weights and texts are left out, and so are   *)
(* the places in a list.                                                   *)
(***************************************************************************)
EXTENDS Integers, Sequences

CONSTANTS
  Tag,        \* the tags, by UID
  Asks,       \* what the browser asks for
  MaxQueue,   \* bound on the commands waiting
  MaxTouch,   \* bounds on the commands of a behaviour: the screen's ...
  MaxBrowser  \* ... and the browser's

NoTag == "no tag"

MaxOps == MaxTouch + MaxBrowser

Prompts == {"write_recovery", "clear_recovery", "association_pending", "unlink_pending"}
Linking == {"associating", "unlinking"}
Reviews == {"preview", "clear_preview"}

\* physical_phase(): a change of the tag, from "validating" to "decoding".
Physical == {"writing", "clearing"}

Steps == {"idle", "queued", "reading", "catalog", "spool_selected", "editing",
          "updated", "complete", "cleared", "recovery_discarded", "failed"}
         \cup Prompts \cup Linking \cup Reviews \cup Physical

Pages == {"tag", "sources", "catalog", "selected", "create", "created", "review",
          "progress", "ready", "reuse", "error", "skip_review", "choose"}

Actions == {"preview", "clear_preview", "write", "clear", "retry_association",
            "retry_unlink", "discard_recovery", "catalog", "create_spool", "edit"}

ASSUME FlowAssumption ==
  /\ NoTag \notin Tag /\ Asks \subseteq Actions
  /\ MaxQueue \in Nat \ {0} /\ MaxTouch \in Nat /\ MaxBrowser \in Nat

\* A command; `plan` is the preview it confirms, `shown` what its sender saw.
Command == [op : 1..MaxOps, action : Actions, uid : Tag \cup {NoTag}, plan : 0..MaxOps,
            shown : {<<"nothing", 0>>} \cup ({"write", "clear"} \X (0..MaxOps))]
Snapshot == [op : 0..MaxOps, phase : Steps, uid : Tag \cup {NoTag}]

NoRun == [op |-> 0, action |-> "none", uid |-> NoTag, plan |-> 0, shown |-> <<"nothing", 0>>]
NoPlan == [id |-> 0, action |-> "none", uid |-> NoTag, again |-> FALSE]
NoRecord == [uid |-> NoTag, phase |-> ""]

VARIABLES
  field,      \* the tag on the reader
  ops,        \* the operations begun
  browsed,    \* those of the browser
  queue,      \* the commands waiting
  run,        \* the command under way
  stage,      \* how far it has come
  plan,       \* plan_: the preview a confirmation must match
  record,     \* the recovery the writer owes
  snapshot,   \* writer_view_
  failed,     \* the operation the page follows is recorded as failed
  open,       \* the page is the one on the display
  flow,       \* TagFlow
  news,       \* the snapshot's checksum is not writer_view_checksum_
  told        \* history: the screen was shown the recovery now owed

writer == <<run, stage, plan, record, snapshot>>
screen == <<open, flow>>
vars == <<field, ops, browsed, queue, writer, screen, failed, news, told>>

View == [uid : Tag \cup {NoTag}, plan : 0..MaxOps]
Flow == [page : Pages, back : Pages, phase : Steps \cup {""}, view : View,
         recovery : Prompts \cup {""}, op : 0..MaxOps, waiting : BOOLEAN,
         stalled : BOOLEAN, spools : BOOLEAN,
         uid : Tag \cup {NoTag}, last : Tag \cup {NoTag}]

TypeOK ==
  /\ field \in Tag \cup {NoTag}
  /\ ops \in 0..MaxOps /\ browsed \in 0..MaxBrowser
  /\ queue \in Seq(Command) /\ Len(queue) <= MaxQueue
  /\ run \in Command \cup {NoRun}
  /\ stage \in {"none", "begin", "read", "change", "link", "edit"}
  /\ plan \in [id : 0..MaxOps, action : {"none", "write", "clear"}, uid : Tag \cup {NoTag},
               again : BOOLEAN]
  /\ record \in [uid : Tag \cup {NoTag}, phase : Prompts \cup {""}]
  /\ snapshot \in Snapshot /\ news \in BOOLEAN
  /\ failed \in BOOLEAN /\ open \in BOOLEAN /\ told \in BOOLEAN
  /\ flow \in Flow

Blank == [op |-> 0, phase |-> "idle", uid |-> NoTag]
Fresh == [page |-> "tag", back |-> "tag", phase |-> "", view |-> [uid |-> NoTag, plan |-> 0], recovery |-> "",
          op |-> 0, waiting |-> FALSE, stalled |-> FALSE, spools |-> TRUE,
          uid |-> NoTag, last |-> NoTag]

\* A station that starts may owe a recovery: restore_cleanup() publishes it.
Init ==
  /\ field \in Tag \cup {NoTag}
  /\ ops = 0 /\ browsed = 0 /\ queue = <<>> /\ run = NoRun /\ stage = "none" /\ plan = NoPlan /\ failed = FALSE
  /\ \/ record = NoRecord /\ snapshot = Blank
     \/ \E t \in Tag, p \in {"write_recovery", "clear_recovery", "unlink_pending"} :
          /\ record = [uid |-> t, phase |-> p]
          /\ snapshot = [Blank EXCEPT !.phase = p, !.uid = t]
  /\ open = FALSE /\ flow = Fresh /\ news = TRUE /\ told = FALSE
-----------------------------------------------------------------------------
(* The page: TagFlow's methods *)

Forget(f) == [f EXCEPT !.recovery = ""]

\* resume_recovery()
Resumed(f) == IF f.recovery = "" THEN f ELSE [f EXCEPT !.phase = f.recovery]

Fail(f) == [f EXCEPT !.waiting = FALSE, !.page = "error"]

Waits(f, id) == [f EXCEPT !.waiting = TRUE, !.op = id, !.page = "progress",
                          !.phase = "queued", !.stalled = FALSE]

\* Mutant (Prompted): DONE leaves the phase as it cleared it.
LeftBare(f) == [f EXCEPT !.page = "tag", !.phase = "", !.stalled = FALSE,
                         !.waiting = FALSE, !.op = IF f.waiting THEN 0 ELSE @]

\* leave_page(), after abandon_wait() when the page waits.
Left(f) == Resumed([f EXCEPT !.page = "tag", !.phase = "", !.stalled = FALSE,
                             !.waiting = FALSE, !.op = IF f.waiting THEN 0 ELSE @])

\* observe_tag()
Observed(f, t) ==
  LET restart == /\ ~f.waiting
                 /\ f.phase \notin Physical \cup Linking \cup Prompts
                 /\ t # NoTag /\ f.last # NoTag /\ t # f.last
      g == IF restart THEN Resumed([f EXCEPT !.page = "tag", !.phase = ""]) ELSE f
  IN [g EXCEPT !.uid = t, !.last = IF t # NoTag THEN t ELSE @]

Stranger(f, s) == f.op # 0 /\ s.op # f.op

\* Where a snapshot leads, and whether it ends the page's own request.
PageOf(p, page) ==
  CASE p = "catalog" -> "catalog"
    [] p \in Reviews -> "review"
    [] p = "spool_selected" -> "created"
    [] p = "complete" -> "ready"
    [] p = "cleared" -> "reuse"
    [] p \in Prompts -> "tag"
    [] p \in {"failed", "recovery_discarded"} -> "error"
    [] p = "idle" -> page
    [] OTHER -> "progress"

\* The answer about a tag that is not on the reader is not shown.
Elsewhere(f, s) == /\ f.op = 0
                   /\ s.uid # NoTag /\ s.uid # f.uid
                   /\ s.phase \in {"complete", "cleared"} \cup Reviews

\* Whether consume() answers true: the snapshot needs no second look.
Taken(f, s) == ~Stranger(f, s) /\ ~Elsewhere(f, s)

\* consume(): the forgetting comes before the look at the tag.
Consumed(f, s) ==
  LET g == IF s.phase \in {"complete", "cleared", "recovery_discarded"} THEN Forget(f) ELSE f
      page == PageOf(s.phase, f.page)
  IN CASE Stranger(f, s) -> f
       [] ~Stranger(f, s) /\ (Elsewhere(f, s) \/ s.phase \in {"editing", "updated"}) -> g
       [] OTHER -> [g EXCEPT !.view = [uid |-> s.uid, plan |-> IF s.phase \in Reviews THEN s.op ELSE 0], !.phase = s.phase, !.page = page,
                             !.recovery = IF s.phase \in Prompts THEN s.phase ELSE @,
                             !.waiting = @ /\ page = "progress",
                             !.op = IF page = "progress" THEN @ ELSE 0]

\* update_stall(): 45 s in one phase, which nothing else here measures.
Timed(f, late) == [f EXCEPT !.stalled = late /\ f.waiting /\ f.phase \notin Physical]

\* screen(): the buttons of the tag's page, whatever is known of the tag ...
OnTag(f) == IF f.phase \in Prompts THEN {"retry", "skip", "home"}
            ELSE {"sources", "update", "clear", "choose", "home"}

\* ... those of the page that shows a command under way ...
OnProgress(f) == IF /\ f.phase \notin Physical
                    /\ f.stalled \/ (~f.waiting /\ f.phase \notin Linking)
                 THEN {"home"} ELSE {}

\* ... and those of the others; a list's SEARCH, PREV and NEXT all ask for a page.
Buttons(f) ==
  CASE f.page = "tag" -> OnTag(f)
    [] f.page = "progress" -> OnProgress(f)
    [] f.page = "sources" -> {"spools", "filaments", "back"}
    [] f.page = "catalog" -> {"search", "row", "back"}
    [] f.page = "choose" -> {"row", "back"}
    [] f.page \in {"selected", "created"} -> {"use", "back"}
    [] f.page = "create" -> {"create", "back"}
    [] f.page \in {"review", "skip_review"} -> {"write", "back"}
    [] f.page = "reuse" -> {"spools", "filaments", "home"}
    [] f.page = "ready" -> {"home"}
    [] f.page = "error" -> {"back"}

Ask(action) == [NoRun EXCEPT !.action = action]

\* The confirmation of a review carries what the view holds; the title and
\* the body show the phase and the view.
Confirm(f) == LET a == IF f.phase = "clear_preview" THEN "clear" ELSE "write"
              IN [Ask(a) EXCEPT !.uid = f.view.uid, !.plan = f.view.plan,
                                !.shown = <<a, f.view.plan>>]

\* The tag a recovery is skipped for: the view's, else the reader's, else the last.
Skip(f) == [Ask("discard_recovery") EXCEPT
              !.uid = CASE f.view.uid # NoTag -> f.view.uid
                        [] f.view.uid = NoTag /\ f.uid # NoTag -> f.uid
                        [] OTHER -> f.last]

Retried(f) ==
  CASE f.phase = "write_recovery" -> "preview"
    [] f.phase = "association_pending" -> "retry_association"
    [] f.phase = "clear_recovery" -> "clear_preview"
    [] OTHER -> "retry_unlink"

Return(f) ==
  LET to == CASE f.page \in {"selected", "create"} -> "catalog"
              [] f.page = "catalog" -> "sources"
              [] f.page \in {"review", "skip_review"} -> f.back
              [] OTHER -> "tag"
  IN IF to = "tag" THEN Resumed([f EXCEPT !.page = to]) ELSE [f EXCEPT !.page = to]

\* act(): the buttons that only turn a page ...
Turned(f, b) ==
  CASE b = "sources" -> [f EXCEPT !.page = "sources"]
    [] b = "choose" -> [f EXCEPT !.page = "choose"]
    [] b = "skip" -> [f EXCEPT !.page = "skip_review", !.back = "tag"]
    [] b = "back" -> Return(f)
    [] b = "row" -> [f EXCEPT !.page = IF @ = "choose" THEN "tag" ELSE "selected"]
    [] b = "use" -> [f EXCEPT !.page = "create"]

Turns(f, b) ==
  \/ b \in {"sources", "choose", "skip", "back"}
  \/ b = "row" /\ (f.page = "choose" \/ ~f.spools)
  \/ b = "use" /\ f.page = "selected"

\* ... and those that send a command: the page it leaves and what it asks.
Asked(f, b) ==
  CASE b \in {"spools", "filaments"} ->
         <<[f EXCEPT !.page = "catalog", !.spools = b = "spools"], Ask("catalog")>>
    [] b = "search" -> <<f, Ask("catalog")>>
    [] b \in {"row", "use"} ->
         <<[f EXCEPT !.back = f.page], Ask("preview")>>
    [] b = "update" -> <<[f EXCEPT !.back = "tag"], Ask("preview")>>
    [] b = "clear" -> <<[f EXCEPT !.back = "tag"], Ask("clear_preview")>>
    [] b = "retry" -> <<[f EXCEPT !.back = IF f.phase = "write_recovery" THEN "tag" ELSE @],
                        Ask(Retried(f))>>
    [] b = "create" -> <<f, Ask("create_spool")>>
    [] b = "write" -> <<f, IF f.page = "skip_review" THEN Skip(f) ELSE Confirm(f)>>
-----------------------------------------------------------------------------
(* The screen's task *)

\* tag_command(): the queue takes the command, or the page says it is busy.
Submit(f, c) ==
  \/ /\ ops - browsed < MaxTouch /\ Len(queue) < MaxQueue
     /\ ops' = ops + 1
     /\ queue' = Append(queue, [c EXCEPT !.op = ops + 1])
     /\ flow' = Waits(f, ops + 1)
  \/ flow' = Fail(f) /\ UNCHANGED <<ops, queue>>

Press(b) ==
  /\ open
  /\ b \in Buttons(flow)
  /\ \/ /\ b = "home"
        /\ open' = FALSE
        /\ flow' = Left(flow)
        /\ UNCHANGED <<ops, queue>>
     \/ /\ b # "home" /\ Turns(flow, b)
        /\ flow' = Turned(flow, b)
        /\ UNCHANGED <<open, ops, queue>>
     \/ /\ b # "home" /\ ~Turns(flow, b)
        /\ Submit(Asked(flow, b)[1], Asked(flow, b)[2])
        /\ UNCHANGED open
  /\ failed' = (failed /\ flow'.op = flow.op)
  /\ UNCHANGED <<field, browsed, writer, news, told>>

\* take_auto_preview(): a spool this screen created goes straight to its review.
Due(f, s) == s.phase = "spool_selected" /\ f.op # 0 /\ Taken(f, s)

\* refresh_tags()
Refresh ==
  \E late \in BOOLEAN :
    LET observed == Observed(flow, field)
        shown == IF news THEN Consumed(observed, snapshot) ELSE observed
        due == news /\ Due(observed, snapshot)
        ended == shown.op # 0 /\ failed
    IN /\ news' = (news /\ ~Taken(observed, snapshot))
       /\ told' = (told \/ (/\ news /\ Taken(observed, snapshot)
                            /\ snapshot.phase \in Prompts /\ record # NoRecord))
       /\ \/ /\ due
             /\ Submit([shown EXCEPT !.back = "created"], Ask("preview"))
          \/ /\ ~due
             /\ flow' = Timed(IF ended THEN Fail([shown EXCEPT !.op = 0]) ELSE shown, late)
             /\ UNCHANGED <<ops, queue>>
       /\ failed' = (failed /\ flow'.op = flow.op)
       /\ UNCHANGED <<field, browsed, writer>>

\* A page that is opened is refreshed before it is drawn.
Open == ~open /\ open' = TRUE /\ Refresh
Poll == open /\ UNCHANGED open /\ Refresh
-----------------------------------------------------------------------------
(* The browser and the reader *)

\* The browser asks for anything; it confirms the preview it was last shown.
Browse(a) ==
  /\ browsed < MaxBrowser /\ Len(queue) < MaxQueue
  /\ a \in {"write", "clear"} => snapshot.phase \in Reviews
  /\ ops' = ops + 1 /\ browsed' = browsed + 1
  /\ LET c == IF a \in {"write", "clear"}
              THEN [Ask(a) EXCEPT !.uid = snapshot.uid, !.plan = snapshot.op,
                                  !.shown = <<a, snapshot.op>>]
              ELSE [Ask(a) EXCEPT !.uid = IF a = "discard_recovery" THEN snapshot.uid ELSE NoTag]
     IN queue' = Append(queue, [c EXCEPT !.op = ops + 1])
  /\ UNCHANGED <<field, writer, screen, failed, news, told>>

Place(t) ==
  /\ field # t
  /\ field' = t
  /\ UNCHANGED <<ops, browsed, queue, writer, screen, failed, news, told>>
-----------------------------------------------------------------------------
(* The backend task: one command, a step at a time *)

outside == <<field, ops, browsed, screen>>

Publish(p, u) == snapshot' = [op |-> run.op, phase |-> p, uid |-> u] /\ news' = TRUE
Silent == UNCHANGED <<snapshot, news>>
Show(p) == Publish(p, snapshot.uid)
Goes(s) == stage' = s /\ UNCHANGED <<run, failed>>
Succeeds == run' = NoRun /\ stage' = "none" /\ UNCHANGED failed
Fails == run' = NoRun /\ stage' = "none" /\ failed' = (failed \/ run.op = flow.op)

\* The recovery owed changes; what the screen knew of an ended one is over.
Owes(u, p) == record' = [uid |-> u, phase |-> p] /\ UNCHANGED told
Settled == record' = NoRecord /\ told' = FALSE

\* The end of process() for a command that failed.
Conclude(rec) ==
  /\ Fails
  /\ IF rec.phase \in {"unlink_pending", "association_pending"}
     THEN Publish(rec.phase, rec.uid) /\ UNCHANGED plan
     ELSE IF rec # NoRecord /\ run.action \in Reviews \cup {"write", "clear"}
     THEN Publish(rec.phase, rec.uid) /\ plan' = NoPlan
     ELSE Show("failed") /\ UNCHANGED plan

Begin ==
  /\ run = NoRun /\ queue # <<>>
  /\ run' = Head(queue) /\ stage' = "begin"
  /\ queue' = Tail(queue)
  /\ UNCHANGED <<outside, plan, record, snapshot, news, failed, told>>

\* Before process(): too long in the queue, or no reader; nothing is published.
Rejected ==
  /\ stage = "begin" /\ run.action \in Reviews \cup {"write", "clear"}
  /\ Fails /\ Silent
  /\ UNCHANGED <<outside, queue, plan, record, told>>

\* discard_recovery(): for the tag of the plan, else of the record, else of the view.
Discard ==
  LET expected == CASE plan # NoPlan -> plan.uid
                    [] plan = NoPlan /\ record # NoRecord -> record.uid
                    [] OTHER -> snapshot.uid
  IN /\ stage = "begin" /\ run.action = "discard_recovery"
     /\ \/ /\ expected \in {NoTag, run.uid}
           /\ Settled
           /\ plan' = NoPlan
           /\ Publish("recovery_discarded", NoTag)
           /\ Succeeds
        \/ Fails /\ Silent /\ UNCHANGED <<plan, record, told>>
     /\ UNCHANGED <<outside, queue>>

Gate ==
  CASE record.phase = "clear_recovery" -> run.action \notin {"clear_preview", "clear", "retry_unlink"}
    [] record.phase = "unlink_pending" -> run.action # "retry_unlink"
    [] record.phase = "association_pending" -> run.action # "retry_association"
    [] OTHER -> FALSE

Refused ==
  /\ stage = "begin" /\ run.action # "discard_recovery" /\ Gate
  /\ IF record.phase = "clear_recovery" THEN Fails /\ Silent
     ELSE /\ Publish(record.phase, record.uid)
          /\ IF record.phase = "unlink_pending" /\ run.action = "clear_preview"
             THEN Succeeds ELSE Fails
  /\ UNCHANGED <<outside, queue, plan, record, told>>

Admitted(a) == stage = "begin" /\ run.action \in a /\ ~Gate

\* catalog and create_spool
Answer ==
  /\ Admitted({"catalog", "create_spool"})
  /\ \/ /\ Publish(IF run.action = "catalog" THEN "catalog" ELSE "spool_selected", NoTag)
        /\ Succeeds
        /\ UNCHANGED plan
     \/ Conclude(NoRecord)
  /\ UNCHANGED <<outside, queue, record, told>>

\* update_spool and update_filament drop the plan.
Edit ==
  /\ \/ Admitted({"edit"}) /\ Publish("editing", NoTag) /\ Goes("edit")
     \/ /\ stage = "edit"
        /\ \/ Publish("updated", NoTag) /\ Succeeds
           \/ Publish("failed", NoTag) /\ Fails
  /\ plan' = NoPlan
  /\ UNCHANGED <<outside, queue, record, told>>

StartRead ==
  /\ Admitted(Reviews)
  /\ Publish("reading", NoTag)
  /\ Goes("read")
  /\ UNCHANGED <<outside, queue, plan, record, told>>

\* prepare() and prepare_clear(): a review of the tag on the reader, or the
\* discovery that the interrupted change of this tag is complete.
Read ==
  /\ stage = "read"
  /\ \/ /\ field # NoTag
        /\ run.action = "clear_preview" => record.uid \in {NoTag, field}
        /\ plan' = [id |-> run.op, uid |-> field, again |-> record.uid = field,
                    action |-> IF run.action = "preview" THEN "write" ELSE "clear"]
        /\ \/ /\ Publish(run.action, field)
              /\ UNCHANGED <<record, told>>
           \/ \E p \in {<<"write_recovery", "preview", "association_pending">>,
                        <<"clear_recovery", "clear_preview", "unlink_pending">>} :
                /\ record = [uid |-> field, phase |-> p[1]] /\ run.action = p[2]
                /\ Publish(p[3], field)
                /\ Owes(field, p[3])
        /\ Succeeds
     \/ Conclude(record) /\ UNCHANGED <<record, told>>
  /\ UNCHANGED <<outside, queue>>

\* Mutant (Confirmed): any confirmation of this kind will do.
MatchesKind == plan.action = run.action /\ snapshot.phase \in Reviews

\* The confirmation names the preview on view, generation and checksums.
Matches == /\ plan.action = run.action /\ plan.id = run.plan /\ plan.uid = run.uid
           /\ snapshot.phase \in Reviews

\* commit_write() and commit_clear(), to the first block.
Commit ==
  /\ Admitted({"write", "clear"})
  /\ \/ /\ Matches /\ record.uid \in {NoTag, plan.uid}
        /\ Show(IF run.action = "write" THEN "writing" ELSE "clearing")
        /\ Owes(plan.uid, IF run.action = "write" THEN "write_recovery" ELSE "clear_recovery")
        /\ Goes("change")
        /\ UNCHANGED plan
     \/ Conclude(record) /\ UNCHANGED <<record, told>>
  /\ UNCHANGED <<outside, queue>>

\* The physical change ends verified, interrupted, or refused before a block.
Change ==
  /\ stage = "change"
  /\ \/ /\ Show(IF run.action = "write" THEN "associating" ELSE "unlinking")
        /\ Owes(plan.uid, IF run.action = "write" THEN "association_pending" ELSE "unlink_pending")
        /\ Goes("link")
        /\ UNCHANGED plan
     \/ Conclude(record) /\ UNCHANGED <<record, told>>
     \/ ~plan.again /\ Settled /\ Conclude(NoRecord)
  /\ UNCHANGED <<outside, queue>>

Relink ==
  /\ Admitted({"retry_association", "retry_unlink"})
  /\ LET pending == IF run.action = "retry_unlink" THEN "unlink_pending" ELSE "association_pending"
     IN \/ /\ record.phase = pending
           /\ Publish(IF run.action = "retry_unlink" THEN "unlinking" ELSE "associating",
                      record.uid)
           /\ Goes("link")
           /\ UNCHANGED plan
        \/ record.phase # pending /\ Conclude(record)
  /\ UNCHANGED <<outside, queue, record, told>>

\* The end of associate() and unlink().
Link ==
  /\ stage = "link"
  /\ \/ /\ Show(IF snapshot.phase = "associating" THEN "complete" ELSE "cleared")
        /\ Settled
        /\ Succeeds
        /\ UNCHANGED plan
     \/ Conclude(record) /\ UNCHANGED <<record, told>>
  /\ UNCHANGED <<outside, queue>>

Write == \/ Begin \/ Rejected \/ Discard \/ Refused \/ Answer \/ Edit \/ StartRead
         \/ Read \/ Commit \/ Change \/ Relink \/ Link

Next ==
  \/ \E b \in Buttons(flow) : Press(b)
  \/ Open
  \/ Poll
  \/ \E a \in Asks : Browse(a)
  \/ \E t \in Tag \cup {NoTag} : Place(t)
  \/ Write

Spec == Init /\ [][Next]_vars

\* Both tasks go on: every request of the writer has a deadline, and the page
\* is refreshed every second.
FairSpec == Spec /\ WF_vars(Write) /\ WF_vars(Poll)
-----------------------------------------------------------------------------
(* What must hold *)

\* The prompt of an unfinished change returns whenever the page is the tag's,
\* for as long as the writer owes the recovery the screen was shown: after
\* DONE, a failed retry, BACK from a review, another tag on the reader, and
\* whatever the browser does meanwhile (tag_flow.hpp:173-177, 265-295,
\* 325-349, 545-558, 581-586).
Prompted == told /\ flow.page = "tag" => flow.phase \in Prompts

\* The change the writer makes to a tag is the one on the page where WRITE or
\* ERASE was pressed: its kind and its preview, though the other client may
\* have asked for a preview since (tag_flow.hpp:491-498, 933-984,
\* tag_writer_service.cpp:1015-1026, 1475-1485).
Confirmed ==
  [][stage # "change" /\ stage' = "change" => run.shown = <<plan.action, plan.id>>]_vars
=============================================================================
