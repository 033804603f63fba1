---------------------------- MODULE LiveUpdates ----------------------------
(* The web pages' live updates: the network task publishes one message at  *)
(* a time from a buffer that the HTTP task still reads while it sends, the *)
(* HTTP task opens and closes the few WebSockets, and each page opens a    *)
(* new one when it has lost its own, whether or not the station knows.     *)
(*                                                                         *)
(* Two resources stand for five: "update" is pushed whole, as the scale    *)
(* is; of "nfc", as of the backends, a page is only told to fetch it.      *)
EXTENDS FiniteSets, Integers

CONSTANTS
  Page,
  Socket,      \* max_open_sockets, less those of plain requests
  MaxClients,  \* maximum_websocket_clients
  MaxChanges,  \* bound: changes of either resource
  MaxLosses,   \* bound: connections that break, and requests that fail
  NoSocket

Resource == {"update", "nfc"}
Nothing == [about |-> "heartbeat", rev |-> 0]

VARIABLES
  revision,  \* of each resource
  \* LocalWebServer, on the network task
  told,      \* the revision last published
  pub,       \* send_to_websocket_clients(): the clients it still has to queue
  \* shared with the HTTP task
  batch,     \* websocket_send_
  \* the HTTP task
  session,   \* the page that opened each WebSocket; "gone" when it left it
  closing,   \* httpd_sess_trigger_close() is queued
  \* the pages
  phase,     \* LiveConnection.status
  own,       \* LiveConnection.socket
  polling,   \* fallbackActive
  shown,     \* the revision that a page shows of each resource
  wants,     \* the loads in its scheduler
  losses

server == <<told, pub, batch, session, closing>>
pages == <<phase, own, polling, shown, wants>>
vars == <<revision, server, pages, losses>>

Live == {s \in Socket : session[s] # "free"}
Revisions == 0 .. MaxChanges
Message == [about : Resource \cup {"heartbeat"}, rev : Revisions]

TypeOK ==
  /\ revision \in [Resource -> Revisions] /\ told \in [Resource -> Revisions \cup {-1}]
  /\ pub \in [left : SUBSET Socket, queued : BOOLEAN, active : BOOLEAN]
  /\ batch \in [busy : BOOLEAN, remaining : 0 .. MaxClients,
                message : Message, queue : SUBSET Socket]
  /\ session \in [Socket -> Page \cup {"free", "gone"}]
  /\ closing \subseteq Socket
  /\ phase \in [Page -> {"away", "waiting", "connecting", "connected"}]
  /\ own \in [Page -> Socket \cup {NoSocket}]
  /\ polling \in [Page -> BOOLEAN]
  /\ shown \in [Page -> [Resource -> Revisions]]
  /\ wants \in [Page -> SUBSET Resource]
  /\ losses \in 0 .. MaxLosses

NoPublication == [left |-> {}, queued |-> FALSE, active |-> FALSE]

Init ==
  /\ revision = [r \in Resource |-> 0]
  /\ told = [update |-> -1, nfc |-> 0]
  /\ pub = NoPublication
  /\ batch = [busy |-> FALSE, remaining |-> 0, message |-> Nothing, queue |-> {}]
  /\ session = [s \in Socket |-> "free"] /\ closing = {}
  /\ phase = [p \in Page |-> "away"] /\ own = [p \in Page |-> NoSocket]
  /\ polling = [p \in Page |-> FALSE]
  /\ shown = [p \in Page |-> [r \in Resource |-> 0]]
  /\ wants = [p \in Page |-> {}]
  /\ losses = 0

Change(r) ==
  /\ revision["update"] + revision["nfc"] < MaxChanges
  /\ revision' = [revision EXCEPT ![r] = @ + 1]
  /\ UNCHANGED <<server, pages, losses>>

\* What breaks or is lost, within the bound.
Loss == losses < MaxLosses /\ losses' = losses + 1
-----------------------------------------------------------------------------
(* LiveConnection, in each page *)

\* _lost(): the page polls, and waits before it connects again.
Lost(p) ==
  /\ phase' = [phase EXCEPT ![p] = "waiting"]
  /\ own' = [own EXCEPT ![p] = NoSocket]
  /\ polling' = [polling EXCEPT ![p] = TRUE]

\* The station still has the WebSocket that a page has left.
Left(s) == IF s = NoSocket THEN session ELSE [session EXCEPT ![s] = IF @ = "free" THEN @ ELSE "gone"]

\* start() of the page: the first loads, and the connection beside them.
Open(p) ==
  /\ phase[p] = "away"
  /\ phase' = [phase EXCEPT ![p] = "waiting"]
  /\ wants' = [wants EXCEPT ![p] = Resource]
  /\ UNCHANGED <<revision, server, own, polling, shown, losses>>

\* suspend(), stop(), offline or a firmware transfer.
Leave(p) ==
  /\ phase[p] # "away"
  /\ Loss
  /\ phase' = [phase EXCEPT ![p] = "away"]
  /\ own' = [own EXCEPT ![p] = NoSocket]
  /\ polling' = [polling EXCEPT ![p] = FALSE]
  /\ session' = Left(own[p])
  /\ UNCHANGED <<revision, told, pub, batch, closing, shown, wants>>

\* resume() connects and loads nothing.
Resume(p) ==
  /\ phase[p] = "away"
  /\ phase' = [phase EXCEPT ![p] = "waiting"]
  /\ UNCHANGED <<revision, server, own, polling, shown, wants, losses>>

Connect(p) ==
  /\ phase[p] = "waiting"
  /\ phase' = [phase EXCEPT ![p] = "connecting"]
  /\ UNCHANGED <<revision, server, own, polling, shown, wants, losses>>

\* The connection breaks: the page is told, or misses the heartbeat.
Break(p) ==
  /\ phase[p] \in {"connecting", "connected"}
  /\ Loss
  /\ Lost(p)
  /\ session' = Left(own[p])
  /\ UNCHANGED <<revision, told, pub, batch, closing, shown, wants>>

\* load(): the answer to the newest request for a resource is the one shown.
Load(p, r) ==
  /\ r \in wants[p]
  /\ wants' = [wants EXCEPT ![p] = @ \ {r}]
  /\ shown' = [shown EXCEPT ![p][r] = revision[r]]
  /\ UNCHANGED <<revision, server, phase, own, polling, losses>>

LoadFails(p, r) ==
  /\ r \in wants[p]
  /\ Loss
  /\ wants' = [wants EXCEPT ![p] = @ \ {r}]
  /\ UNCHANGED <<revision, server, phase, own, polling, shown>>

\* fallbackStep() asks for the update among others, never for the tag.
Poll(p) ==
  /\ polling[p] /\ "update" \notin wants[p]
  /\ shown[p]["update"] # revision["update"]
  /\ wants' = [wants EXCEPT ![p] = @ \cup {"update"}]
  /\ UNCHANGED <<revision, server, phase, own, polling, shown, losses>>

\* handleLiveEvent()
Handle(p, m) ==
  /\ shown' = IF m.about = "update" THEN [shown EXCEPT ![p]["update"] = m.rev] ELSE shown
  /\ wants' = [wants EXCEPT ![p] = IF m.about = "nfc" THEN @ \cup {"nfc"}
                                   ELSE @ \ {m.about}]
-----------------------------------------------------------------------------
(* The HTTP task *)

\* handle_websocket(), GET: two clients at most, and a slot for each.
Handshake(p, s) ==
  /\ phase[p] = "connecting" /\ session[s] = "free"
  /\ Cardinality(Live) < MaxClients
  /\ session' = [session EXCEPT ![s] = p]
  /\ phase' = [phase EXCEPT ![p] = "connected"]
  /\ own' = [own EXCEPT ![p] = s]
  /\ polling' = [polling EXCEPT ![p] = FALSE]
  /\ UNCHANGED <<revision, told, pub, batch, closing, shown, wants, losses>>

TurnAway(p) ==
  /\ phase[p] = "connecting"
  /\ Cardinality(Live) >= MaxClients
  /\ Lost(p)
  /\ UNCHANGED <<revision, server, shown, wants, losses>>

\* session_close_handler(): the station learns that a page left, ...
LearnLeft(s) ==
  /\ session[s] = "gone"
  /\ session' = [session EXCEPT ![s] = "free"]
  /\ closing' = closing \ {s}
  /\ UNCHANGED <<revision, told, pub, batch, pages, losses>>

\* ... or closes a connection itself, when a send has failed.
Close(s) ==
  /\ s \in closing
  /\ session' = [session EXCEPT ![s] = "free"]
  /\ closing' = closing \ {s}
  /\ IF session[s] \in Page THEN Lost(session[s]) ELSE UNCHANGED <<phase, own, polling>>
  /\ UNCHANGED <<revision, told, pub, batch, shown, wants, losses>>
-----------------------------------------------------------------------------
(* Publishing *)

\* websocket_send_complete(): the last one frees the buffer.
Completed(b) ==
  [b EXCEPT !.remaining = @ - 1, !.busy = b.remaining # 1]

\* Mutant (Delivered): a send that fails does not count, so the buffer stays.
CompletedOkOnly(b) == b
FailedSend(b) == Completed(b)

\* Mutant (Reaches): the socket of a failed send is not closed.
ClosingNever(s) == closing
Closing(s) == IF session[s] = "free" THEN closing ELSE closing \cup {s}

\* publish(): what changed comes before the heartbeat.
Due == IF told["update"] # revision["update"] THEN {"update"}
       ELSE IF told["nfc"] # revision["nfc"] THEN {"nfc"} ELSE {"heartbeat"}
About(d) == IF d = "heartbeat" THEN Nothing ELSE [about |-> d, rev |-> revision[d]]

Free == ~batch.busy

Publish ==
  /\ Live # {} /\ ~pub.active
  /\ Free
  /\ \E d \in Due :
       batch' = [busy |-> TRUE, remaining |-> Cardinality(Live),
                 message |-> About(d), queue |-> batch.queue]
  /\ pub' = [left |-> Live, queued |-> FALSE, active |-> TRUE]
  /\ UNCHANGED <<revision, told, session, closing, pages, losses>>

\* httpd_ws_send_data_async() queues the send, or refuses it at once.
Enqueue(s) ==
  /\ s \in pub.left
  /\ pub' = [pub EXCEPT !.left = @ \ {s}, !.queued = TRUE]
  /\ batch' = [batch EXCEPT !.queue = @ \cup {s}]
  /\ UNCHANGED <<revision, told, session, closing, pages, losses>>

EnqueueFails(s) ==
  /\ s \in pub.left
  /\ Loss
  /\ pub' = [pub EXCEPT !.left = @ \ {s}]
  /\ batch' = FailedSend(batch)
  /\ closing' = Closing(s)
  /\ UNCHANGED <<revision, told, session, pages>>

\* One queued send is enough for the message to count as published.
Published ==
  /\ pub.active /\ pub.left = {}
  /\ pub' = NoPublication
  /\ told' = IF pub.queued /\ batch.message.about \in Resource
             THEN [told EXCEPT ![batch.message.about] = batch.message.rev] ELSE told
  /\ UNCHANGED <<revision, batch, session, closing, pages, losses>>

\* The HTTP task sends from the buffer, and the page receives it.
Send(s) ==
  /\ s \in batch.queue /\ session[s] \in Page
  /\ batch' = [Completed(batch) EXCEPT !.queue = @ \ {s}]
  /\ Handle(session[s], batch.message)
  /\ UNCHANGED <<revision, told, pub, session, closing, phase, own, polling, losses>>

\* A page that left may still seem to receive, for a while.
SendIntoVoid(s) ==
  /\ s \in batch.queue /\ session[s] = "gone"
  /\ batch' = [Completed(batch) EXCEPT !.queue = @ \ {s}]
  /\ UNCHANGED <<revision, told, pub, session, closing, pages, losses>>

SendFails(s) ==
  /\ s \in batch.queue
  /\ \/ session[s] \in {"gone", "free"} /\ UNCHANGED losses
     \/ session[s] \in Page /\ Loss
  /\ batch' = [FailedSend(batch) EXCEPT !.queue = @ \ {s}]
  /\ closing' = Closing(s)
  /\ UNCHANGED <<revision, told, pub, session, pages>>
-----------------------------------------------------------------------------
Sent(s) == Send(s) \/ SendIntoVoid(s) \/ SendFails(s)
Queued(s) == Enqueue(s) \/ EnqueueFails(s)
Answered(p) == TurnAway(p) \/ \E s \in Socket : Handshake(p, s)

Next ==
  \/ \E r \in Resource : Change(r)
  \/ Publish \/ Published
  \/ \E s \in Socket : Queued(s) \/ Sent(s) \/ LearnLeft(s) \/ Close(s)
  \/ \E p \in Page : Open(p) \/ Leave(p) \/ Resume(p) \/ Connect(p) \/ Break(p)
                       \/ Poll(p) \/ Answered(p)
  \/ \E p \in Page, r \in Resource : Load(p, r) \/ LoadFails(p, r)

Spec == Init /\ [][Next]_vars

\* Both tasks run, the browser's timers expire, a request is answered or
\* fails, and TCP gives up in the end on a peer that has gone.
Fairness ==
  /\ WF_vars(Publish) /\ WF_vars(Published)
  /\ \A s \in Socket : /\ WF_vars(Queued(s)) /\ WF_vars(Sent(s)) /\ WF_vars(Close(s))
                       /\ SF_vars(SendFails(s) /\ session[s] = "gone")
  /\ \A p \in Page : /\ WF_vars(Connect(p)) /\ WF_vars(Answered(p)) /\ WF_vars(Poll(p))
                     /\ \A r \in Resource : WF_vars(Load(p, r) \/ LoadFails(p, r))

FairSpec == Spec /\ Fairness
-----------------------------------------------------------------------------
\* While a send of a message is outstanding the network task leaves the
\* buffer alone, and the count that frees it is that of the sends: the last
\* completion, on whichever task, frees it and no earlier one
\* (local_web_server.cpp:1095-1119, 1151-1187).
Outstanding == Cardinality(batch.queue) + Cardinality(pub.left)
Counted == batch.remaining = Outstanding /\ (batch.busy <=> Outstanding > 0)
Intact == [][Counted' /\ (Outstanding > 0 => batch'.message = batch.message)]_vars

\* A message is whole in its buffer until its last send is through, and the buffer is
\* free again then (local_web_server.cpp:1095-1187).
Delivered == []TypeOK /\ Intact

\* A page that wants live updates gets its WebSocket again and again,
\* although the sessions that it and others left behind fill the station's
\* two places (local_web_server.cpp:1034-1048, 1107-1112;
\* web_assets.cpp:2685-2742).
Reaches == \A p \in Page : []<>(phase[p] \in {"away", "connected"})
=============================================================================
