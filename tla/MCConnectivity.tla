--------------------------- MODULE MCConnectivity ---------------------------
(* A behaviour is one of the station's network or one of the live updates of
   its web pages; the other component stays as it began. *)
EXTENDS MCNetwork

CONSTANTS page, k1, k2, NoSocket

VARIABLES part,
  revision, told, pub, batch, session, closing, phase, own, polling, shown, wants, losses

live == <<revision, told, pub, batch, session, closing, phase, own, polling, shown, wants,
          losses>>

\* One page, two places, and connections that break twice.
Live ==
  INSTANCE LiveUpdates
    WITH Page <- {page}, Socket <- {k1, k2}, MaxClients <- 2, MaxChanges <- 1, MaxLosses <- 2

ConnectivityInit ==
  /\ part \in {"network", "live"}
  /\ Init
  /\ Live!Init
  /\ part = "live" => saved.settings = None /\ air = {}

ConnectivityNext ==
  \/ part = "network" /\ Next /\ UNCHANGED <<part, live>>
  \/ part = "live" /\ Live!Next /\ UNCHANGED <<part, vars>>

ConnectivitySpec ==
  /\ ConnectivityInit
  /\ [][ConnectivityNext]_<<part, vars, live>>
  /\ WF_vars(part = "network" /\ (Publish \/ Poll))
  /\ WF_vars(part = "network" /\ (Work \/ ReceiptExpires \/ Abandon))
  /\ WF_vars(part = "network" /\ ScanDone)
  /\ WF_vars(part = "network" /\ Elapse("link"))
  /\ WF_vars(part = "network" /\ Elapse("scan"))
  /\ WF_live(part = "live" /\ Live!Publish)
  /\ WF_live(part = "live" /\ Live!Published)
  /\ \A s \in {k1, k2} :
       /\ WF_live(part = "live" /\ Live!Queued(s))
       /\ WF_live(part = "live" /\ Live!Sent(s))
       /\ WF_live(part = "live" /\ Live!Close(s))
       /\ SF_live(part = "live" /\ Live!SendFails(s) /\ session[s] = "gone")
  /\ WF_live(part = "live" /\ Live!Connect(page))
  /\ WF_live(part = "live" /\ Live!Answered(page))
  /\ WF_live(part = "live" /\ Live!Poll(page))
  /\ \A r \in Live!Resource :
       WF_live(part = "live" /\ (Live!Load(page, r) \/ Live!LoadFails(page, r)))

-----------------------------------------------------------------------------
\* The message of a broadcast stays in its buffer until the last send is
\* through (local_web_server.cpp:1095-1187).
Delivered == Live!Delivered

\* A page gets its WebSocket again and again (local_web_server.cpp:1034-1048).
Reaches == Live!Reaches
=============================================================================
