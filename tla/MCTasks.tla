------------------------------ MODULE MCTasks ------------------------------
(* A behaviour is one of the operations, or one of a tag that is linked or *)
(* unlinked while requests to Spoolman fail; the other component stays as  *)
(* it began.                                                               *)
EXTENDS Operations

CONSTANTS s1, s2, u1, u2, NoSpool, NoUuid, NoRecord

VARIABLES part,
  mode, uid, ident, held, edits, tag, mapping, journal, pending, spool, prev, uuid, bound, pc,
  holds, found, patch, quiet, outcome

link == <<mode, uid, ident, held, edits, tag, mapping, journal, pending, spool, prev, uuid,
          bound, pc, holds, found, patch, quiet, outcome>>

MCAsks == [d \in Digest |-> d]

Base ==
  INSTANCE SpoolLink
    WITH Spool <- {s1, s2}, Uuid <- {u1, u2}, Worlds <- {},
         MaxEdits <- [m \in {"fields", "list", "both"} |-> 0]

\* Every Spoolman that keeps the fields or the list, and nobody else edits it.
MCWorlds ==
  {w \in Base!World :
     /\ w.mode # "both"
     /\ w.mode = "list" => \A s \in {s1, s2} : w.uid[s] = "none" /\ w.ident[s] = NoUuid
     /\ w.mode = "fields" => \A f \in DOMAIN w.held : w.held[f] = NoSpool}

Link ==
  INSTANCE SpoolLink
    WITH Spool <- {s1, s2}, Uuid <- {u1, u2}, Worlds <- MCWorlds,
         MaxEdits <- [m \in {"fields", "list", "both"} |-> 0]
-----------------------------------------------------------------------------
TasksInit ==
  /\ part \in {"operations", "link"}
  /\ Init
  /\ Link!Init
  /\ \/ part = "operations" /\ mode = "list" /\ tag = NoUuid /\ \A f \in DOMAIN held : held[f] = NoSpool
     \/ part = "link" /\ time.start = 0

TasksNext ==
  \/ part = "operations" /\ Next /\ UNCHANGED <<part, link>>
  \/ part = "link" /\ Link!Next /\ UNCHANGED <<part, vars>>

TasksSpec ==
  /\ TasksInit
  /\ [][TasksNext]_<<part, vars, link>>
  /\ WF_vars(part = "operations" /\ Web) /\ SF_vars(part = "operations" /\ Take)
  /\ WF_vars(part = "operations" /\ Serve) /\ WF_vars(part = "operations" /\ Control)
  /\ WF_vars(part = "operations" /\ UiSend)
  /\ WF_link(part = "link" /\ Link!Steady)
-----------------------------------------------------------------------------
\* What the station owes Spoolman gets done (tag_writer_service.cpp:1300-1460).
LinksEnd == Link!LinksEnd
=============================================================================
