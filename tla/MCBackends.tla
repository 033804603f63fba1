----------------------------- MODULE MCBackends -----------------------------
(* A behaviour is one of the spool's identity, one of the assignment of a
   toolhead or one of the scale; the other components stay as they began.
   The disabled toolhead begins empty, and others may fill it.
   Spools are interchangeable. *)
EXTENDS Identity, Assignment, Scale, TLC

CONSTANTS tool1, tool2, small, big

VARIABLE part

\* One unit of weight is ten grams, and one count with a true calibration.
\* The spool overloads the small cell.
CellCapacity == [c \in Cells |-> IF c = small THEN 15 ELSE 50]
-----------------------------------------------------------------------------
BackendsInit ==
  /\ part \in {"identity", "assignment", "scale"}
  /\ part # "identity" =>
       /\ native = TRUE /\ fields = TRUE
       /\ content = [t \in Tag |-> NoUuid]
  /\ part # "assignment" =>
       bridge = [map |-> [t \in Tools |-> Nobody], state |-> "idle", version |-> "tested"]
  /\ part # "scale" => config = [cell |-> small, cal |-> None]
  /\ Init
  /\ AssignmentInit /\ \A t \in Disabled : bridge.map[t] = Nobody
  /\ ScaleInit

BackendsNext ==
  \/ part = "identity" /\ Next /\ UNCHANGED <<part, assignment, scale>>
  \/ part = "assignment" /\ AssignmentNext /\ UNCHANGED <<part, vars, scale>>
  \/ part = "scale" /\ ScaleNext /\ UNCHANGED <<part, vars, assignment>>

BackendsSpec == BackendsInit /\ [][BackendsNext]_<<part, vars, assignment, scale>>

Interchangeable == Permutations(Spool)
=============================================================================
