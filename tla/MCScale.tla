------------------------------- MODULE MCScale -------------------------------
(* Two load cells; one unit of weight is ten grams, and one count with a true
   calibration.  The spool overloads the small cell. *)
EXTENDS Scale

CONSTANTS small, big

CellCapacity == [c \in Cells |-> IF c = small THEN 15 ELSE 50]
=============================================================================
