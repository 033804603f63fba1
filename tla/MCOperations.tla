---------------------------- MODULE MCOperations ----------------------------
(* Small instances: a registry of two, a ledger of one. *)
EXTENDS Operations

MCAsks == [d \in Digest |-> d]
=============================================================================
