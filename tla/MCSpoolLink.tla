---------------------------- MODULE MCSpoolLink ----------------------------
(* Small instances of the link protocol: two spools, the identity the tag  *)
(* starts with and one it may be given.                                    *)
EXTENDS SpoolLink

\* Every Spoolman with these two spools, and a tag that is blank or has an
\* identity of its own; a tag list holds one form at a time to begin with,
\* or one spool under both.
MCWorlds(modes) ==
  {w \in World :
     /\ w.mode \in modes
     /\ w.mode = "list" => \A s \in Spool : w.uid[s] = "none" /\ w.ident[s] = NoUuid
     /\ w.mode = "fields" => \A f \in Form : w.held[f] = NoSpool}

MCAll == MCWorlds(Mode)

\* A Spoolman that keeps both the fields and the list has far more states.
MCOneEdit == [m \in Mode |-> IF m = "both" THEN 0 ELSE 1]
=============================================================================
