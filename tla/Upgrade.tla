------------------------------- MODULE Upgrade -------------------------------
(***************************************************************************)
(* What an update of the firmware promises.  One of the two slots is known *)
(* to work; another image is put on trial only when it is whole, and from  *)
(* there it is either kept or given up.  The slot that is known to work is *)
(* never written, and there is always one.                                 *)
(***************************************************************************)
CONSTANTS Slot, NoSlot

VARIABLES
  known,  \* the slot to go back to
  trial,  \* the slot on trial, or NoSlot
  whole   \* the slots that hold a complete, verified image

vars == <<known, trial, whole>>

Init == known \in Slot /\ trial = NoSlot /\ whole \in {W \in SUBSET Slot : known \in W}

Rewrite ==
  \E s \in Slot \ {known, trial} :
    whole' \in {whole \ {s}, whole \cup {s}} /\ UNCHANGED <<known, trial>>

Try ==
  /\ trial = NoSlot
  /\ trial' \in whole \ {known}
  /\ UNCHANGED <<known, whole>>

Keep ==
  /\ trial # NoSlot
  /\ known' = trial /\ trial' = NoSlot /\ UNCHANGED whole

GiveUp ==
  /\ trial # NoSlot
  /\ trial' = NoSlot /\ UNCHANGED <<known, whole>>

Next == Rewrite \/ Try \/ Keep \/ GiveUp

Spec == Init /\ [][Next]_vars
=============================================================================
