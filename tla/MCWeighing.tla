----------------------------- MODULE MCWeighing -----------------------------
(* Small instances of the way from the tag to the saved weight: two spools *)
(* and a tag for each.                                                     *)
EXTENDS Weighing, TLC

CONSTANTS t1, t2, s1, s2

\* Every server finds the same spools, or knows only one of the tags.
MCLink == [b \in Backend |-> (t1 :> s1) @@ (t2 :> s2)]
MCLinkOne == [b \in Backend |-> [t \in Tag |-> IF t = t1 THEN s1 ELSE NoSpool]]

\* The two spools change places with their tags.
MCSwap == {(t1 :> t2) @@ (t2 :> t1) @@ (s1 :> s2) @@ (s2 :> s1)}

\* Less than the empty spool, a little more than full, or too much.
MCGrams == {-1, 2, 3}

\* Tags that come and go with one weigh; and one tag that comes and goes, with
\* a weigh and a change of the settings.
MCBound(g, i, r) == [generation |-> g, measurement |-> i, revision |-> r]
MCBoundsSwapped == {MCBound(4, 1, 0)}
MCBoundsSettled == {MCBound(2, 1, 1)}
=============================================================================
