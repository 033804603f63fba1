---------------------------- MODULE MCTagWriter ----------------------------
(* Small instances of the tag writer: a header, an identity block and a    *)
(* payload block; a spool is known by the identity and the payload its     *)
(* image has.                                                              *)
EXTENDS TagWriter, TLC

MCBlock == {"header", "identity", "payload"}
MCIdentity == {"identity"}
MCWord == {"zero", "env", "id1", "id2", "data1", "data2", "torn"}

MCImage(h, i, p) == ("header" :> h) @@ ("identity" :> i) @@ ("payload" :> p)
MCBlank == MCImage("zero", "zero", "zero")

\* Two spools, s1 and s2, in the larger instances; s1 alone in the others.
CONSTANTS s1, s2
MCTwoSpools == {s1, s2}
MCImages ==
  [s \in Spool |-> IF s = s1 THEN {MCImage("env", "id1", "data1")}
                             ELSE {MCImage("env", "id2", "data2")}]
MCDecodable == {MCImage("env", i, p) : i \in {"id1", "id2"}, p \in {"data1", "data2", "zero"}}

\* What another device may leave: a blank tag.
MCBlankOnly == {MCBlank}
MCNone == {}
MCSymmetry == Permutations(Tag)
MCTorn == {"torn"}
=============================================================================
