----------------------------- MODULE MCTagFlow -----------------------------
(* Two tags, two commands of the touch screen and one of the browser. *)
EXTENDS TagFlow, TLC

CONSTANTS t1, t2

\* The browser's lists, new spools and clears do to the page what its own do.
Changes == Actions \ {"catalog", "create_spool", "clear_preview", "clear"}

Interchangeable == Permutations(Tag)
=============================================================================
