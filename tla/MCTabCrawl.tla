----------------------------- MODULE MCTabCrawl -----------------------------
(* A small app with a bar of three tabs. *)
EXTENDS TabCrawl

\* Every control on every screen.
EveryControl == [p \in Place |-> IF p \in App THEN Element ELSE {}]
=============================================================================
