----------------------------- MODULE MCSharding -----------------------------
(***************************************************************************)
(* Three tests in two files: the name of t1 is part of that of t2.         *)
(***************************************************************************)
EXTENDS Sharding

CONSTANTS t1, t2, t3

Files == t1 :> "f" @@ t2 :> "f" @@ t3 :> "g"
Names == t1 :> {t1, t2} @@ t2 :> {t2} @@ t3 :> {t3}
=============================================================================
