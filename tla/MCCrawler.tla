----------------------------- MODULE MCCrawler -----------------------------
(***************************************************************************)
(* Small apps for the model checker.  Every screen carries the same        *)
(* controls unless a run needs otherwise; the device wanders freely.       *)
(***************************************************************************)
EXTENDS Crawler

CONSTANTS e1, e2

\* One plain control on every screen.
OneControl == [p \in Place |-> IF p \in App THEN {e1} ELSE {}]

\* A plain control, and a money verb that a scroll reveals.
BothAfterScroll == [p \in Place |-> IF p \in App THEN {e1, e2} ELSE {}]

\* Both controls on the forms, elsewhere only the second before a scroll.
MoreOnForms == [p \in Place |-> IF p \in Forms THEN {e1, e2}
                                ELSE IF p \in App THEN {e2} ELSE {}]

\* Both controls, but on the screens of obstacles only the first before a scroll.
LessOnObstacles == [p \in Place |-> IF p \in Unsettled THEN {e1}
                                    ELSE IF p \in App THEN {e1, e2} ELSE {}]

\* A screen whose only control is below the fold, beside plain ones.
NoControlOnA == [p \in Place |-> IF p \in App \ MoneyLower THEN {e1} ELSE {}]
=============================================================================
