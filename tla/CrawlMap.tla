------------------------------ MODULE CrawlMap ------------------------------
(***************************************************************************)
(* What a crawl promises about the map it returns (CrawlResult in          *)
(* framework/crawler/models.py), whatever the device does: an explorer     *)
(* starts from one entry screen, records transitions out of screens it has *)
(* already charted, and charts a screen only once a recorded transition    *)
(* from a charted screen leads to it.  Nothing is ever taken back, and the *)
(* crawl may stop at any point with the map gathered so far.               *)
(***************************************************************************)

CONSTANTS
  Place,   \* every screen a device can show
  Kind     \* how a transition was crossed: "tap", "gate" or "probe"

VARIABLES
  entry,   \* the first screen charted: the first key of CrawlResult.screens
  mapped,  \* the screens charted so far (CrawlResult.screens)
  edges    \* the transitions recorded so far (CrawlResult.transitions)

vars == <<entry, mapped, edges>>

Edge == [src : Place, dst : Place, kind : Kind]

Init == entry \in Place /\ mapped = {} /\ edges = {}

\* The first screen needs no transition into it.
Enter(p) ==
  /\ mapped = {}
  /\ mapped' = {p}
  /\ entry' = p
  /\ UNCHANGED edges

(***************************************************************************)
(* Any other step records transitions out of charted screens, and charts   *)
(* screens a transition now leads to from a charted screen.                *)
(***************************************************************************)
Extend ==
  /\ mapped # {}
  /\ UNCHANGED entry
  /\ mapped \subseteq mapped' /\ mapped' \subseteq Place
  /\ edges \subseteq edges' /\ edges' \subseteq Edge
  /\ \A e \in edges' \ edges : e.src \in mapped'
  /\ \A p \in mapped' \ mapped :
        \E e \in edges' : e.dst = p /\ e.src \in mapped

Next == Extend \/ \E p \in Place : Enter(p)

Spec == Init /\ [][Next]_vars

-----------------------------------------------------------------------------

\* A set of screens no recorded transition leads out of.
Closed(C) == \A e \in edges : e.src \in C => e.dst \in C

(***************************************************************************)
(* Every charted screen can be walked to from the entry: no set of screens *)
(* that holds the entry and is closed under the recorded transitions       *)
(* misses a charted screen.                                                *)
(***************************************************************************)
Reachable(p) == \A C \in SUBSET Place : entry \in C /\ Closed(C) => p \in C

Connected == \A p \in mapped : Reachable(p)
=============================================================================
