--------------------------- MODULE MCScreenGraph ----------------------------
(***************************************************************************)
(* Every crawl of up to four screens and five transitions, and those of    *)
(* two screens with parallel transitions, probes, and ends off the map.    *)
(***************************************************************************)
EXTENDS ScreenGraph

CONSTANTS Wide, Long

Tap(n, m) == [src |-> n, dst |-> m, label |-> 1, kind |-> "tap"]
Pairs == {Tap(n, m) : n, m \in Node}

UpTo(k, S) ==
  LET sets[i \in 0..k] == IF i = 0 THEN {{}} ELSE {T \cup {x} : T \in sets[i - 1], x \in S} \cup {{}}
  IN  sets[k]

Plain == [screens : {Node}, entry : {1},
          transitions : UpTo(Long, Pairs)]

\* Screens 1 and 2 are mapped, screen 3 was met at the depth limit.
Labelled == [src : 1..2, dst : 1..3, label : 1..2, kind : {"tap", "probe"}]
Parallel == [screens : {1..2}, entry : {1},
             transitions : UpTo(Wide, Labelled)]

SmallCrawls == Plain \cup Parallel
=============================================================================
