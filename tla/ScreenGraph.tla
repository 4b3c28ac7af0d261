---------------------------- MODULE ScreenGraph -----------------------------
(***************************************************************************)
(* The interaction graph of a crawl (graph.py): what build_graph keeps of  *)
(* the crawl's transitions, the breadth-first search behind depths and     *)
(* shortest paths, the walks that cover its edges, the cycles, and the     *)
(* journeys tests are made of.  Where the code follows a list, the order   *)
(* is left open: what is shown holds for every order.                      *)
(***************************************************************************)
EXTENDS Naturals, SequencesExt

CONSTANTS Node, Crawls

Label == Nat \* what tells two transitions of a pair of screens apart
Transition == [src : Node, dst : Node, label : Label, kind : {"tap", "gate", "probe"}]
Edge == [src : Node, dst : Node, label : Label]

ASSUME CrawlsAreCrawls == \A c \in Crawls : /\ c.screens \subseteq Node /\ IsFiniteSet(c.screens)
                                            /\ c.entry \in c.screens
                                            /\ c.transitions \subseteq Transition

VARIABLES
  nodes, edges, entry, \* the graph
  phase,   \* "search", "cover" or "done"; or "cycles" and "done"
  queue,   \* q of the search: reached, not expanded yet
  parent,  \* per screen reached, the one it was reached from
  depth,   \* per screen reached, GraphNode.depth
  walks,   \* edge_coverage_paths
  frames,  \* work of cycles: screens under way, with the edges left to look at
  opened,  \* scc_stack: visited, and of no component yet
  index, low,
  sccs

graph == <<nodes, edges, entry>>
found == <<queue, parent, depth>>
tarjan == <<frames, opened, index, low, sccs>>
vars == <<graph, phase, found, walks, tarjan>>

Out(n) == {e \in edges : e.src = n}
Succ(n) == {e.dst : e \in Out(n)}
Reached == DOMAIN depth

\* build_graph: taps and gates between screens of the map.
EdgesOf(c) ==
  {[src |-> t.src, dst |-> t.dst, label |-> t.label] :
     t \in {u \in c.transitions : /\ u.kind # "probe"
                                  /\ {u.src, u.dst} \subseteq c.screens}}

TypeOK ==
  /\ IsFiniteSet(nodes) /\ entry \in nodes
  /\ edges \subseteq [src : nodes, dst : nodes, label : Label]
  /\ phase \in {"search", "cover", "cycles", "done"}
  /\ queue \in Seq(nodes)

Init ==
  \E c \in Crawls :
    /\ nodes = c.screens /\ entry = c.entry /\ edges = EdgesOf(c)
    /\ phase \in {"search", "cycles"}
    /\ queue = <<entry>>
    /\ parent = [n \in {entry} |-> entry]
    /\ depth = [n \in {entry} |-> 0]
    /\ walks = {}
    /\ frames = <<>> /\ opened = <<>>
    /\ index = [n \in {} |-> 0] /\ low = [n \in {} |-> 0]
    /\ sccs = {}

-----------------------------------------------------------------------------
(* Breadth first: _annotate_depth, shortest_paths_from_entry *)

\* Mutant: a screen still in the queue is put there again.
Unexpanded(n) == {m \in Succ(n) : m \notin Reached \/ m \in Range(Tail(queue))}

\* The screens first seen from this one.
NewFrom(n) == Succ(n) \ Reached

Expand ==
  /\ phase = "search" /\ queue # <<>>
  /\ LET cur == Head(queue) IN
     \E order \in SetToSeqs(NewFrom(cur)) :
       /\ queue' = Tail(queue) \o order
       /\ parent' = [n \in Reached \cup NewFrom(cur) |->
                       IF n \in NewFrom(cur) THEN cur ELSE parent[n]]
       /\ depth' = [n \in Reached \cup NewFrom(cur) |->
                      IF n \in NewFrom(cur) THEN depth[cur] + 1 ELSE depth[n]]
  /\ UNCHANGED <<graph, phase, walks, tarjan>>

\* The queue is empty: every reachable screen has its path.
Searched ==
  /\ phase = "search" /\ queue = <<>>
  /\ phase' = "cover"
  /\ UNCHANGED <<graph, found, walks, tarjan>>

\* The path along the parents, entry first.
PathTo ==
  LET path[n \in Reached] ==
        IF n = entry THEN <<n>> ELSE Append(path[parent[n]], n)
  IN  path

-----------------------------------------------------------------------------
(* Walks and journeys: edge_coverage_paths, multi_step_cases *)

Covered == UNION {Range(w) : w \in walks}

\* The first edge of a hop.
Hop(a, b) == CHOOSE e \in Out(a) : e.dst = b /\ \A f \in Out(a) : f.dst = b => e.label <= f.label
Hops(path) == [i \in 1..(Len(path) - 1) |-> Hop(path[i], path[i + 1])]

\* Mutant: the edge counts as covered once its hop is.
CoveredHop(e) == \E f \in Covered : f.src = e.src /\ f.dst = e.dst

IsCovered(e) == e \in Covered

\* A walk along the shortest path to an edge not covered yet, and over it.
Cover(e) ==
  /\ phase = "cover" /\ e.src \in Reached /\ ~IsCovered(e)
  /\ walks' = walks \cup {Append(Hops(PathTo[e.src]), e)}
  /\ UNCHANGED <<graph, phase, found, tarjan>>

CoverEnds ==
  /\ phase = "cover"
  /\ \A e \in edges : e.src \in Reached => IsCovered(e)
  /\ phase' = "done"
  /\ UNCHANGED <<graph, found, walks, tarjan>>

NodePath(w) == <<w[1].src>> \o [i \in DOMAIN w |-> w[i].dst]
NodePaths == {NodePath(w) : w \in {v \in walks : Len(v) >= 2}}
Maximal == {p \in NodePaths : ~\E q \in NodePaths : IsStrictPrefix(p, q)}

\* The journeys, given the screens behind a gate.
Journeys(gated) == {p \in Maximal : Range(p) \cap gated = {}}

-----------------------------------------------------------------------------
(* Cycles: Tarjan's components, with a stack of its own *)

Visit(n) ==
  /\ index' = [m \in DOMAIN index \cup {n} |-> IF m = n THEN Cardinality(DOMAIN index) ELSE index[m]]
  /\ opened' = Append(opened, n)

\* A screen not visited yet.
TakeRoot(n) ==
  /\ phase = "cycles" /\ frames = <<>>
  /\ n \in nodes \ DOMAIN index
  /\ frames' = <<[node |-> n, left |-> Succ(n)]>>
  /\ low' = [m \in DOMAIN low \cup {n} |-> IF m = n THEN Cardinality(DOMAIN index) ELSE low[m]]
  /\ Visit(n)
  /\ UNCHANGED <<graph, phase, found, walks, sccs>>

Top == Last(frames)
Lower(f, n, v) == IF v < f[n] THEN [f EXCEPT ![n] = v] ELSE f

\* Mutant: a screen of a finished component counts as well.
AnyVisited(m) == m \in DOMAIN index

StillOpen(m) == m \in Range(opened)

\* The next edge leads to a screen already visited.
LookAt(m) ==
  /\ phase = "cycles" /\ frames # <<>>
  /\ m \in Top.left \cap DOMAIN index
  /\ frames' = [frames EXCEPT ![Len(frames)].left = @ \ {m}]
  /\ low' = IF StillOpen(m) THEN Lower(low, Top.node, index[m]) ELSE low
  /\ UNCHANGED <<graph, phase, found, walks, opened, index, sccs>>

\* ... or to one that is new: it is gone into first.
GoInto(m) ==
  /\ phase = "cycles" /\ frames # <<>>
  /\ m \in Top.left \ DOMAIN index
  /\ frames' = Append([frames EXCEPT ![Len(frames)].left = @ \ {m}],
                      [node |-> m, left |-> Succ(m)])
  /\ low' = [k \in DOMAIN low \cup {m} |-> IF k = m THEN Cardinality(DOMAIN index) ELSE low[k]]
  /\ Visit(m)
  /\ UNCHANGED <<graph, phase, found, walks, sccs>>

\* Where a component begins on the stack of open screens.
From(n) == CHOOSE i \in DOMAIN opened : opened[i] = n

\* No edge is left: a component ends here or not, and the caller learns the mark.
Leave ==
  /\ phase = "cycles" /\ frames # <<>> /\ Top.left = {}
  /\ LET n == Top.node IN
     IF low[n] = index[n]
     THEN /\ sccs' = sccs \cup {Range(SubSeq(opened, From(n), Len(opened)))}
          /\ opened' = SubSeq(opened, 1, From(n) - 1)
     ELSE UNCHANGED <<sccs, opened>>
  /\ frames' = Front(frames)
  /\ low' = IF Len(frames) > 1
            THEN Lower(low, frames[Len(frames) - 1].node, low[Top.node]) ELSE low
  /\ UNCHANGED <<graph, phase, found, walks, index>>

CyclesEnd ==
  /\ phase = "cycles" /\ frames = <<>> /\ nodes \subseteq DOMAIN index
  /\ phase' = "done"
  /\ UNCHANGED <<graph, found, walks, tarjan>>

SelfLooped == {e.src : e \in {f \in edges : f.src = f.dst}}
Cycles == {s \in sccs : Cardinality(s) > 1 \/ s \cap SelfLooped # {}}

Done == phase = "done" /\ UNCHANGED vars

Next ==
  \/ Expand \/ Searched \/ CoverEnds
  \/ \E e \in edges : Cover(e)
  \/ \E n \in nodes : TakeRoot(n) \/ LookAt(n) \/ GoInto(n)
  \/ Leave \/ CyclesEnd \/ Done

Spec == Init /\ [][Next]_vars
-----------------------------------------------------------------------------
(* Properties *)

Closed(S) == \A n \in S : Succ(n) \subseteq S

\* m can be reached from n: it is in every set that holds n and that no edge leaves.
Leads(n, m) == \A S \in SUBSET nodes : n \in S /\ Closed(S) => m \in S
Component(n) == {m \in nodes : Leads(n, m) /\ Leads(m, n)}

\* What is known of the screens reached so far.
SearchInv ==
  /\ entry \in Reached /\ Reached \subseteq nodes /\ DOMAIN parent = Reached
  /\ \A S \in SUBSET nodes : entry \in S /\ Closed(S) => Reached \subseteq S
  /\ Range(queue) \subseteq Reached
  /\ depth \in [Reached -> Nat] /\ depth[entry] = 0
  /\ \A n \in Reached \ Range(queue) : Succ(n) \subseteq Reached
  /\ \A n \in Reached \ {entry} :
       parent[n] \in Reached /\ n \in Succ(parent[n]) /\ depth[n] = depth[parent[n]] + 1

\* The queue holds at most two depths, in order: what has left it is no deeper
\* than what is in it, and nothing is two deeper than its head.
QueueIsLevel ==
  /\ \A n \in Reached \ Range(queue) : \A m \in Succ(n) : depth[m] <= depth[n] + 1
  /\ \A n \in Reached \ Range(queue) : \A m \in Range(queue) : depth[n] <= depth[m]
  /\ \A i, j \in DOMAIN queue : i <= j => depth[queue[i]] <= depth[queue[j]]
  /\ queue # <<>> => \A n \in Reached : depth[n] <= depth[Head(queue)] + 1

\* When the search ends, the screens with a depth are those the entry leads to,
\* and no edge is a short cut: the depths are distances, the paths shortest,
\* and what is called unreachable is (graph.py:207, 1047).
DepthsAreDistances ==
  queue = <<>> =>
    /\ Closed(Reached) /\ \A S \in SUBSET nodes : entry \in S /\ Closed(S) => Reached \subseteq S
    /\ \A n \in Reached : \A m \in Succ(n) : depth[m] <= depth[n] + 1
    /\ \A n \in Reached \ {entry} : n \in Succ(parent[n]) /\ depth[n] = depth[parent[n]] + 1

\* Every walk can be played from the entry, and together they take every edge
\* that can be reached, parallel ones each (graph.py:230).
WalksCover ==
  /\ \A w \in walks : /\ w[1].src = entry /\ Range(w) \subseteq edges
                       /\ \A i \in 1..(Len(w) - 1) : w[i].dst = w[i + 1].src
  /\ phase = "done" /\ queue = <<>> => {e \in edges : e.src \in Reached} \subseteq Covered

\* The cycles are the components of screens that lead to each other, whatever
\* the order the edges are listed in (graph.py:146).
CyclesAreFound ==
  phase = "done" /\ queue # <<>> =>
    Cycles = {Component(n) :
                n \in {k \in nodes : k \in SelfLooped \/ \E m \in Component(k) : m # k}}

\* A walk is dropped only for a longer journey that is kept.
JourneysKept ==
  phase = "done" =>
    \A gated \in SUBSET (nodes \ {entry}) : \A p \in NodePaths :
      Range(p) \cap gated = {} => \E j \in Journeys(gated) : IsPrefix(p, j)

\* The whole of what holds while the search goes on.
DistanceInv == TypeOK /\ SearchInv /\ QueueIsLevel

\* What is known of the walks: each is a trip along edges from the entry, and the
\* cover ends with nothing left.  The search for cycles leaves the queue alone.
WalksInv ==
  /\ \A w \in walks : w \in Seq(edges) /\ w # <<>>
  /\ phase = "cycles" => queue # <<>>
  /\ WalksCover
=============================================================================
