------------------------- MODULE ScreenGraphProofs --------------------------
(***************************************************************************)
(* For any crawl and any order its edges are listed in: the search reaches *)
(* the screens the entry leads to, and their depths are distances; the     *)
(* walks cover the edges; the cycles are the components of the graph.      *)
(***************************************************************************)
EXTENDS ScreenGraph, SequenceTheorems, FiniteSetTheorems, WellFoundedInduction, TLAPS

\* A listing of a finite set holds each of its elements.
LEMMA ListingHasAll ==
  ASSUME NEW S, IsFiniteSet(S), NEW order \in SetToSeqs(S)
  PROVE  order \in Seq(S) /\ Range(order) = S
<1> DEFINE n == Cardinality(S)
           D == 1..n
<1>1. n \in Nat
  BY FS_CardinalityType
<1>2. order \in [D -> S] /\ \A i, j \in D : i # j => order[i] # order[j]
  BY DEF SetToSeqs
<1>3. IsFiniteSet(D) /\ Cardinality(D) = n
  BY <1>1, FS_Interval
<1>4. order \in Injection(D, S)
  BY <1>2 DEF Injection, IsInjective
<1>5. order \in Surjection(D, S)
  BY <1>3, <1>4, FS_Injection
<1>6. Range(order) = S
  BY <1>5, <1>2 DEF Surjection, Range
<1>7. order \in Seq(S)
  BY <1>1, <1>2
<1> QED BY <1>6, <1>7

\* The graph has no edge that leaves its screens.
LEMMA SuccessorsAreNodes == TypeOK => \A n : Succ(n) \subseteq nodes
BY DEF TypeOK, Succ, Out

\* The search begins at the entry, at depth 0.
LEMMA InitSearch == Init => DistanceInv
<1> SUFFICES ASSUME Init PROVE DistanceInv
  OBVIOUS
<1>1. PICK c \in Crawls :
        /\ nodes = c.screens /\ entry = c.entry /\ edges = EdgesOf(c)
        /\ phase \in {"search", "cycles"}
        /\ queue = <<entry>>
        /\ parent = [n \in {entry} |-> entry]
        /\ depth = [n \in {entry} |-> 0]
  BY DEF Init
<1>2. IsFiniteSet(nodes) /\ entry \in nodes
  BY <1>1, CrawlsAreCrawls
<1>3. edges \subseteq [src : nodes, dst : nodes, label : Label]
  <2>1. c.transitions \subseteq Transition
    BY CrawlsAreCrawls
  <2> QED BY <1>1, <2>1 DEF EdgesOf, Transition
<1>4. Len(queue) = 1 /\ queue[1] = entry /\ queue \in Seq(nodes) /\ DOMAIN queue = {1}
      /\ queue # <<>>
  <2>1. <<entry>> \in Seq(nodes) /\ Len(<<entry>>) = 1 /\ <<entry>>[1] = entry
    BY <1>2
  <2> QED BY <2>1, <1>1
<1>5. Range(queue) = {entry} /\ Reached = {entry}
  BY <1>1, <1>4 DEF Range, Reached
<1>6. depth[entry] = 0
  BY <1>1
<1>7. TypeOK
  BY <1>1, <1>2, <1>3, <1>4 DEF TypeOK
<1>8. SearchInv
  BY <1>1, <1>2, <1>5, <1>6 DEF SearchInv
<1>9. QueueIsLevel
  <2>1. Head(queue) = entry
    BY <1>4, HeadTailProperties
  <2> QED BY <2>1, <1>4, <1>5, <1>6 DEF QueueIsLevel
<1> QED BY <1>7, <1>8, <1>9 DEF DistanceInv

\* What an expansion does: its screen leaves the head of the queue, and the
\* new ones join its end, one deeper.
LEMMA WhatExpandDoes ==
  ASSUME DistanceInv, Expand
  PROVE  \E cur \in Reached, order \in Seq(nodes) :
           /\ queue # <<>> /\ cur = Head(queue) /\ cur \in Range(queue)
           /\ Range(order) = NewFrom(cur) /\ queue' = Tail(queue) \o order
           /\ Reached' = Reached \cup NewFrom(cur)
           /\ parent' = [n \in Reached' |-> IF n \in NewFrom(cur) THEN cur ELSE parent[n]]
           /\ depth' = [n \in Reached' |-> IF n \in NewFrom(cur) THEN depth[cur] + 1
                                           ELSE depth[n]]
           /\ UNCHANGED <<nodes, edges, entry, phase>>
<1> DEFINE cur == Head(queue)
<1>1. queue \in Seq(nodes) /\ queue # <<>>
  BY DEF DistanceInv, TypeOK, Expand
<1>2. cur \in Range(queue) /\ cur \in Reached
  BY <1>1 DEF Range, DistanceInv, SearchInv
<1>3. NewFrom(cur) \subseteq nodes /\ IsFiniteSet(NewFrom(cur))
  BY SuccessorsAreNodes, FS_Subset DEF DistanceInv, TypeOK, NewFrom
<1>4. PICK order \in SetToSeqs(NewFrom(cur)) :
        /\ queue' = Tail(queue) \o order
        /\ parent' = [n \in Reached \cup NewFrom(cur) |->
                        IF n \in NewFrom(cur) THEN cur ELSE parent[n]]
        /\ depth' = [n \in Reached \cup NewFrom(cur) |->
                       IF n \in NewFrom(cur) THEN depth[cur] + 1 ELSE depth[n]]
        /\ UNCHANGED <<nodes, edges, entry, phase>>
  BY DEF Expand, graph
<1>5. order \in Seq(NewFrom(cur)) /\ Range(order) = NewFrom(cur)
  BY <1>3, ListingHasAll
<1>6. order \in Seq(nodes)
  BY <1>3, <1>5, SeqMonotonic
<1>7. Reached' = Reached \cup NewFrom(cur)
  BY <1>4 DEF Reached
<1> QED BY <1>1, <1>2, <1>4, <1>5, <1>6, <1>7

\* What leaves the queue is its head, and the rest keeps its order.
LEMMA QueueMoves ==
  ASSUME NEW S, NEW q \in Seq(S), q # <<>>, NEW order \in Seq(S)
  PROVE  LET r == Tail(q) \o order
             k == Len(q) - 1 IN
         /\ r \in Seq(S) /\ k \in Nat /\ DOMAIN r = 1..(k + Len(order)) /\ Len(order) \in Nat
         /\ DOMAIN q = 1..(k + 1)
         /\ \A i \in 1..k : r[i] = q[i + 1]
         /\ \A i \in (k + 1)..(k + Len(order)) : r[i] \in Range(order)
         /\ \A x \in Range(r) : x \in Range(order) \/ \E i \in 2..(k + 1) : x = q[i]
         /\ Range(q) \subseteq Range(r) \cup {Head(q)}
         /\ Range(order) \subseteq Range(r)
<1> DEFINE t == Tail(q)
           k == Len(q) - 1
           r == t \o order
<1>1. /\ t \in Seq(S) /\ Len(t) = k /\ k \in Nat /\ \A i \in 1..k : t[i] = q[i + 1]
      /\ DOMAIN q = 1..(k + 1) /\ Head(q) = q[1]
  BY HeadTailProperties
<1> HIDE DEF t, k
<1>2. /\ r \in Seq(S) /\ Len(r) = k + Len(order)
      /\ \A i \in 1..(k + Len(order)) : r[i] = IF i <= k THEN t[i] ELSE order[i - k]
  BY <1>1, ConcatProperties
<1>3. Len(order) \in Nat /\ DOMAIN order = 1..Len(order)
  OBVIOUS
<1> HIDE DEF r
<1>4. DOMAIN r = 1..(k + Len(order))
  BY <1>2, <1>1, <1>3
<1>5. \A i \in 1..k : r[i] = q[i + 1]
  BY <1>1, <1>2, <1>3
<1>6. \A i \in (k + 1)..(k + Len(order)) : r[i] \in Range(order)
  <2> TAKE i \in (k + 1)..(k + Len(order))
  <2>1. i \in 1..(k + Len(order)) /\ ~(i <= k) /\ i - k \in 1..Len(order)
    BY <1>1, <1>3
  <2> QED BY <2>1, <1>2, <1>3 DEF Range
<1>7. \A x \in Range(r) : x \in Range(order) \/ \E i \in 2..(k + 1) : x = q[i]
  <2> TAKE x \in Range(r)
  <2>1. PICK i \in 1..(k + Len(order)) : x = r[i]
    BY <1>4 DEF Range
  <2>2. CASE i <= k
    <3>1. i \in 1..k /\ i + 1 \in 2..(k + 1)
      BY <2>2, <1>1, <1>3
    <3> QED BY <3>1, <2>1, <1>5
  <2>3. CASE ~(i <= k)
    <3>1. i \in (k + 1)..(k + Len(order))
      BY <2>3, <1>1, <1>3
    <3> QED BY <3>1, <2>1, <1>6
  <2> QED BY <2>2, <2>3
<1>8. Range(q) \subseteq Range(r) \cup {Head(q)}
  <2> SUFFICES ASSUME NEW i \in 1..(k + 1), i # 1 PROVE q[i] \in Range(r)
    BY <1>1 DEF Range
  <2>1. i - 1 \in 1..k /\ (i - 1) + 1 = i /\ i - 1 \in DOMAIN r
    BY <1>1, <1>3, <1>4
  <2> QED BY <2>1, <1>5 DEF Range
<1>9. Range(order) \subseteq Range(r)
  <2> SUFFICES ASSUME NEW i \in 1..Len(order) PROVE order[i] \in Range(r)
    BY <1>3 DEF Range
  <2>1. k + i \in 1..(k + Len(order)) /\ ~(k + i <= k) /\ (k + i) - k = i
    BY <1>1, <1>3
  <2> QED BY <2>1, <1>2, <1>4 DEF Range
<1> QED BY <1>1, <1>2, <1>3, <1>4, <1>5, <1>6, <1>7, <1>8, <1>9 DEF t, k, r

\* An expansion keeps what is known of the screens reached.
LEMMA ExpandKeepsSearch ==
  ASSUME DistanceInv, Expand
  PROVE  TypeOK' /\ SearchInv'
<1>1. PICK cur \in Reached, order \in Seq(nodes) :
        /\ queue # <<>> /\ cur = Head(queue) /\ cur \in Range(queue)
        /\ Range(order) = NewFrom(cur) /\ queue' = Tail(queue) \o order
        /\ Reached' = Reached \cup NewFrom(cur)
        /\ parent' = [n \in Reached' |-> IF n \in NewFrom(cur) THEN cur ELSE parent[n]]
        /\ depth' = [n \in Reached' |-> IF n \in NewFrom(cur) THEN depth[cur] + 1
                                        ELSE depth[n]]
        /\ UNCHANGED <<nodes, edges, entry, phase>>
  BY WhatExpandDoes
<1>2. queue \in Seq(nodes) /\ SearchInv /\ TypeOK
  BY DEF DistanceInv, TypeOK
<1>3. /\ queue' \in Seq(nodes)
      /\ DOMAIN queue' \subseteq 1..(Len(queue) - 1 + Len(order))
      /\ Range(queue') \subseteq NewFrom(cur) \cup Range(queue)
      /\ Range(queue) \subseteq Range(queue') \cup {cur}
      /\ NewFrom(cur) \subseteq Range(queue')
  <2>1. DOMAIN queue = 1..(Len(queue) - 1 + 1) /\ Len(queue) - 1 \in Nat
    BY <1>1, <1>2, QueueMoves
  <2>2. \A i \in 2..(Len(queue) - 1 + 1) : queue[i] \in Range(queue)
    BY <2>1 DEF Range
  <2> QED BY <1>1, <1>2, <2>2, QueueMoves
<1>4. \A n : Succ(n)' = Succ(n)
  BY <1>1 DEF Succ, Out
<1>5. TypeOK'
  BY <1>1, <1>2, <1>3 DEF TypeOK
<1>6. NewFrom(cur) \cap Reached = {} /\ NewFrom(cur) \subseteq Succ(cur) /\ Succ(cur) \subseteq nodes
      /\ Succ(cur) \subseteq Reached \cup NewFrom(cur)
  BY <1>2, SuccessorsAreNodes DEF NewFrom
<1>7. entry' \in Reached' /\ Reached' \subseteq nodes' /\ DOMAIN parent' = Reached'
  BY <1>1, <1>2, <1>6 DEF SearchInv
<1>8. ASSUME NEW S \in SUBSET nodes', entry' \in S, Closed(S)' PROVE Reached' \subseteq S
  <2>1. Closed(S) /\ S \in SUBSET nodes /\ entry \in S
    BY <1>1, <1>4, <1>8 DEF Closed
  <2>2. Reached \subseteq S
    BY <1>2, <2>1 DEF SearchInv
  <2> QED BY <1>1, <1>6, <2>1, <2>2 DEF Closed
<1>9. Range(queue') \subseteq Reached'
  BY <1>1, <1>2, <1>3 DEF SearchInv
<1>10. depth' \in [Reached' -> Nat] /\ depth'[entry'] = 0
  <2>1. \A n \in Reached : depth[n] \in Nat
    BY <1>2 DEF SearchInv
  <2>2. \A n \in Reached' : depth'[n] \in Nat
    BY <1>1, <2>1
  <2> QED BY <1>1, <1>2, <1>6, <1>7, <2>2 DEF SearchInv
<1>11. ASSUME NEW n \in Reached' \ Range(queue') PROVE Succ(n)' \subseteq Reached'
  <2>1. n \in Reached /\ (n \notin Range(queue) \/ n = cur)
    BY <1>1, <1>3, <1>11
  <2> QED BY <1>1, <1>2, <1>4, <1>6, <2>1 DEF SearchInv
<1>12. ASSUME NEW n \in Reached' \ {entry'}
       PROVE  /\ parent'[n] \in Reached' /\ n \in Succ(parent[n])'
              /\ depth'[n] = depth'[parent'[n]] + 1
  <2>1. CASE n \in NewFrom(cur)
    <3>1. parent'[n] = cur /\ depth'[n] = depth[cur] + 1 /\ depth'[cur] = depth[cur]
      BY <1>1, <1>6, <2>1
    <3> QED BY <1>1, <1>4, <1>6, <2>1, <3>1
  <2>2. CASE n \notin NewFrom(cur)
    <3>1. n \in Reached \ {entry} /\ parent'[n] = parent[n] /\ depth'[n] = depth[n]
      BY <1>1, <1>12, <2>2
    <3>2. /\ parent[n] \in Reached /\ n \in Succ(parent[n])
          /\ depth[n] = depth[parent[n]] + 1
      BY <1>2, <3>1 DEF SearchInv
    <3>3. depth'[parent[n]] = depth[parent[n]]
      BY <1>1, <1>6, <3>2
    <3> QED BY <1>1, <1>4, <3>1, <3>2, <3>3
  <2> QED BY <2>1, <2>2
<1> QED BY <1>5, <1>7, <1>8, <1>9, <1>10, <1>11, <1>12 DEF SearchInv

\* An expansion keeps the queue in the order of depths.
LEMMA ExpandKeepsLevels ==
  ASSUME DistanceInv, Expand
  PROVE  QueueIsLevel'
<1> DEFINE k == Len(queue) - 1
<1>1. PICK cur \in Reached, order \in Seq(nodes) :
        /\ queue # <<>> /\ cur = Head(queue) /\ cur \in Range(queue)
        /\ Range(order) = NewFrom(cur) /\ queue' = Tail(queue) \o order
        /\ Reached' = Reached \cup NewFrom(cur)
        /\ parent' = [n \in Reached' |-> IF n \in NewFrom(cur) THEN cur ELSE parent[n]]
        /\ depth' = [n \in Reached' |-> IF n \in NewFrom(cur) THEN depth[cur] + 1
                                        ELSE depth[n]]
        /\ UNCHANGED <<nodes, edges, entry, phase>>
  BY WhatExpandDoes
<1>2. queue \in Seq(nodes) /\ SearchInv /\ QueueIsLevel
  BY DEF DistanceInv, TypeOK
<1>3. /\ queue' \in Seq(nodes) /\ k \in Nat /\ Len(order) \in Nat
      /\ DOMAIN queue' = 1..(k + Len(order)) /\ DOMAIN queue = 1..(k + 1)
      /\ \A i \in 1..k : queue'[i] = queue[i + 1]
      /\ \A i \in (k + 1)..(k + Len(order)) : queue'[i] \in NewFrom(cur)
      /\ \A x \in Range(queue') : x \in NewFrom(cur) \/ \E i \in 2..(k + 1) : x = queue[i]
      /\ Range(queue) \subseteq Range(queue') \cup {cur}
      /\ NewFrom(cur) \subseteq Range(queue')
  BY <1>1, <1>2, QueueMoves
<1> HIDE DEF k
<1>4. queue[1] = cur
  BY <1>1, <1>2, HeadTailProperties
<1>5. \A n : Succ(n)' = Succ(n)
  BY <1>1 DEF Succ, Out
<1>6. /\ \A n \in NewFrom(cur) : depth'[n] = depth[cur] + 1
      /\ \A n \in Reached : depth'[n] = depth[n] /\ depth[n] \in Nat
      /\ NewFrom(cur) \cap Reached = {} /\ depth[cur] \in Nat
  BY <1>1, <1>2 DEF SearchInv, NewFrom
<1>6a. \A n \in Reached' : depth'[n] \in Nat
  BY <1>1, <1>6
\* Every depth is at most one more than the screen's that is expanded, and those
\* that remain in the queue are no less deep than it is.
<1>7. \A n \in Reached : depth[n] <= depth[cur] + 1
  BY <1>1, <1>2 DEF QueueIsLevel
<1>8. \A i \in 1..(k + 1) : queue[i] \in Reached /\ depth[cur] <= depth[queue[i]]
  <2> TAKE i \in 1..(k + 1)
  <2>1. queue[i] \in Range(queue)
    BY <1>3 DEF Range
  <2>2. 1 \in DOMAIN queue /\ i \in DOMAIN queue /\ 1 <= i
    BY <1>3
  <2> QED BY <1>2, <1>4, <2>1, <2>2 DEF QueueIsLevel, SearchInv
<1>9. \A x \in Range(queue') : x \in Reached' /\ depth[cur] <= depth'[x]
  BY <1>1, <1>3, <1>6, <1>8
<1>10. \A n \in Reached' \ Range(queue') : n \in Reached /\ (n \notin Range(queue) \/ n = cur)
  BY <1>1, <1>3
<1>11. \A n \in Reached' \ Range(queue') : depth[n] <= depth[cur]
  BY <1>1, <1>2, <1>6, <1>10 DEF QueueIsLevel
<1>12. ASSUME NEW n \in Reached' \ Range(queue'), NEW m \in Succ(n)'
       PROVE  depth'[m] <= depth'[n] + 1
  <2>1. n \in Reached /\ depth'[n] = depth[n] /\ m \in Succ(n)
    BY <1>5, <1>6, <1>10, <1>12
  <2>2. CASE n \notin Range(queue)
    <3>1. m \in Reached /\ depth[m] <= depth[n] + 1
      BY <1>2, <2>1, <2>2 DEF SearchInv, QueueIsLevel
    <3> QED BY <1>6, <2>1, <3>1
  <2>3. CASE n = cur
    <3>1. m \in Reached \/ m \in NewFrom(cur)
      BY <2>1, <2>3 DEF NewFrom
    <3> QED BY <1>6, <1>7, <2>1, <2>3, <3>1
  <2> QED BY <1>10, <1>12, <2>2, <2>3
<1>13. ASSUME NEW n \in Reached' \ Range(queue'), NEW m \in Range(queue')
       PROVE  depth'[n] <= depth'[m]
  <2>1. depth'[n] = depth[n] /\ depth[n] <= depth[cur] /\ depth[n] \in Nat
    BY <1>6, <1>10, <1>11, <1>13
  <2>2. depth[cur] <= depth'[m] /\ depth'[m] \in Nat
    BY <1>9, <1>13, <1>6a
  <2> QED BY <1>6, <2>1, <2>2
<1>14. ASSUME NEW i \in DOMAIN queue', NEW j \in DOMAIN queue', i <= j
       PROVE  depth'[queue'[i]] <= depth'[queue'[j]]
  <2>1. i \in 1..(k + Len(order)) /\ j \in 1..(k + Len(order))
    BY <1>3, <1>14
  <2>2. CASE j <= k
    <3>1. /\ i \in 1..k /\ j \in 1..k /\ i + 1 \in 1..(k + 1) /\ j + 1 \in 1..(k + 1)
          /\ i + 1 <= j + 1
      BY <1>3, <1>14, <2>1, <2>2
    <3>2. depth[queue[i + 1]] <= depth[queue[j + 1]]
      BY <1>2, <1>3, <3>1 DEF QueueIsLevel
    <3> QED BY <1>3, <1>6, <1>8, <3>1, <3>2
  <2>3. CASE ~(j <= k)
    <3>1. j \in (k + 1)..(k + Len(order))
      BY <1>3, <2>1, <2>3
    <3>2. depth'[queue'[j]] = depth[cur] + 1
      BY <1>3, <1>6, <3>1
    <3>3. queue'[i] \in Range(queue')
      BY <1>14 DEF Range
    <3>4. queue'[i] \in Reached \/ queue'[i] \in NewFrom(cur)
      BY <1>1, <1>9, <3>3
    <3>5. depth'[queue'[i]] <= depth[cur] + 1
      BY <1>6, <1>7, <3>4
    <3> QED BY <3>2, <3>5
  <2> QED BY <2>2, <2>3
<1>15. ASSUME queue' # <<>>, NEW n \in Reached'
       PROVE  depth'[n] <= depth'[Head(queue')] + 1
  <2>1. Head(queue') \in Range(queue')
    BY <1>3, <1>15 DEF Range
  <2>2. depth'[Head(queue')] \in Nat /\ depth[cur] <= depth'[Head(queue')]
    BY <1>9, <1>6a, <2>1
  <2>3. depth'[n] \in Nat /\ depth'[n] <= depth[cur] + 1
    BY <1>1, <1>6, <1>7, <1>15
  <2> QED BY <1>6, <2>2, <2>3
<1> QED BY <1>12, <1>13, <1>14, <1>15 DEF QueueIsLevel

\* The other steps leave the search alone.
LEMMA OthersKeepSearch ==
  ASSUME DistanceInv, UNCHANGED <<nodes, edges, entry, queue, parent, depth>>,
         phase' \in {"search", "cover", "cycles", "done"}
  PROVE  DistanceInv'
<1>1. Reached' = Reached /\ \A n : Succ(n)' = Succ(n)
  BY DEF Reached, Succ, Out
<1>2. TypeOK'
  BY DEF DistanceInv, TypeOK
<1>3. SearchInv'
  <2>1. \A S : Closed(S)' <=> Closed(S)
    BY <1>1 DEF Closed
  <2> QED BY <1>1, <2>1 DEF DistanceInv, SearchInv
<1>4. QueueIsLevel'
  BY <1>1 DEF DistanceInv, QueueIsLevel
<1> QED BY <1>2, <1>3, <1>4 DEF DistanceInv

\* The search keeps its order in every state.
THEOREM SearchKeepsOrder == Spec => []DistanceInv
<1>1. DistanceInv /\ [Next]_vars => DistanceInv'
  <2> SUFFICES ASSUME DistanceInv, [Next]_vars PROVE DistanceInv'
    OBVIOUS
  <2>1. CASE Expand
    BY <2>1, ExpandKeepsSearch, ExpandKeepsLevels DEF DistanceInv
  <2>2. ASSUME ~Expand
        PROVE  /\ UNCHANGED <<nodes, edges, entry, queue, parent, depth>>
               /\ phase' \in {"search", "cover", "cycles", "done"}
    <3>1. phase \in {"search", "cover", "cycles", "done"}
      BY DEF DistanceInv, TypeOK
    <3>2. CASE Searched \/ CoverEnds \/ \E e \in edges : Cover(e)
      BY <3>1, <3>2 DEF Searched, CoverEnds, Cover, graph, found
    <3>3. ASSUME NEW n \in nodes, TakeRoot(n) \/ LookAt(n) \/ GoInto(n)
          PROVE  UNCHANGED <<nodes, edges, entry, queue, parent, depth, phase>>
      BY <3>3 DEF TakeRoot, LookAt, GoInto, graph, found
    <3>4. CASE Leave \/ CyclesEnd
      BY <3>1, <3>4 DEF Leave, CyclesEnd, graph, found
    <3>5. CASE Done \/ UNCHANGED vars
      BY <3>1, <3>5 DEF Done, vars, graph, found
    <3> QED BY <2>2, <3>1, <3>2, <3>3, <3>4, <3>5 DEF Next
  <2> QED BY <2>1, <2>2, OthersKeepSearch
<1> QED BY <1>1, InitSearch, PTL DEF Spec

\* When the search ends, the depths are distances from the entry
\* (graph.py:207, 1040).
THEOREM DepthsAreDistancesAlways == Spec => []DepthsAreDistances
<1>1. DistanceInv => DepthsAreDistances
  <2> SUFFICES ASSUME DistanceInv, queue = <<>>
               PROVE  /\ Closed(Reached)
                      /\ \A S \in SUBSET nodes : entry \in S /\ Closed(S) => Reached \subseteq S
                      /\ \A n \in Reached : \A m \in Succ(n) : depth[m] <= depth[n] + 1
                      /\ \A n \in Reached \ {entry} :
                           n \in Succ(parent[n]) /\ depth[n] = depth[parent[n]] + 1
    BY DEF DepthsAreDistances
  <2>1. Range(queue) = {}
    BY DEF Range
  <2> QED BY <2>1 DEF DistanceInv, SearchInv, QueueIsLevel, Closed
<1> QED BY <1>1, SearchKeepsOrder, PTL

-----------------------------------------------------------------------------
(* The paths of the search: a recursive function, so what it computes is an *)
(* induction, here by a smallest set or a least number that would refute it *)

LEMMA LeastNumber ==
  ASSUME NEW T \in SUBSET Nat, T # {}
  PROVE  \E x \in T : \A y \in T : x <= y
<1> DEFINE R == {s \in Nat \X Nat : s[1] < s[2]}
<1>1. IsWellFoundedOn(R, Nat)
  BY NatLessThanWellFounded DEF OpToRel
<1>2. \A a, b \in Nat : <<b, a>> \in R <=> b < a
  OBVIOUS
<1> HIDE DEF R
<1>3. T \subseteq Nat
  OBVIOUS
<1>4. PICK x \in T : \A y \in T : ~ (<<y, x>> \in R)
  BY <1>1, <1>3, WFMin
<1>5. ASSUME NEW y \in T PROVE x <= y
  <2>1. x \in Nat /\ y \in Nat
    OBVIOUS
  <2>2. ~(y < x)
    BY <1>2, <1>4, <2>1
  <2> QED BY <2>1, <2>2
<1> QED BY <1>5

LEMMA SmallestSet ==
  ASSUME NEW S, IsFiniteSet(S), NEW B \in SUBSET SUBSET S, B # {}
  PROVE  \E s \in B : \A x \in s : s \ {x} \notin B
<1> DEFINE R == StrictSubsetOrdering(S)
           F == FiniteSubsetsOf(S)
<1>1. IsWellFoundedOn(R, F)
  BY FS_StrictSubsetOrderingWellFounded
<1>2. B \subseteq F
  BY FS_Subset DEF FiniteSubsetsOf
<1>3. \A s \in B : \A x \in s : <<s \ {x}, s>> \in R
  BY DEF StrictSubsetOrdering
<1> HIDE DEF R, F
<1>4. PICK s \in B : \A t \in B : ~ (<<t, s>> \in R)
  BY <1>1, <1>2, WFMin
<1> QED BY <1>3, <1>4

\* p gives the screens of S their paths.
Paths(p, S) ==
  p = [n \in S |-> IF n = entry THEN <<n>> ELSE Append(p[parent[n]], n)]

\* There is such a function: of the screens it lacks, a shallowest can be added.
LEMMA PathsExist ==
  ASSUME DistanceInv
  PROVE  \E p : Paths(p, Reached)
<1> DEFINE Up(S) == \A n \in S \ {entry} : parent[n] \in S
           Rule(p, n) == IF n = entry THEN <<n>> ELSE Append(p[parent[n]], n)
           Have(S) == \E p : p = [n \in S |-> Rule(p, n)]
           B == {C \in SUBSET Reached : Up(Reached \ C) /\ Have(Reached \ C)}
<1>1. IsFiniteSet(Reached) /\ depth \in [Reached -> Nat]
      /\ \A n \in Reached \ {entry} : parent[n] \in Reached /\ depth[n] = depth[parent[n]] + 1
  BY FS_Subset DEF DistanceInv, TypeOK, SearchInv
<1>2. Have({})
  <2> DEFINE p == [n \in {} |-> 0]
  <2>1. p = [n \in {} |-> Rule(p, n)]
    OBVIOUS
  <2> QED BY <2>1
<1>3. Reached \in B
  <2>1. Reached \ Reached = {} /\ Up({})
    OBVIOUS
  <2> QED BY <1>2, <2>1
<1>4. ASSUME NEW C \in B, NEW n \in C, \A m \in C : depth[n] <= depth[m]
      PROVE  C \ {n} \in B
  <2> DEFINE S == Reached \ C
             T == Reached \ (C \ {n})
  <2>1. C \in SUBSET Reached /\ Up(S) /\ n \in Reached
    OBVIOUS
  <2>2. T = S \cup {n} /\ n \notin S
    BY <2>1
  <2>3. n # entry => parent[n] \in S
    <3> SUFFICES ASSUME n # entry, parent[n] \in C PROVE FALSE
      BY <1>1, <2>1
    <3>1. depth[n] <= depth[parent[n]] /\ depth[n] = depth[parent[n]] + 1
      BY <1>1, <1>4, <2>1
    <3>2. depth[parent[n]] \in Nat
      BY <1>1, <2>1
    <3> QED BY <3>1, <3>2
  <2>4. Up(T)
    BY <2>1, <2>2, <2>3
  <2>5. PICK p : p = [m \in S |-> Rule(p, m)]
    OBVIOUS
  <2> DEFINE q == [m \in T |-> IF m \in S THEN p[m] ELSE Rule(p, m)]
  <2> HIDE DEF S, T
  <2>6. ASSUME NEW m \in T PROVE q[m] = Rule(q, m)
    <3>1. q[m] = Rule(p, m)
      BY <2>5
    <3>2. CASE m = entry
      BY <3>1, <3>2
    <3>3. CASE m # entry
      <4>1. parent[m] \in S /\ parent[m] \in T
        BY <2>1, <2>2, <2>3, <3>3
      <4>2. q[parent[m]] = p[parent[m]]
        BY <4>1
      <4> QED BY <3>1, <3>3, <4>2
    <3> QED BY <3>2, <3>3
  <2>7. q = [m \in T |-> Rule(q, m)]
    BY <2>6
  <2>8. Have(T)
    BY <2>7
  <2> HIDE DEF Have, Up
  <2> QED BY <2>1, <2>4, <2>8 DEF T
<1>5. {} \in B
  <2> HIDE DEF B
  <2>1. B \in SUBSET SUBSET Reached
    BY DEF B
  <2>2. PICK C \in B : \A n \in C : C \ {n} \notin B
    BY <1>1, <1>3, <2>1, SmallestSet
  <2>3. ASSUME C # {} PROVE FALSE
    <3> DEFINE D == {depth[n] : n \in C}
    <3>1. D \in SUBSET Nat /\ D # {}
      BY <1>1, <2>1, <2>3
    <3>2. PICK k \in D : \A d \in D : k <= d
      BY <3>1, LeastNumber
    <3>3. PICK n \in C : depth[n] = k
      OBVIOUS
    <3>4. \A m \in C : depth[n] <= depth[m]
      BY <3>2, <3>3
    <3> QED BY <1>4, <2>2, <3>4
  <2> QED BY <2>2, <2>3
<1>6. Reached \ {} = Reached /\ Have(Reached \ {})
  BY <1>5
<1> QED BY <1>6 DEF Paths

\* A trip from the entry to n, an edge for every two screens.
Trip(path, n) ==
  /\ path \in Seq(Reached) /\ path # <<>> /\ path[1] = entry /\ path[Len(path)] = n
  /\ \A i \in 1..(Len(path) - 1) : path[i + 1] \in Succ(path[i])

LEMMA TripGoesOn ==
  ASSUME NEW m \in Reached, NEW n \in Reached, n \in Succ(m), NEW path, Trip(path, m)
  PROVE  Trip(Append(path, n), n)
<1> DEFINE k == Len(path)
           q == Append(path, n)
<1>1. /\ path \in Seq(Reached) /\ k \in Nat \ {0} /\ path[1] = entry /\ path[k] = m
      /\ \A i \in 1..(k - 1) : path[i + 1] \in Succ(path[i])
  BY DEF Trip
<1>2. /\ q \in Seq(Reached) /\ Len(q) = k + 1 /\ q[k + 1] = n
      /\ \A i \in 1..k : q[i] = path[i]
  BY <1>1, AppendProperties
<1> HIDE DEF q, k
<1>3. q # <<>> /\ q[1] = entry
  BY <1>1, <1>2
<1>4. ASSUME NEW i \in 1..k PROVE q[i + 1] \in Succ(q[i])
  <2>1. CASE i = k
    BY <1>1, <1>2, <2>1
  <2>2. CASE i # k
    <3>1. i \in 1..(k - 1) /\ i + 1 \in 1..k
      BY <1>1, <2>2
    <3> QED BY <1>1, <1>2, <3>1
  <2> QED BY <2>1, <2>2
<1>5. Len(q) - 1 = k
  BY <1>1, <1>2
<1>6. Trip(q, n)
  BY <1>2, <1>3, <1>4, <1>5 DEF Trip
<1> QED BY <1>6 DEF q

\* The path of every screen reached is such a trip.
LEMMA PathsAreTrips ==
  ASSUME DistanceInv
  PROVE  \A n \in Reached : Trip(PathTo[n], n)
<1> DEFINE p == CHOOSE f : Paths(f, Reached)
<1>1. Paths(p, Reached)
  BY PathsExist
<1>2. PathTo = p
  BY DEF PathTo, Paths
<1> HIDE DEF p
<1>3. \A n \in Reached : p[n] = IF n = entry THEN <<n>> ELSE Append(p[parent[n]], n)
  <2> DEFINE g == [n \in Reached |-> IF n = entry THEN <<n>> ELSE Append(p[parent[n]], n)]
  <2>1. p = g /\ \A n \in Reached : g[n] = IF n = entry THEN <<n>> ELSE Append(p[parent[n]], n)
    BY <1>1 DEF Paths
  <2> HIDE DEF g
  <2> QED BY <2>1
<1>4. /\ depth \in [Reached -> Nat] /\ entry \in Reached
      /\ \A n \in Reached \ {entry} :
           parent[n] \in Reached /\ n \in Succ(parent[n]) /\ depth[n] = depth[parent[n]] + 1
  BY DEF DistanceInv, SearchInv
<1> DEFINE Bad == {n \in Reached : ~Trip(p[n], n)}
<1>5. Bad = {}
  <2> SUFFICES ASSUME Bad # {} PROVE FALSE
    OBVIOUS
  <2> DEFINE D == {depth[n] : n \in Bad}
  <2>1. D \in SUBSET Nat /\ D # {}
    BY <1>4
  <2>2. PICK k \in D : \A d \in D : k <= d
    BY <2>1, LeastNumber
  <2>3. PICK n \in Bad : depth[n] = k
    OBVIOUS
  <2>4. \A m \in Bad : depth[n] <= depth[m]
    BY <2>2, <2>3
  <2>5. n # entry
    <3> SUFFICES ASSUME n = entry PROVE Trip(p[n], n)
      OBVIOUS
    <3>1. p[n] = <<n>>
      BY <1>3
    <3>2. <<n>> \in Seq(Reached) /\ Len(<<n>>) = 1 /\ <<n>>[1] = n /\ <<n>> # <<>>
      OBVIOUS
    <3> QED BY <3>1, <3>2 DEF Trip
  <2>6. /\ parent[n] \in Reached /\ n \in Succ(parent[n]) /\ depth[n] = depth[parent[n]] + 1
        /\ depth[parent[n]] \in Nat
    BY <1>4, <2>5
  <2>7. parent[n] \notin Bad
    BY <2>4, <2>6
  <2>8. Trip(Append(p[parent[n]], n), n)
    BY <2>6, <2>7, TripGoesOn
  <2> QED BY <1>3, <2>5, <2>8
<1> QED BY <1>2, <1>5

-----------------------------------------------------------------------------
(* The walks *)

\* A hop is an edge between its screens.
LEMMA HopsAreEdges ==
  ASSUME TypeOK, NEW a, NEW b, b \in Succ(a)
  PROVE  Hop(a, b) \in edges /\ Hop(a, b).src = a /\ Hop(a, b).dst = b
<1> DEFINE E == {e \in Out(a) : e.dst = b}
           L == {e.label : e \in E}
<1>1. \A e \in Out(a) : e.label \in Nat
  BY DEF TypeOK, Out, Label
<1>2. L \in SUBSET Nat /\ L # {}
  BY <1>1 DEF Succ
<1>3. PICK k \in L : \A m \in L : k <= m
  BY <1>2, LeastNumber
<1>4. PICK e \in E : e.label = k
  OBVIOUS
<1>5. e \in Out(a) /\ e.dst = b /\ \A f \in Out(a) : f.dst = b => e.label <= f.label
  BY <1>3, <1>4
<1>6. Hop(a, b) \in Out(a) /\ Hop(a, b).dst = b
  BY <1>5 DEF Hop
<1> QED BY <1>6 DEF Out

Walk(w) ==
  /\ w \in Seq(edges) /\ w # <<>> /\ w[1].src = entry /\ Range(w) \subseteq edges
  /\ \A i \in 1..(Len(w) - 1) : w[i].dst = w[i + 1].src

\* Along the path to an edge and over it is a walk.
LEMMA PathAndEdge ==
  ASSUME TypeOK, NEW e \in edges, NEW path, Trip(path, e.src)
  PROVE  Walk(Append(Hops(path), e))
<1> DEFINE k == Len(path)
           h == Hops(path)
           w == Append(h, e)
<1>1. /\ path \in Seq(Reached) /\ k \in Nat \ {0} /\ path[1] = entry /\ path[k] = e.src
      /\ \A i \in 1..(k - 1) : path[i + 1] \in Succ(path[i])
  BY DEF Trip
<1>2. h = [i \in 1..(k - 1) |-> Hop(path[i], path[i + 1])]
  BY DEF Hops
<1> HIDE DEF h, k
<1>3. \A i \in 1..(k - 1) :
        h[i] \in edges /\ h[i].src = path[i] /\ h[i].dst = path[i + 1]
  BY <1>1, <1>2, HopsAreEdges
<1>4. h \in Seq(edges) /\ Len(h) = k - 1
  <2>1. k - 1 \in Nat
    BY <1>1
  <2>2. h \in [1..(k - 1) -> edges]
    BY <1>2, <1>3
  <2> QED BY <2>1, <2>2
<1>5. /\ w \in Seq(edges) /\ Len(w) = k /\ w[k] = e
      /\ \A i \in 1..(k - 1) : w[i] = h[i]
  <2>1. /\ w \in Seq(edges) /\ Len(w) = (k - 1) + 1 /\ w[(k - 1) + 1] = e
        /\ \A i \in 1..(k - 1) : w[i] = h[i]
    BY <1>4, AppendProperties
  <2>2. (k - 1) + 1 = k
    BY <1>1
  <2> QED BY <2>1, <2>2
<1> HIDE DEF w
<1>6. w # <<>> /\ Range(w) \subseteq edges
  BY <1>1, <1>5 DEF Range
<1>7. \A i \in 1..k : w[i].src = path[i]
  <2> SUFFICES ASSUME NEW i \in 1..k PROVE w[i].src = path[i]
    OBVIOUS
  <2>1. i = k \/ i \in 1..(k - 1)
    BY <1>1
  <2> QED BY <1>1, <1>3, <1>5, <2>1
<1>8. \A i \in 1..(k - 1) : w[i].dst = w[i + 1].src
  <2> SUFFICES ASSUME NEW i \in 1..(k - 1) PROVE w[i].dst = w[i + 1].src
    OBVIOUS
  <2>1. i + 1 \in 1..k
    BY <1>1
  <2> QED BY <1>3, <1>5, <1>7, <2>1
<1>9. 1 \in 1..k
  BY <1>1
<1>10. Walk(w)
  BY <1>1, <1>5, <1>6, <1>7, <1>8, <1>9 DEF Walk
<1> QED BY <1>10 DEF w, h

\* Whatever the crawl: each walk of the cover can be played from the entry,
\* and together they take every edge that can be reached (graph.py:230).
THEOREM WalksCoverTheGraph == Spec => []WalksCover
<1>1. Init => WalksInv
  BY DEF Init, WalksInv, WalksCover
<1>2. DistanceInv /\ WalksInv /\ [Next]_vars => WalksInv'
  <2> SUFFICES ASSUME DistanceInv, WalksInv, [Next]_vars PROVE WalksInv'
    OBVIOUS
  <2>1. \A w \in walks : Walk(w)
    BY DEF WalksInv, WalksCover, Walk
  <2>2. ASSUME UNCHANGED <<entry, edges>>, \A w \in walks' : Walk(w),
               phase' = "cycles" => queue' # <<>>,
               phase' = "done" /\ queue' = <<>> => {e \in edges : e.src \in Reached'} \subseteq Covered'
        PROVE  WalksInv'
    BY <2>2 DEF WalksInv, WalksCover, Walk
  <2>3. ASSUME NEW e \in edges, Cover(e) PROVE WalksInv'
    <3>1. Trip(PathTo[e.src], e.src)
      BY <2>3, PathsAreTrips DEF Cover
    <3>2. Walk(Append(Hops(PathTo[e.src]), e))
      BY <3>1, PathAndEdge DEF DistanceInv
    <3>3. /\ UNCHANGED <<entry, edges>> /\ phase' = "cover"
          /\ walks' = walks \cup {Append(Hops(PathTo[e.src]), e)}
      BY <2>3 DEF Cover, graph
    <3> QED BY <2>1, <2>2, <3>2, <3>3
  <2>4. CASE CoverEnds
    <3>1. /\ UNCHANGED <<entry, edges, walks, queue, depth>> /\ phase' = "done"
          /\ \A e \in edges : e.src \in Reached => e \in Covered
      BY <2>4 DEF CoverEnds, graph, found, IsCovered
    <3>2. Reached' = Reached /\ Covered' = Covered
      BY <3>1 DEF Reached, Covered
    <3> QED BY <2>1, <2>2, <3>1, <3>2
  <2>5. CASE Expand \/ Searched
    <3>1. UNCHANGED <<entry, edges, walks>> /\ phase' \in {"search", "cover"}
      BY <2>5 DEF Expand, Searched, graph
    <3> QED BY <2>1, <2>2, <3>1
  <2>6. ASSUME UNCHANGED <<entry, edges, walks, queue, depth>>,
               phase' = phase \/ (phase = "cycles" /\ phase' = "done")
        PROVE  WalksInv'
    <3>1. Reached' = Reached /\ Covered' = Covered
      BY <2>6 DEF Reached, Covered
    <3> QED BY <2>1, <2>2, <2>6, <3>1 DEF WalksInv, WalksCover
  <2>7. ASSUME NEW n \in nodes, TakeRoot(n) \/ LookAt(n) \/ GoInto(n) PROVE WalksInv'
    BY <2>6, <2>7 DEF TakeRoot, LookAt, GoInto, graph, found
  <2>8. CASE Leave \/ CyclesEnd \/ Done \/ UNCHANGED vars
    BY <2>6, <2>8 DEF Leave, CyclesEnd, Done, vars, graph, found
  <2> QED BY <2>3, <2>4, <2>5, <2>7, <2>8 DEF Next
<1>3. WalksInv => WalksCover
  BY DEF WalksInv
<1> QED BY <1>1, <1>2, <1>3, SearchKeepsOrder, PTL DEF Spec

-----------------------------------------------------------------------------
(* The cycles: Tarjan's components.  The screens that are open lie between  *)
(* those under way, from each of which all behind it is reached; what is    *)
(* open and not under way leads back to a screen with a lower number.       *)

Visited == DOMAIN index
Open == Range(opened)
Finished == Visited \ Open

Underway == DOMAIN frames
At(i) == frames[i].node
UnderwayNodes == {At(i) : i \in Underway}

\* The screens an edge looked at so far leads to.
Looked(n) == {m \in Succ(n) : \A i \in Underway : At(i) = n => m \notin frames[i].left}

\* What is open from the i-th screen under way to the next.
Segment(i) == {x \in Open : /\ index[At(i)] <= index[x]
                            /\ i + 1 \in Underway => index[x] < index[At(i + 1)]}

\* The screens are numbered as they are visited, and the stacks are in that order.
Numbered ==
  /\ Visited \subseteq nodes /\ DOMAIN low = Visited
  /\ \A n \in Visited : index[n] \in Nat /\ low[n] \in Nat /\ index[n] < Cardinality(Visited)
  /\ opened \in Seq(nodes) /\ Open \subseteq Visited
  /\ \A i, j \in DOMAIN opened : i < j => index[opened[i]] < index[opened[j]]

Frame == [node : nodes, left : SUBSET nodes]

FramesAreOpen ==
  /\ frames \in Seq(Frame)
  /\ \A i \in Underway : At(i) \in Open /\ frames[i].left \subseteq Succ(At(i))
  /\ \A i, j \in Underway : i < j => index[At(i)] < index[At(j)]

\* A low mark is the number of an open screen that is led to.
LowIsLed ==
  \A x \in Open : /\ low[x] <= index[x]
                  /\ \E y \in Open : index[y] = low[x] /\ Leads(x, y)
                  /\ x \notin UnderwayNodes => low[x] < index[x]

\* No edge looked at goes below it.
LowIsLow ==
  /\ \A x \in Visited : Looked(x) \subseteq Visited
  /\ \A x \in Open : \A y \in Looked(x) \cap Open : low[x] <= index[y]
  /\ \A i \in Underway : \A x \in Segment(i) : low[At(i)] <= low[x]

UnderwayLeads == \A i \in Underway : \A x \in Open : index[At(i)] <= index[x] => Leads(At(i), x)

\* What is finished is components, and leads nowhere else.
FinishedIsApart ==
  /\ Closed(Finished) /\ UNION sccs = Finished
  /\ \A s \in sccs : \E n \in s : s = Component(n)

\* The search for cycles is right about what it has seen.
Seen ==
  /\ Numbered /\ FramesAreOpen /\ LowIsLed /\ LowIsLow /\ UnderwayLeads /\ FinishedIsApart

\* ... and has seen it all when it is done.
TarjanInv ==
  /\ Seen
  /\ phase = "cover" => queue = <<>>
  /\ phase = "done" /\ queue # <<>> => frames = <<>> /\ nodes \subseteq Visited

\* Leading to is reflexive and transitive, holds along edges, and stays in a
\* set that no edge leaves.
LEMMA LeadsOn ==
  ASSUME TypeOK
  PROVE  /\ \A n : Leads(n, n)
         /\ \A n, m, k : Leads(n, m) /\ Leads(m, k) => Leads(n, k)
         /\ \A n : \A m \in Succ(n) : Leads(n, m)
         /\ \A S \in SUBSET nodes : \A n \in S : \A m : Closed(S) /\ Leads(n, m) => m \in S
<1>1. \A n : \A m \in Succ(n) : Leads(n, m)
  BY DEF Leads, Closed
<1> QED BY <1>1 DEF Leads

\* While the graph stays what it is, so does what leads where.
LEMMA GraphStays ==
  ASSUME UNCHANGED <<nodes, edges>>
  PROVE  /\ \A n : Succ(n)' = Succ(n)
         /\ \A n, m : Leads(n, m)' <=> Leads(n, m)
         /\ \A n : Component(n)' = Component(n)
         /\ \A S : Closed(S)' <=> Closed(S)
<1>1. \A n : Succ(n)' = Succ(n)
  BY DEF Succ, Out
<1>2. \A S : Closed(S)' <=> Closed(S)
  BY <1>1 DEF Closed
<1>3. \A n, m : Leads(n, m)' <=> Leads(n, m)
  BY <1>2 DEF Leads
<1> QED BY <1>1, <1>2, <1>3 DEF Component

\* No two open screens have one number.
LEMMA NumbersDiffer ==
  ASSUME Numbered, NEW x \in Open, NEW y \in Open, index[x] = index[y]
  PROVE  x = y
<1>1. PICK i \in DOMAIN opened : x = opened[i]
  BY DEF Open, Range
<1>2. PICK j \in DOMAIN opened : y = opened[j]
  BY DEF Open, Range
<1>3. i \in Nat /\ j \in Nat /\ index[x] \in Nat /\ index[y] \in Nat
  BY DEF Numbered
<1>4. i = j \/ i < j \/ j < i
  BY <1>3
<1> QED BY <1>1, <1>2, <1>3, <1>4 DEF Numbered

\* A screen that is visited gets the next number, and is the last that is open.
LEMMA VisitNumbers ==
  ASSUME TypeOK, Numbered, NEW m \in nodes \ Visited, Visit(m), UNCHANGED <<nodes, edges>>,
         low' = [k \in DOMAIN low \cup {m} |-> IF k = m THEN Cardinality(DOMAIN index)
                                                ELSE low[k]]
  PROVE  /\ Numbered'
         /\ Visited' = Visited \cup {m} /\ Open' = Open \cup {m} /\ Finished' = Finished
         /\ index'[m] \in Nat /\ low'[m] = index'[m]
         /\ \A n \in Visited : /\ index'[n] = index[n] /\ low'[n] = low[n]
                               /\ index[n] < index'[m]
<1> DEFINE c == Cardinality(Visited)
           l == Len(opened)
<1>1. IsFiniteSet(Visited) /\ c \in Nat
  BY FS_Subset, FS_CardinalityType DEF TypeOK, Numbered
<1>2. /\ index' = [k \in Visited \cup {m} |-> IF k = m THEN c ELSE index[k]]
      /\ opened' = Append(opened, m)
  BY DEF Visit, Visited
<1>3. Visited' = Visited \cup {m} /\ Cardinality(Visited') = c + 1
  <2>1. Visited' = Visited \cup {m}
    BY <1>2 DEF Visited
  <2> QED BY <1>1, <2>1, FS_AddElement
<1>4. /\ opened' \in Seq(nodes) /\ l \in Nat /\ DOMAIN opened = 1..l /\ DOMAIN opened' = 1..(l + 1)
      /\ \A i \in 1..l : opened'[i] = opened[i]
      /\ opened'[l + 1] = m
  BY <1>2 DEF Numbered
<1> HIDE DEF c, l
<1>5. Open' = Open \cup {m}
  <2>1. \A i \in 1..(l + 1) : i \in 1..l \/ i = l + 1
    BY <1>4
  <2>2. Open' \subseteq Open \cup {m}
    BY <1>4, <2>1 DEF Open, Range
  <2>3. \A i \in 1..l : i \in 1..(l + 1)
    BY <1>4
  <2>4. l + 1 \in 1..(l + 1)
    BY <1>4
  <2>5. Open \cup {m} \subseteq Open'
    BY <1>4, <2>3, <2>4 DEF Open, Range
  <2> QED BY <2>2, <2>5
<1>6. /\ index'[m] = c
      /\ \A n \in Visited : index'[n] = index[n] /\ index[n] \in Nat /\ index[n] < c
      /\ \A n \in Visited : low'[n] = low[n] /\ low[n] \in Nat
      /\ low'[m] = c /\ DOMAIN low' = Visited'
  <2>1. DOMAIN low = Visited
    BY DEF Numbered
  <2>2. low' = [k \in Visited \cup {m} |-> IF k = m THEN c ELSE low[k]]
    BY <2>1 DEF c, Visited
  <2> QED BY <1>2, <1>3, <2>2 DEF Numbered, c
<1>7. ASSUME NEW n \in Visited'
      PROVE  index'[n] \in Nat /\ low'[n] \in Nat /\ index'[n] < Cardinality(Visited')
  <2>1. CASE n = m
    BY <1>1, <1>3, <1>6, <2>1
  <2>2. CASE n \in Visited
    <3>1. index[n] \in Nat /\ low[n] \in Nat /\ index[n] < c
      BY <1>6, <2>2
    <3> QED BY <1>1, <1>3, <1>6, <2>2, <3>1
  <2> QED BY <1>3, <1>7, <2>1, <2>2
<1>8. Open \subseteq Visited
  BY DEF Numbered
<1>9. ASSUME NEW i \in DOMAIN opened', NEW j \in DOMAIN opened', i < j
      PROVE  index'[opened'[i]] < index'[opened'[j]]
  <2>1. i \in 1..l
    BY <1>4, <1>9
  <2>2. opened[i] \in Visited
    BY <1>4, <1>8, <2>1 DEF Open, Range
  <2>3. CASE j \in 1..l
    <3>1. opened[j] \in Visited
      BY <1>4, <1>8, <2>3 DEF Open, Range
    <3>2. index[opened[i]] < index[opened[j]]
      BY <1>4, <1>9, <2>1, <2>3 DEF Numbered
    <3> QED BY <1>4, <1>6, <2>1, <2>2, <2>3, <3>1, <3>2
  <2>4. CASE j = l + 1
    BY <1>4, <1>6, <2>1, <2>2, <2>4
  <2> QED BY <1>4, <2>3, <2>4
<1>10. Numbered'
  BY <1>3, <1>4, <1>5, <1>6, <1>7, <1>8, <1>9 DEF Numbered
<1>11. Finished' = Finished
  BY <1>3, <1>5, <1>8 DEF Finished
<1> QED BY <1>1, <1>3, <1>5, <1>6, <1>10, <1>11

\* A screen visited goes on the frames with all of its edges.
LEMMA PushKeeps ==
  ASSUME TypeOK, Seen, NEW m \in nodes \ Visited, Visit(m),
         UNCHANGED <<nodes, edges, sccs>>,
         low' = [k \in DOMAIN low \cup {m} |-> IF k = m THEN Cardinality(DOMAIN index)
                                                ELSE low[k]],
         NEW d \in Nat, Underway = 1..d, Underway' = 1..(d + 1), frames' \in Seq(Frame),
         frames'[d + 1] = [node |-> m, left |-> Succ(m)],
         \A i \in 1..d : /\ At(i)' = At(i) /\ Leads(At(i), m)
                         /\ frames'[i].left \subseteq frames[i].left
                         /\ frames[i].left \subseteq frames'[i].left \cup {m}
  PROVE  Seen'
<1> USE DEF Seen
<1>1. /\ Numbered'
      /\ Visited' = Visited \cup {m} /\ Open' = Open \cup {m} /\ Finished' = Finished
      /\ index'[m] \in Nat /\ low'[m] = index'[m]
      /\ \A n \in Visited : /\ index'[n] = index[n] /\ low'[n] = low[n]
                            /\ index[n] < index'[m]
  BY VisitNumbers
<1>2. /\ Open \subseteq Visited /\ m \notin Visited
      /\ \A n \in Visited : index[n] \in Nat /\ low[n] \in Nat
  BY DEF Numbered
<1>3. /\ \A n : Succ(n)' = Succ(n)
      /\ \A n, k : Leads(n, k)' <=> Leads(n, k)
      /\ \A n : Component(n)' = Component(n)
      /\ \A S : Closed(S)' <=> Closed(S)
  BY GraphStays
<1>18. /\ Open' = Open \cup {m}
       /\ \A n \in Visited : ~(index'[m] <= index'[n]) /\ ~(index'[m] < index'[n])
       /\ ~(index'[m] < index'[m])
  <2>1. ASSUME NEW n \in Visited PROVE ~(index'[m] <= index'[n]) /\ ~(index'[m] < index'[n])
    <3>1. index'[n] = index[n] /\ index[n] < index'[m] /\ index'[m] \in Nat /\ index[n] \in Nat
      BY <1>1, <1>2
    <3> QED BY <3>1
  <2> QED BY <1>1, <2>1
<1>4. At(d + 1)' = m /\ d + 1 \in Underway' /\ \A i \in Underway' : i \in 1..d \/ i = d + 1
  BY DEF At
<1>5. \A i \in 1..d : At(i) \in Open /\ At(i) \in Visited /\ At(i) # m /\ i \in Underway'
  BY <1>2 DEF FramesAreOpen
<1>6. FramesAreOpen'
  <2>1. frames' \in Seq(Frame)'
    BY DEF Frame
  <2>2. ASSUME NEW i \in Underway'
        PROVE  At(i)' \in Open' /\ frames'[i].left \subseteq Succ(At(i))'
    <3>1. CASE i \in 1..d
      BY <1>1, <1>3, <1>5, <3>1 DEF FramesAreOpen
    <3>2. CASE i = d + 1
      BY <1>1, <1>3, <1>4, <3>2
    <3> QED BY <1>4, <3>1, <3>2
  <2>3. ASSUME NEW i \in Underway', NEW j \in Underway', i < j
        PROVE  index'[At(i)'] < index'[At(j)']
    <3>1. i \in 1..d
      BY <2>3
    <3>2. CASE j \in 1..d
      <4>1. index[At(i)] < index[At(j)]
        BY <2>3, <3>1, <3>2 DEF FramesAreOpen
      <4>2. At(i)' = At(i) /\ At(i) \in Visited /\ At(j)' = At(j) /\ At(j) \in Visited
        BY <1>5, <3>1, <3>2
      <4> QED BY <1>1, <4>1, <4>2
    <3>3. CASE j = d + 1
      <4>1. At(i)' \in Visited /\ At(j)' = m
        BY <1>4, <1>5, <3>1, <3>3
      <4> QED BY <1>1, <4>1
    <3> QED BY <1>4, <3>2, <3>3
  <2> QED BY <2>1, <2>2, <2>3 DEF FramesAreOpen
<1>7. UnderwayNodes' = UnderwayNodes \cup {m}
  BY <1>4, <1>5 DEF UnderwayNodes
<1>8. LowIsLed'
  <2>1. ASSUME NEW x \in Open'
        PROVE  /\ low'[x] <= index'[x]
               /\ \E y \in Open' : index'[y] = low'[x] /\ Leads(x, y)
               /\ x \notin UnderwayNodes' => low'[x] < index'[x]
    <3>1. CASE x = m
      <4>1. Leads(m, m)
        BY LeadsOn
      <4> QED BY <1>1, <1>7, <3>1, <4>1
    <3>2. CASE x \in Open
      <4>1. /\ low[x] <= index[x]
            /\ x \notin UnderwayNodes => low[x] < index[x]
        BY <3>2 DEF LowIsLed
      <4>2. PICK y \in Open : index[y] = low[x] /\ Leads(x, y)
        BY <3>2 DEF LowIsLed
      <4> QED BY <1>1, <1>2, <1>7, <3>2, <4>1, <4>2
    <3> QED BY <1>1, <3>1, <3>2
  <2> QED BY <1>3, <2>1 DEF LowIsLed
<1>9. Looked(m)' = {}
  <2>1. frames'[d + 1].left = Succ(m)
    OBVIOUS
  <2> QED BY <1>3, <1>4, <2>1 DEF Looked
<1>10. ASSUME NEW x \in Visited PROVE Looked(x)' \subseteq Looked(x) \cup {m}
  <2> SUFFICES ASSUME NEW y \in Looked(x)', y # m PROVE y \in Looked(x)
    OBVIOUS
  <2>1. y \in Succ(x) /\ \A i \in Underway' : At(i)' = x => y \notin frames'[i].left
    BY <1>3 DEF Looked
  <2>2. ASSUME NEW i \in Underway, At(i) = x PROVE y \notin frames[i].left
    BY <1>5, <2>1, <2>2
  <2> QED BY <2>1, <2>2 DEF Looked
<1>11. \A x \in Visited' : Looked(x)' \subseteq Visited'
  BY <1>1, <1>9, <1>10 DEF LowIsLow
<1>12. ASSUME NEW x \in Open', NEW y \in Looked(x)' \cap Open' PROVE low'[x] <= index'[y]
  <2>1. x \in Open
    BY <1>1, <1>9, <1>12
  <2>2. CASE y = m
    <3>1. low[x] <= index[x] /\ x \in Visited
      BY <1>2, <2>1 DEF LowIsLed
    <3>2. low'[x] <= index[x] /\ index[x] < index'[m]
      BY <1>1, <3>1
    <3>3. low'[x] \in Nat /\ index[x] \in Nat /\ index'[m] \in Nat
      BY <1>1, <1>2, <3>1
    <3> QED BY <2>2, <3>2, <3>3
  <2>3. CASE y # m
    <3>1. y \in Open /\ y \in Looked(x)
      BY <1>1, <1>2, <1>10, <1>12, <2>1, <2>3
    <3>2. low[x] <= index[y]
      BY <2>1, <3>1 DEF LowIsLow
    <3> QED BY <1>1, <1>2, <2>1, <3>1, <3>2
  <2> QED BY <2>2, <2>3
<1>13. ASSUME NEW i \in Underway', NEW x \in Segment(i)' PROVE low'[At(i)'] <= low'[x]
  <2>1. /\ x \in Open' /\ index'[At(i)'] <= index'[x]
        /\ i + 1 \in Underway' => index'[x] < index'[At(i + 1)']
    BY DEF Segment
  <2>2. CASE i = d + 1
    <3>1. x = m
      <4>1. index'[m] <= index'[x]
        BY <1>4, <2>1, <2>2
      <4> QED BY <1>2, <1>18, <2>1, <4>1
    <3> QED BY <1>1, <1>4, <2>2, <3>1
  <2>3. CASE i \in 1..d
    <3>1. At(i) \in Open /\ At(i)' = At(i) /\ i \in Underway
      BY <1>5, <2>3
    <3>2. i + 1 \in Underway'
      BY <2>3
    <3>3. x # m
      <4>1. i + 1 = d + 1 \/ i + 1 \in 1..d
        BY <2>3
      <4>2. At(i + 1)' \in Visited \cup {m}
        BY <1>4, <1>5, <4>1
      <4>3. index'[x] < index'[At(i + 1)']
        BY <2>1, <3>2
      <4> QED BY <1>1, <1>18, <4>2, <4>3
    <3>4. x \in Open
      BY <1>1, <2>1, <3>3
    <3>5. index[At(i)] <= index[x]
      BY <1>1, <1>2, <2>1, <3>1, <3>4
    <3>6. i + 1 \in Underway => index[x] < index[At(i + 1)]
      BY <1>1, <1>2, <1>5, <2>1, <3>2, <3>4
    <3>7. low[At(i)] <= low[x]
      BY <3>1, <3>4, <3>5, <3>6 DEF LowIsLow, Segment
    <3> QED BY <1>1, <1>2, <3>1, <3>4, <3>7
  <2> QED BY <1>4, <2>2, <2>3
<1>14. LowIsLow'
  BY <1>11, <1>12, <1>13 DEF LowIsLow
<1>15. ASSUME NEW i \in Underway', NEW x \in Open', index'[At(i)'] <= index'[x]
       PROVE  Leads(At(i)', x)
  <2>1. CASE x = m
    <3>1. Leads(m, m)
      BY LeadsOn
    <3> QED BY <1>4, <2>1, <3>1
  <2>2. CASE x \in Open
    <3>1. i \in 1..d
      <4>1. ~(index'[m] <= index'[x])
        BY <1>2, <1>18, <2>2
      <4> QED BY <1>4, <1>15, <4>1
    <3>2. index[At(i)] <= index[x]
      BY <1>1, <1>2, <1>5, <1>15, <2>2, <3>1
    <3> QED BY <2>2, <3>1, <3>2 DEF UnderwayLeads
  <2> QED BY <1>1, <2>1, <2>2
<1>16. UnderwayLeads'
  BY <1>3, <1>15 DEF UnderwayLeads
<1>17. FinishedIsApart'
  BY <1>1, <1>3 DEF FinishedIsApart
<1> QED BY <1>1, <1>6, <1>8, <1>14, <1>16, <1>17

\* The last frame, and those below it.
LEMMA FramesBelow ==
  ASSUME FramesAreOpen, frames # <<>>
  PROVE  \E d \in Nat \ {0} :
           /\ d = Len(frames) /\ Underway = 1..d /\ frames \in [1..d -> Frame]
           /\ Top = frames[d] /\ Top.node = At(d) /\ At(d) \in Open
           /\ \A i \in 1..(d - 1) : At(i) \in Open /\ index[At(i)] < index[At(d)]
<1> DEFINE d == Len(frames)
<1>1. d \in Nat \ {0} /\ Underway = 1..d /\ frames \in [1..d -> Frame]
  <2>1. frames \in Seq(Frame)
    BY DEF FramesAreOpen, Frame
  <2>2. Underway = 1..d /\ d \in Nat /\ frames \in [1..d -> Frame]
    BY <2>1 DEF Underway
  <2>3. d # 0
    BY <2>1, EmptySeq
  <2> QED BY <2>2, <2>3
<1> HIDE DEF d
<1>2. Top = frames[d] /\ Top.node = At(d)
  BY DEF Top, Last, At, d
<1>3. \A i \in 1..(d - 1) : i \in 1..d /\ i < d
  BY <1>1
<1>4. d \in 1..d
  BY <1>1
<1>5. \A i \in 1..d : At(i) \in Open
  BY <1>1 DEF FramesAreOpen
<1>6. \A i \in 1..(d - 1) : index[At(i)] < index[At(d)]
  BY <1>1, <1>3, <1>4 DEF FramesAreOpen
<1> QED BY <1>1, <1>2, <1>3, <1>4, <1>5, <1>6 DEF d

\* An edge is taken off the last frame.
EdgeOff(m) == [frames EXCEPT ![Len(frames)].left = @ \ {m}]

LEMMA EdgesLeft ==
  ASSUME frames \in Seq(Frame), NEW m
  PROVE  /\ EdgeOff(m) \in Seq(Frame) /\ Len(EdgeOff(m)) = Len(frames)
         /\ DOMAIN EdgeOff(m) = 1..Len(frames)
         /\ \A i \in 1..Len(frames) :
              /\ EdgeOff(m)[i].node = frames[i].node
              /\ EdgeOff(m)[i].left = IF i = Len(frames) THEN frames[i].left \ {m}
                                      ELSE frames[i].left
<1> DEFINE d == Len(frames)
           g == EdgeOff(m)
           h == [frames[d] EXCEPT !.left = @ \ {m}]
<1>1. d \in Nat /\ DOMAIN frames = 1..d /\ \A i \in 1..d : frames[i] \in Frame
  OBVIOUS
<1>2. ASSUME d \in 1..d
      PROVE  h \in Frame /\ h.node = frames[d].node /\ h.left = frames[d].left \ {m}
  <2>1. PICK r : r = frames[d]
    OBVIOUS
  <2>2. r \in [node : nodes, left : SUBSET nodes]
    BY <1>1, <1>2, <2>1 DEF Frame
  <2>3. /\ [r EXCEPT !.left = @ \ {m}] \in [node : nodes, left : SUBSET nodes]
        /\ [r EXCEPT !.left = @ \ {m}].node = r.node
        /\ [r EXCEPT !.left = @ \ {m}].left = r.left \ {m}
    BY <2>2
  <2> QED BY <2>1, <2>3 DEF Frame
<1>3. /\ DOMAIN g = 1..d
      /\ \A i \in 1..d : g[i] = IF i = d THEN h ELSE frames[i]
  BY <1>1 DEF EdgeOff
<1>4. g = [i \in 1..d |-> g[i]]
  BY <1>1 DEF EdgeOff
<1> HIDE DEF d, g, h
<1>5. ASSUME NEW i \in 1..d
      PROVE  /\ g[i] \in Frame /\ g[i].node = frames[i].node
             /\ g[i].left = IF i = d THEN frames[i].left \ {m} ELSE frames[i].left
  <2>1. CASE i = d
    BY <1>2, <1>3, <2>1
  <2>2. CASE i # d
    BY <1>1, <1>3, <2>2
  <2> QED BY <2>1, <2>2
<1>6. g \in Seq(Frame) /\ Len(g) = d
  <2>1. g \in [1..d -> Frame]
    BY <1>3, <1>4, <1>5
  <2> QED BY <1>1, <2>1
<1> QED BY <1>3, <1>5, <1>6 DEF d, g

\* A root is the first frame.
LEMMA RootKeeps ==
  ASSUME TypeOK, Seen, NEW n \in nodes, TakeRoot(n)
  PROVE  Seen'
<1>1. frames = <<>> /\ frames' = <<[node |-> n, left |-> Succ(n)]>>
  BY DEF TakeRoot
<1>2. [node |-> n, left |-> Succ(n)] \in Frame
  BY SuccessorsAreNodes DEF Frame
<1>3. frames' \in Seq(Frame) /\ Underway = 1..0 /\ Underway' = 1..(0 + 1)
      /\ frames'[0 + 1] = [node |-> n, left |-> Succ(n)]
  BY <1>1, <1>2 DEF Underway
<1>4. /\ n \in nodes \ Visited /\ Visit(n) /\ UNCHANGED <<nodes, edges, sccs>>
      /\ low' = [k \in DOMAIN low \cup {n} |-> IF k = n THEN Cardinality(DOMAIN index)
                                                ELSE low[k]]
  BY DEF TakeRoot, graph, Visited
<1>5. 0 \in Nat /\ \A i \in 1..0 : FALSE
  OBVIOUS
<1> HIDE DEF Seen
<1> QED BY <1>3, <1>4, <1>5, PushKeeps

\* A new screen is reached from all that is under way.
LEMMA GoIntoKeeps ==
  ASSUME TypeOK, Seen, NEW m \in nodes, GoInto(m)
  PROVE  Seen'
<1> DEFINE g == EdgeOff(m)
           f == [node |-> m, left |-> Succ(m)]
<1>1. PICK d \in Nat \ {0} :
        /\ d = Len(frames) /\ Underway = 1..d /\ frames \in [1..d -> Frame]
        /\ Top = frames[d] /\ Top.node = At(d) /\ At(d) \in Open
        /\ \A i \in 1..(d - 1) : At(i) \in Open /\ index[At(i)] < index[At(d)]
  BY FramesBelow DEF Seen, GoInto
<1>0. frames \in Seq(Frame)
  BY DEF Seen, FramesAreOpen, Frame
<1>2. /\ m \in nodes \ Visited /\ Visit(m) /\ UNCHANGED <<nodes, edges, sccs>>
      /\ low' = [k \in DOMAIN low \cup {m} |-> IF k = m THEN Cardinality(DOMAIN index)
                                                ELSE low[k]]
      /\ frames' = Append(g, f) /\ m \in Top.left
  BY DEF GoInto, graph, Visited, EdgeOff
<1>3. /\ g \in Seq(Frame) /\ Len(g) = d /\ DOMAIN g = 1..d
      /\ \A i \in 1..d : /\ g[i].node = frames[i].node
                         /\ g[i].left = IF i = d THEN frames[i].left \ {m} ELSE frames[i].left
  BY <1>1, <1>0, EdgesLeft
<1>4. f \in Frame
  BY SuccessorsAreNodes DEF Frame
<1> HIDE DEF g, f
<1>5. /\ frames' \in Seq(Frame) /\ DOMAIN frames' = 1..(d + 1) /\ frames'[d + 1] = f
      /\ \A i \in 1..d : frames'[i] = g[i]
  <2>1. frames' \in Seq(Frame) /\ Len(frames') = d + 1
    BY <1>2, <1>3, <1>4
  <2>2. \A i \in 1..d : frames'[i] = g[i]
    BY <1>2, <1>3, <1>4, AppendProperties
  <2>3. frames'[d + 1] = f
    BY <1>2, <1>3, <1>4, AppendProperties
  <2>4. DOMAIN frames' = 1..(d + 1)
    BY <1>1, <2>1
  <2> QED BY <2>1, <2>2, <2>3, <2>4
<1>6. m \in Succ(At(d))
  BY <1>1, <1>2 DEF Seen, FramesAreOpen
<1>7. ASSUME NEW i \in 1..d PROVE Leads(At(i), m)
  <2>1. Leads(At(i), At(d))
    <3>1. i = d \/ i \in 1..(d - 1)
      OBVIOUS
    <3>2. CASE i = d
      BY <3>2, LeadsOn
    <3>3. CASE i \in 1..(d - 1)
      <4>1. index[At(i)] < index[At(d)] /\ At(i) \in Open /\ At(d) \in Open
        BY <1>1, <3>3
      <4>2. index[At(i)] \in Nat /\ index[At(d)] \in Nat
        BY <4>1 DEF Seen, Numbered
      <4>3. index[At(i)] <= index[At(d)]
        BY <4>1, <4>2
      <4> QED BY <1>1, <4>1, <4>3 DEF Seen, UnderwayLeads
    <3> QED BY <3>1, <3>2, <3>3
  <2>2. Leads(At(d), m)
    BY <1>6, LeadsOn
  <2> QED BY <2>1, <2>2, LeadsOn
<1>8. \A i \in 1..d : /\ At(i)' = At(i)
                      /\ frames'[i].left \subseteq frames[i].left
                      /\ frames[i].left \subseteq frames'[i].left \cup {m}
  BY <1>3, <1>5 DEF At
<1>9. Underway' = 1..(d + 1)
  BY <1>5 DEF Underway
<1>10. /\ \A i \in 1..d : /\ At(i)' = At(i) /\ Leads(At(i), m)
                          /\ frames'[i].left \subseteq frames[i].left
                          /\ frames[i].left \subseteq frames'[i].left \cup {m}
       /\ d \in Nat /\ Underway = 1..d
       /\ frames'[d + 1] = [node |-> m, left |-> Succ(m)]
  BY <1>1, <1>5, <1>7, <1>8 DEF f
<1>11. /\ Visit(m) /\ UNCHANGED <<nodes, edges, sccs>> /\ frames' \in Seq(Frame)
       /\ low' = [k \in DOMAIN low \cup {m} |-> IF k = m THEN Cardinality(DOMAIN index)
                                                 ELSE low[k]]
  BY <1>2, <1>5
<1>12. m \in nodes \ Visited
  BY <1>2
<1> QED BY ONLY TypeOK, Seen, <1>9, <1>10, <1>11, <1>12, PushKeeps

\* An edge to a screen visited before lowers the mark of the last frame to its number,
\* if it is open.
LEMMA LookAtKeeps ==
  ASSUME TypeOK, Seen, NEW m \in nodes, LookAt(m)
  PROVE  Seen'
<1>1. PICK d \in Nat \ {0} :
        /\ d = Len(frames) /\ Underway = 1..d /\ frames \in [1..d -> Frame]
        /\ Top = frames[d] /\ Top.node = At(d) /\ At(d) \in Open
        /\ \A i \in 1..(d - 1) : At(i) \in Open /\ index[At(i)] < index[At(d)]
  BY FramesBelow DEF Seen, LookAt
<1>0. frames \in Seq(Frame)
  BY DEF Seen, FramesAreOpen, Frame
<1> DEFINE n == At(d)
<1>2. /\ m \in Visited /\ m \in frames[d].left
      /\ frames' = EdgeOff(m)
      /\ low' = IF m \in Open THEN Lower(low, n, index[m]) ELSE low
      /\ UNCHANGED <<nodes, edges, opened, index, sccs>>
  BY <1>1 DEF LookAt, StillOpen, Open, Visited, graph, EdgeOff
<1>3. /\ frames' \in Seq(Frame) /\ Len(frames') = d /\ DOMAIN frames' = 1..d
      /\ \A i \in 1..d : /\ frames'[i].node = frames[i].node
                         /\ frames'[i].left = IF i = d THEN frames[i].left \ {m}
                                              ELSE frames[i].left
  <2>1. /\ EdgeOff(m) \in Seq(Frame) /\ Len(EdgeOff(m)) = Len(frames)
        /\ DOMAIN EdgeOff(m) = 1..Len(frames)
        /\ \A i \in 1..Len(frames) :
             /\ EdgeOff(m)[i].node = frames[i].node
             /\ EdgeOff(m)[i].left = IF i = Len(frames) THEN frames[i].left \ {m}
                                     ELSE frames[i].left
    BY <1>0, EdgesLeft
  <2> QED BY <1>1, <1>2, <2>1
<1>4. /\ Underway' = Underway /\ \A i \in Underway : At(i)' = At(i)
      /\ UnderwayNodes' = UnderwayNodes
      /\ Visited' = Visited /\ Open' = Open /\ Finished' = Finished
  <2>1. Underway' = Underway /\ \A i \in Underway : At(i)' = At(i)
    BY <1>1, <1>3 DEF Underway, At
  <2>2. UnderwayNodes' = UnderwayNodes
    BY <2>1 DEF UnderwayNodes
  <2> QED BY <1>2, <2>1, <2>2 DEF Visited, Open, Finished
<1>5. /\ \A k : Succ(k)' = Succ(k)
      /\ \A k, l : Leads(k, l)' <=> Leads(k, l)
      /\ \A k : Component(k)' = Component(k)
      /\ \A S : Closed(S)' <=> Closed(S)
  BY <1>2, GraphStays
<1>6. /\ Open \subseteq Visited /\ DOMAIN low = Visited
      /\ \A k \in Visited : index[k] \in Nat /\ low[k] \in Nat
  BY DEF Seen, Numbered
<1>7. /\ DOMAIN low' = Visited /\ \A k \in Visited : k # n => low'[k] = low[k]
      /\ low'[n] = low[n] \/ (m \in Open /\ low'[n] = index[m])
      /\ low'[n] <= low[n] /\ (m \in Open => low'[n] <= index[m])
      /\ \A k \in Visited : low'[k] \in Nat /\ low'[k] <= low[k]
  <2>1. n \in Visited /\ low[n] \in Nat /\ index[m] \in Nat
    BY <1>1, <1>2, <1>6
  <2>2. CASE m \in Open /\ index[m] < low[n]
    <3>1. low' = [low EXCEPT ![n] = index[m]]
      BY <1>2, <2>2 DEF Lower
    <3>2. low'[n] = index[m] /\ DOMAIN low' = Visited /\ \A k \in Visited : k # n => low'[k] = low[k]
      BY <1>6, <2>1, <3>1
    <3>3. index[m] <= low[n] /\ index[m] <= index[m]
      BY <2>1, <2>2
    <3>4. \A k \in Visited : low'[k] \in Nat /\ low'[k] <= low[k]
      BY <1>6, <2>1, <3>2, <3>3
    <3> QED BY <2>2, <3>2, <3>3, <3>4
  <2>3. CASE ~(m \in Open /\ index[m] < low[n])
    <3>1. low' = low
      BY <1>2, <2>3 DEF Lower
    <3>2. m \in Open => low[n] <= index[m]
      BY <2>1, <2>3
    <3>3. \A k \in Visited : low[k] <= low[k]
      BY <1>6
    <3> QED BY <1>6, <2>1, <3>1, <3>2, <3>3
  <2> QED BY <2>2, <2>3
<1>8. Numbered'
  BY <1>2, <1>4, <1>6, <1>7 DEF Seen, Numbered
<1>9. FramesAreOpen'
  <2>1. ASSUME NEW i \in Underway PROVE frames'[i].left \subseteq frames[i].left
    <3>1. i \in 1..d
      BY <1>1
    <3>2. CASE i = d
      BY <1>1, <1>3, <3>1, <3>2
    <3>3. CASE i # d
      BY <1>1, <1>3, <3>1, <3>3
    <3> QED BY <3>2, <3>3
  <2> QED BY <1>2, <1>3, <1>4, <1>5, <2>1 DEF Seen, FramesAreOpen, Frame
<1>10. Leads(n, m)
  <2>1. m \in Succ(n)
    BY <1>1, <1>2 DEF Seen, FramesAreOpen
  <2> QED BY <2>1, LeadsOn
<1>11. ASSUME NEW x \in Open
       PROVE  /\ low'[x] <= index'[x]
              /\ \E y \in Open : index'[y] = low'[x] /\ Leads(x, y)
              /\ x \notin UnderwayNodes => low'[x] < index'[x]
  <2>1. /\ low[x] <= index[x] /\ index[x] \in Nat /\ low[x] \in Nat /\ low'[x] \in Nat
        /\ low'[x] <= low[x] /\ index' = index
        /\ x \notin UnderwayNodes => low[x] < index[x]
    BY <1>2, <1>6, <1>7 DEF Seen, LowIsLed
  <2>2. \E y \in Open : index[y] = low[x] /\ Leads(x, y)
    BY DEF Seen, LowIsLed
  <2>3. \E y \in Open : index[y] = low'[x] /\ Leads(x, y)
    <3>1. CASE low'[x] = low[x]
      BY <2>2, <3>1
    <3>2. CASE low'[x] # low[x]
      <4>1. x = n /\ m \in Open /\ low'[x] = index[m]
        BY <1>6, <1>7, <3>2
      <4> QED BY <1>10, <4>1
    <3> QED BY <3>1, <3>2
  <2> QED BY <2>1, <2>3
<1>12. LowIsLed'
  BY <1>4, <1>5, <1>11 DEF LowIsLed
<1>13. ASSUME NEW x PROVE Looked(x)' \subseteq IF x = n THEN Looked(x) \cup {m} ELSE Looked(x)
  <2> SUFFICES ASSUME NEW y \in Looked(x)', y # m \/ x # n PROVE y \in Looked(x)
    OBVIOUS
  <2>1. y \in Succ(x) /\ \A i \in Underway : At(i) = x => y \notin frames'[i].left
    BY <1>4, <1>5 DEF Looked
  <2>2. ASSUME NEW i \in Underway, At(i) = x PROVE y \notin frames[i].left
    BY <1>1, <1>3, <2>1, <2>2
  <2> QED BY <2>1, <2>2 DEF Looked
<1>14. \A x \in Visited : Looked(x)' \subseteq Visited
  BY <1>2, <1>13 DEF Seen, LowIsLow
<1>15. ASSUME NEW x \in Open, NEW y \in Looked(x)' \cap Open PROVE low'[x] <= index'[y]
  <2>1. /\ low'[x] <= low[x] /\ low'[x] \in Nat /\ low[x] \in Nat /\ index[y] \in Nat
        /\ index'[y] = index[y]
    BY <1>2, <1>6, <1>7
  <2>2. CASE x = n /\ y = m
    BY <1>7, <2>1, <2>2
  <2>3. CASE y \in Looked(x)
    <3>1. low[x] <= index[y]
      BY <2>3 DEF Seen, LowIsLow
    <3> QED BY <2>1, <3>1
  <2> QED BY <1>13, <1>15, <2>2, <2>3
<1>16. ASSUME NEW i \in Underway, NEW x \in Segment(i)' PROVE low'[At(i)] <= low'[x]
  <2>1. x \in Segment(i) /\ x \in Open
    BY <1>2, <1>4 DEF Segment
  <2>2. low[At(i)] <= low[x] /\ index[At(i)] <= index[x] /\ At(i) \in Open
    BY <2>1 DEF Seen, LowIsLow, Segment, FramesAreOpen
  <2>3. /\ low'[At(i)] <= low[At(i)] /\ low'[At(i)] \in Nat /\ low[At(i)] \in Nat
        /\ low'[x] \in Nat /\ low[x] \in Nat
    BY <1>6, <1>7, <2>1, <2>2
  <2>4. CASE x # n
    <3>1. low'[x] = low[x]
      BY <1>6, <1>7, <2>1, <2>4
    <3> QED BY <2>2, <2>3, <3>1
  <2>5. CASE x = n
    <3>1. i = d
      <4>1. i \in 1..d
        BY <1>1
      <4>2. i # d => i \in 1..(d - 1) /\ i + 1 \in 1..d
        BY <4>1
      <4>3. i # d => index[n] < index[At(i + 1)]
        BY <1>1, <2>1, <2>5, <4>2 DEF Segment
      <4>4. i # d => i + 1 = d \/ i + 1 \in 1..(d - 1)
        BY <4>2
      <4>5. i # d => At(i + 1) \in Open /\ (index[At(i + 1)] < index[n] \/ i + 1 = d)
        BY <1>1, <4>4
      <4>6. index[n] \in Nat /\ (i # d => index[At(i + 1)] \in Nat)
        BY <1>1, <1>6, <4>5
      <4> QED BY <4>3, <4>5, <4>6
    <3> QED BY <2>3, <2>5, <3>1
  <2> QED BY <2>4, <2>5
<1>17. LowIsLow'
  BY <1>4, <1>14, <1>15, <1>16 DEF LowIsLow
<1>18. UnderwayLeads'
  BY <1>2, <1>4, <1>5 DEF Seen, UnderwayLeads
<1>19. FinishedIsApart'
  BY <1>2, <1>4, <1>5 DEF Seen, FinishedIsApart
<1> QED BY <1>8, <1>9, <1>12, <1>17, <1>18, <1>19 DEF Seen

\* What is open from a screen on.
Above(n) == {x \in Open : index[n] <= index[x]}

\* When the last frame has no edge left and its mark is its own number, what is open
\* from there on is a component.
LEMMA LeavesAComponent ==
  ASSUME TypeOK, Seen, frames # <<>>, Top.left = {}, NEW n, n = Top.node, low[n] = index[n]
  PROVE  n \in Above(n) /\ Above(n) = Component(n) /\ Closed(Finished \cup Above(n))
<1> DEFINE S == Above(n)
<1>1. PICK d \in Nat \ {0} :
        /\ d = Len(frames) /\ Underway = 1..d /\ frames \in [1..d -> Frame]
        /\ Top = frames[d] /\ Top.node = At(d) /\ At(d) \in Open
        /\ \A i \in 1..(d - 1) : At(i) \in Open /\ index[At(i)] < index[At(d)]
  BY FramesBelow DEF Seen
<1>2. /\ Open \subseteq Visited /\ Visited \subseteq nodes
      /\ \A k \in Visited : index[k] \in Nat /\ low[k] \in Nat
  BY DEF Seen, Numbered
<1>3. n = At(d) /\ n \in Open /\ index[n] \in Nat /\ d \in Underway /\ frames[d].left = {}
  BY <1>1, <1>2
<1>4. /\ S \subseteq Open /\ n \in S
      /\ \A x \in S : index[x] \in Nat /\ low[x] \in Nat /\ index[n] <= index[x]
  BY <1>2, <1>3 DEF Above
<1>5. ASSUME NEW i \in Underway, At(i) \in S PROVE i = d
  <2>1. i = d \/ i \in 1..(d - 1)
    <3>1. i \in 1..d
      BY <1>1
    <3> QED BY <3>1
  <2>2. CASE i \in 1..(d - 1)
    <3>1. index[At(i)] < index[n] /\ index[n] <= index[At(i)] /\ index[At(i)] \in Nat
      BY <1>1, <1>3, <1>4, <1>5, <2>2
    <3> QED BY <1>3, <3>1
  <2> QED BY <2>1, <2>2
<1>6. \A x \in S : Looked(x) = Succ(x)
  BY <1>3, <1>5 DEF Looked
<1>7. \A x \in S : index[n] <= low[x]
  <2>1. d + 1 \notin Underway
    BY <1>1
  <2>2. S = Segment(d)
    BY <1>3, <2>1 DEF Above, Segment
  <2> QED BY <1>3, <2>2 DEF Seen, LowIsLow
<1>8. Closed(Finished \cup S)
  <2>1. ASSUME NEW x \in Finished PROVE Succ(x) \subseteq Finished
    BY DEF Seen, FinishedIsApart, Closed
  <2>2. ASSUME NEW x \in S, NEW m \in Succ(x) PROVE m \in Finished \cup S
    <3>1. x \in Open /\ m \in Looked(x) /\ m \in Visited
      BY <1>2, <1>4, <1>6, <2>2 DEF Seen, LowIsLow
    <3>2. CASE m \in Open
      <4>1. low[x] <= index[m]
        BY <3>1, <3>2 DEF Seen, LowIsLow
      <4>2. index[n] <= low[x] /\ low[x] \in Nat /\ index[m] \in Nat
        BY <1>2, <1>4, <1>7, <2>2, <3>1
      <4>3. index[n] <= index[m]
        BY <1>3, <4>1, <4>2
      <4> QED BY <3>2, <4>3 DEF Above
    <3>3. CASE m \notin Open
      BY <3>1, <3>3 DEF Finished
    <3> QED BY <3>2, <3>3
  <2> HIDE DEF S
  <2> QED BY <2>1, <2>2 DEF Closed
<1>9. \A x \in S : Leads(n, x)
  BY <1>3, <1>4 DEF Seen, UnderwayLeads
<1>10. \A x \in S : Leads(x, n)
  <2> DEFINE Bad == {x \in S : ~Leads(x, n)}
             V == {index[x] : x \in Bad}
  <2> SUFFICES ASSUME Bad # {} PROVE FALSE
    OBVIOUS
  <2>1. V \subseteq Nat /\ V # {}
    BY <1>4
  <2>2. PICK b \in V : \A v \in V : b <= v
    <3> HIDE DEF V
    <3> QED BY <2>1, LeastNumber
  <2>3. PICK x \in Bad : index[x] = b
    OBVIOUS
  <2>4. x \in S /\ x # n /\ x \in Open /\ x \notin UnderwayNodes
    <3>1. x \in S /\ ~Leads(x, n)
      OBVIOUS
    <3>2. x # n
      BY <3>1, LeadsOn
    <3> HIDE DEF S
    <3> QED BY <1>3, <1>4, <1>5, <3>1, <3>2 DEF UnderwayNodes
  <2>5. low[x] < index[x]
    BY <2>4 DEF Seen, LowIsLed
  <2>6. PICK y \in Open : index[y] = low[x] /\ Leads(x, y)
    BY <2>4 DEF Seen, LowIsLed
  <2>7. y \in S
    BY <1>7, <2>4, <2>6 DEF Above
  <2>8. y \notin Bad
    <3>1. index[y] < index[x] /\ index[x] \in Nat /\ index[y] \in Nat
      BY <1>4, <2>4, <2>5, <2>6, <2>7
    <3>2. ~(index[x] <= index[y])
      BY <3>1
    <3>3. y \in Bad => index[x] <= index[y]
      BY <2>2, <2>3
    <3> QED BY <3>2, <3>3
  <2>9. Leads(y, n)
    BY <2>7, <2>8
  <2>10. Leads(x, n)
    BY <2>6, <2>9, LeadsOn
  <2> QED BY <2>3, <2>10
<1>11. ASSUME NEW x \in Component(n) PROVE x \in S
  <2>1. Leads(n, x) /\ Leads(x, n)
    BY <1>11 DEF Component
  <2>2. Finished \in SUBSET nodes /\ Finished \cup S \in SUBSET nodes /\ Closed(Finished)
    BY <1>2, <1>4 DEF Finished, Seen, FinishedIsApart
  <2>3. x \in Finished \cup S
    BY <1>4, <1>8, <2>1, <2>2, LeadsOn
  <2>4. x \notin Finished
    BY <1>3, <2>1, <2>2, LeadsOn DEF Finished
  <2> QED BY <2>3, <2>4
<1>12. S \subseteq Component(n)
  BY <1>2, <1>4, <1>9, <1>10 DEF Component
<1> QED BY <1>4, <1>8, <1>11, <1>12

\* The first elements of a sequence.
LEMMA FirstOnes ==
  ASSUME NEW S, NEW s \in Seq(S), NEW b \in Nat, b <= Len(s), NEW q, q = SubSeq(s, 1, b)
  PROVE  q \in Seq(S) /\ Len(q) = b /\ DOMAIN q = 1..b /\ \A i \in 1..b : q[i] = s[i]
<1>1. \A i \in 1..b : s[i] \in S
  OBVIOUS
<1>2. 1 \in Int /\ b \in Int
  OBVIOUS
<1>3. /\ SubSeq(s, 1, b) \in Seq(S)
      /\ Len(SubSeq(s, 1, b)) = IF 1 <= b THEN b - 1 + 1 ELSE 0
      /\ \A i \in 1..(b - 1 + 1) : SubSeq(s, 1, b)[i] = s[1 + i - 1]
  BY <1>1, <1>2, SubSeqProperties
<1>4. q \in Seq(S) /\ Len(q) = b
  <2>1. b - 1 + 1 = b /\ (1 <= b \/ b = 0)
    OBVIOUS
  <2> QED BY ONLY <1>3, <2>1, q = SubSeq(s, 1, b)
<1>5. DOMAIN q = 1..b
  BY ONLY <1>4, b \in Nat
<1>6. \A i \in 1..b : q[i] = s[i]
  <2>1. \A i \in 1..b : i \in 1..(b - 1 + 1) /\ 1 + i - 1 = i
    OBVIOUS
  <2> QED BY ONLY <1>3, <2>1, q = SubSeq(s, 1, b)
<1> QED BY <1>4, <1>5, <1>6

\* Popping the open screens down to one takes those from it on, and leaves those before.
LEMMA PopsStack ==
  ASSUME Numbered, NEW n \in Open, NEW q, q = SubSeq(opened, 1, From(n) - 1)
  PROVE  /\ Range(SubSeq(opened, From(n), Len(opened))) = Above(n)
         /\ q \in Seq(nodes) /\ Range(q) = Open \ Above(n)
         /\ \A i, j \in DOMAIN q : i < j => index[q[i]] < index[q[j]]
<1> DEFINE k == From(n)
           l == Len(opened)
           r == SubSeq(opened, k, l)
<1>1. /\ opened \in Seq(nodes) /\ l \in Nat /\ DOMAIN opened = 1..l
      /\ Open \subseteq Visited /\ \A x \in Open : index[x] \in Nat
      /\ \A i, j \in 1..l : i < j => index[opened[i]] < index[opened[j]]
  BY DEF Numbered
<1>2. k \in 1..l /\ opened[k] = n
  BY <1>1 DEF From, Open, Range
<1>3. \A i \in 1..l : opened[i] \in Open
  BY <1>1 DEF Open, Range
<1> HIDE DEF k, l
<1>4. q \in Seq(nodes) /\ Len(q) = k - 1 /\ DOMAIN q = 1..(k - 1)
      /\ \A i \in 1..(k - 1) : q[i] = opened[i]
  <2>1. q = SubSeq(opened, 1, k - 1)
    BY DEF k
  <2>2. PICK b \in Nat : b = k - 1 /\ b <= l
    BY <1>1, <1>2
  <2>3. q = SubSeq(opened, 1, b) /\ b <= Len(opened)
    BY <2>1, <2>2 DEF l
  <2>4. q \in Seq(nodes) /\ Len(q) = b /\ DOMAIN q = 1..b /\ \A i \in 1..b : q[i] = opened[i]
    <3>1. opened \in Seq(nodes)
      BY <1>1
    <3> QED BY ONLY <2>3, <3>1, b \in Nat, FirstOnes
  <2> QED BY ONLY <2>2, <2>4
<1>5. DOMAIN r = 1..(l - k + 1) /\ \A i \in 1..(l - k + 1) : r[i] = opened[k + i - 1]
  BY <1>1, <1>2
<1> HIDE DEF r
<1>6. Range(r) \subseteq Above(n)
  <2> SUFFICES ASSUME NEW i \in 1..(l - k + 1) PROVE r[i] \in Above(n)
    BY <1>5 DEF Range
  <2>1. k + i - 1 \in 1..l /\ (k + i - 1 = k \/ k < k + i - 1)
    BY <1>1, <1>2
  <2>2. PICK j \in 1..l : j = k + i - 1 /\ (j = k \/ k < j)
    BY <2>1
  <2>3. index[n] <= index[opened[j]]
    <3>1. CASE j = k
      BY <1>1, <1>2, <1>3, <3>1
    <3>2. CASE k < j
      <4>1. index[n] < index[opened[j]]
        BY <1>1, <1>2, <3>2
      <4> QED BY <1>1, <1>3, <4>1
    <3> QED BY <2>2, <3>1, <3>2
  <2> QED BY <1>3, <1>5, <2>2, <2>3 DEF Above
<1>7. ASSUME NEW j \in 1..l
      PROVE  /\ j < k => index[opened[j]] < index[n] /\ opened[j] \notin Above(n)
             /\ ~(j < k) => opened[j] \in Range(r) /\ opened[j] \in Above(n)
  <2>1. CASE j < k
    <3>1. index[opened[j]] < index[n] /\ index[opened[j]] \in Nat
      BY <1>1, <1>2, <1>3, <2>1
    <3>2. ~(index[n] <= index[opened[j]])
      BY <1>1, <3>1
    <3> QED BY <2>1, <3>1, <3>2 DEF Above
  <2>2. CASE ~(j < k)
    <3>1. PICK i \in 1..(l - k + 1) : j = k + i - 1
      <4>1. j - k + 1 \in 1..(l - k + 1) /\ j = k + (j - k + 1) - 1
        BY <1>1, <1>2, <2>2
      <4> QED BY <4>1
    <3>2. opened[j] \in Range(r)
      BY <1>5, <3>1 DEF Range
    <3> QED BY <1>6, <2>2, <3>2
  <2> QED BY <2>1, <2>2
<1>8. \A x \in Open : \E j \in 1..l : x = opened[j]
  BY <1>1 DEF Open, Range
<1>9. Above(n) \subseteq Open
  BY DEF Above
<1>10. Range(r) = Above(n)
  <2>1. ASSUME NEW x \in Above(n) PROVE x \in Range(r)
    <3>1. PICK j \in 1..l : x = opened[j]
      BY <1>8, <1>9, <2>1
    <3> QED BY <1>7, <2>1, <3>1
  <2> QED BY <1>6, <2>1
<1>11. Range(q) = Open \ Above(n)
  <2>1. \A i \in 1..(k - 1) : i \in 1..l /\ i < k
    BY <1>1, <1>2
  <2>2. \A j \in 1..l : j < k => j \in 1..(k - 1)
    BY <1>1, <1>2
  <2>3. Range(q) \subseteq Open \ Above(n)
    BY <1>3, <1>4, <1>7, <2>1 DEF Range
  <2>4. Open \ Above(n) \subseteq Range(q)
    BY <1>4, <1>7, <1>8, <2>2 DEF Range
  <2> QED BY <2>3, <2>4
<1>12. \A i, j \in DOMAIN q : i < j => index[q[i]] < index[q[j]]
  <2>1. \A i \in 1..(k - 1) : i \in 1..l
    BY <1>1, <1>2
  <2> QED BY <1>1, <1>4, <2>1
<1> QED BY <1>4, <1>10, <1>11, <1>12 DEF k, l, r

\* What a finished frame leaves of the frames, the open screens and the marks.
LEMMA LeaveDoes ==
  ASSUME TypeOK, Seen, Leave, NEW d \in Nat \ {0}, d = Len(frames), Underway = 1..d,
         Top = frames[d], Top.node = At(d), At(d) \in Open,
         \A i \in 1..(d - 1) : At(i) \in Open /\ index[At(i)] < index[At(d)],
         NEW n, n = At(d)
  PROVE  /\ frames' \in Seq(Frame) /\ Underway' = 1..(d - 1)
         /\ \A i \in 1..(d - 1) : i \in 1..d /\ frames'[i] = frames[i] /\ At(i)' = At(i)
         /\ IF low[n] = index[n]
            THEN /\ Above(n) = Component(n) /\ Closed(Finished \cup Above(n))
                 /\ Open' = Open \ Above(n) /\ sccs' = sccs \cup {Above(n)}
            ELSE Open' = Open /\ sccs' = sccs
         /\ opened' \in Seq(nodes)
         /\ \A i, j \in DOMAIN opened' : i < j => index[opened'[i]] < index[opened'[j]]
<1>1. frames \in Seq(Frame) /\ frames # <<>> /\ frames' = Front(frames) /\ Top.left = {}
  BY DEF Seen, FramesAreOpen, Frame, Leave
<1>2. /\ frames' \in Seq(Frame) /\ Underway' = 1..(d - 1)
      /\ \A i \in 1..(d - 1) : frames'[i] = frames[i]
  <2>1. PICK b \in Nat : b = d - 1 /\ b <= Len(frames)
    OBVIOUS
  <2>2. frames' = SubSeq(frames, 1, b)
    BY <1>1, <2>1 DEF Front
  <2>3. /\ frames' \in Seq(Frame) /\ Len(frames') = b /\ DOMAIN frames' = 1..b
        /\ \A i \in 1..b : frames'[i] = frames[i]
    BY <1>1, <2>1, <2>2, FirstOnes
  <2> QED BY <2>1, <2>3 DEF Underway
<1>3. \A i \in 1..(d - 1) : i \in 1..d /\ frames'[i] = frames[i] /\ At(i)' = At(i)
  BY <1>2 DEF At
<1>4. CASE low[n] = index[n]
  <2>1. /\ opened' = SubSeq(opened, 1, From(n) - 1)
        /\ sccs' = sccs \cup {Range(SubSeq(opened, From(n), Len(opened)))}
    BY <1>4 DEF Leave
  <2>2. /\ Range(SubSeq(opened, From(n), Len(opened))) = Above(n)
        /\ opened' \in Seq(nodes) /\ Range(opened') = Open \ Above(n)
        /\ \A i, j \in DOMAIN opened' : i < j => index[opened'[i]] < index[opened'[j]]
    <3>1. Numbered /\ n \in Open
      BY DEF Seen
    <3> QED BY ONLY <2>1, <3>1, PopsStack
  <2>3. Above(n) = Component(n) /\ Closed(Finished \cup Above(n))
    BY <1>1, <1>4, LeavesAComponent
  <2>4. Open' = Open \ Above(n)
    BY <2>2 DEF Open
  <2> QED BY <1>2, <1>3, <1>4, <2>1, <2>2, <2>3, <2>4
<1>5. CASE low[n] # index[n]
  <2>1. opened' = opened /\ sccs' = sccs
    BY <1>5 DEF Leave
  <2>2. /\ opened \in Seq(nodes)
        /\ \A i, j \in DOMAIN opened : i < j => index[opened[i]] < index[opened[j]]
    BY DEF Seen, Numbered
  <2>3. Open' = Open
    BY <2>1 DEF Open
  <2> QED BY <1>2, <1>3, <1>5, <2>1, <2>2, <2>3
<1> QED BY <1>4, <1>5

\* The mark goes to the caller, if it is lower there.
LEMMA LeaveLowers ==
  ASSUME TypeOK, Seen, Leave, NEW d \in Nat \ {0}, d = Len(frames), Underway = 1..d,
         frames \in [1..d -> Frame],
         Top.node = At(d), At(d) \in Open, \A i \in 1..(d - 1) : At(i) \in Open,
         NEW n, n = At(d)
  PROVE  /\ DOMAIN low' = Visited
         /\ \A k \in Visited :
              /\ low'[k] \in Nat /\ low'[k] <= low[k]
              /\ low'[k] # low[k] => d - 1 \in 1..(d - 1) /\ k = At(d - 1) /\ low'[k] = low[n]
         /\ d - 1 \in 1..(d - 1) => low'[At(d - 1)] <= low[n]
<1>1. /\ Open \subseteq Visited /\ DOMAIN low = Visited
      /\ \A k \in Visited : index[k] \in Nat /\ low[k] \in Nat
  BY DEF Seen, Numbered
<1>2. n \in Visited /\ low[n] \in Nat
  BY <1>1
<1>3. \A k \in Visited : low[k] <= low[k]
  BY <1>1
<1>4. CASE d = 1
  <2>1. low' = low
    BY <1>4 DEF Leave
  <2>2. d - 1 \notin 1..(d - 1)
    BY <1>4
  <2> QED BY <1>1, <1>3, <2>1, <2>2
<1>5. CASE d # 1
  <2> DEFINE p == At(d - 1)
  <2>1. d - 1 \in 1..(d - 1) /\ d > 1
    BY <1>5
  <2>2. p \in Visited /\ low[p] \in Nat
    BY <1>1, <2>1
  <2>3. low' = Lower(low, p, low[n])
    BY <2>1 DEF Leave, At
  <2>4. CASE low[n] < low[p]
    <3>1. low' = [low EXCEPT ![p] = low[n]]
      BY <2>3, <2>4 DEF Lower
    <3>2. /\ DOMAIN low' = Visited /\ low'[p] = low[n]
          /\ \A k \in Visited : k # p => low'[k] = low[k]
      BY <1>1, <2>2, <3>1
    <3>3. low[n] <= low[p] /\ low[n] <= low[n]
      BY <1>2, <2>2, <2>4
    <3> HIDE DEF p
    <3>4. ASSUME NEW k \in Visited
          PROVE  /\ low'[k] \in Nat /\ low'[k] <= low[k]
                 /\ low'[k] # low[k] => k = p /\ low'[k] = low[n]
      <4>1. CASE k = p
        BY <1>2, <3>2, <3>3, <4>1
      <4>2. CASE k # p
        BY <1>1, <1>3, <3>2, <4>2
      <4> QED BY <4>1, <4>2
    <3> QED BY <2>1, <3>2, <3>3, <3>4 DEF p
  <2>5. CASE ~(low[n] < low[p])
    <3>1. low' = low
      BY <2>3, <2>5 DEF Lower
    <3>2. low[p] <= low[n]
      BY <1>2, <2>2, <2>5
    <3> QED BY <1>1, <1>3, <3>1, <3>2
  <2> QED BY <2>4, <2>5
<1> QED BY <1>4, <1>5

\* Leaving a screen keeps what is seen right: a component is taken off, or the mark of
\* the caller stands for what is left open above it.
LEMMA LeaveKeeps == ASSUME TypeOK, Seen, Leave PROVE Seen'
<1>1. PICK d \in Nat \ {0} :
        /\ d = Len(frames) /\ Underway = 1..d /\ frames \in [1..d -> Frame]
        /\ Top = frames[d] /\ Top.node = At(d) /\ At(d) \in Open
        /\ \A i \in 1..(d - 1) : At(i) \in Open /\ index[At(i)] < index[At(d)]
  BY FramesBelow DEF Seen, Leave
<1>2. PICK n : n = At(d)
  OBVIOUS
<1>3. /\ frames' \in Seq(Frame) /\ Underway' = 1..(d - 1)
      /\ \A i \in 1..(d - 1) : i \in 1..d /\ frames'[i] = frames[i] /\ At(i)' = At(i)
      /\ IF low[n] = index[n]
         THEN /\ Above(n) = Component(n) /\ Closed(Finished \cup Above(n))
              /\ Open' = Open \ Above(n) /\ sccs' = sccs \cup {Above(n)}
         ELSE Open' = Open /\ sccs' = sccs
      /\ opened' \in Seq(nodes)
      /\ \A i, j \in DOMAIN opened' : i < j => index[opened'[i]] < index[opened'[j]]
  BY <1>1, <1>2, LeaveDoes
<1>4. /\ DOMAIN low' = Visited
      /\ \A k \in Visited :
           /\ low'[k] \in Nat /\ low'[k] <= low[k]
           /\ low'[k] # low[k] => d - 1 \in 1..(d - 1) /\ k = At(d - 1) /\ low'[k] = low[n]
      /\ d - 1 \in 1..(d - 1) => low'[At(d - 1)] <= low[n]
  BY <1>1, <1>2, LeaveLowers
<1>5. /\ UNCHANGED <<nodes, edges, index>> /\ Visited' = Visited /\ frames[d].left = {}
  BY <1>1 DEF Leave, graph, Visited
<1>6. /\ \A k : Succ(k)' = Succ(k)
      /\ \A k, l : Leads(k, l)' <=> Leads(k, l)
      /\ \A k : Component(k)' = Component(k)
      /\ \A S : Closed(S)' <=> Closed(S)
  BY <1>5, GraphStays
<1>7. /\ Open \subseteq Visited /\ DOMAIN low = Visited
      /\ \A k \in Visited : index[k] \in Nat /\ low[k] \in Nat
      /\ n \in Open /\ Open' \subseteq Open
  BY <1>1, <1>2, <1>3 DEF Seen, Numbered
<1>8. ASSUME NEW x \in Open
      PROVE  x \in Open' <=> low[n] # index[n] \/ index[x] < index[n]
  <2>1. index[x] \in Nat /\ index[n] \in Nat
    BY <1>7
  <2>2. x \in Above(n) <=> ~(index[x] < index[n])
    BY <2>1 DEF Above
  <2> QED BY <1>3, <2>2
<1>9. \A i \in 1..(d - 1) : /\ At(i) \in Open' /\ At(i) \in Open /\ index[At(i)] < index[n]
                            /\ At(i) # n
  <2>1. ASSUME NEW i \in 1..(d - 1) PROVE index[At(i)] < index[n] /\ index[At(i)] \in Nat
    BY <1>1, <1>2, <1>7
  <2>2. ASSUME NEW i \in 1..(d - 1) PROVE At(i) # n
    <3>1. index[At(i)] < index[n] /\ index[At(i)] \in Nat
      BY <2>1
    <3>2. At(i) = n => index[n] < index[n] /\ index[n] \in Nat
      BY <3>1
    <3> QED BY <3>2
  <2> QED BY <1>1, <1>8, <2>1, <2>2
<1>10. ASSUME low[n] = index[n], NEW k \in Visited PROVE low'[k] = low[k]
  <2> SUFFICES ASSUME low'[k] # low[k] PROVE FALSE
    OBVIOUS
  <2>1. k = At(d - 1) /\ low'[k] = low[n] /\ k \in Open /\ index[k] < index[n]
    BY <1>4, <1>9, <1>10
  <2>2. low[k] <= index[k] /\ low'[k] <= low[k]
    BY <1>4, <2>1 DEF Seen, LowIsLed
  <2>3. low[k] \in Nat /\ index[k] \in Nat /\ index[n] \in Nat
    BY <1>7
  <2> QED BY <1>10, <2>1, <2>2, <2>3
<1>11. Numbered'
  <2>1. \A k \in Visited : index[k] < Cardinality(Visited)
    BY DEF Seen, Numbered
  <2>2. Visited \subseteq nodes
    BY DEF Seen, Numbered
  <2> QED BY <1>3, <1>4, <1>5, <1>7, <2>1, <2>2 DEF Numbered
<1>12. FramesAreOpen'
  <2>1. \A i \in Underway' : i \in 1..(d - 1) /\ i \in Underway
    BY <1>1, <1>3
  <2>2. \A i \in Underway' : At(i)' \in Open' /\ frames'[i].left \subseteq Succ(At(i))'
    BY <1>3, <1>6, <1>9, <2>1 DEF Seen, FramesAreOpen
  <2>3. \A i, j \in Underway' : i < j => index'[At(i)'] < index'[At(j)']
    BY <1>3, <1>5, <2>1 DEF Seen, FramesAreOpen
  <2> QED BY <1>3, <1>5, <2>2, <2>3 DEF FramesAreOpen, Frame
<1>13. \A i \in Underway : i = d \/ i \in 1..(d - 1)
  <2>1. ASSUME NEW i \in 1..d PROVE i = d \/ i \in 1..(d - 1)
    OBVIOUS
  <2> QED BY <1>1, <2>1
<1>14. UnderwayNodes \subseteq UnderwayNodes' \cup {n}
  <2> SUFFICES ASSUME NEW i \in Underway PROVE At(i) \in UnderwayNodes' \cup {n}
    BY DEF UnderwayNodes
  <2>1. CASE i = d
    BY <1>2, <2>1
  <2>2. CASE i \in 1..(d - 1)
    <3>1. i \in Underway' /\ At(i)' = At(i)
      BY <1>3, <2>2
    <3> QED BY <3>1 DEF UnderwayNodes
  <2> QED BY <1>13, <2>1, <2>2
<1>15. ASSUME NEW x \in Open'
       PROVE  /\ low'[x] <= index[x]
              /\ \E y \in Open' : index[y] = low'[x] /\ Leads(x, y)
              /\ x \notin UnderwayNodes' => low'[x] < index[x]
  <2>1. /\ x \in Open /\ x \in Visited /\ low[x] <= index[x] /\ index[x] \in Nat
        /\ low[x] \in Nat /\ low'[x] \in Nat /\ low'[x] <= low[x]
    BY <1>4, <1>7 DEF Seen, LowIsLed
  <2>2. \E y \in Open' : index[y] = low'[x] /\ Leads(x, y)
    <3>1. CASE low'[x] = low[x]
      <4>1. PICK y \in Open : index[y] = low[x] /\ Leads(x, y)
        BY <2>1 DEF Seen, LowIsLed
      <4>2. index[y] \in Nat /\ index[n] \in Nat /\ index[y] <= index[x]
        BY <1>7, <2>1, <4>1
      <4>3. low[n] # index[n] \/ index[x] < index[n]
        BY <1>8, <2>1
      <4>4. low[n] # index[n] \/ index[y] < index[n]
        BY <2>1, <4>2, <4>3
      <4>5. y \in Open'
        BY <1>8, <4>4
      <4> QED BY <3>1, <4>1, <4>5
    <3>2. CASE low'[x] # low[x]
      <4>1. low[n] # index[n]
        BY <1>10, <2>1, <3>2
      <4>2. d - 1 \in 1..(d - 1) /\ x = At(d - 1) /\ low'[x] = low[n]
        BY <1>4, <2>1, <3>2
      <4>3. PICK y \in Open : index[y] = low[n] /\ Leads(n, y)
        BY <1>7 DEF Seen, LowIsLed
      <4>4. Leads(x, n)
        <5>1. index[x] <= index[n]
          BY <1>7, <1>9, <4>2
        <5>2. d - 1 \in Underway
          BY <1>1, <1>3, <4>2
        <5> QED BY <1>7, <4>2, <5>1, <5>2 DEF Seen, UnderwayLeads
      <4> QED BY <1>8, <4>1, <4>2, <4>3, <4>4, LeadsOn
    <3> QED BY <3>1, <3>2
  <2>3. ASSUME x \notin UnderwayNodes' PROVE low'[x] < index[x]
    <3>1. CASE x = n
      <4>1. low[n] # index[n]
        <5>1. ~(index[n] < index[n])
          BY <1>7
        <5> QED BY <1>7, <1>8, <3>1, <5>1
      <4> QED BY <2>1, <3>1, <4>1
    <3>2. CASE x # n
      <4>1. x \notin UnderwayNodes
        BY <1>14, <2>3, <3>2
      <4>2. low[x] < index[x]
        BY <2>1, <4>1 DEF Seen, LowIsLed
      <4> QED BY <2>1, <4>2
    <3> QED BY <3>1, <3>2
  <2> QED BY <2>1, <2>2, <2>3
<1>16. LowIsLed'
  BY <1>5, <1>6, <1>15 DEF LowIsLed
<1>17. \A x : Looked(x)' = Looked(x)
  <2>1. \A i \in Underway' : i \in Underway /\ At(i)' = At(i) /\ frames'[i] = frames[i]
    BY <1>1, <1>3
  <2>2. \A i \in Underway : i = d \/ i \in Underway'
    BY <1>3, <1>13
  <2> QED BY <1>5, <1>6, <2>1, <2>2 DEF Looked
<1>18. \A x \in Visited' : Looked(x)' \subseteq Visited'
  BY <1>5, <1>17 DEF Seen, LowIsLow
<1>19. ASSUME NEW x \in Open', NEW y \in Looked(x)' \cap Open' PROVE low'[x] <= index'[y]
  <2>1. /\ low[x] <= index[y] /\ low'[x] <= low[x] /\ low'[x] \in Nat /\ low[x] \in Nat
        /\ index[y] \in Nat
    BY <1>4, <1>7, <1>17 DEF Seen, LowIsLow
  <2> QED BY <1>5, <2>1
<1>20. ASSUME NEW i \in Underway', NEW x \in Segment(i)' PROVE low'[At(i)] <= low'[x]
  <2>1. /\ i \in 1..(d - 1) /\ x \in Open' /\ x \in Open /\ index[At(i)] <= index[x]
        /\ i + 1 \in 1..(d - 1) => index[x] < index[At(i + 1)]
    BY <1>3, <1>5, <1>7 DEF Segment
  <2>2. /\ low'[At(i)] <= low[At(i)] /\ low'[At(i)] \in Nat /\ low[At(i)] \in Nat
        /\ low'[x] \in Nat /\ low[x] \in Nat /\ index[x] \in Nat /\ index[n] \in Nat
    BY <1>4, <1>7, <1>9, <2>1
  <2>3. i = d - 1 \/ i + 1 \in 1..(d - 1)
    BY <2>1
  <2>4. \A j \in 1..(d - 1) : index[At(j)] \in Nat /\ index[At(j)] < index[n]
    BY <1>7, <1>9
  <2>5. CASE index[x] < index[n]
    <3>1. i + 1 \in Underway => index[x] < index[At(i + 1)]
      <4>1. i + 1 = d \/ i + 1 \in 1..(d - 1)
        BY <2>3
      <4> QED BY <1>2, <2>1, <2>5, <4>1
    <3>2. i \in Underway
      BY <1>1, <1>3, <2>1
    <3>3. low[At(i)] <= low[x]
      BY <2>1, <3>1, <3>2 DEF Seen, LowIsLow, Segment
    <3>4. CASE low'[x] = low[x]
      BY <2>2, <3>3, <3>4
    <3>5. CASE low'[x] # low[x]
      <4>1. x = At(d - 1) /\ d - 1 \in 1..(d - 1)
        BY <1>4, <1>7, <2>1, <3>5
      <4>2. i = d - 1
        <5> SUFFICES ASSUME i # d - 1 PROVE FALSE
          OBVIOUS
        <5>1. i + 1 \in 1..(d - 1) /\ index[x] < index[At(i + 1)]
          BY <2>1, <2>3
        <5>2. i + 1 = d - 1 \/ i + 1 < d - 1
          BY <5>1
        <5>3. index[At(i + 1)] = index[x] \/ index[At(i + 1)] < index[x]
          <6>1. CASE i + 1 = d - 1
            BY <4>1, <6>1
          <6>2. CASE i + 1 < d - 1
            <7>1. i + 1 \in Underway /\ d - 1 \in Underway
              BY <1>1, <1>3, <4>1, <5>1
            <7> QED BY <4>1, <6>2, <7>1 DEF Seen, FramesAreOpen
          <6> QED BY <5>2, <6>1, <6>2
        <5>4. index[At(i + 1)] \in Nat
          BY <2>4, <5>1
        <5> QED BY <2>2, <5>1, <5>3, <5>4
      <4> QED BY <2>2, <4>1, <4>2
    <3> QED BY <3>4, <3>5
  <2>6. CASE ~(index[x] < index[n])
    <3>1. i = d - 1
      <4> SUFFICES ASSUME i # d - 1 PROVE FALSE
        OBVIOUS
      <4>1. i + 1 \in 1..(d - 1) /\ index[x] < index[At(i + 1)]
        BY <2>1, <2>3
      <4>2. index[At(i + 1)] < index[n] /\ index[At(i + 1)] \in Nat
        BY <2>4, <4>1
      <4> QED BY <2>2, <2>6, <4>1, <4>2
    <3>2. index[n] <= index[x]
      BY <2>2, <2>6
    <3>3. x \in Segment(d) /\ d \in Underway
      <4>1. d + 1 \notin Underway /\ d \in Underway
        BY <1>1
      <4> QED BY <1>2, <2>1, <3>2, <4>1 DEF Segment
    <3>4. low[n] <= low[x] /\ low[n] \in Nat
      BY <1>2, <1>7, <3>3 DEF Seen, LowIsLow
    <3>5. low'[x] = low[x]
      BY <1>4, <1>7, <2>1, <2>4, <2>6
    <3>6. low'[At(i)] <= low[n]
      BY <1>4, <2>1, <3>1
    <3> QED BY <2>2, <3>4, <3>5, <3>6
  <2> QED BY <2>5, <2>6
<1>21. LowIsLow'
  <2>1. \A i \in Underway' : \A x \in Segment(i)' : low'[At(i)'] <= low'[x]
    BY <1>3, <1>20
  <2> QED BY <1>18, <1>19, <2>1 DEF LowIsLow
<1>22. UnderwayLeads'
  <2>1. \A i \in Underway' : i \in 1..(d - 1) /\ i \in Underway /\ At(i)' = At(i)
    BY <1>1, <1>3
  <2> QED BY <1>5, <1>6, <1>7, <2>1 DEF Seen, UnderwayLeads
<1>23. FinishedIsApart'
  <2>1. /\ Closed(Finished) /\ UNION sccs = Finished
        /\ \A s \in sccs : \E k \in s : s = Component(k)
    BY DEF Seen, FinishedIsApart
  <2>2. CASE low[n] = index[n]
    <3>1. n \in Above(n) /\ Above(n) \subseteq Open
      BY <1>7 DEF Above
    <3>2. Finished' = Finished \cup Above(n)
      BY <1>3, <1>5, <1>7, <2>2, <3>1 DEF Finished
    <3>3. /\ sccs' = sccs \cup {Above(n)} /\ Above(n) = Component(n)
          /\ Closed(Finished \cup Above(n))
      BY <1>3, <2>2
    <3>4. UNION sccs' = Finished'
      BY <2>1, <3>2, <3>3
    <3>5. Closed(Finished)'
      BY <1>6, <3>2, <3>3 DEF Closed
    <3>6. \A s \in sccs' : \E k \in s : s = Component(k)
      BY <2>1, <3>1, <3>3
    <3> QED BY <1>6, <3>4, <3>5, <3>6 DEF FinishedIsApart
  <2>3. CASE low[n] # index[n]
    <3>1. Finished' = Finished /\ sccs' = sccs
      BY <1>3, <1>5, <2>3 DEF Finished
    <3> QED BY <1>6, <2>1, <3>1 DEF FinishedIsApart
  <2> QED BY <2>2, <2>3
<1> QED BY <1>11, <1>12, <1>16, <1>21, <1>22, <1>23 DEF Seen

\* When no screen is under way, none is open.
LEMMA AllFinished == ASSUME Seen, frames = <<>> PROVE Open = {}
<1> DEFINE V == {index[x] : x \in Open}
<1> SUFFICES ASSUME Open # {} PROVE FALSE
  OBVIOUS
<1>1. Open \subseteq Visited /\ \A k \in Visited : index[k] \in Nat
  BY DEF Seen, Numbered
<1>2. PICK b \in V : \A v \in V : b <= v
  <2>1. V \in SUBSET Nat /\ V # {}
    BY <1>1
  <2> HIDE DEF V
  <2> QED BY <2>1, LeastNumber
<1>3. PICK x \in Open : index[x] = b
  OBVIOUS
<1>4. x \notin UnderwayNodes
  BY DEF UnderwayNodes, Underway
<1>5. low[x] < index[x] /\ \E y \in Open : index[y] = low[x]
  BY <1>4 DEF Seen, LowIsLed
<1>6. PICK y \in Open : index[y] < index[x]
  BY <1>5
<1>7. index[x] <= index[y]
  BY <1>2, <1>3
<1> QED BY <1>1, <1>6, <1>7

\* Two screens of one component have the same component.
LEMMA ComponentsAreApart ==
  ASSUME TypeOK, NEW n, NEW k \in Component(n) PROVE Component(k) = Component(n)
<1>1. Leads(n, k) /\ Leads(k, n)
  BY DEF Component
<1>2. \A m : Leads(n, m) <=> Leads(k, m)
  BY <1>1, LeadsOn
<1>3. \A m : Leads(m, n) <=> Leads(m, k)
  BY <1>1, LeadsOn
<1> QED BY <1>2, <1>3 DEF Component

\* With everything visited and nothing under way, the cycles are those of the graph.
LEMMA AllCyclesSeen ==
  ASSUME TypeOK, Seen, frames = <<>>, nodes \subseteq Visited
  PROVE  Cycles = {Component(n) :
                     n \in {k \in nodes : k \in SelfLooped \/ \E m \in Component(k) : m # k}}
<1> DEFINE Cyclic == {k \in nodes : k \in SelfLooped \/ \E m \in Component(k) : m # k}
<1>1. Finished = nodes
  BY AllFinished DEF Finished, Seen, Numbered
<1>2. UNION sccs = nodes /\ \A s \in sccs : \E n \in s : s = Component(n)
  BY <1>1 DEF Seen, FinishedIsApart
<1>3. \A k \in nodes : k \in Component(k)
  BY LeadsOn DEF Component
<1>4. ASSUME NEW k \in nodes PROVE Component(k) \in sccs
  <2>1. PICK s \in sccs : k \in s
    BY <1>2
  <2>2. PICK n \in s : s = Component(n)
    BY <1>2
  <2>3. Component(k) = Component(n)
    BY <2>1, <2>2, ComponentsAreApart
  <2> QED BY <2>2, <2>3
<1>5. ASSUME NEW s \in Cycles PROVE \E n \in Cyclic : s = Component(n)
  <2>1. s \in sccs /\ (Cardinality(s) > 1 \/ s \cap SelfLooped # {})
    BY DEF Cycles
  <2>2. PICK n \in s : s = Component(n) /\ n \in nodes
    BY <1>2, <2>1
  <2>3. CASE \E m \in s : m # n
    BY <2>2, <2>3
  <2>4. CASE s \cap SelfLooped # {}
    <3>1. PICK k \in s : k \in SelfLooped
      BY <2>4
    <3>2. k \in nodes /\ Component(k) = s
      BY <1>2, <2>1, <2>2, <3>1, ComponentsAreApart
    <3> QED BY <3>1, <3>2
  <2>5. CASE s = {n}
    <3>1. Cardinality(s) = 1
      BY <2>5, FS_Singleton
    <3>2. ~(Cardinality(s) > 1)
      BY <3>1
    <3> QED BY <2>1, <2>4, <3>2
  <2> QED BY <2>3, <2>5
<1>6. ASSUME NEW n \in Cyclic PROVE Component(n) \in Cycles
  <2>1. Component(n) \in sccs /\ n \in Component(n)
    BY <1>3, <1>4
  <2>2. CASE n \in SelfLooped
    BY <2>1, <2>2 DEF Cycles
  <2>3. CASE \E m \in Component(n) : m # n
    <3>1. IsFiniteSet(Component(n))
      <4>1. Component(n) \subseteq nodes /\ IsFiniteSet(nodes)
        BY DEF Component, TypeOK
      <4> QED BY <4>1, FS_Subset
    <3>2. Cardinality(Component(n)) \in Nat
      BY <3>1, FS_CardinalityType
    <3>3. Cardinality(Component(n)) # 0
      BY <2>1, <3>1, FS_EmptySet
    <3>4. Cardinality(Component(n)) # 1
      BY <2>1, <2>3, <3>1, FS_Singleton
    <3>5. Cardinality(Component(n)) > 1
      BY <3>2, <3>3, <3>4
    <3> QED BY <2>1, <3>5 DEF Cycles
  <2> QED BY <2>2, <2>3
<1> HIDE DEF Cyclic
<1>7. Cycles = {Component(n) : n \in Cyclic}
  BY <1>5, <1>6
<1> QED BY <1>7 DEF Cyclic

\* While neither the graph nor the search for cycles moves, what is seen stays right.
LEMMA SeenStays == ASSUME Seen, UNCHANGED <<nodes, edges, tarjan>> PROVE Seen'
<1>1. UNCHANGED <<nodes, edges, frames, opened, index, low, sccs>>
  BY DEF tarjan
<1>2. /\ \A n : Succ(n)' = Succ(n)
      /\ \A n, m : Leads(n, m)' <=> Leads(n, m)
      /\ \A n : Component(n)' = Component(n)
      /\ \A S : Closed(S)' <=> Closed(S)
  BY <1>1, GraphStays
<1>3. /\ Visited' = Visited /\ Open' = Open /\ Finished' = Finished
      /\ Underway' = Underway /\ UnderwayNodes' = UnderwayNodes
  BY <1>1 DEF Visited, Open, Finished, Underway, UnderwayNodes, At
<1>4. (\A i : At(i)' = At(i)) /\ \A n : Looked(n)' = Looked(n)
  BY <1>1, <1>2, <1>3 DEF At, Looked
<1>5. \A i : Segment(i)' = Segment(i)
  BY <1>1, <1>3, <1>4 DEF Segment
<1>6. Numbered'
  BY <1>1, <1>3 DEF Seen, Numbered
<1>7. FramesAreOpen'
  BY <1>1, <1>2, <1>3, <1>4 DEF Seen, FramesAreOpen, Frame
<1>8. LowIsLed'
  BY <1>1, <1>2, <1>3 DEF Seen, LowIsLed
<1>9. LowIsLow'
  BY <1>1, <1>3, <1>4, <1>5 DEF Seen, LowIsLow
<1>10. UnderwayLeads'
  BY <1>1, <1>2, <1>3, <1>4 DEF Seen, UnderwayLeads
<1>11. FinishedIsApart'
  BY <1>1, <1>2, <1>3 DEF Seen, FinishedIsApart
<1> QED BY <1>6, <1>7, <1>8, <1>9, <1>10, <1>11 DEF Seen

LEMMA InitTarjan == Init => TarjanInv
<1> SUFFICES ASSUME Init PROVE TarjanInv
  OBVIOUS
<1>1. /\ Visited = {} /\ DOMAIN low = {} /\ opened = <<>> /\ frames = <<>> /\ sccs = {}
      /\ phase \in {"search", "cycles"}
  BY DEF Init, Visited
<1>2. Open = {} /\ Underway = {} /\ Finished = {}
  BY <1>1 DEF Open, Range, Underway, Finished
<1>3. Numbered /\ FramesAreOpen
  BY <1>1, <1>2 DEF Numbered, FramesAreOpen
<1>4. LowIsLed /\ LowIsLow /\ UnderwayLeads /\ FinishedIsApart
  BY <1>1, <1>2 DEF LowIsLed, LowIsLow, UnderwayLeads, FinishedIsApart, Closed
<1> QED BY <1>1, <1>3, <1>4 DEF TarjanInv, Seen

\* Whatever the order of roots and edges, the cycles found are the components of screens
\* that lead to each other: those of several screens, or with an edge to themselves.
THEOREM CyclesAreComponents == Spec => []CyclesAreFound
<1>1. Init => TarjanInv
  BY InitTarjan
<1>2. TypeOK /\ TarjanInv /\ [Next]_vars => TarjanInv'
  <2> SUFFICES ASSUME TypeOK, TarjanInv, [Next]_vars PROVE TarjanInv'
    OBVIOUS
  <2>1. Seen
    BY DEF TarjanInv
  <2>2. ASSUME phase = "cycles", phase' = "cycles", Seen' PROVE TarjanInv'
    BY <2>2 DEF TarjanInv
  <2>3. ASSUME NEW n \in nodes, TakeRoot(n) \/ LookAt(n) \/ GoInto(n) PROVE TarjanInv'
    <3>1. phase = "cycles" /\ phase' = "cycles"
      BY <2>3 DEF TakeRoot, LookAt, GoInto
    <3>2. Seen'
      BY <2>1, <2>3, RootKeeps, LookAtKeeps, GoIntoKeeps
    <3> QED BY <2>2, <3>1, <3>2
  <2>4. CASE Leave
    <3>1. phase = "cycles" /\ phase' = "cycles"
      BY <2>4 DEF Leave
    <3>2. Seen'
      BY <2>1, <2>4, LeaveKeeps
    <3> QED BY <2>2, <3>1, <3>2
  <2>5. ASSUME UNCHANGED <<graph, tarjan>> PROVE Seen'
    BY <2>1, <2>5, SeenStays DEF graph
  <2>6. ASSUME Expand \/ Searched \/ \E e \in edges : Cover(e) PROVE TarjanInv'
    <3>1. Seen'
      BY <2>5, <2>6 DEF Expand, Searched, Cover
    <3>2. /\ phase' # "done"
          /\ phase' = "cover" => queue' = <<>>
      BY <2>6 DEF TarjanInv, Expand, Searched, Cover, found
    <3> QED BY <3>1, <3>2 DEF TarjanInv
  <2>7. CASE CoverEnds
    <3>1. Seen'
      BY <2>5, <2>7 DEF CoverEnds
    <3>2. phase' = "done" /\ queue' = <<>>
      BY <2>7 DEF TarjanInv, CoverEnds, found
    <3> QED BY <3>1, <3>2 DEF TarjanInv
  <2>8. CASE CyclesEnd
    <3>1. Seen'
      BY <2>5, <2>8 DEF CyclesEnd
    <3>2. phase' = "done" /\ frames' = <<>> /\ (nodes \subseteq Visited)'
      BY <2>8 DEF CyclesEnd, graph, tarjan, Visited
    <3> QED BY <3>1, <3>2 DEF TarjanInv
  <2>9. CASE UNCHANGED vars
    <3>1. Seen'
      BY <2>5, <2>9 DEF vars
    <3>2. UNCHANGED <<phase, queue, frames, nodes, index>>
      BY <2>9 DEF vars, graph, found, tarjan
    <3> QED BY <3>1, <3>2 DEF TarjanInv, Visited
  <2> QED BY <2>3, <2>4, <2>6, <2>7, <2>8, <2>9 DEF Next, Done
<1>3. TypeOK /\ TarjanInv => CyclesAreFound
  BY AllCyclesSeen DEF TarjanInv, CyclesAreFound
<1>4. DistanceInv => TypeOK
  BY DEF DistanceInv
<1> QED BY <1>1, <1>2, <1>3, <1>4, SearchKeepsOrder, PTL DEF Spec
=============================================================================
