--------------------------- MODULE CrawlerProofs ---------------------------
(***************************************************************************)
(* Theorems about the walk, for any app, any device behaviour and any      *)
(* budgets: its variables keep their types; WalkInv is inductive, so the   *)
(* books of the walk hold; the crawl implements CrawlMap, so its map is    *)
(* connected; and on an app that keeps the foreground, taps and Backs hit  *)
(* the screens they were meant for, or the one a scroll has shown.         *)
(***************************************************************************)
EXTENDS TabCrawl, SequenceTheorems, FiniteSetTheorems, TLAPS

-----------------------------------------------------------------------------
(* Types *)

\* The device shows a place.
LEMMA LiveIsPlace == Live \subseteq Place
BY DEF Live, Place

\* Reading and recovering keep the device on a place.
LEMMA ReadsArePlaces ==
  ASSUME NEW p \in Place
  PROVE  Reads(p) \subseteq Place /\ Recovers(p) \subseteq Place
BY LiveIsPlace DEF Reads, Recovers, Place

\* A frame made for a place is a frame.
LEMMA NewFrameType ==
  ASSUME NEW p \in Place, NEW todo \in SUBSET Element
  PROVE  NewFrame(p, todo) \in Frames
BY DEF NewFrame, Frames

(***************************************************************************)
(* What the helpers on the stack return.                                   *)
(***************************************************************************)
LEMMA StackType ==
  ASSUME stack \in Seq(Frames), stack # <<>>
  PROVE  /\ Len(stack) \in Nat \ {0}
         /\ Top \in Frames /\ Frame \in Frames
         /\ Rest \in Seq(Frames) /\ Len(Rest) = Len(stack) - 1
         /\ \A i \in 1..Len(Rest) : Rest[i] = stack[i]
         /\ \A f \in Frames :
              /\ WithTop(f) \in Seq(Frames) /\ Len(WithTop(f)) = Len(stack)
              /\ \A i \in 1..Len(stack) :
                    WithTop(f)[i] = IF i = Len(stack) THEN f ELSE stack[i]
<1>1. Len(stack) \in Nat \ {0}
  BY EmptySeq, LenProperties
<1>2. Top \in Frames
  BY <1>1, ElementOfSeq DEF Top
<1>3. Frame \in Frames
  BY <1>2 DEF Frame, Frames
<1>4. /\ Rest \in Seq(Frames) /\ Len(Rest) = Len(stack) - 1
      /\ \A i \in 1..Len(Rest) : Rest[i] = stack[i]
  <2> DEFINE n == Len(stack) - 1
  <2>1. n \in Int /\ 1 \in Int /\ \A i \in 1..n : stack[i] \in Frames
    BY <1>1, ElementOfSeq
  <2>2. /\ Rest \in Seq(Frames)
        /\ Len(Rest) = IF 1 <= n THEN n - 1 + 1 ELSE 0
        /\ \A i \in 1..n - 1 + 1 : Rest[i] = stack[1 + i - 1]
    BY <2>1, SubSeqProperties DEF Rest
  <2>3. n \in Nat
    BY <1>1
  <2> HIDE DEF n
  <2>4. Len(Rest) = n
    BY <2>2, <2>3
  <2>5. ASSUME NEW i \in 1..n PROVE Rest[i] = stack[i]
    BY <2>2, <2>3
  <2> QED
    BY <2>2, <2>4, <2>5 DEF n
<1>5. ASSUME NEW f \in Frames
      PROVE  /\ WithTop(f) \in Seq(Frames) /\ Len(WithTop(f)) = Len(stack)
             /\ \A i \in 1..Len(stack) :
                   WithTop(f)[i] = IF i = Len(stack) THEN f ELSE stack[i]
  BY <1>1, ExceptSeq, LenProperties DEF WithTop
<1> QED
  BY <1>1, <1>2, <1>3, <1>4, <1>5

LEMMA MarkedType ==
  ASSUME NEW s \in Seq(Frames), NEW q
  PROVE  /\ Marked(s, q) \in Seq(Frames) /\ Len(Marked(s, q)) = Len(s)
         /\ \A i \in 1..Len(s) : /\ Marked(s, q)[i].fp = s[i].fp
                                /\ Marked(s, q)[i].todo = s[i].todo
                                /\ Marked(s, q)[i].seen = s[i].seen
<1>1. CASE s = <<>>
  BY <1>1 DEF Marked
<1>2. CASE s # <<>>
  <2> DEFINE f == Back(s[Len(s)], s[Len(s)].fp = q)
  <2>1. Len(s) \in Nat \ {0}
    BY <1>2, EmptySeq, LenProperties
  <2>2. s[Len(s)] \in Frames
    BY <2>1, ElementOfSeq
  <2>3. f \in Frames /\ f.fp = s[Len(s)].fp
        /\ f.todo = s[Len(s)].todo /\ f.seen = s[Len(s)].seen
    BY <2>2 DEF Frames, Back
  <2>4. Marked(s, q) = [s EXCEPT ![Len(s)] = f]
    BY <1>2 DEF Marked
  <2> QED
    BY <2>1, <2>3, <2>4, ExceptSeq, LenProperties
<1> QED
  BY <1>1, <1>2

\* Recording keeps the type of the map.
LEMMA RecordType ==
  ASSUME TypeOK, NEW p \in Place, NEW q \in Place,
         NEW k \in {"tap", "gate", "probe"}, Record(p, q, k)
  PROVE  edges' \subseteq Edge
BY DEF TypeOK, Record, Edge

(***************************************************************************)
(* In the loop the top of the stack is a frame, its parent too when there  *)
(* is one, and the budget's memory keeps its type.                         *)
(***************************************************************************)
LEMMA ReadyType ==
  ASSUME TypeOK, Ready \/ Leaving
  PROVE  /\ stack \in Seq(Frames) /\ stack # <<>>
         /\ counted' \subseteq Place /\ anchor' \in Nat
         /\ Top \in Frames /\ Frame \in Frames
         /\ Frame.fp = Top.fp /\ Top.fp \in Place /\ Top.todo \subseteq Element
         /\ Rest # <<>> => Parent \in Place
<1>1. stack \in Seq(Frames) /\ stack # <<>>
  BY DEF TypeOK, Ready, Leaving
<1>2. counted' \subseteq Place /\ anchor' \in Nat
  BY DEF TypeOK, Ready, Anchor, Leaving, budget
<1>3. Top \in Frames /\ Frame \in Frames
  BY <1>1, StackType
<1>4. Frame.fp = Top.fp /\ Top.fp \in Place /\ Top.todo \subseteq Element
  BY <1>3 DEF Frame, Frames
<1>5. ASSUME Rest # <<>> PROVE Parent \in Place
  <2>1. Len(stack) \in Nat \ {0} /\ Rest \in Seq(Frames)
        /\ Len(Rest) = Len(stack) - 1
    BY <1>1, StackType
  <2>2. Len(Rest) \in Nat \ {0}
    BY <1>5, <2>1, EmptySeq
  <2>3. Len(stack) - 1 \in 1..Len(stack)
    BY <2>1, <2>2
  <2>4. stack[Len(stack) - 1] \in Frames
    BY <1>1, <2>3, ElementOfSeq
  <2> QED
    BY <2>4 DEF Parent, Frames
<1> QED
  BY <1>1, <1>2, <1>3, <1>4, <1>5

\* A control leaving its queue leaves a frame, and so does a scroll.
LEMMA WithoutType ==
  ASSUME TypeOK, Ready, NEW e \in Element
  PROVE  \A f \in {Without(e), Tapped(e)} :
           /\ f \in Frames /\ f.fp = Top.fp /\ f.seen = Top.seen
           /\ f.todo = Top.todo \ {e} /\ WithTop(f) \in Seq(Frames)
<1>1. /\ Frame \in Frames /\ Frame.fp = Top.fp /\ Frame.seen = Top.seen
      /\ Frame.todo = Top.todo /\ stack \in Seq(Frames) /\ stack # <<>>
  BY ReadyType DEF Frame, Frames
<1>2. /\ Without(e) \in Frames /\ Without(e).fp = Top.fp /\ Without(e).seen = Top.seen
      /\ Without(e).todo = Top.todo \ {e}
  BY <1>1 DEF Without, Frames
<1>3. /\ Tapped(e) \in Frames /\ Tapped(e).fp = Top.fp /\ Tapped(e).seen = Top.seen
      /\ Tapped(e).todo = Top.todo \ {e}
  BY <1>2 DEF Tapped, Frames
<1> QED
  BY <1>1, <1>2, <1>3, StackType

LEMMA ScrolledType ==
  ASSUME TypeOK, Ready
  PROVE  /\ Scrolled \in Frames /\ Scrolled.fp = Top.fp /\ Scrolled.seen = Top.seen
         /\ Scrolled.todo = Top.todo /\ WithTop(Scrolled) \in Seq(Frames)
<1>1. stack \in Seq(Frames) /\ stack # <<>>
  BY ReadyType
<1>2. /\ Frame \in Frames /\ Frame.fp = Top.fp /\ Frame.seen = Top.seen
      /\ Frame.todo = Top.todo
  BY ReadyType DEF Frame, Frames
<1>3. Frame.scrolls + 1 \in Nat
  BY <1>2 DEF Frames
<1>4. /\ Scrolled \in Frames /\ Scrolled.fp = Top.fp /\ Scrolled.seen = Top.seen
      /\ Scrolled.todo = Top.todo
  BY <1>2, <1>3 DEF Scrolled, Frames
<1> QED
  BY <1>1, <1>4, StackType

\* A refill leaves the top frame the frame of its screen, and brings parked
\* work or what it has not seen.
LEMMA RefillFrame ==
  ASSUME TypeOK, Refill
  PROVE  \E f \in Frames : /\ f.fp = Top.fp /\ stack' = WithTop(f)
                           /\ Top.seen \subseteq f.seen
                           /\ f.todo \cap Top.seen \subseteq pending[Top.fp]
<1>1. Ready
  BY DEF Refill
<1>2. Frame \in Frames /\ Frame.fp = Top.fp /\ Top \in Frames /\ Frame.seen = Top.seen
  BY <1>1, ReadyType DEF Frame, Frames
<1>3. CASE pending[Top.fp] # {}
  <2> DEFINE f == [Frame EXCEPT !.todo = pending[Top.fp]]
  <2>1. pending[Top.fp] \in SUBSET Element
    BY <1>1, ReadyType DEF TypeOK
  <2>2. f \in Frames /\ f.fp = Top.fp /\ f.seen = Top.seen /\ f.todo = pending[Top.fp]
    BY <1>2, <2>1 DEF Frames
  <2>3. stack' = WithTop(f)
    BY <1>3 DEF Refill
  <2> QED
    BY <2>2, <2>3
<1>4. CASE pending[Top.fp] = {}
  <2> DEFINE low == Lower[screen']
             f == [Scrolled EXCEPT !.todo = low \ Top.seen, !.seen = @ \cup low,
                                   !.money = @ \/ screen' \in MoneyLower]
  <2>1. low \subseteq Element
    BY <1>4, LiveIsPlace, ControlsAreKnown DEF Refill
  <2>2. Scrolled \in Frames /\ Scrolled.fp = Top.fp /\ Scrolled.seen = Top.seen
    BY <1>1, ScrolledType
  <2>4. stack' = WithTop(f)
    BY <1>4 DEF Refill
  <2> HIDE DEF low
  <2>3. /\ f \in Frames /\ f.fp = Top.fp /\ f.todo = low \ Top.seen
        /\ f.seen = Top.seen \cup low
    BY <2>1, <2>2 DEF Frames
  <2> HIDE DEF f
  <2> QED
    BY <2>3, <2>4
<1> QED
  BY <1>3, <1>4

\* Finishing a frame leaves the loop's turn with the stack's rest, marked.
LEMMA FinishDrops ==
  ASSUME Finish
  PROVE  /\ Ready \/ Leaving
         /\ phase' = "loop" /\ stack' = Marked(Rest, screen')
BY DEF Finish, NothingLeft

\* Outside the fields a tap may change, all types are kept.
LEMMA TapType ==
  ASSUME TypeOK, NEW e \in Element, Tap(e)
  PROVE  /\ stack' \in Seq(Frames) /\ steps' \in Nat
         /\ counted' \subseteq Place /\ anchor' \in Nat
         /\ Top.fp \in Place
<1>1. Ready /\ stack' = WithTop(Tapped(e)) /\ steps' = steps + 1
  BY DEF Tap
<1>2. steps' \in Nat
  BY <1>1 DEF TypeOK
<1> QED
  BY <1>1, <1>2, ReadyType, WithoutType

-----------------------------------------------------------------------------
(***************************************************************************)
(* Every step of the crawl keeps the types.                                *)
(***************************************************************************)
LEMMA TypeStep ==
  ASSUME TypeOK, [Next]_vars
  PROVE  TypeOK'
<1> USE DEF result, gating, budget
<1>1. CASE GiveUp
  BY <1>1, LiveIsPlace DEF GiveUp, TypeOK, Phase
<1>2. CASE ReadEntry
  <2>1. PICK q \in Place : screen' \in Reads(q)
    BY <1>2, ReadsArePlaces, LiveIsPlace DEF ReadEntry, TypeOK
  <2>2. screen' \in Place
    BY <2>1, ReadsArePlaces
  <2>3. /\ phase' \in Phase /\ {entry', new', gate'} \subseteq Place /\ chain' \in Nat
        /\ mapped' \subseteq Place
    BY <1>2, <2>2 DEF ReadEntry, Phase
  <2> QED
    BY <1>2, <2>2, <2>3 DEF ReadEntry, TypeOK
<1>3. CASE FireWaypoint
  <2>1. screen' \in Place /\ phase' \in Phase /\ gate' \in Place
    BY <1>3, LiveIsPlace DEF FireWaypoint, TypeOK, Phase
  <2>2. fires' \in [Place -> Nat] /\ chain' \in Nat /\ passed' \in BOOLEAN
    BY <1>3 DEF FireWaypoint, TypeOK
  <2>3. UNCHANGED <<stack, pending, new, entry, mapped, edges, gated, backs, findings, probed,
                    steps, counted, anchor>>
    BY <1>3 DEF FireWaypoint
  <2> QED
    BY <2>1, <2>2, <2>3 DEF TypeOK
<1>4. CASE StopAtGate
  BY <1>4 DEF StopAtGate, TypeOK, Phase
<1>5. CASE CrossEntryGate
  BY <1>5 DEF CrossEntryGate, TypeOK, Phase, Chart, NoteScreen, Record, Edge
<1>6. CASE CrossGate
  <2>1. screen' \in Place /\ phase' \in Phase
    BY <1>6, ReadsArePlaces DEF CrossGate, TypeOK, Phase
  <2>2. new' \in Place /\ mapped' \subseteq Place /\ edges' \subseteq Edge
    BY <1>6, <2>1, RecordType DEF CrossGate, TypeOK, Chart
  <2> QED
    BY <1>6, <2>1, <2>2 DEF CrossGate, TypeOK
<1>7. CASE SkipProbe
  BY <1>7 DEF SkipProbe, TypeOK, Phase
<1>8. CASE ProbeNothing
  BY <1>8 DEF ProbeNothing, TypeOK, Phase
<1>9. CASE ProbeStrays
  BY <1>9, LiveIsPlace, ReadsArePlaces DEF ProbeStrays, TypeOK, Phase, Place
<1>10. CASE ProbeRaises
  BY <1>10, LiveIsPlace DEF ProbeRaises, TypeOK, Phase
<1>11. CASE ProbeRejected
  <2>1. edges' \subseteq Edge
    BY <1>11, RecordType DEF ProbeRejected, TypeOK
  <2> QED
    BY <1>11, <2>1 DEF ProbeRejected, TypeOK, Phase
<1>12. CASE ProbeAdvances
  <2>1. PICK p \in Live : Record(new, p, "probe") /\ Chart(p) /\ NoteScreen(p)
    BY <1>12 DEF ProbeAdvances
  <2>2. p \in Place /\ new \in Place
    BY LiveIsPlace DEF TypeOK
  <2>3. edges' \subseteq Edge
    BY <2>1, <2>2, RecordType
  <2>4. mapped' \subseteq Place /\ gated' \subseteq Place
    BY <2>1, <2>2 DEF Chart, NoteScreen, TypeOK
  <2>5. /\ screen' \in Place /\ phase' \in Phase
        /\ probed' \subseteq Place /\ steps' \in Nat
    BY <1>12, LiveIsPlace DEF ProbeAdvances, GoBack, AfterProbe, TypeOK, Phase
  <2> QED
    BY <1>12, <2>3, <2>4, <2>5 DEF ProbeAdvances, TypeOK
<1>13. CASE FillValid
  BY <1>13, LiveIsPlace DEF FillValid, TypeOK, Phase
<1>14. CASE PushFrame
  <2>1. Shown[new] \cup pending[new] \in SUBSET Element
    BY ControlsAreKnown DEF TypeOK
  <2>2. stack' \in Seq(Frames)
    BY <1>14, <2>1, NewFrameType, AppendProperties DEF PushFrame, TypeOK
  <2> QED
    BY <1>14, <2>2 DEF PushFrame, TypeOK, Phase
<1>15. CASE Abandon
  <2>1. Ready /\ Park /\ stack' = Marked(Rest, screen')
    BY <1>15 DEF Abandon
  <2>2. stack' \in Seq(Frames)
    BY <2>1, ReadyType, StackType, MarkedType
  <2>3. pending' \in [Place -> SUBSET Element]
    BY <2>1, ReadyType DEF Park, TypeOK
  <2>4. screen' \in Place /\ steps' \in Nat
    BY <1>15, LiveIsPlace DEF Abandon, GoBack, TypeOK
  <2> QED
    BY <1>15, <2>1, <2>2, <2>3, <2>4, ReadyType DEF Abandon, TypeOK
<1>16. CASE Refill
  <2>1. Ready
    BY <1>16 DEF Refill
  <2>2. PICK f \in Frames : stack' = WithTop(f)
    BY <1>16, RefillFrame
  <2>3. stack' \in Seq(Frames)
    BY <2>1, <2>2, ReadyType, StackType
  <2>4. counted' \subseteq Place /\ anchor' \in Nat
    BY <2>1, ReadyType
  <2>5. /\ pending' \in [Place -> SUBSET Element] /\ steps' \in Nat
        /\ screen' \in Place /\ UNCHANGED <<phase, new, result, gating, probed>>
    BY <1>16, LiveIsPlace DEF Refill, TypeOK
  <2> QED
    BY <2>3, <2>4, <2>5 DEF TypeOK
<1>17. CASE Finish
  <2>1. (Ready \/ Leaving) /\ phase' = "loop" /\ stack' = Marked(Rest, screen')
    BY <1>17, FinishDrops
  <2>2. stack' \in Seq(Frames)
    BY <2>1, ReadyType, StackType, MarkedType
  <2>3. screen' \in Place /\ steps' \in Nat
    BY <1>17, LiveIsPlace DEF Finish, GoBack, TypeOK
  <2>4. backs' \subseteq Place \X Place
    <3>1. CASE backs' = backs
      BY <3>1 DEF TypeOK
    <3>2. CASE backs' # backs
      <4>1. PICK plain \in BOOLEAN : NoteBack(Top.fp, Parent, plain)
        BY <1>17, <3>2 DEF Finish
      <4>2. backs' \subseteq backs \cup {<<Top.fp, Parent>>}
        BY <4>1 DEF NoteBack
      <4>3. Top.fp \in Place /\ Parent \in Place
        BY <1>17, <2>1, <3>2, ReadyType DEF Finish
      <4> QED
        BY <4>2, <4>3 DEF TypeOK
    <3> QED
      BY <3>1, <3>2
  <2>5. /\ counted' \subseteq Place /\ anchor' \in Nat
        /\ UNCHANGED <<pending, new, entry, mapped, edges, gated, findings, gating, probed>>
    BY <1>17, <2>1, ReadyType DEF Finish
  <2> QED
    BY <2>1, <2>2, <2>3, <2>4, <2>5 DEF TypeOK, Phase
<1>18. CASE SkipBlocked
  <2>1. PICK e \in Element : Ready /\ stack' = WithTop(Without(e))
    BY <1>18, ReadyType DEF SkipBlocked
  <2>2. stack' \in Seq(Frames)
    BY <2>1, WithoutType
  <2> QED
    BY <1>18, <2>1, <2>2, ReadyType DEF SkipBlocked, TypeOK
<1>19. CASE TapControl
  <2>1. ASSUME NEW e \in Element, TapLeavesApp(e) PROVE TypeOK'
    <3>1. Tap(e)
      BY <2>1 DEF TapLeavesApp
    <3>2. screen' \in Place
      BY <2>1, LiveIsPlace, ReadsArePlaces DEF TapLeavesApp, Place
    <3>3. findings' \subseteq Finding
      BY <2>1, <3>1, TapType DEF TapLeavesApp, TypeOK, Finding, Place
    <3> QED
      BY <2>1, <3>1, <3>2, <3>3, TapType DEF TapLeavesApp, TypeOK
  <2>2. ASSUME NEW e \in Element, TapUnread(e) PROVE TypeOK'
    BY <2>2, TapType DEF TapUnread, TypeOK, Place
  <2>3. ASSUME NEW e \in Element, TapStays(e) PROVE TypeOK'
    BY <2>3, TapType, RecordType DEF TapStays, TypeOK
  <2>4. ASSUME NEW e \in Element, TapNavigates(e) PROVE TypeOK'
    <3>1. Tap(e) /\ Record(Top.fp, screen', "tap")
      BY <2>4 DEF TapNavigates
    <3>2. screen' \in Place
      BY <2>4, ReadsArePlaces DEF TapNavigates, Place
    <3>3. edges' \subseteq Edge
      BY <3>1, <3>2, TapType, RecordType
    <3>4. /\ stack' \in Seq(Frames) /\ steps' \in Nat
          /\ counted' \subseteq Place /\ anchor' \in Nat
          /\ Top.fp \in Place
      BY <3>1, TapType
    <3>5. findings' \subseteq Finding
      BY <2>4, <3>2, <3>4 DEF TapNavigates, TypeOK, Finding
    <3> QED
      <4>1. /\ phase' \in Phase /\ chain' \in Nat
            /\ UNCHANGED <<pending, entry, mapped, gated, backs, fires, passed, probed>>
            /\ new' = screen' /\ gate' = screen'
        BY <2>4 DEF TapNavigates, TypeOK, Phase
      <4> QED
        BY <3>2, <3>3, <3>4, <3>5, <4>1 DEF TypeOK
  <2> QED
    BY <1>19, <2>1, <2>2, <2>3, <2>4 DEF TapControl
<1>20. CASE Stop
  BY <1>20 DEF Stop, TypeOK, Phase
<1>21. CASE ChartScreen
  BY <1>21 DEF ChartScreen, TypeOK, Phase, Chart, NoteScreen
<1>22. CASE ChartTerminal
  <2>1. screen' \in Place
    BY <1>22, LiveIsPlace DEF ChartTerminal, GoBack
  <2>2. stack' \in Seq(Frames)
    BY <1>22, MarkedType DEF ChartTerminal, TypeOK
  <2>3. mapped' \subseteq Place /\ gated' \subseteq Place
    BY <1>22 DEF ChartTerminal, Chart, NoteScreen, TypeOK
  <2>4. phase' \in Phase /\ steps' \in Nat
    BY <1>22 DEF ChartTerminal, TypeOK, Phase
  <2> QED
    BY <1>22, <2>1, <2>2, <2>3, <2>4 DEF ChartTerminal, TypeOK
<1>23. CASE Resume
  <2>1. stack' \in Seq(Frames)
    BY <1>23, NewFrameType, AppendProperties DEF Resume, TypeOK
  <2> QED
    BY <1>23, <2>1 DEF Resume, TypeOK, Phase
<1>24. CASE ReturnToParent
  <2>1. PICK q \in Live, plain \in BOOLEAN :
          GoBack(Top.fp, q, plain) /\ NoteBack(new, Top.fp, plain)
    BY <1>24 DEF ReturnToParent
  <2>2. screen' \in Place
    BY <2>1, LiveIsPlace DEF GoBack
  <2>3. stack' \in Seq(Frames)
    BY <1>24, MarkedType DEF ReturnToParent, TypeOK
  <2>4. backs' \subseteq Place \X Place
    BY <2>1, LiveIsPlace DEF GoBack, NoteBack, TypeOK
  <2> QED
    BY <1>24, <2>2, <2>3, <2>4 DEF ReturnToParent, TypeOK, Phase
<1>25. CASE DriverError
  BY <1>25 DEF DriverError, TypeOK, Phase
<1>26. CASE UNCHANGED vars
  BY <1>26 DEF vars, TypeOK
<1>27. CASE ScrollInVain
  <2>1. Ready /\ stack' = WithTop(Scrolled)
    BY <1>27 DEF ScrollInVain
  <2>2. stack' \in Seq(Frames) /\ counted' \subseteq Place /\ anchor' \in Nat
    BY <2>1, ReadyType, ScrolledType
  <2>3. phase' \in Phase /\ screen' \in Place /\ steps' \in Nat
    BY <1>27, LiveIsPlace DEF ScrollInVain, TypeOK, Phase
  <2>4. UNCHANGED <<pending, new, result, gating, probed>>
    BY <1>27 DEF ScrollInVain
  <2> QED
    BY <2>2, <2>3, <2>4 DEF TypeOK
<1> QED
  BY <1>27, <1>1, <1>2, <1>3, <1>4, <1>5, <1>6, <1>7, <1>8, <1>9, <1>10, <1>11, <1>12, <1>13,
     <1>14, <1>15, <1>16, <1>17, <1>18, <1>19, <1>20, <1>21, <1>22, <1>23, <1>24, <1>25, <1>26
     DEF Next, Step, PassGates, HandleForm, Loop, Land

\* The crawl starts with its types.
LEMMA InitIsTyped ==
  ASSUME Init
  PROVE  TypeOK
<1>1. stack \in Seq(Frames)
  BY EmptySeq DEF Init
<1>2. pending \in [Place -> SUBSET Element] /\ fires \in [Place -> Nat]
  BY DEF Init
<1>3. Blank \in Place /\ screen \in Place
  BY LiveIsPlace DEF Init, Place
<1>4. backs \subseteq Place \X Place /\ edges \subseteq Edge /\ findings \subseteq Finding
  BY DEF Init
<1> QED
  BY <1>1, <1>2, <1>3, <1>4 DEF Init, TypeOK, Phase

(***************************************************************************)
(* Every variable of the crawl keeps its type, for any app, any device     *)
(* behaviour and any budgets.                                              *)
(***************************************************************************)
THEOREM TypeCorrect == Spec => []TypeOK
<1>1. Init => TypeOK
  BY InitIsTyped
<1>2. TypeOK /\ [Next]_vars => TypeOK'
  BY TypeStep
<1> QED
  BY <1>1, <1>2, PTL DEF Spec

-----------------------------------------------------------------------------
(* The books of the walk *)

\* Dropping frames from the top, without moving the others, keeps the books.
LEMMA BooksKept ==
  ASSUME TypeOK, TypeOK', BooksInv,
         mapped \subseteq mapped', \A f \in findings' : f.src \in mapped',
         Len(stack') <= Len(stack),
         \A i \in 1..Len(stack') : /\ stack'[i].fp = stack[i].fp
                                   /\ pending'[stack[i].fp] = {},
         \A p \in Place : pending'[p] # {} => p \in mapped
  PROVE  (OneFramePerScreen /\ WorkIsMapped)'
<1>1. Len(stack) \in Nat /\ Len(stack') \in Nat
  BY LenProperties DEF TypeOK
<1>2. \A i \in 1..Len(stack') : i \in 1..Len(stack)
  BY <1>1
<1>3. OneFramePerScreen'
  BY <1>2 DEF BooksInv, OneFramePerScreen
<1>4. WorkIsMapped'
  BY <1>2 DEF BooksInv, WorkIsMapped
<1> QED
  BY <1>3, <1>4

\* So does a frame for a charted screen that is on no frame.
LEMMA BooksGrow ==
  ASSUME TypeOK, TypeOK', BooksInv, NEW f \in Frames,
         stack' = Append(stack, f), f.fp \in mapped,
         \A i \in 1..Len(stack) : stack[i].fp # f.fp,
         pending' = [pending EXCEPT ![f.fp] = {}],
         UNCHANGED <<mapped, findings>>
  PROVE  (OneFramePerScreen /\ WorkIsMapped)'
<1>1. /\ stack \in Seq(Frames) /\ Len(stack) \in Nat
      /\ pending \in [Place -> SUBSET Element]
      /\ \A i \in 1..Len(stack) : stack[i].fp \in Place
      /\ f.fp \in Place
  <2>1. stack \in Seq(Frames) /\ pending \in [Place -> SUBSET Element]
    BY DEF TypeOK
  <2>2. \A i \in 1..Len(stack) : stack[i] \in Frames
    BY <2>1, ElementOfSeq
  <2> QED
    BY <2>1, <2>2, LenProperties DEF Frames
<1>2. /\ Len(stack') = Len(stack) + 1
      /\ \A i \in 1..Len(stack) : stack'[i] = stack[i]
      /\ stack'[Len(stack) + 1] = f
  BY <1>1, AppendProperties
<1>3. \A i \in 1..Len(stack') : i \in 1..Len(stack) \/ i = Len(stack) + 1
  BY <1>1, <1>2
<1>4. \A i, j \in 1..Len(stack') : stack'[i].fp = stack'[j].fp => i = j
  BY <1>2, <1>3 DEF BooksInv, OneFramePerScreen
<1>5. \A i \in 1..Len(stack') : pending'[stack'[i].fp] = {}
  BY <1>1, <1>2, <1>3 DEF BooksInv, OneFramePerScreen
<1>6. \A i \in 1..Len(stack') : stack'[i].fp \in mapped
  BY <1>2, <1>3 DEF BooksInv, WorkIsMapped
<1>7. \A p \in Place : pending'[p] # {} => p \in mapped
  BY <1>1 DEF BooksInv, WorkIsMapped
<1> QED
  BY <1>4, <1>5, <1>6, <1>7 DEF BooksInv, OneFramePerScreen, WorkIsMapped

-----------------------------------------------------------------------------
(***************************************************************************)
(* What the loop does to the stack: the top frame changes but stays the    *)
(* frame of its screen, or is dropped and the one below is marked.         *)
(***************************************************************************)
SameScreens ==
  /\ Len(stack') = Len(stack)
  /\ \A i \in 1..Len(stack) : stack'[i].fp = stack[i].fp

LEMMA TopReplaced ==
  ASSUME TypeOK, Ready, NEW f \in Frames, f.fp = Top.fp, stack' = WithTop(f)
  PROVE  SameScreens
<1>1. stack \in Seq(Frames) /\ stack # <<>>
  BY ReadyType
<1>2. /\ Len(stack) \in Nat \ {0} /\ Len(stack') = Len(stack)
      /\ \A i \in 1..Len(stack) :
            stack'[i] = IF i = Len(stack) THEN f ELSE stack[i]
  BY <1>1, StackType
<1> QED
  BY <1>2 DEF SameScreens, Top

LEMMA TopMarked ==
  ASSUME TypeOK, stack' = Marked(stack, screen')
  PROVE  SameScreens
BY MarkedType DEF TypeOK, SameScreens

LEMMA TopDropped ==
  ASSUME TypeOK, Ready \/ Leaving, stack' = Marked(Rest, screen')
  PROVE  /\ Len(stack') = Len(stack) - 1 /\ Len(stack) \in Nat \ {0}
         /\ \A i \in 1..Len(stack') : stack'[i].fp = stack[i].fp
<1>1. stack \in Seq(Frames) /\ stack # <<>>
  BY ReadyType
<1>2. /\ Len(stack) \in Nat \ {0}
      /\ Rest \in Seq(Frames) /\ Len(Rest) = Len(stack) - 1
      /\ \A i \in 1..Len(Rest) : Rest[i] = stack[i]
  BY <1>1, StackType
<1>3. /\ Len(stack') = Len(Rest)
      /\ \A i \in 1..Len(Rest) : stack'[i].fp = Rest[i].fp
  BY <1>2, MarkedType
<1> QED
  BY <1>2, <1>3

(***************************************************************************)
(* No step mixes two visits of a screen or works on an uncharted one.      *)
(***************************************************************************)
LEMMA BooksStep ==
  ASSUME TypeOK, TypeOK', BooksInv, [Next]_vars
  PROVE  (OneFramePerScreen /\ WorkIsMapped)'
<1> DEFINE Quiet == UNCHANGED <<stack, pending, findings>> /\ mapped \subseteq mapped'
<1>1. ASSUME Quiet PROVE (OneFramePerScreen /\ WorkIsMapped)'
  BY <1>1 DEF BooksInv, OneFramePerScreen, WorkIsMapped
<1>2. ASSUME SameScreens, pending' = pending, mapped \subseteq mapped',
             \A f \in findings' : f.src \in mapped'
      PROVE  (OneFramePerScreen /\ WorkIsMapped)'
  <2>1. Len(stack) \in Nat
    BY LenProperties DEF TypeOK
  <2> QED
    BY <1>2, <2>1, BooksKept DEF SameScreens, BooksInv, OneFramePerScreen, WorkIsMapped
<1>3. \A f \in findings : f.src \in mapped
  BY DEF BooksInv, WorkIsMapped
<1>4. ASSUME Ready
      PROVE  /\ Top.fp \in mapped /\ pending[Top.fp] = {} /\ Top.fp \in Place
             /\ Len(stack) \in Nat \ {0}
             /\ \A i \in 1..Len(stack) - 1 : stack[i].fp # Top.fp
  <2>1. Len(stack) \in Nat \ {0} /\ Top.fp \in Place
    BY <1>4, ReadyType, StackType
  <2>2. Len(stack) \in 1..Len(stack) /\ Top = stack[Len(stack)]
    BY <2>1 DEF Top
  <2>3. Top.fp \in mapped /\ pending[Top.fp] = {}
    BY <2>2 DEF BooksInv, WorkIsMapped, OneFramePerScreen
  <2>4. \A i \in 1..Len(stack) - 1 : i \in 1..Len(stack) /\ i # Len(stack)
    BY <2>1
  <2>5. \A i \in 1..Len(stack) - 1 : stack[i].fp # Top.fp
    BY <2>2, <2>4 DEF BooksInv, OneFramePerScreen
  <2> QED
    BY <2>1, <2>3, <2>5
<1>5. CASE GiveUp \/ StopAtGate \/ SkipProbe \/ ProbeNothing \/ Stop \/ DriverError
  BY <1>1, <1>5
     DEF GiveUp, StopAtGate, SkipProbe, ProbeNothing, Stop, DriverError, result
<1>6. CASE ReadEntry
  BY <1>1, <1>6 DEF ReadEntry, BooksInv, BeforeTheMap
<1>7. CASE FireWaypoint \/ CrossEntryGate \/ CrossGate
  BY <1>1, <1>7 DEF FireWaypoint, CrossEntryGate, CrossGate, Chart, result
<1>8. CASE ProbeStrays \/ ProbeRaises \/ ProbeRejected \/ FillValid
  BY <1>1, <1>8 DEF ProbeStrays, ProbeRaises, ProbeRejected, FillValid, result
<1>9. CASE ProbeAdvances
  BY <1>1, <1>9 DEF ProbeAdvances, Chart
<1>10. CASE ChartScreen
  BY <1>1, <1>10 DEF ChartScreen, Chart
<1>11. CASE PushFrame
  <2> DEFINE f == NewFrame(new, Shown[new] \cup pending[new])
  <2>1. Shown[new] \cup pending[new] \in SUBSET Element /\ new \in Place
    BY ControlsAreKnown DEF TypeOK
  <2>2. f \in Frames /\ f.fp = new
    BY <2>1, NewFrameType DEF NewFrame
  <2>3. new \in mapped /\ \A i \in 1..Len(stack) : stack[i].fp # new
    BY <1>11 DEF PushFrame, BooksInv, NewIsFree, AtForm
  <2> QED
    BY <1>11, <2>2, <2>3, BooksGrow DEF PushFrame, result
<1>12. CASE Abandon
  <2>1. Ready /\ Park /\ stack' = Marked(Rest, screen') /\ UNCHANGED <<mapped, findings>>
    BY <1>12 DEF Abandon, result
  <2>2. /\ Len(stack') = Len(stack) - 1 /\ Len(stack) \in Nat \ {0}
        /\ \A i \in 1..Len(stack') : stack'[i].fp = stack[i].fp
    BY <2>1, TopDropped
  <2>3. \A p \in Place : pending'[p] # {} => p \in mapped
    BY <1>4, <2>1 DEF Park, TypeOK, BooksInv, WorkIsMapped
  <2>4. \A i \in 1..Len(stack') : pending'[stack[i].fp] = {}
    <3> SUFFICES ASSUME NEW i \in 1..Len(stack') PROVE pending'[stack[i].fp] = {}
      OBVIOUS
    <3>1. i \in 1..Len(stack) /\ i \in 1..Len(stack) - 1
      BY <2>2
    <3>2. stack[i].fp # Top.fp
      BY <1>4, <2>1, <3>1
    <3>3. stack[i] \in Frames
      BY <3>1, ElementOfSeq DEF TypeOK
    <3>4. stack[i].fp \in Place
      BY <3>3 DEF Frames
    <3>5. pending[stack[i].fp] = {}
      BY <3>1 DEF BooksInv, OneFramePerScreen
    <3> QED
      BY <2>1, <3>2, <3>4, <3>5 DEF Park, TypeOK
  <2>5. /\ Len(stack') <= Len(stack)
        /\ \A i \in 1..Len(stack') : /\ stack'[i].fp = stack[i].fp
                                      /\ pending'[stack[i].fp] = {}
    BY <2>2, <2>4
  <2>6. mapped \subseteq mapped' /\ \A f \in findings' : f.src \in mapped'
    BY <1>3, <2>1
  <2> QED
    BY <2>3, <2>5, <2>6, BooksKept
<1>13. CASE Refill
  <2>1. Ready /\ UNCHANGED <<mapped, findings>>
    BY <1>13 DEF Refill, result
  <2>2. SameScreens
    BY <1>13, <2>1, RefillFrame, TopReplaced
  <2>3. UNCHANGED pending
    BY <1>4, <1>13, <2>1 DEF Refill
  <2> QED
    BY <1>2, <1>3, <2>1, <2>2, <2>3
<1>14. CASE Finish
  <2>1. /\ Ready \/ Leaving
        /\ stack' = Marked(Rest, screen') /\ UNCHANGED <<pending, mapped, findings>>
    BY <1>14, FinishDrops DEF Finish
  <2>2. /\ Len(stack') = Len(stack) - 1 /\ Len(stack) \in Nat \ {0}
        /\ \A i \in 1..Len(stack') : stack'[i].fp = stack[i].fp
    BY <2>1, TopDropped
  <2>3. \A i \in 1..Len(stack') : i \in 1..Len(stack)
    BY <2>2
  <2>4. \A i \in 1..Len(stack') : pending'[stack[i].fp] = {}
    BY <2>1, <2>3 DEF BooksInv, OneFramePerScreen
  <2>5. \A p \in Place : pending'[p] # {} => p \in mapped
    BY <2>1 DEF BooksInv, WorkIsMapped
  <2>6. /\ Len(stack') <= Len(stack)
        /\ \A i \in 1..Len(stack') : /\ stack'[i].fp = stack[i].fp
                                      /\ pending'[stack[i].fp] = {}
    BY <2>2, <2>4
  <2>7. mapped \subseteq mapped' /\ \A f \in findings' : f.src \in mapped'
    BY <1>3, <2>1
  <2> QED
    BY <2>5, <2>6, <2>7, BooksKept
<1>15. CASE SkipBlocked
  <2>1. PICK e \in Element : Ready /\ stack' = WithTop(Without(e))
    BY <1>15, ReadyType DEF SkipBlocked
  <2>2. SameScreens
    BY <2>1, WithoutType, TopReplaced
  <2> QED
    BY <1>2, <1>3, <1>15, <2>2 DEF SkipBlocked, result
<1>16. CASE TapControl
  <2>1. PICK e \in Element :
          TapLeavesApp(e) \/ TapUnread(e) \/ TapStays(e) \/ TapNavigates(e)
    BY <1>16 DEF TapControl
  <2>2. Tap(e) /\ UNCHANGED <<pending, mapped>>
    BY <2>1 DEF TapLeavesApp, TapUnread, TapStays, TapNavigates, result
  <2>3. Ready /\ stack' = WithTop(Tapped(e))
    BY <2>2 DEF Tap
  <2>4. SameScreens
    BY <2>3, WithoutType, TopReplaced
  <2>5. \A f \in findings' : f \in findings \/ f.src = Top.fp
    BY <2>1 DEF TapLeavesApp, TapUnread, TapStays, TapNavigates, result
  <2> QED
    BY <1>2, <1>3, <1>4, <2>2, <2>3, <2>4, <2>5
<1>17. CASE ChartTerminal
  <2>1. SameScreens
    BY <1>17, TopMarked DEF ChartTerminal
  <2> QED
    BY <1>2, <1>3, <1>17, <2>1 DEF ChartTerminal, Chart
<1>18. CASE Resume
  <2> DEFINE f == NewFrame(new, pending[new])
  <2>1. pending[new] \in SUBSET Element /\ new \in Place
    BY DEF TypeOK
  <2>2. f \in Frames /\ f.fp = new
    BY <2>1, NewFrameType DEF NewFrame
  <2>3. new \in mapped /\ \A i \in 1..Len(stack) : stack[i].fp # new
    BY <1>18, <2>1 DEF Resume, BooksInv, WorkIsMapped, OneFramePerScreen
  <2> QED
    BY <1>18, <2>2, <2>3, BooksGrow DEF Resume, result
<1>19. CASE ReturnToParent
  <2>1. SameScreens /\ pending' = [pending EXCEPT ![new] = {}]
        /\ UNCHANGED <<mapped, findings>>
    BY <1>19, TopMarked DEF ReturnToParent
  <2>2. \A p \in Place : pending'[p] \subseteq pending[p]
    BY <2>1 DEF TypeOK
  <2>3. \A i \in 1..Len(stack') : stack[i].fp \in Place
    <3>1. Len(stack') = Len(stack) /\ stack \in Seq(Frames)
      BY <2>1 DEF SameScreens, TypeOK
    <3>2. \A i \in 1..Len(stack) : stack[i] \in Frames
      BY <3>1, ElementOfSeq
    <3> QED
      BY <3>1, <3>2 DEF Frames
  <2>4. Len(stack) \in Nat /\ Len(stack') = Len(stack)
        /\ \A i \in 1..Len(stack) : stack'[i].fp = stack[i].fp
    BY <2>1, LenProperties DEF SameScreens, TypeOK
  <2>5. \A i \in 1..Len(stack') : pending'[stack[i].fp] = {}
    BY <2>2, <2>3, <2>4 DEF BooksInv, OneFramePerScreen
  <2>6. \A p \in Place : pending'[p] # {} => p \in mapped
    BY <2>2 DEF BooksInv, WorkIsMapped
  <2>7. /\ Len(stack') <= Len(stack)
        /\ \A i \in 1..Len(stack') : /\ stack'[i].fp = stack[i].fp
                                      /\ pending'[stack[i].fp] = {}
    BY <2>4, <2>5
  <2>8. mapped \subseteq mapped' /\ \A f \in findings' : f.src \in mapped'
    BY <1>3, <2>1
  <2> QED
    BY <2>6, <2>7, <2>8, BooksKept
<1>20. CASE UNCHANGED vars
  BY <1>1, <1>20 DEF vars, result
<1>21. CASE ScrollInVain
  <2>1. /\ Ready /\ stack' = WithTop(Scrolled)
        /\ UNCHANGED <<pending, mapped, findings>>
    BY <1>21 DEF ScrollInVain, result
  <2>2. SameScreens
    BY <2>1, ScrolledType, TopReplaced
  <2> QED
    BY <1>2, <1>3, <2>1, <2>2
<1> QED
  BY <1>21, <1>5, <1>6, <1>7, <1>8, <1>9, <1>10, <1>11, <1>12, <1>13, <1>14, <1>15,
     <1>16, <1>17, <1>18, <1>19, <1>20
     DEF Next, Step, PassGates, HandleForm, Loop, Land

-----------------------------------------------------------------------------
\* At the head of the loop and at the end, nothing but the books is claimed.
LEMMA AtRest ==
  ASSUME phase' \in {"loop", "done", "failed"}
  PROVE  /\ (BeforeTheMap /\ NewIsLinked /\ NewIsFree /\ LeftIsIdle)'
         /\ (RoomLeft)'
BY DEF BeforeTheMap, NewIsLinked, NewIsFree, LeftIsIdle, RoomLeft, AtEntry, AtTapped, AtForm

\* A recorded transition is there.
LEMMA Recorded ==
  ASSUME NEW p, NEW q, NEW k, Record(p, q, k)
  PROVE  \E e \in edges' : e.src = p /\ e.dst = q
<1> DEFINE e == [src |-> p, dst |-> q, kind |-> k]
<1>1. e \in edges' /\ e.src = p /\ e.dst = q
  BY DEF Record
<1> QED
  BY <1>1

(***************************************************************************)
(* Every step keeps the claim made of the screen the crawler is at.        *)
(***************************************************************************)
LEMMA PlaceStep ==
  ASSUME TypeOK, TypeOK', BooksInv, [Next]_vars
  PROVE  (BeforeTheMap /\ NewIsLinked /\ NewIsFree /\ LeftIsIdle)'
<1> USE DEF BeforeTheMap, NewIsLinked, NewIsFree, LeftIsIdle, AtEntry, AtTapped, AtForm
<1>1. BeforeTheMap /\ NewIsLinked /\ NewIsFree /\ LeftIsIdle
  BY DEF BooksInv
<1>2. CASE GiveUp \/ Resume \/ ReturnToParent \/ ChartTerminal \/ Stop \/ DriverError \/ PushFrame
  BY <1>2, AtRest
     DEF GiveUp, Resume, ReturnToParent, ChartTerminal, Stop, DriverError, PushFrame
<1>3. CASE Abandon \/ Refill \/ Finish \/ SkipBlocked
  BY <1>3, AtRest, FinishDrops DEF Abandon, Refill, SkipBlocked, Ready
<1>4. CASE ReadEntry
  <2>1. stack = <<>> /\ stack' = stack
    BY <1>1, <1>4 DEF ReadEntry
  <2>2. Len(stack') = 0
    BY <2>1
  <2>3. \A i \in 1..Len(stack') : FALSE
    BY <2>2
  <2> QED
    BY <1>4, <2>1, <2>3 DEF ReadEntry
<1>5. CASE FireWaypoint
  BY <1>1, <1>5 DEF FireWaypoint, result
<1>6. CASE StopAtGate
  BY <1>1, <1>6 DEF StopAtGate, result
<1>7. CASE CrossEntryGate
  <2>1. stack = <<>> /\ stack' = stack /\ phase' = "form" /\ new \in mapped
    BY <1>1, <1>7 DEF CrossEntryGate
  <2>2. \A i \in 1..Len(stack') : FALSE
    BY <2>1
  <2>3. new' \in mapped'
    BY <1>7, <2>1 DEF CrossEntryGate, Chart
  <2> QED
    BY <2>1, <2>2, <2>3
<1>8. CASE CrossGate
  <2>1. stack # <<>> /\ stack' = stack /\ phase' = "land"
    BY <1>8 DEF CrossGate
  <2>2. \E e \in edges' : e.dst = new' /\ e.src \in mapped'
    <3>1. CASE screen' \in {Blank, new}
      <4>1. UNCHANGED <<new, mapped, edges>>
        BY <1>8, <3>1 DEF CrossGate
      <4>2. \E e \in edges : e.dst = new /\ e.src \in mapped
        BY <1>1, <1>8 DEF CrossGate
      <4> QED
        BY <4>1, <4>2
    <3>2. CASE screen' \notin {Blank, new}
      <4>1. Record(new, screen', "gate") /\ new' = screen' /\ new \in mapped'
        BY <1>8, <3>2 DEF CrossGate, Chart
      <4> QED
        BY <4>1, Recorded
    <3> QED
      BY <3>1, <3>2
  <2> QED
    BY <2>1, <2>2
<1>9. CASE SkipProbe \/ ProbeNothing \/ FillValid
  BY <1>1, <1>9 DEF SkipProbe, ProbeNothing, FillValid, result
<1>10. CASE ProbeStrays \/ ProbeRaises \/ ProbeRejected
  BY <1>1, <1>10 DEF ProbeStrays, ProbeRaises, ProbeRejected, result
<1>11. CASE ProbeAdvances
  BY <1>1, <1>11 DEF ProbeAdvances, AfterProbe, Chart
<1>12. CASE ChartScreen
  <2>1. \A i \in 1..Len(stack) : stack[i].fp # new
    BY <1>12 DEF ChartScreen, Fresh, BooksInv, WorkIsMapped
  <2> QED
    BY <1>12, <2>1 DEF ChartScreen, Chart
<1>13. CASE TapControl
  <2>1. PICK e \in Element :
          TapLeavesApp(e) \/ TapUnread(e) \/ TapStays(e) \/ TapNavigates(e)
    BY <1>13 DEF TapControl
  <2>2. Tap(e)
    BY <2>1 DEF TapLeavesApp, TapUnread, TapStays, TapNavigates
  <2>3. Ready /\ phase = "loop" /\ stack' = WithTop(Tapped(e))
    BY <2>2 DEF Tap, Ready
  <2>4. CASE TapLeavesApp(e) \/ TapUnread(e) \/ TapStays(e)
    BY <2>3, <2>4, AtRest DEF TapLeavesApp, TapUnread, TapStays
  <2>5. CASE TapNavigates(e)
    <3>1. stack # <<>> /\ Len(stack) \in Nat \ {0} /\ Top.fp \in mapped
      BY <2>3, ReadyType, StackType DEF BooksInv, WorkIsMapped, Top
    <3>2. stack' # <<>>
      <4>1. SameScreens
        BY <2>3, WithoutType, TopReplaced
      <4>2. Len(stack') # 0
        BY <3>1, <4>1 DEF SameScreens
      <4> QED
        BY <4>2
    <3>3. \E f \in edges' : f.dst = new' /\ f.src \in mapped'
      <4>1. Record(Top.fp, screen', "tap") /\ new' = screen' /\ mapped' = mapped
        BY <2>5 DEF TapNavigates
      <4> QED
        BY <3>1, <4>1, Recorded
    <3> QED
      BY <2>5, <3>2, <3>3 DEF TapNavigates
  <2> QED
    BY <2>1, <2>4, <2>5
<1>14. CASE UNCHANGED vars
  BY <1>1, <1>14 DEF vars, result, Top
<1>15. CASE ScrollInVain
  <2>1. Ready /\ Top.todo = {} /\ phase' = "leave" /\ stack' = WithTop(Scrolled)
    BY <1>15 DEF ScrollInVain
  <2>2. Len(stack) \in Nat \ {0} /\ Scrolled \in Frames /\ Scrolled.todo = {}
    BY <2>1, ReadyType, StackType, ScrolledType
  <2>3. Len(stack') = Len(stack) /\ Top' = Scrolled
    <3>1. stack \in Seq(Frames) /\ stack # <<>>
      BY <2>1, ReadyType
    <3>2. /\ Len(stack') = Len(stack)
          /\ \A i \in 1..Len(stack) : stack'[i] = IF i = Len(stack) THEN Scrolled ELSE stack[i]
      BY <2>1, <2>2, <3>1, StackType
    <3>3. Len(stack) \in 1..Len(stack)
      BY <2>2
    <3> QED
      BY <3>2, <3>3 DEF Top
  <2>4. stack' # <<>>
    BY <2>2, <2>3
  <2> QED
    BY <2>1, <2>2, <2>3, <2>4
<1> QED
  BY <1>15, <1>2, <1>3, <1>4, <1>5, <1>6, <1>7, <1>8, <1>9, <1>10, <1>11, <1>12,
     <1>13, <1>14
     DEF Next, Step, PassGates, HandleForm, Loop, Land

(***************************************************************************)
(* Every step keeps within the step budget and the depth limit.            *)
(***************************************************************************)
LEMMA BoundsStep ==
  ASSUME TypeOK, TypeOK', RoomLeft, Len(stack) <= MaxDepth, [Next]_vars
  PROVE  /\ RoomLeft' /\ Len(stack') <= MaxDepth
         /\ steps' <= MaxSteps + 1 \/ steps' = steps
<1>1. RoomLeft /\ Len(stack) <= MaxDepth
  OBVIOUS
<1>2. /\ steps \in Nat /\ MaxSteps \in Nat /\ MaxDepth \in Nat \ {0}
      /\ stack \in Seq(Frames) /\ Len(stack) \in Nat
  BY BudgetsAreNumbers, LenProperties DEF TypeOK
<1>3. CASE GiveUp \/ Stop \/ DriverError
  BY <1>1, <1>3, AtRest DEF GiveUp, Stop, DriverError
<1>4. CASE ReadEntry \/ FireWaypoint \/ StopAtGate
  <2>1. phase \in {"start", "gate"} /\ UNCHANGED <<stack, steps>>
    BY <1>4 DEF ReadEntry, FireWaypoint, StopAtGate
  <2>2. AtForm' => stack = <<>>
    BY <1>4 DEF ReadEntry, FireWaypoint, StopAtGate, AtForm
  <2>3. stack = <<>> => Len(stack) < MaxDepth
    BY <1>2
  <2> QED
    BY <1>1, <2>1, <2>2, <2>3 DEF RoomLeft
<1>5. CASE CrossEntryGate \/ CrossGate
  <2>1. phase = "crossed" /\ UNCHANGED <<stack, steps>>
    BY <1>5 DEF CrossEntryGate, CrossGate
  <2>2. AtForm' => stack = <<>>
    BY <1>5 DEF CrossEntryGate, CrossGate, AtForm
  <2>3. stack = <<>> => Len(stack) < MaxDepth
    BY <1>2
  <2> QED
    BY <1>1, <2>1, <2>2, <2>3 DEF RoomLeft
<1>6. CASE SkipProbe \/ ProbeNothing \/ ProbeStrays \/ ProbeRaises
           \/ ProbeRejected \/ ProbeAdvances \/ FillValid
  <2>1. /\ AtForm /\ UNCHANGED stack
        /\ phase' \in {"fill", "push"}
        /\ steps' = steps \/ (phase = "form" /\ steps' = steps + 1)
    BY <1>6 DEF SkipProbe, ProbeNothing, ProbeStrays, ProbeRaises, ProbeRejected,
                ProbeAdvances, FillValid, AfterProbe, AtForm
  <2> QED
    BY <1>1, <1>2, <2>1 DEF RoomLeft
<1>7. CASE PushFrame
  <2>1. Len(stack) < MaxDepth /\ steps' = steps /\ phase' = "loop"
    BY <1>1, <1>7 DEF PushFrame, RoomLeft, AtForm
  <2>2. Len(stack') = Len(stack) + 1
    BY <1>2, <1>7, ControlsAreKnown, NewFrameType, AppendProperties
       DEF PushFrame, TypeOK
  <2> QED
    BY <1>1, <1>2, <2>1, <2>2, AtRest
<1>8. CASE Abandon \/ Finish
  <2>1. (Ready \/ Leaving) /\ stack' = Marked(Rest, screen') /\ phase' = "loop"
    BY <1>8, FinishDrops DEF Abandon, Ready
  <2>2. Len(stack') = Len(stack) - 1
    BY <2>1, TopDropped
  <2>3. steps <= MaxSteps /\ steps' \in {steps, steps + 1}
    BY <1>1, <1>2, <1>8, <2>1 DEF Abandon, Finish, Ready, Leaving, WithinBudget, RoomLeft
  <2> QED
    BY <1>1, <1>2, <2>1, <2>2, <2>3, AtRest
<1>9. CASE Refill
  <2>1. Ready /\ phase' = "loop" /\ steps' \in {steps, steps + 1}
    BY <1>9 DEF Refill, Ready
  <2>2. SameScreens
    BY <1>9, <2>1, RefillFrame, TopReplaced
  <2> QED
    BY <1>1, <1>2, <2>1, <2>2, AtRest DEF SameScreens, Ready, WithinBudget
<1>10. CASE SkipBlocked
  <2>1. PICK e \in Element : Ready /\ stack' = WithTop(Without(e))
    BY <1>10, ReadyType DEF SkipBlocked
  <2>2. SameScreens
    BY <2>1, WithoutType, TopReplaced
  <2> QED
    BY <1>1, <1>2, <1>10, <2>1, <2>2, AtRest DEF SameScreens, SkipBlocked, Ready
<1>11. CASE TapControl
  <2>1. PICK e \in Element :
          TapLeavesApp(e) \/ TapUnread(e) \/ TapStays(e) \/ TapNavigates(e)
    BY <1>11 DEF TapControl
  <2>2. Tap(e) /\ phase' \in {phase, "gate"}
    BY <2>1 DEF TapLeavesApp, TapUnread, TapStays, TapNavigates
  <2>3. /\ Ready /\ phase = "loop" /\ stack' = WithTop(Tapped(e))
        /\ steps < MaxSteps /\ steps' = steps + 1
    BY <2>2 DEF Tap, Ready, WithinBudget
  <2>4. SameScreens
    BY <2>3, WithoutType, TopReplaced
  <2>5. ~AtForm'
    BY <2>2, <2>3 DEF AtForm
  <2> QED
    BY <1>1, <1>2, <2>3, <2>4, <2>5 DEF SameScreens, RoomLeft
<1>12. CASE ChartScreen
  BY <1>1, <1>2, <1>12 DEF ChartScreen, Fresh, RoomLeft
<1>13. CASE ChartTerminal \/ ReturnToParent
  <2>1. /\ phase = "land" /\ phase' = "loop" /\ steps' = steps + 1
        /\ stack' = Marked(stack, screen')
    BY <1>13 DEF ChartTerminal, ReturnToParent
  <2>2. SameScreens
    BY <2>1, TopMarked
  <2>3. steps <= MaxSteps
    BY <1>1, <2>1 DEF RoomLeft
  <2> QED
    BY <1>1, <1>2, <2>1, <2>2, <2>3, AtRest DEF SameScreens
<1>14. CASE Resume
  <2>1. Len(stack) < MaxDepth /\ steps' = steps /\ phase' = "loop"
    BY <1>2, <1>14 DEF Resume
  <2>2. Len(stack') = Len(stack) + 1
    BY <1>2, <1>14, NewFrameType, AppendProperties DEF Resume, TypeOK
  <2> QED
    BY <1>1, <1>2, <2>1, <2>2, AtRest
<1>15. CASE UNCHANGED vars
  BY <1>1, <1>15 DEF vars, RoomLeft, AtForm
<1>16. CASE ScrollInVain
  <2>1. /\ Ready /\ phase' = "leave" /\ stack' = WithTop(Scrolled)
        /\ steps' = steps + 1 /\ steps < MaxSteps
    BY <1>16 DEF ScrollInVain, Ready, WithinBudget
  <2>2. SameScreens
    BY <2>1, ScrolledType, TopReplaced
  <2> QED
    BY <1>1, <1>2, <2>1, <2>2 DEF SameScreens, RoomLeft, AtForm
<1> QED
  BY <1>16, <1>3, <1>4, <1>5, <1>6, <1>7, <1>8, <1>9, <1>10, <1>11, <1>12, <1>13,
     <1>14, <1>15
     DEF Next, Step, PassGates, HandleForm, Loop, Land

\* Before the crawl, the books are empty.
LEMMA InitKeepsBooks ==
  ASSUME Init
  PROVE  WalkInv
<1>1. stack = <<>> /\ Len(stack) = 0 /\ \A i \in 1..Len(stack) : FALSE
  BY DEF Init
<1>2. pending = [p \in Place |-> {}] /\ findings = {} /\ steps = 0
      /\ phase = "start" /\ mapped = {} /\ edges = {}
  BY DEF Init
<1>3. MaxSteps \in Nat /\ MaxDepth \in Nat \ {0}
  BY BudgetsAreNumbers
<1>4. OneFramePerScreen /\ WorkIsMapped
  BY <1>1, <1>2 DEF OneFramePerScreen, WorkIsMapped
<1>5. WithinBounds /\ RoomLeft
  BY <1>1, <1>2, <1>3 DEF WithinBounds, RoomLeft, AtForm
<1>6. BeforeTheMap /\ NewIsLinked /\ NewIsFree /\ LeftIsIdle
  BY <1>1, <1>2
     DEF BeforeTheMap, NewIsLinked, NewIsFree, LeftIsIdle, AtEntry, AtTapped, AtForm
<1> QED
  BY <1>4, <1>5, <1>6 DEF WalkInv, BooksInv

(***************************************************************************)
(* The walk's books hold throughout, for every app, every behaviour of the *)
(* device and every budget.                                                *)
(***************************************************************************)
THEOREM WalkIsSafe == Spec => []WalkInv
<1>1. Init => WalkInv
  BY InitKeepsBooks
<1>2. ASSUME TypeOK, TypeOK', WalkInv, [Next]_vars PROVE WalkInv'
  <2>1. BooksInv /\ RoomLeft /\ WithinBounds
    BY <1>2 DEF WalkInv
  <2>2. BooksInv'
    BY <1>2, <2>1, BooksStep, PlaceStep DEF BooksInv
  <2>3. RoomLeft' /\ WithinBounds'
    BY <1>2, <2>1, BoundsStep DEF WithinBounds
  <2> QED
    BY <2>2, <2>3 DEF WalkInv
<1> QED
  BY <1>1, <1>2, TypeCorrect, PTL DEF Spec

(***************************************************************************)
(* A screen is on one frame at most and then has nothing parked            *)
(* (_dfs, _resync, _resume_parked): two visits are never mixed.            *)
(***************************************************************************)
COROLLARY FramesAreDistinct == Spec => []OneFramePerScreen
<1>1. WalkInv => OneFramePerScreen
  BY DEF WalkInv, BooksInv
<1> QED
  BY <1>1, WalkIsSafe, PTL

(***************************************************************************)
(* Every frame, every parked control and the source of every finding is on *)
(* the map _dfs returns.                                                   *)
(***************************************************************************)
COROLLARY WorkStaysOnTheMap == Spec => []WorkIsMapped
<1>1. WalkInv => WorkIsMapped
  BY DEF WalkInv, BooksInv
<1> QED
  BY <1>1, WalkIsSafe, PTL

(***************************************************************************)
(* The crawl overshoots max_steps by one step at most and never goes       *)
(* deeper than max_depth.                                                  *)
(***************************************************************************)
COROLLARY BudgetsHold == Spec => []WithinBounds
<1>1. WalkInv => WithinBounds
  BY DEF WalkInv
<1> QED
  BY <1>1, WalkIsSafe, PTL

-----------------------------------------------------------------------------
(* What was read *)

\* Nothing else is shown than screens and the blank dump.
LEMMA ShownIsRead ==
  ASSUME NEW p \in Place, p # Blank
  PROVE  p \in Screens
BY DEF Place, Screens

(***************************************************************************)
(* Every step charts only what was read, and keeps the device on the       *)
(* screen at hand until its form is dealt with.                            *)
(***************************************************************************)
LEMMA ReadStep ==
  ASSUME TypeOK, TypeOK', BooksInv, ReadInv, [Next]_vars
  PROVE  ReadInv'
<1> USE DEF ReadInv, MappedIsRead, NewIsShown, NoGateYet
<1>1. /\ MappedIsRead /\ NewIsShown /\ NoGateYet /\ chain \in Nat
      /\ {screen, new, screen', new'} \subseteq Place
  BY DEF TypeOK
<1>2. ASSUME phase' \in {"loop", "leave", "push", "done", "failed"}, mapped' = mapped
      PROVE  ReadInv'
  BY <1>1, <1>2 DEF AtTapped
<1>3. CASE GiveUp \/ Stop \/ DriverError \/ Abandon \/ Refill \/ ScrollInVain \/ Finish
           \/ SkipBlocked
  BY <1>2, <1>3 DEF GiveUp, Stop, DriverError, Abandon, Refill, ScrollInVain, Finish, SkipBlocked,
                    Ready, result
<1>4. CASE Resume \/ ReturnToParent \/ ProbeStrays \/ ProbeRaises \/ FillValid \/ PushFrame
  BY <1>2, <1>4 DEF Resume, ReturnToParent, ProbeStrays, ProbeRaises, FillValid, PushFrame, result
<1>5. CASE ReadEntry
  <2>1. /\ screen' # Blank /\ new' = screen' /\ mapped' = {screen'}
        /\ phase' = "gate"
    BY <1>5 DEF ReadEntry
  <2>2. screen' \in Screens
    BY <1>1, <2>1, ShownIsRead
  <2> QED
    BY <2>1, <2>2
<1>6. CASE FireWaypoint
  <2>1. /\ phase = "gate" /\ phase' \in {"gate", "crossed"} /\ chain' # 0
        /\ UNCHANGED <<stack, mapped, new>>
    BY <1>1, <1>6 DEF FireWaypoint, result
  <2> QED
    BY <1>1, <2>1 DEF AtTapped
<1>7. CASE StopAtGate
  <2>1. /\ phase = "gate" /\ UNCHANGED <<screen, stack, mapped, new, chain>>
        /\ phase' = "crossed" \/ (phase' \in {"land", "form"} /\ ~(chain > 0))
        /\ phase' = "land" => stack # <<>>
    BY <1>7 DEF StopAtGate, result, gating
  <2> QED
    BY <1>1, <2>1 DEF AtTapped
<1>8. CASE CrossEntryGate
  <2>1. phase' = "form" /\ UNCHANGED screen
    BY <1>8 DEF CrossEntryGate
  <2>2. \/ screen = Blank /\ UNCHANGED mapped
        \/ screen # Blank /\ new' = screen /\ mapped' = mapped \cup {screen}
    BY <1>8 DEF CrossEntryGate, Chart
  <2> QED
    BY <1>1, <2>1, <2>2, ShownIsRead DEF AtTapped
<1>9. CASE CrossGate
  <2>1. phase' = "land" /\ new \in Screens
    BY <1>1, <1>9 DEF CrossGate, AtTapped
  <2>2. \/ screen' \in {Blank, new} /\ UNCHANGED <<new, mapped>>
        \/ screen' # Blank /\ new' = screen' /\ mapped' = mapped \cup {new}
    BY <1>9 DEF CrossGate, Chart
  <2> QED
    BY <1>1, <2>1, <2>2, ShownIsRead DEF AtTapped
<1>10. CASE SkipProbe \/ ProbeNothing \/ ProbeRejected
  <2>1. /\ phase = "form" /\ phase' = "fill" /\ UNCHANGED <<new, mapped>>
        /\ screen' \in {screen, new}
    BY <1>10 DEF SkipProbe, ProbeNothing, ProbeRejected, result
  <2> QED
    BY <1>1, <2>1 DEF AtTapped
<1>11. CASE ProbeAdvances
  <2>1. PICK p \in Live \ {Blank, new} : Chart(p)
    BY <1>11 DEF ProbeAdvances
  <2>2. p \in Screens
    BY <2>1, LiveIsPlace, ShownIsRead
  <2>3. UNCHANGED new /\ phase' \in {"fill", "push"} /\ (phase' = "fill" => screen' = new)
    BY <1>11 DEF ProbeAdvances, AfterProbe
  <2> QED
    BY <1>1, <2>1, <2>2, <2>3 DEF Chart, AtTapped
<1>12. CASE TapControl
  <2>1. PICK e \in Element :
          TapLeavesApp(e) \/ TapUnread(e) \/ TapStays(e) \/ TapNavigates(e)
    BY <1>12 DEF TapControl
  <2>2. CASE TapLeavesApp(e) \/ TapUnread(e) \/ TapStays(e)
    BY <1>2, <2>2 DEF TapLeavesApp, TapUnread, TapStays, Tap, Ready, result
  <2>3. CASE TapNavigates(e)
    <3>1. screen' # Blank /\ new' = screen' /\ phase' = "gate" /\ UNCHANGED mapped
      BY <2>3 DEF TapNavigates
    <3> QED
      BY <1>1, <3>1, ShownIsRead
  <2> QED
    BY <2>1, <2>2, <2>3
<1>13. CASE ChartScreen \/ ChartTerminal
  <2>1. /\ phase = "land" /\ mapped' = mapped \cup {new} /\ UNCHANGED new
        /\ phase' = "loop" \/ (phase' = "form" /\ UNCHANGED screen)
    BY <1>13 DEF ChartScreen, ChartTerminal, Chart
  <2>2. new \in Screens
    BY <1>1, <2>1 DEF BooksInv, NewIsLinked, AtTapped
  <2> QED
    BY <1>1, <2>1, <2>2 DEF AtTapped
<1>14. CASE UNCHANGED vars
  BY <1>1, <1>14 DEF vars, result, gating, AtTapped
<1> QED
  BY <1>3, <1>4, <1>5, <1>6, <1>7, <1>8, <1>9, <1>10, <1>11, <1>12, <1>13, <1>14
     DEF Next, Step, PassGates, HandleForm, Loop, Land

\* What the crawler knows of the screen at hand is so, throughout.
LEMMA ReadingIsTrue == Spec => []ReadInv
<1>1. ASSUME Init PROVE ReadInv
  BY <1>1 DEF Init, ReadInv, MappedIsRead, NewIsShown, NoGateYet, AtTapped
<1>2. TypeOK /\ TypeOK' /\ WalkInv /\ ReadInv /\ [Next]_vars => ReadInv'
  BY ReadStep DEF WalkInv
<1> QED
  BY <1>1, <1>2, TypeCorrect, WalkIsSafe, PTL DEF Spec

(***************************************************************************)
(* _note_screen is never forgotten: whatever step of the crawl charts a    *)
(* screen once a gate was passed, that step tags it as behind auth, unless *)
(* the screen is the gate itself, which _dfs charts as it is crossed.      *)
(***************************************************************************)
THEOREM ScreensBehindGatesAreTagged == Spec => GatedTagged
<1> DEFINE Tagged == \A p \in mapped' \ mapped : passed =>
                       p \in gated' \/ (phase = "crossed" /\ p = new)
<1>1. ASSUME ReadInv, [Next]_vars PROVE Tagged
  <2>1. CASE UNCHANGED mapped
    BY <2>1
  <2>2. CASE ReadEntry
    BY <1>1, <2>2 DEF ReadEntry, ReadInv, NoGateYet
  <2>3. CASE CrossEntryGate
    BY <2>3 DEF CrossEntryGate, Chart, NoteScreen
  <2>4. CASE CrossGate
    BY <2>4 DEF CrossGate, Chart
  <2>5. CASE ProbeAdvances
    BY <2>5 DEF ProbeAdvances, Chart, NoteScreen
  <2>6. CASE ChartScreen \/ ChartTerminal
    BY <2>6 DEF ChartScreen, ChartTerminal, Chart, NoteScreen
  <2>7. CASE GiveUp \/ FireWaypoint \/ StopAtGate \/ DriverError \/ UNCHANGED vars
    BY <2>1, <2>7 DEF GiveUp, FireWaypoint, StopAtGate, DriverError, vars, result
  <2>8. CASE SkipProbe \/ ProbeNothing \/ ProbeStrays \/ ProbeRaises \/ ProbeRejected
             \/ FillValid \/ PushFrame
    BY <2>1, <2>8 DEF SkipProbe, ProbeNothing, ProbeStrays, ProbeRaises, ProbeRejected,
                      FillValid, PushFrame, result
  <2>9. CASE Loop \/ Resume \/ ReturnToParent
    BY <2>1, <2>9 DEF Loop, Abandon, Refill, ScrollInVain, Finish, SkipBlocked, Stop, TapControl,
                      TapLeavesApp, TapUnread, TapStays, TapNavigates, Resume, ReturnToParent, result
  <2> QED
    BY <1>1, <2>2, <2>3, <2>4, <2>5, <2>6, <2>7, <2>8, <2>9
       DEF Next, Step, PassGates, HandleForm, Land
<1>2. ReadInv /\ [Next]_vars => [Tagged]_vars
  BY <1>1
<1> QED
  BY <1>2, ReadingIsTrue, PTL DEF Spec, GatedTagged

(***************************************************************************)
(* _handle_form types valid data only into the form it charted, or into    *)
(* a device that shows nothing readable: whatever the invalid probe, its   *)
(* error screen and the Back out of it have done.                          *)
(***************************************************************************)
THEOREM FormsAreFilledInPlace == Spec => FillsOnlyTheForm
<1>1. ReadInv /\ [Next]_vars => [FillValid /\ screen # Blank => screen = new]_vars
  BY DEF ReadInv, NewIsShown, FillValid
<1> QED
  BY <1>1, ReadingIsTrue, PTL DEF Spec, FillsOnlyTheForm

-----------------------------------------------------------------------------
(* What the walk owes.  ReturnToParent leaves a screen at the depth limit
   uncharted, with what was parked for it; a stack with room for every screen
   of the device never gets there with a screen that is not on it. *)

Roomy == IsFiniteSet(Screens) /\ Cardinality(Screens) <= MaxDepth

\* A full stack holds every screen.
LEMMA FullStackHoldsAll ==
  ASSUME Roomy, TypeOK, BooksInv, MappedIsRead, Len(stack) >= MaxDepth,
         NEW p \in Screens
  PROVE  \E i \in 1..Len(stack) : stack[i].fp = p
<1> DEFINE n == Len(stack)
           f == [i \in 1..n |-> stack[i].fp]
<1>1. n \in Nat /\ MaxDepth \in Nat
  BY LenProperties, BudgetsAreNumbers DEF TypeOK
<1>2. f \in Injection(1..n, Screens)
  <2>1. \A i \in 1..n : stack[i].fp \in Screens
    BY DEF BooksInv, WorkIsMapped, MappedIsRead
  <2>2. \A i, j \in 1..n : stack[i].fp = stack[j].fp => i = j
    BY DEF BooksInv, OneFramePerScreen
  <2>3. f \in [1..n -> Screens]
    BY <2>1
  <2>4. \A i, j \in 1..n : f[i] = f[j] => i = j
    BY <2>2
  <2> HIDE DEF f, n
  <2> QED
    BY <2>3, <2>4 DEF Injection, IsInjective
<1>3. IsFiniteSet(Screens) /\ Cardinality(Screens) <= MaxDepth
  BY DEF Roomy
<1>4. /\ Cardinality(1..n) <= Cardinality(Screens)
      /\ Cardinality(1..n) = Cardinality(Screens) <=> f \in Surjection(1..n, Screens)
  <2> HIDE DEF f, n
  <2> QED
    BY <1>2, <1>3, FS_Injection
<1>5. Cardinality(1..n) = n
  <2> HIDE DEF n
  <2> QED
    BY <1>1, FS_Interval
<1>6. Cardinality(Screens) \in Nat
  BY <1>3, FS_CardinalityType
<1>7. Cardinality(1..n) = Cardinality(Screens)
  BY <1>1, <1>3, <1>4, <1>5, <1>6
<1>8. f \in Surjection(1..n, Screens)
  BY <1>4, <1>7
<1>9. \E i \in 1..n : f[i] = p
  BY <1>8 DEF Surjection
<1> QED
  BY <1>9

\* A screen that is left again was charted already.
LEMMA ReturnIsCharted ==
  ASSUME Roomy, TypeOK, BooksInv, ReadInv, phase = "land", ~Fresh
  PROVE  new \in mapped /\ (Len(stack) >= MaxDepth => pending[new] = {})
<1>1. new \in Screens
  BY DEF BooksInv, NewIsLinked, ReadInv, MappedIsRead, AtTapped
<1>2. Len(stack) \in Nat /\ MaxDepth \in Nat
  BY LenProperties, BudgetsAreNumbers DEF TypeOK
<1>3. ASSUME Len(stack) >= MaxDepth PROVE new \in mapped /\ pending[new] = {}
  <2>1. PICK i \in 1..Len(stack) : stack[i].fp = new
    BY <1>1, <1>3, FullStackHoldsAll DEF ReadInv
  <2> QED
    BY <2>1 DEF BooksInv, OneFramePerScreen, WorkIsMapped
<1> QED
  BY <1>2, <1>3 DEF Fresh

(***************************************************************************)
(* Every step charts the end of the transition being followed before it    *)
(* leaves it.                                                              *)
(***************************************************************************)
LEMMA EndsStep ==
  ASSUME Roomy, TypeOK, TypeOK', BooksInv, ReadInv, EndsFollow, [Next]_vars
  PROVE  EndsFollow'
<1> DEFINE Charted == \A e \in edges : e.src \in mapped /\ e.dst \in mapped
<1>1. phase # "failed" => \A e \in edges : /\ e.src \in mapped
                                           /\ e.dst \in mapped \/ (AtTapped /\ e.dst = new)
  BY DEF EndsFollow
<1>2. phase \in {"start", "loop", "leave", "done", "form", "fill", "push"} \/ AtEntry => Charted
  <2>1. phase # "failed" /\ ~AtTapped => Charted
    BY <1>1
  <2> QED
    BY <2>1 DEF AtEntry, AtTapped
<1>3. Charted' => EndsFollow'
  BY DEF EndsFollow
<1>4. ASSUME Charted, NEW p \in mapped', NEW q \in mapped', NEW k, Record(p, q, k),
             mapped \subseteq mapped'
      PROVE  EndsFollow'
  BY <1>4 DEF EndsFollow, Record
<1>5. CASE DriverError
  BY <1>5 DEF DriverError, EndsFollow
<1>6. CASE GiveUp \/ ReadEntry
  <2>1. edges' = edges /\ phase = "start"
    BY <1>6 DEF GiveUp, ReadEntry, result
  <2>2. edges = {}
    BY <2>1 DEF BooksInv, BeforeTheMap
  <2> QED
    BY <2>1, <2>2 DEF EndsFollow
<1>7. CASE FireWaypoint \/ StopAtGate
  <2>1. /\ phase = "gate" /\ UNCHANGED <<stack, new, mapped, edges>>
        /\ phase' \in {"gate", "crossed"} \/ (phase' = "form" /\ stack = <<>>)
              \/ (phase' = "land" /\ stack # <<>>)
    BY <1>7 DEF FireWaypoint, StopAtGate, result
  <2>2. AtTapped => AtTapped'
    BY <2>1 DEF AtTapped
  <2> QED
    BY <1>1, <2>1, <2>2 DEF EndsFollow
<1>8. CASE CrossEntryGate
  <2>1. AtEntry
    BY <1>8 DEF CrossEntryGate, AtEntry
  <2>2. Charted /\ new \in mapped
    BY <1>2, <2>1 DEF BooksInv, NewIsFree
  <2>3. CASE screen = Blank
    BY <1>3, <1>8, <2>2, <2>3 DEF CrossEntryGate
  <2>4. CASE screen # Blank /\ screen = new
    BY <1>3, <1>8, <2>2, <2>4 DEF CrossEntryGate, Chart
  <2>5. CASE screen # Blank /\ screen # new
    <3>1. Record(new, screen, "gate") /\ mapped' = mapped \cup {screen}
      BY <1>8, <2>5 DEF CrossEntryGate, Chart
    <3> QED
      BY <1>4, <2>2, <3>1
  <2> QED
    BY <2>3, <2>4, <2>5
<1>9. CASE CrossGate
  <2>1. /\ AtTapped /\ phase = "crossed" /\ AtTapped'
    BY <1>9 DEF CrossGate, AtTapped
  <2>2. CASE screen' \in {Blank, new}
    BY <1>1, <1>9, <2>1, <2>2 DEF CrossGate, EndsFollow
  <2>3. CASE screen' \notin {Blank, new}
    <3>1. /\ Record(new, screen', "gate") /\ mapped' = mapped \cup {new}
          /\ new' = screen'
      BY <1>9, <2>3 DEF CrossGate, Chart
    <3>2. \A e \in edges : e.src \in mapped' /\ e.dst \in mapped'
      BY <1>1, <2>1, <3>1
    <3> QED
      BY <2>1, <3>1, <3>2 DEF EndsFollow, Record
  <2> QED
    BY <2>2, <2>3
<1>10. CASE SkipProbe \/ ProbeNothing \/ ProbeStrays \/ ProbeRaises \/ FillValid \/ PushFrame
  <2>1. Charted /\ UNCHANGED <<mapped, edges>>
    BY <1>2, <1>10 DEF SkipProbe, ProbeNothing, ProbeStrays, ProbeRaises, FillValid,
                       PushFrame, result
  <2> QED
    BY <1>3, <2>1
<1>11. CASE ProbeRejected \/ ProbeAdvances
  <2>1. Charted /\ new \in mapped
    BY <1>2, <1>11 DEF ProbeRejected, ProbeAdvances, BooksInv, NewIsFree, AtForm
  <2>2. \E q : q \in mapped' /\ Record(new, q, "probe") /\ mapped \subseteq mapped'
    BY <1>11, <2>1 DEF ProbeRejected, ProbeAdvances, Chart
  <2> QED
    BY <1>4, <2>1, <2>2
<1>12. CASE Abandon \/ Refill \/ ScrollInVain \/ Finish \/ SkipBlocked \/ Stop
  <2>1. phase \in {"loop", "leave"} /\ UNCHANGED <<mapped, edges>>
    BY <1>12, FinishDrops DEF Abandon, Refill, ScrollInVain, Finish, SkipBlocked, Stop, Ready, Leaving,
                              result
  <2> QED
    BY <1>2, <1>3, <2>1
<1>13. CASE TapControl
  <2>1. PICK e \in Element :
          TapLeavesApp(e) \/ TapUnread(e) \/ TapStays(e) \/ TapNavigates(e)
    BY <1>13 DEF TapControl
  <2>2. /\ Ready /\ phase = "loop" /\ stack' = WithTop(Tapped(e))
        /\ UNCHANGED mapped
    BY <2>1 DEF TapLeavesApp, TapUnread, TapStays, TapNavigates, Tap, Ready, result
  <2>3. Len(stack) \in Nat \ {0} /\ Charted
    BY <1>2, <2>2, ReadyType, StackType
  <2>4. Top.fp \in mapped
    BY <2>3 DEF BooksInv, WorkIsMapped, Top
  <2>5. CASE TapLeavesApp(e) \/ TapUnread(e)
    BY <1>3, <2>2, <2>3, <2>5 DEF TapLeavesApp, TapUnread, result
  <2>6. CASE TapStays(e)
    BY <1>4, <2>2, <2>3, <2>4, <2>6 DEF TapStays
  <2>7. CASE TapNavigates(e)
    <3>1. stack' # <<>>
      <4>1. SameScreens
        BY <2>2, WithoutType, TopReplaced
      <4>2. Len(stack') # 0
        BY <2>3, <4>1 DEF SameScreens
      <4> QED
        BY <4>2
    <3>2. /\ Record(Top.fp, screen', "tap") /\ new' = screen' /\ AtTapped'
      BY <2>7, <3>1 DEF TapNavigates, AtTapped
    <3> QED
      BY <2>2, <2>3, <2>4, <3>2 DEF EndsFollow, Record
  <2> QED
    BY <2>1, <2>5, <2>6, <2>7
<1>14. CASE ChartScreen \/ ChartTerminal
  <2>1. phase = "land" /\ mapped' = mapped \cup {new} /\ UNCHANGED edges
    BY <1>14 DEF ChartScreen, ChartTerminal, Chart
  <2> QED
    BY <1>1, <1>3, <2>1
<1>15. CASE Resume \/ ReturnToParent
  <2>1. phase = "land" /\ ~Fresh /\ UNCHANGED <<mapped, edges>>
    BY <1>15 DEF Resume, ReturnToParent, result
  <2>2. new \in mapped
    BY <2>1, ReturnIsCharted
  <2> QED
    BY <1>1, <1>3, <2>1, <2>2
<1>16. CASE UNCHANGED vars
  <2>1. UNCHANGED <<phase, stack, new, mapped, edges>>
    BY <1>16 DEF vars, result
  <2> QED
    BY <2>1 DEF EndsFollow, AtTapped
<1> QED
  BY <1>5, <1>6, <1>7, <1>8, <1>9, <1>10, <1>11, <1>12, <1>13, <1>14, <1>15, <1>16
     DEF Next, Step, PassGates, HandleForm, Loop, Land

(***************************************************************************)
(* Where the depth limit leaves room for every screen, build_graph drops   *)
(* no transition of a crawl: at the head of the loop both ends of each are *)
(* in CrawlResult.screens.                                                 *)
(***************************************************************************)
THEOREM TransitionsKeepTheirEnds ==
  ASSUME Roomy
  PROVE  Spec => []EdgesEndInMap
<1>1. Init => EndsFollow
  BY DEF Init, EndsFollow
<1>2. TypeOK /\ TypeOK' /\ WalkInv /\ ReadInv /\ EndsFollow /\ [Next]_vars => EndsFollow'
  BY EndsStep DEF WalkInv
<1>3. EndsFollow => EdgesEndInMap
  BY DEF EndsFollow, EdgesEndInMap, AtTapped
<1> QED
  BY <1>1, <1>2, <1>3, TypeCorrect, WalkIsSafe, ReadingIsTrue, PTL DEF Spec

(***************************************************************************)
(* What is owed stays owed as long as no queue below the top, and nothing  *)
(* parked, gets shorter.                                                   *)
(***************************************************************************)
LEMMA OwedIsKept ==
  ASSUME TypeOK, NEW o \in Owed,
         \A i \in 1..Len(stack) : /\ i \in 1..Len(stack')
                                  /\ stack'[i].fp = stack[i].fp
                                  /\ stack[i].todo \subseteq stack'[i].todo,
         \A q \in Place : pending[q] \subseteq pending'[q]
  PROVE  o \in Owed'
BY DEF Owed

\* Of a queue that loses its head, nothing else is lost.
LEMMA OnePopped ==
  ASSUME TypeOK, Ready, NEW x \in Element,
         NEW f \in {Without(x), Tapped(x)}, stack' = WithTop(f),
         UNCHANGED pending, NEW o \in Owed \ Owed'
  PROVE  o = <<Top.fp, x>>
<1>1. stack \in Seq(Frames) /\ stack # <<>> /\ Frame \in Frames /\ Top \in Frames
  BY ReadyType
<1>2. f \in Frames /\ f.fp = Top.fp
  BY WithoutType
<1>3. f.todo = Top.todo \ {x}
  BY WithoutType
<1>4. /\ Len(stack) \in Nat \ {0} /\ Len(stack') = Len(stack)
      /\ \A i \in 1..Len(stack) :
            stack'[i] = IF i = Len(stack) THEN f ELSE stack[i]
  BY <1>1, <1>2, StackType
<1>5. o \in Place \X Element /\ o[2] \notin pending'[o[1]] /\ o[2] \notin pending[o[1]]
  BY DEF Owed
<1>6. PICK i \in 1..Len(stack) : stack[i].fp = o[1] /\ o[2] \in stack[i].todo
  BY <1>5 DEF Owed
<1>7. ~(stack'[i].fp = o[1] /\ o[2] \in stack'[i].todo)
  BY <1>4, <1>5, <1>6 DEF Owed
<1>8. i = Len(stack) /\ stack[i] = Top
  BY <1>4, <1>6, <1>7 DEF Top
<1>9. o[1] = Top.fp /\ o[2] = x
  BY <1>2, <1>3, <1>4, <1>6, <1>7, <1>8
<1> QED
  BY <1>5, <1>9

\* A frame that is dropped owes nothing that is not parked.
LEMMA DropOwesNothing ==
  ASSUME TypeOK, Ready \/ Leaving, stack' = Marked(Rest, screen'),
         Top.todo \subseteq pending'[Top.fp],
         \A q \in Place : pending[q] \subseteq pending'[q],
         NEW o \in Owed
  PROVE  o \in Owed'
<1>1. stack \in Seq(Frames) /\ stack # <<>>
  BY ReadyType
<1>2. /\ Len(stack) \in Nat \ {0}
      /\ Rest \in Seq(Frames) /\ Len(Rest) = Len(stack) - 1
      /\ \A i \in 1..Len(Rest) : Rest[i] = stack[i]
  BY <1>1, StackType
<1>3. /\ Len(stack') = Len(Rest)
      /\ \A i \in 1..Len(Rest) : /\ stack'[i].fp = Rest[i].fp
                                 /\ stack'[i].todo = Rest[i].todo
  BY <1>2, MarkedType
<1>4. o \in Place \X Element
  BY DEF Owed
<1>5. CASE o[2] \in pending[o[1]]
  BY <1>4, <1>5 DEF Owed
<1>6. CASE o[2] \notin pending[o[1]]
  <2>1. PICK i \in 1..Len(stack) : stack[i].fp = o[1] /\ o[2] \in stack[i].todo
    BY <1>6 DEF Owed
  <2>2. CASE i = Len(stack)
    <3>1. o[2] \in pending'[o[1]]
      BY <2>1, <2>2 DEF Top
    <3> QED
      BY <1>4, <3>1 DEF Owed
  <2>3. CASE i # Len(stack)
    <3>1. i \in 1..Len(Rest)
      BY <1>2, <2>3
    <3>2. i \in 1..Len(stack') /\ stack'[i].fp = o[1] /\ o[2] \in stack'[i].todo
      BY <1>2, <1>3, <2>1, <3>1
    <3> QED
      BY <1>4, <3>2 DEF Owed
  <2> QED
    BY <2>2, <2>3
<1> QED
  BY <1>5, <1>6

\* A new frame takes over what was parked for its screen.
LEMMA PushTakesOver ==
  ASSUME TypeOK, NEW f \in Frames, stack' = Append(stack, f),
         pending[f.fp] \subseteq f.todo, pending' = [pending EXCEPT ![f.fp] = {}],
         NEW o \in Owed
  PROVE  o \in Owed'
<1>1. stack \in Seq(Frames) /\ Len(stack) \in Nat
  BY LenProperties DEF TypeOK
<1>2. /\ Len(stack') = Len(stack) + 1
      /\ \A i \in 1..Len(stack) : stack'[i] = stack[i]
      /\ stack'[Len(stack) + 1] = f
  BY <1>1, AppendProperties
<1>3. o \in Place \X Element
  BY DEF Owed
<1>4. CASE o[2] \in pending[o[1]] /\ o[1] # f.fp
  <2>1. o[2] \in pending'[o[1]]
    BY <1>3, <1>4 DEF TypeOK
  <2> QED
    BY <1>3, <2>1 DEF Owed
<1>5. CASE o[2] \in pending[o[1]] /\ o[1] = f.fp
  <2>1. Len(stack) + 1 \in 1..Len(stack')
    BY <1>1, <1>2
  <2> QED
    BY <1>2, <1>3, <1>5, <2>1 DEF Owed
<1>6. CASE o[2] \notin pending[o[1]]
  <2>1. PICK i \in 1..Len(stack) : stack[i].fp = o[1] /\ o[2] \in stack[i].todo
    BY <1>6 DEF Owed
  <2>2. i \in 1..Len(stack')
    BY <1>1, <1>2
  <2> QED
    BY <1>2, <1>3, <2>1, <2>2 DEF Owed
<1> QED
  BY <1>4, <1>5, <1>6

(***************************************************************************)
(* The only steps that lose work: a control of the frame at work is tapped *)
(* or found blocked, or a screen with parked work is left at the depth     *)
(* limit (_resume_parked took the work out before it looked at the depth). *)
(***************************************************************************)
LostAtWork(o) ==
  /\ phase = "loop" /\ o[1] = Top.fp /\ Owed \ Owed' = {o}
  /\ steps' > steps \/ IsBlocked(o[2], Top.money)

LostAtLimit(o) ==
  ReturnToParent /\ Len(stack) >= MaxDepth /\ o[1] = new

LEMMA LossStep ==
  ASSUME TypeOK, TypeOK', BooksInv, [Next]_vars, NEW o \in Owed \ Owed'
  PROVE  LostAtWork(o) \/ LostAtLimit(o)
<1>1. stack \in Seq(Frames) /\ Len(stack) \in Nat /\ steps \in Nat
      /\ pending \in [Place -> SUBSET Element]
  BY LenProperties DEF TypeOK
<1>2. ASSUME UNCHANGED <<stack, pending>> PROVE FALSE
  BY <1>2 DEF Owed
<1>3. ASSUME stack' = Marked(stack, screen'), \A q \in Place : pending[q] \subseteq pending'[q]
      PROVE  FALSE
  <2>1. \A i \in 1..Len(stack) : /\ i \in 1..Len(stack')
                                 /\ stack'[i].fp = stack[i].fp
                                 /\ stack'[i].todo = stack[i].todo
    BY <1>1, <1>3, MarkedType
  <2> QED
    BY <1>3, <2>1, OwedIsKept
<1>4. CASE GiveUp \/ ReadEntry \/ PassGates \/ Stop \/ DriverError \/ UNCHANGED vars
  BY <1>2, <1>4 DEF GiveUp, ReadEntry, PassGates, FireWaypoint, StopAtGate, CrossEntryGate,
                    CrossGate, Stop, DriverError, vars
<1>5. CASE SkipProbe \/ ProbeNothing \/ ProbeStrays \/ ProbeRaises \/ ProbeRejected
           \/ ProbeAdvances \/ FillValid \/ ChartScreen
  BY <1>2, <1>5 DEF SkipProbe, ProbeNothing, ProbeStrays, ProbeRaises, ProbeRejected,
                    ProbeAdvances, FillValid, ChartScreen
<1>6. CASE PushFrame \/ Resume
  <2>1. new \in Place /\ pending[new] \subseteq Element /\ Shown[new] \subseteq Element
    BY ControlsAreKnown DEF TypeOK
  <2>2. PICK todo \in SUBSET Element :
          /\ stack' = Append(stack, NewFrame(new, todo)) /\ pending[new] \subseteq todo
          /\ pending' = [pending EXCEPT ![new] = {}]
    BY <1>6, <2>1 DEF PushFrame, Resume
  <2> DEFINE f == NewFrame(new, todo)
  <2>3. f \in Frames /\ f.fp = new /\ f.todo = todo
    BY <2>1, NewFrameType DEF NewFrame
  <2> QED
    BY <2>2, <2>3, PushTakesOver
<1>7. CASE Abandon
  <2>1. Ready /\ Park /\ stack' = Marked(Rest, screen')
    BY <1>7 DEF Abandon
  <2>2. Top.fp \in Place
    BY <2>1, ReadyType
  <2>3. /\ Top.todo \subseteq pending'[Top.fp]
        /\ \A q \in Place : pending[q] \subseteq pending'[q]
    BY <1>1, <2>1, <2>2 DEF Park
  <2> QED
    BY <2>1, <2>3, DropOwesNothing
<1>8. CASE Finish
  <2>1. (Ready \/ Leaving) /\ stack' = Marked(Rest, screen') /\ UNCHANGED pending
    BY <1>8, FinishDrops DEF Finish
  <2>2. Top.todo = {}
    BY <1>8 DEF Finish, NothingLeft, Leaving, BooksInv, LeftIsIdle
  <2> QED
    BY <2>1, <2>2, DropOwesNothing
<1>9. CASE Refill
  <2>1. Ready /\ Top.todo = {}
    BY <1>9 DEF Refill
  <2>2. PICK f \in Frames : f.fp = Top.fp /\ stack' = WithTop(f)
    BY <1>9, RefillFrame
  <2>3. stack # <<>> /\ Len(stack) \in 1..Len(stack) /\ Len(stack') = Len(stack)
        /\ \A i \in 1..Len(stack) :
              stack'[i] = IF i = Len(stack) THEN f ELSE stack[i]
    <3>1. stack # <<>> /\ Len(stack) \in 1..Len(stack)
      BY <1>1, <2>1, ReadyType
    <3>2. /\ Len(WithTop(f)) = Len(stack)
          /\ \A i \in 1..Len(stack) :
                WithTop(f)[i] = IF i = Len(stack) THEN f ELSE stack[i]
      BY <1>1, <3>1, StackType
    <3> QED
      BY <2>2, <3>1, <3>2
  <2>4. pending[Top.fp] = {}
    BY <2>3 DEF BooksInv, OneFramePerScreen, Top
  <2>5. UNCHANGED pending
    BY <1>9, <2>4 DEF Refill
  <2>6. \A i \in 1..Len(stack) : /\ i \in 1..Len(stack')
                                 /\ stack'[i].fp = stack[i].fp
                                 /\ stack[i].todo \subseteq stack'[i].todo
    BY <2>1, <2>2, <2>3 DEF Top
  <2> QED
    BY <2>5, <2>6, OwedIsKept
<1>10. CASE SkipBlocked
  <2>1. PICK x \in Top.todo :
          Ready /\ IsBlocked(x, Top.money) /\ stack' = WithTop(Without(x))
    BY <1>10 DEF SkipBlocked
  <2>2. x \in Element /\ UNCHANGED pending /\ phase = "loop"
    BY <1>10, <2>1, ReadyType DEF SkipBlocked, Ready
  <2>3. \A q \in Owed \ Owed' : q = <<Top.fp, x>>
    BY <2>1, <2>2, OnePopped
  <2>4. o = <<Top.fp, x>> /\ Owed \ Owed' = {o}
    BY <2>3
  <2> QED
    BY <2>1, <2>2, <2>4 DEF LostAtWork
<1>11. CASE TapControl
  <2>1. PICK x \in Element :
          TapLeavesApp(x) \/ TapUnread(x) \/ TapStays(x) \/ TapNavigates(x)
    BY <1>11 DEF TapControl
  <2>2. Ready /\ stack' = WithTop(Tapped(x)) /\ steps' = steps + 1
        /\ UNCHANGED pending /\ phase = "loop"
    BY <2>1 DEF TapLeavesApp, TapUnread, TapStays, TapNavigates, Tap, Ready
  <2>3. \A q \in Owed \ Owed' : q = <<Top.fp, x>>
    BY <2>2, OnePopped
  <2>4. o = <<Top.fp, x>> /\ Owed \ Owed' = {o}
    BY <2>3
  <2> QED
    BY <1>1, <2>2, <2>4 DEF LostAtWork
<1>12. CASE ChartTerminal
  BY <1>3, <1>12 DEF ChartTerminal
<1>13. CASE ReturnToParent
  <2>1. /\ stack' = Marked(stack, screen') /\ pending' = [pending EXCEPT ![new] = {}]
        /\ pending[new] = {} \/ Len(stack) >= MaxDepth
    BY <1>13 DEF ReturnToParent
  <2>2. CASE pending[new] = {}
    BY <1>1, <1>3, <2>1, <2>2
  <2>3. CASE pending[new] # {}
    <3>1. \A i \in 1..Len(stack) : /\ i \in 1..Len(stack')
                                   /\ stack'[i].fp = stack[i].fp
                                   /\ stack'[i].todo = stack[i].todo
      BY <1>1, <2>1, MarkedType
    <3>2. o[1] = new
      BY <1>1, <2>1, <3>1 DEF Owed
    <3> QED
      BY <1>13, <2>1, <2>3, <3>2 DEF LostAtLimit
  <2> QED
    BY <2>2, <2>3
<1>14. CASE ScrollInVain
  <2>1. Ready /\ stack' = WithTop(Scrolled) /\ UNCHANGED pending
    BY <1>14 DEF ScrollInVain
  <2>2. /\ Scrolled \in Frames /\ Scrolled.fp = Top.fp /\ Scrolled.todo = Top.todo
        /\ stack # <<>>
    BY <2>1, ReadyType, ScrolledType
  <2>3. /\ Len(stack') = Len(stack)
        /\ \A i \in 1..Len(stack) :
              stack'[i] = IF i = Len(stack) THEN Scrolled ELSE stack[i]
    BY <1>1, <2>1, <2>2, StackType
  <2>4. \A i \in 1..Len(stack) : /\ i \in 1..Len(stack')
                                 /\ stack'[i].fp = stack[i].fp
                                 /\ stack[i].todo \subseteq stack'[i].todo
    BY <2>2, <2>3 DEF Top
  <2> QED
    BY <2>1, <2>4, OwedIsKept
<1> QED
  BY <1>14, <1>4, <1>5, <1>6, <1>7, <1>8, <1>9, <1>10, <1>11, <1>12, <1>13
     DEF Next, Step, HandleForm, Loop, Land

(***************************************************************************)
(* Whatever the budgets: a control the walk queued or parked is lost only  *)
(* by being tapped or found blocked, or with a screen that is left at the  *)
(* depth limit.                                                            *)
(***************************************************************************)
THEOREM LossIsKnown == Spec => [][\A o \in Owed \ Owed' : LostAtWork(o) \/ LostAtLimit(o)]_vars
<1>1. TypeOK /\ TypeOK' /\ WalkInv /\ [Next]_vars
        => [\A o \in Owed \ Owed' : LostAtWork(o) \/ LostAtLimit(o)]_vars
  BY LossStep DEF WalkInv
<1> QED
  BY <1>1, TypeCorrect, WalkIsSafe, PTL DEF Spec

(***************************************************************************)
(* Where the depth limit leaves room for every screen, no queue of _dfs    *)
(* and no parked work is ever lost.                                        *)
(***************************************************************************)
THEOREM NoWorkIsLost ==
  ASSUME Roomy
  PROVE  Spec => WorkKept
<1> DEFINE Kept == \A o \in Owed \ Owed' :
                      /\ phase = "loop" /\ o[1] = Top.fp /\ Owed \ Owed' = {o}
                      /\ steps' > steps \/ IsBlocked(o[2], Top.money)
<1>1. ASSUME TypeOK, TypeOK', BooksInv, ReadInv, [Next]_vars, NEW o \in Owed \ Owed'
      PROVE  LostAtWork(o)
  <2> SUFFICES ASSUME LostAtLimit(o) PROVE FALSE
    BY <1>1, LossStep
  <2>1. phase = "land" /\ ~Fresh /\ Len(stack) >= MaxDepth /\ o[1] = new
        /\ stack' = Marked(stack, screen') /\ pending' = [pending EXCEPT ![new] = {}]
    BY DEF LostAtLimit, ReturnToParent
  <2>2. pending[new] = {}
    BY <1>1, <2>1, ReturnIsCharted
  <2>3. stack \in Seq(Frames) /\ pending \in [Place -> SUBSET Element] /\ Len(stack) \in Nat
    BY <1>1, LenProperties DEF TypeOK
  <2>4. \A i \in 1..Len(stack) : /\ i \in 1..Len(stack')
                                 /\ stack'[i].fp = stack[i].fp
                                 /\ stack'[i].todo = stack[i].todo
    BY <2>1, <2>3, MarkedType
  <2>5. \A q \in Place : pending[q] \subseteq pending'[q]
    BY <2>1, <2>2, <2>3
  <2> QED
    BY <1>1, <2>4, <2>5, OwedIsKept
<1>2. TypeOK /\ TypeOK' /\ WalkInv /\ ReadInv /\ [Next]_vars => [Kept]_vars
  BY <1>1 DEF WalkInv, LostAtWork
<1> QED
  BY <1>2, TypeCorrect, WalkIsSafe, ReadingIsTrue, PTL DEF Spec, WorkKept

-----------------------------------------------------------------------------
(* The abstract map *)

\* One transition is recorded from a charted screen, and at most its end charted.
LEMMA OneMoreEdge ==
  ASSUME TypeOK, TypeOK', UNCHANGED entry,
         NEW p \in mapped, NEW q, NEW k, Record(p, q, k),
         mapped' \subseteq mapped \cup {q}, mapped \subseteq mapped'
  PROVE  Map!Extend
<1> DEFINE e == [src |-> p, dst |-> q, kind |-> k]
<1>1. edges' = edges \cup {e} /\ e.src = p /\ e.dst = q
  BY DEF Record
<1>2. edges' \subseteq Map!Edge /\ mapped' \subseteq Place
  BY DEF TypeOK, Edge, Map!Edge
<1>3. \A f \in edges' \ edges : f.src \in mapped'
  BY <1>1
<1>4. \A r \in mapped' \ mapped : \E f \in edges' : f.dst = r /\ f.src \in mapped
  BY <1>1
<1> QED
  BY <1>1, <1>2, <1>3, <1>4 DEF Map!Extend

\* A screen is charted that a recorded transition already leads to.
LEMMA OneMoreScreen ==
  ASSUME TypeOK, TypeOK', UNCHANGED <<entry, edges>>, NEW p,
         mapped' = mapped \cup {p},
         \E e \in edges : e.dst = p /\ e.src \in mapped
  PROVE  Map!Extend
<1>1. mapped # {} /\ mapped \subseteq mapped' /\ mapped' \subseteq Place
  BY DEF TypeOK
<1>2. edges' \subseteq Map!Edge
  BY DEF TypeOK, Edge, Map!Edge
<1>3. \A r \in mapped' \ mapped : \E e \in edges' : e.dst = r /\ e.src \in mapped
  OBVIOUS
<1> QED
  BY <1>1, <1>2, <1>3 DEF Map!Extend

(***************************************************************************)
(* Every step of the crawl extends the map, enters it, or leaves it alone. *)
(***************************************************************************)
LEMMA MapStep ==
  ASSUME TypeOK, TypeOK', BooksInv, [Next]_vars
  PROVE  [Map!Next]_(Map!vars)
<1>1. ASSUME UNCHANGED <<entry, mapped, edges>> PROVE [Map!Next]_(Map!vars)
  BY <1>1 DEF Map!vars
<1>2. ASSUME Map!Extend PROVE [Map!Next]_(Map!vars)
  BY <1>2 DEF Map!Next
<1>3. ASSUME Ready PROVE Top.fp \in mapped
  <2>1. Len(stack) \in Nat \ {0}
    BY <1>3, ReadyType, StackType
  <2> QED
    BY <2>1 DEF BooksInv, WorkIsMapped, Top
<1>4. CASE GiveUp \/ FireWaypoint \/ StopAtGate \/ SkipProbe \/ ProbeNothing
           \/ ProbeStrays \/ ProbeRaises \/ FillValid \/ PushFrame
  BY <1>1, <1>4
     DEF GiveUp, FireWaypoint, StopAtGate, SkipProbe, ProbeNothing, ProbeStrays,
         ProbeRaises, FillValid, PushFrame, result
<1>5. CASE Abandon \/ Refill \/ ScrollInVain \/ Finish \/ SkipBlocked \/ Stop \/ Resume
           \/ ReturnToParent \/ DriverError
  BY <1>1, <1>5
     DEF Abandon, Refill, ScrollInVain, Finish, SkipBlocked, Stop, Resume,
         ReturnToParent, DriverError, result
<1>6. CASE ReadEntry
  <2>1. screen' \in Place /\ Map!Enter(screen')
    BY <1>6 DEF ReadEntry, TypeOK, BooksInv, BeforeTheMap, Map!Enter
  <2> QED
    BY <2>1 DEF Map!Next
<1>7. CASE CrossEntryGate
  <2>1. new \in mapped /\ UNCHANGED entry
    BY <1>7 DEF CrossEntryGate, BooksInv, NewIsFree, AtEntry
  <2>2. CASE screen = Blank
    BY <1>1, <1>7, <2>2 DEF CrossEntryGate
  <2>3. CASE screen # Blank /\ screen = new
    <3>1. UNCHANGED <<mapped, edges>>
      BY <1>7, <2>1, <2>3 DEF CrossEntryGate, Chart
    <3> QED
      BY <1>1, <2>1, <3>1
  <2>4. CASE screen # Blank /\ screen # new
    <3>1. Record(new, screen, "gate") /\ mapped' = mapped \cup {screen}
      BY <1>7, <2>4 DEF CrossEntryGate, Chart
    <3> QED
      BY <1>2, <2>1, <3>1, OneMoreEdge
  <2> QED
    BY <2>2, <2>3, <2>4
<1>8. CASE CrossGate
  <2>1. CASE screen' \in {Blank, new}
    BY <1>1, <1>8, <2>1 DEF CrossGate
  <2>2. CASE screen' \notin {Blank, new}
    <3> DEFINE e == [src |-> new, dst |-> screen', kind |-> "gate"]
    <3>1. /\ UNCHANGED entry /\ mapped' = mapped \cup {new}
          /\ edges' = edges \cup {e} /\ e.src = new
      BY <1>8, <2>2 DEF CrossGate, Chart, Record
    <3>2. PICK f \in edges : f.dst = new /\ f.src \in mapped
      BY <1>8 DEF CrossGate, BooksInv, NewIsLinked, AtTapped
    <3>3. mapped' \subseteq Place /\ edges' \subseteq Map!Edge
      BY DEF TypeOK, Edge, Map!Edge
    <3>4. Map!Extend
      BY <3>1, <3>2, <3>3 DEF Map!Extend
    <3> QED
      BY <1>2, <3>4
  <2> QED
    BY <2>1, <2>2
<1>9. CASE ProbeRejected \/ ProbeAdvances
  <2>1. new \in mapped /\ UNCHANGED entry
    BY <1>9 DEF ProbeRejected, ProbeAdvances, BooksInv, NewIsFree, AtForm
  <2>2. \E q : /\ Record(new, q, "probe")
               /\ mapped \subseteq mapped' /\ mapped' \subseteq mapped \cup {q}
    BY <1>9 DEF ProbeRejected, ProbeAdvances, Chart
  <2> QED
    BY <1>2, <2>1, <2>2, OneMoreEdge
<1>10. CASE TapControl
  <2>1. PICK e \in Element :
          TapLeavesApp(e) \/ TapUnread(e) \/ TapStays(e) \/ TapNavigates(e)
    BY <1>10 DEF TapControl
  <2>2. CASE TapLeavesApp(e) \/ TapUnread(e)
    BY <1>1, <2>2 DEF TapLeavesApp, TapUnread, result
  <2>3. CASE TapStays(e) \/ TapNavigates(e)
    <3>1. /\ Ready /\ UNCHANGED <<entry, mapped>>
          /\ \E q : Record(Top.fp, q, "tap")
      BY <2>3 DEF TapStays, TapNavigates, Tap
    <3> QED
      BY <1>2, <1>3, <3>1, OneMoreEdge
  <2> QED
    BY <2>1, <2>2, <2>3
<1>11. CASE ChartScreen \/ ChartTerminal
  <2>1. UNCHANGED <<entry, edges>> /\ mapped' = mapped \cup {new} /\ phase = "land"
    BY <1>11 DEF ChartScreen, ChartTerminal, Chart
  <2>2. \E e \in edges : e.dst = new /\ e.src \in mapped
    BY <2>1 DEF BooksInv, NewIsLinked, AtTapped
  <2> QED
    BY <1>2, <2>1, <2>2, OneMoreScreen
<1>12. CASE UNCHANGED vars
  BY <1>1, <1>12 DEF vars, result
<1> QED
  BY <1>4, <1>5, <1>6, <1>7, <1>8, <1>9, <1>10, <1>11, <1>12
     DEF Next, Step, PassGates, HandleForm, Loop, Land

(***************************************************************************)
(* The crawl implements the abstract map (CrawlResult only grows, along    *)
(* recorded transitions, from its entry).                                  *)
(***************************************************************************)
THEOREM CrawlImplementsMap == Spec => MapSpec
<1>1. Init => Map!Init
  BY DEF Init, Map!Init, Place
<1>2. TypeOK /\ TypeOK' /\ WalkInv /\ [Next]_vars => [Map!Next]_(Map!vars)
  BY MapStep DEF WalkInv
<1> QED
  BY <1>1, <1>2, TypeCorrect, WalkIsSafe, PTL DEF Spec, MapSpec, Map!Spec

\* Recording more transitions never makes a screen unreachable.
LEMMA ReachableIsKept ==
  ASSUME NEW p, Map!Reachable(p), UNCHANGED entry, edges \subseteq edges'
  PROVE  Map!Reachable(p)'
<1> SUFFICES ASSUME NEW C \in SUBSET Place, entry \in C, Map!Closed(C)'
             PROVE  p \in C
  BY DEF Map!Reachable
<1>1. Map!Closed(C)
  BY DEF Map!Closed
<1> QED
  BY <1>1 DEF Map!Reachable

(***************************************************************************)
(* Whatever keeps to CrawlMap keeps its map connected: a screen is charted *)
(* when a transition leads to it from one already reachable.               *)
(***************************************************************************)
THEOREM MapIsConnected == MapSpec => []MapConnected
<1> USE DEF MapConnected
<1>1. Map!Init => MapConnected
  BY DEF Map!Init, Map!Connected
<1>2. ASSUME MapConnected, [Map!Next]_(Map!vars) PROVE MapConnected'
  <2>1. ASSUME NEW p \in Place, Map!Enter(p) PROVE Map!Connected'
    BY <2>1 DEF Map!Enter, Map!Connected, Map!Reachable
  <2>2. CASE Map!Extend
    <3> SUFFICES ASSUME NEW p \in mapped' PROVE Map!Reachable(p)'
      BY DEF Map!Connected
    <3>1. CASE p \in mapped
      BY <1>2, <2>2, <3>1, ReachableIsKept DEF Map!Extend, Map!Connected
    <3>2. CASE p \notin mapped
      <4>1. PICK e \in edges' : e.dst = p /\ e.src \in mapped
        BY <2>2, <3>2 DEF Map!Extend
      <4>2. Map!Reachable(e.src)'
        BY <1>2, <2>2, <4>1, ReachableIsKept DEF Map!Extend, Map!Connected
      <4> QED
        BY <4>1, <4>2 DEF Map!Reachable, Map!Closed
    <3> QED
      BY <3>1, <3>2
  <2>3. CASE UNCHANGED Map!vars
    BY <1>2, <2>3 DEF Map!vars, Map!Connected, Map!Reachable, Map!Closed
  <2> QED
    BY <1>2, <2>1, <2>2, <2>3 DEF Map!Next
<1> QED
  BY <1>1, <1>2, PTL DEF MapSpec, Map!Spec

(***************************************************************************)
(* Every screen in CrawlResult.screens can be walked to from the entry     *)
(* along recorded transitions, whatever the device did.                    *)
(***************************************************************************)
COROLLARY CrawledMapIsConnected == Spec => []MapConnected
BY CrawlImplementsMap, MapIsConnected, PTL

-----------------------------------------------------------------------------
(* What the synced mark of a frame is worth, on an app that keeps the
   foreground and answers every dump, for any Back, scroll, gate, obstacle and
   form.  TapsHitTheirScreen and BacksObserved fail once there is a form or a
   second app, and say nothing of a frame that was scrolled but what the scroll
   itself has shown. *)

KeepsForeground == Foreign = {} /\ ~Flaky

\* Nothing but the app is ever shown.
LEMMA OnlyTheApp ==
  ASSUME KeepsForeground, NEW p \in App
  PROVE  Live = App /\ Reads(p) \subseteq App /\ OnApp(p) /\ p # Blank
BY PlacesDiffer DEF KeepsForeground, Live, Reads, OnApp

\* The frame a stack is left with is marked by what the device shows.
LEMMA MarkIsTrue ==
  ASSUME NEW s \in Seq(Frames), stack' = Marked(s, screen'),
         stack' # <<>>
  PROVE  (Top'.synced => screen' = Top'.fp) /\ ~Top'.scrolled
<1>1. s # <<>>
  BY DEF Marked
<1>2. Len(s) \in Nat \ {0}
  BY <1>1, EmptySeq
<1>3. s[Len(s)] \in Frames
  BY <1>2, ElementOfSeq
<1> DEFINE f == Back(s[Len(s)], s[Len(s)].fp = screen')
<1>4. /\ f \in Frames /\ f.fp = s[Len(s)].fp /\ ~f.scrolled
      /\ f.synced => f.fp = screen'
  BY <1>3 DEF Frames, Back
<1>5. stack' = [s EXCEPT ![Len(s)] = f]
  BY <1>1 DEF Marked
<1> HIDE DEF f
<1>6. Len(stack') = Len(s) /\ stack'[Len(s)] = f
  BY <1>2, <1>4, <1>5, ExceptSeq
<1> QED
  BY <1>4, <1>6 DEF Top

\* The frame that replaces the top is the top.
LEMMA NewTop ==
  ASSUME TypeOK, Ready, NEW f \in Frames, stack' = WithTop(f)
  PROVE  Top' = f
<1>1. stack \in Seq(Frames) /\ stack # <<>>
  BY ReadyType
<1>2. /\ Len(stack) \in Nat \ {0} /\ Len(stack') = Len(stack)
      /\ stack'[Len(stack)] = f
  <2>1. /\ Len(stack) \in Nat \ {0} /\ Len(WithTop(f)) = Len(stack)
        /\ \A i \in 1..Len(stack) :
              WithTop(f)[i] = IF i = Len(stack) THEN f ELSE stack[i]
    BY <1>1, StackType
  <2> QED
    BY <2>1
<1> QED
  BY <1>2 DEF Top

\* A frame at work is the screen on the device, or was scrolled since, or is a form.
Known(f) == screen = f.fp \/ f.scrolled \/ f.fp \in FormLike

LEMMA HereIsKnown ==
  ASSUME SyncInv, Ready, Here
  PROVE  Known(Top) /\ (Top.scrolled => Top.todo \subseteq Lower[screen])
BY DEF SyncInv, Ready, Here, Known

(***************************************************************************)
(* Every step keeps the mark true.                                         *)
(***************************************************************************)
LEMMA SyncStep ==
  ASSUME KeepsForeground, TypeOK, TypeOK', BooksInv, ReadInv, SyncInv, [Next]_vars
  PROVE  SyncInv'
<1>1. /\ Live = App /\ Live \cap Foreign = {}
      /\ \A p \in App : Reads(p) \subseteq App /\ OnApp(p) /\ p # Blank
      /\ screen \in App /\ ~Flaky
  BY OnlyTheApp, PlacesDiffer DEF KeepsForeground, SyncInv
<1>2. stack \in Seq(Frames) /\ stack' \in Seq(Frames)
  BY DEF TypeOK
<1>3. ASSUME NEW s \in Seq(Frames), stack' = Marked(s, screen'), phase' = "loop",
             screen' \in App
      PROVE  SyncInv'
  <2>1. stack' # <<>> => (Top'.synced => screen' = Top'.fp) /\ ~Top'.scrolled
    BY <1>3, MarkIsTrue
  <2> QED
    BY <1>3, <2>1 DEF SyncInv
<1>4. ASSUME phase' = "loop", screen' \in App,
             stack' # <<>> => /\ Known(Top)'
                              /\ Top'.scrolled => Top'.todo \subseteq Lower[screen']
      PROVE  SyncInv'
  BY <1>4 DEF SyncInv, Known
<1>5. CASE GiveUp \/ Stop \/ DriverError
  BY <1>1, <1>5 DEF GiveUp, Stop, DriverError, SyncInv
<1>6. CASE ReadEntry
  <2>1. \E q \in App : screen' \in Reads(q)
    BY <1>1, <1>6 DEF ReadEntry, Recovers
  <2>2. screen' \in App /\ phase' = "gate" /\ new' = screen'
    BY <1>1, <1>6, <2>1 DEF ReadEntry
  <2> QED
    BY <2>2 DEF SyncInv
<1>7. CASE FireWaypoint
  <2>1. chain' # 0
    BY <1>7 DEF FireWaypoint, TypeOK
  <2> QED
    BY <1>1, <1>7, <2>1 DEF FireWaypoint, SyncInv
<1>8. CASE StopAtGate
  <2>1. UNCHANGED <<screen, new>> /\ phase' \in {"crossed", "form", "land"}
        /\ (phase' # "crossed" => phase = "gate" /\ ~(chain > 0))
    BY <1>8 DEF StopAtGate
  <2>2. chain \in Nat
    BY DEF TypeOK
  <2> QED
    BY <2>1, <2>2 DEF SyncInv
<1>9. CASE CrossEntryGate
  BY <1>1, <1>9 DEF CrossEntryGate, SyncInv
<1>10. CASE CrossGate
  BY <1>1, <1>10 DEF CrossGate, SyncInv
<1>11. CASE ProbeNothing \/ ProbeStrays \/ ProbeRaises \/ ProbeRejected \/ ProbeAdvances
  <2>1. ~ProbeStrays /\ ~ProbeRaises
    BY <1>1 DEF ProbeStrays, ProbeRaises
  <2>2. /\ phase = "form" /\ phase' \in {"fill", "push"} /\ UNCHANGED new
        /\ screen' \in App /\ (screen' \in {screen, new} \/ new \in Forms)
    BY <1>1, <1>11, <2>1 DEF ProbeNothing, ProbeRejected, ProbeAdvances, AfterProbe, GoBack, SyncInv
  <2> QED
    BY <2>2 DEF SyncInv, FormLike
<1>12. CASE SkipProbe \/ ChartScreen
  BY <1>12 DEF SkipProbe, ChartScreen, SyncInv
<1>13. CASE FillValid
  <2>1. /\ phase = "fill" /\ phase' = "push" /\ UNCHANGED new
        /\ screen' \in App /\ (screen' = screen \/ new \in AutoSubmit)
    BY <1>1, <1>13 DEF FillValid
  <2> QED
    BY <2>1 DEF SyncInv, FormLike
<1>14. CASE PushFrame \/ Resume
  <2>1. /\ screen = new \/ new \in FormLike
        /\ UNCHANGED <<screen, new>> /\ phase' = "loop"
    BY <1>14 DEF PushFrame, Resume, SyncInv
  <2>2. PICK todo \in SUBSET Element : stack' = Append(stack, NewFrame(new, todo))
    BY <1>14, ControlsAreKnown DEF PushFrame, Resume, TypeOK
  <2>3. NewFrame(new, todo) \in Frames
    BY <2>2, NewFrameType DEF TypeOK
  <2>4. Top' = NewFrame(new, todo)
    BY <1>2, <2>2, <2>3, AppendProperties, LenProperties DEF Top
  <2>5. Top'.fp = new /\ ~Top'.scrolled
    BY <2>4 DEF NewFrame
  <2> QED
    BY <1>1, <1>4, <2>1, <2>5 DEF Known
<1>15. CASE Abandon \/ Finish
  <2>1. /\ Ready \/ Leaving
        /\ phase' = "loop" /\ stack' = Marked(Rest, screen')
        /\ screen' \in App
    BY <1>1, <1>15, FinishDrops DEF Abandon, Finish, Ready, GoBack
  <2>2. Rest \in Seq(Frames)
    BY <2>1, ReadyType, StackType
  <2> QED
    BY <1>3, <2>1, <2>2
<1>16. CASE Refill
  <2>1. Ready /\ Here /\ phase' = "loop" /\ pending[Top.fp] = {}
    <3>1. Ready /\ Here /\ phase' = "loop"
      BY <1>16 DEF Refill, Ready
    <3>2. Len(stack) \in Nat \ {0}
      BY <3>1, ReadyType, StackType
    <3> QED
      BY <3>1, <3>2 DEF BooksInv, OneFramePerScreen, Top
  <2> DEFINE low == Lower[screen']
             f == [Scrolled EXCEPT !.todo = low \ Top.seen, !.seen = @ \cup low,
                                   !.money = @ \/ screen' \in MoneyLower]
  <2>2. stack' = WithTop(f) /\ screen' \in App
    BY <1>1, <1>16, <2>1 DEF Refill
  <2>3. low \subseteq Element
    BY <2>2, ControlsAreKnown DEF Place
  <2>4. Scrolled \in Frames /\ Scrolled.scrolled
    <3>1. Frame \in Frames /\ Frame.scrolls + 1 \in Nat
      BY <2>1, ReadyType DEF Frames
    <3> QED
      BY <2>1, <3>1, ScrolledType DEF Scrolled, Frames
  <2> HIDE DEF low
  <2>5. f \in Frames /\ f.scrolled /\ f.todo \subseteq low
    BY <2>3, <2>4 DEF Frames
  <2> HIDE DEF f
  <2>6. Top' = f
    BY <2>1, <2>2, <2>5, NewTop
  <2> QED
    BY <1>4, <2>1, <2>2, <2>5, <2>6 DEF Known, low
<1>21. CASE ScrollInVain
  <2>1. Ready /\ phase' = "leave" /\ screen' \in App /\ stack' = WithTop(Scrolled)
    BY <1>1, <1>21 DEF ScrollInVain
  <2>2. Scrolled \in Frames /\ Scrolled.scrolled
    <3>1. Frame \in Frames /\ Frame.scrolls + 1 \in Nat
      BY <2>1, ReadyType DEF Frames
    <3> QED
      BY <2>1, <3>1, ScrolledType DEF Scrolled, Frames
  <2>3. Top' = Scrolled
    BY <2>1, <2>2, NewTop
  <2> QED
    BY <2>1, <2>2, <2>3 DEF SyncInv
<1>17. CASE SkipBlocked
  <2>1. PICK e \in Element : Ready /\ Here /\ stack' = WithTop(Without(e))
    BY <1>17, ReadyType DEF SkipBlocked
  <2>2. Top' = Without(e) /\ phase' = "loop" /\ screen' = screen
    BY <1>17, <2>1, WithoutType, NewTop DEF SkipBlocked, Ready
  <2>3. /\ Without(e).fp = Top.fp /\ Without(e).scrolled = Top.scrolled
        /\ Without(e).todo \subseteq Top.todo
    BY <2>1, ReadyType, WithoutType DEF Without, Frame, Frames
  <2> QED
    BY <1>1, <1>4, <2>1, <2>2, <2>3, HereIsKnown DEF Known
<1>18. CASE TapControl
  <2>1. PICK e \in Element :
          TapLeavesApp(e) \/ TapUnread(e) \/ TapStays(e) \/ TapNavigates(e)
    BY <1>18 DEF TapControl
  <2>2. CASE TapLeavesApp(e) \/ TapUnread(e)
    BY <1>1, <2>2 DEF TapLeavesApp, TapUnread
  <2>3. CASE TapStays(e)
    <3>1. Ready /\ stack' = WithTop(Tapped(e)) /\ screen' = Top.fp
          /\ phase' = "loop"
      BY <2>3 DEF TapStays, Tap, Ready
    <3>4. Top.fp \in App
      <4>1. Len(stack) \in Nat \ {0}
        BY <3>1, ReadyType, StackType
      <4>2. Top.fp \in Screens
        BY <4>1 DEF BooksInv, WorkIsMapped, ReadInv, MappedIsRead, Top
      <4> QED
        BY <4>2 DEF Screens, KeepsForeground
    <3>2. Top' = Tapped(e)
      BY <3>1, WithoutType, NewTop
    <3>3. Tapped(e).fp = Top.fp /\ ~Tapped(e).scrolled
      BY <3>1, ReadyType, WithoutType DEF Tapped, Without, Frame, Frames
    <3> QED
      BY <1>4, <3>1, <3>2, <3>3, <3>4 DEF Known
  <2>4. CASE TapNavigates(e)
    <3>1. screen' \in App /\ phase' = "gate" /\ new' = screen'
      BY <1>1, <2>4 DEF TapNavigates
    <3> QED
      BY <3>1 DEF SyncInv
  <2> QED
    BY <2>1, <2>2, <2>3, <2>4
<1>19. CASE ChartTerminal \/ ReturnToParent
  <2>1. phase' = "loop" /\ stack' = Marked(stack, screen') /\ screen' \in App
    BY <1>1, <1>19 DEF ChartTerminal, ReturnToParent, GoBack
  <2> QED
    BY <1>2, <1>3, <2>1
<1>20. CASE UNCHANGED vars
  BY <1>20 DEF vars, gating, SyncInv, Top
<1> QED
  BY <1>21, <1>5, <1>6, <1>7, <1>8, <1>9, <1>10, <1>11, <1>12, <1>13, <1>14, <1>15,
     <1>16, <1>17, <1>18, <1>19, <1>20
     DEF Next, Step, PassGates, HandleForm, Loop, Land

\* The mark is true throughout.
LEMMA MarksAreTrue ==
  ASSUME KeepsForeground
  PROVE  Spec => []SyncInv
<1>1. ASSUME Init PROVE SyncInv
  <2>1. screen \in App /\ phase = "start"
    BY <1>1 DEF Init, Live, KeepsForeground
  <2> QED
    BY <2>1 DEF SyncInv
<1>2. TypeOK /\ TypeOK' /\ WalkInv /\ ReadInv /\ SyncInv /\ [Next]_vars => SyncInv'
  BY SyncStep DEF WalkInv
<1> QED
  BY <1>1, <1>2, TypeCorrect, WalkIsSafe, ReadingIsTrue, PTL DEF Spec

(***************************************************************************)
(* On an app that keeps the foreground and always answers, _dfs taps a     *)
(* control only while the device shows the frame's screen or the screen a  *)
(* scroll has just found the control on, unless the frame is of a form or  *)
(* of a screen that submits itself: what the unsynced mark and _resync are *)
(* for.  Every Back, gate, obstacle and form is allowed for.               *)
(***************************************************************************)
THEOREM TapsAreSynced ==
  ASSUME KeepsForeground
  PROVE  Spec => [][\A e \in Element : Tap(e) => Aimed(e) \/ Top.fp \in FormLike]_vars
<1> DEFINE Taps == \A e \in Element : Tap(e) => Aimed(e) \/ Top.fp \in FormLike
<1>1. ASSUME SyncInv, NEW e \in Element, Tap(e) PROVE Aimed(e) \/ Top.fp \in FormLike
  BY <1>1, HereIsKnown DEF Tap, Known, Aimed
<1>2. SyncInv /\ [Next]_vars => [Taps]_vars
  BY <1>1
<1> QED
  BY <1>2, MarksAreTrue, PTL DEF Spec

(***************************************************************************)
(* Where there is no form either, and nothing submits itself, every tap    *)
(* hits the frame's screen or the one a scroll has found the control on.   *)
(***************************************************************************)
COROLLARY TapsAreAimed ==
  ASSUME KeepsForeground, FormLike = {}
  PROVE  Spec => TapsHitTheirScreen
<1> DEFINE Taps == \A e \in Element : Tap(e) => Aimed(e) \/ Top.fp \in FormLike
           Aims == \A e \in Element : Tap(e) => Aimed(e)
<1>1. Taps => Aims
  OBVIOUS
<1>2. [Taps]_vars => [Aims]_vars
  BY <1>1
<1> QED
  BY <1>2, TapsAreSynced, PTL DEF TapsHitTheirScreen

(***************************************************************************)
(* A pair _note_back records on such an app: Back was pressed while the    *)
(* device showed the child, or whatever the last scroll of the child has   *)
(* left it on, unless the child is a form or submits itself.               *)
(***************************************************************************)
THEOREM BacksAreSynced ==
  ASSUME KeepsForeground
  PROVE  Spec => [][\A b \in backs' \ backs :
                       \/ screen = b[1]
                       \/ Top.fp = b[1] /\ (Top.scrolled \/ b[1] \in FormLike)]_vars
<1> DEFINE Sure(b) == \/ screen = b[1]
                      \/ Top.fp = b[1] /\ (Top.scrolled \/ b[1] \in FormLike)
<1>1. ASSUME SyncInv, [Next]_vars, NEW b \in backs' \ backs
      PROVE  Sure(b)
  <2>1. CASE Finish
    <3>1. /\ b = <<Top.fp, Parent>>
          /\ Leaving \/ (Ready /\ Here)
      BY <1>1, <2>1 DEF Finish, NothingLeft, NoteBack
    <3>2. CASE Leaving
      BY <1>1, <3>1, <3>2 DEF SyncInv, Leaving
    <3>3. CASE Ready /\ Here
      BY <1>1, <3>1, <3>3, HereIsKnown DEF Known
    <3> QED
      BY <3>1, <3>2, <3>3
  <2>2. CASE ReturnToParent
    <3>1. phase = "land" /\ b = <<new, Top.fp>>
      BY <1>1, <2>2 DEF ReturnToParent, NoteBack
    <3> QED
      BY <1>1, <3>1 DEF SyncInv
  <2>3. CASE UNCHANGED backs
    BY <1>1, <2>3
  <2>4. Finish \/ ReturnToParent \/ UNCHANGED backs
    <3>1. CASE GiveUp \/ ReadEntry \/ PassGates \/ DriverError \/ UNCHANGED vars
      BY <3>1 DEF GiveUp, ReadEntry, PassGates, FireWaypoint, StopAtGate,
                  CrossEntryGate, CrossGate, DriverError, vars, result
    <3>2. CASE HandleForm
      BY <3>2 DEF HandleForm, SkipProbe, ProbeNothing, ProbeStrays, ProbeRaises,
                  ProbeRejected, ProbeAdvances, FillValid, PushFrame, result
    <3>3. CASE Abandon \/ Refill \/ ScrollInVain \/ SkipBlocked \/ TapControl \/ Stop
      BY <3>3 DEF Abandon, Refill, ScrollInVain, SkipBlocked, Stop, TapControl, TapLeavesApp,
                  TapUnread, TapStays, TapNavigates, result
    <3>4. CASE ChartScreen \/ ChartTerminal \/ Resume
      BY <3>4 DEF ChartScreen, ChartTerminal, Resume, result
    <3> QED
      BY <1>1, <3>1, <3>2, <3>3, <3>4 DEF Next, Step, Loop, Land
  <2> QED
    BY <2>1, <2>2, <2>3, <2>4
<1>2. SyncInv /\ [Next]_vars => [\A b \in backs' \ backs : Sure(b)]_vars
  BY <1>1
<1> QED
  BY <1>2, MarksAreTrue, PTL DEF Spec

(***************************************************************************)
(* Where there is no form either, and nothing submits itself, a recorded   *)
(* Back was pressed on the child, or on what its last scroll has left.     *)
(***************************************************************************)
COROLLARY BacksAreObserved ==
  ASSUME KeepsForeground, FormLike = {}
  PROVE  Spec => BacksObserved
<1> DEFINE Sure == \A b \in backs' \ backs :
                      \/ screen = b[1]
                      \/ Top.fp = b[1] /\ (Top.scrolled \/ b[1] \in FormLike)
           Seen == \A b \in backs' \ backs :
                      screen = b[1] \/ (Top.fp = b[1] /\ Top.scrolled)
<1>1. Sure => Seen
  OBVIOUS
<1>2. [Sure]_vars => [Seen]_vars
  BY <1>1
<1> QED
  BY <1>2, BacksAreSynced, PTL DEF BacksObserved

-----------------------------------------------------------------------------
(***************************************************************************)
(* The crawl of an app with a bottom bar (TabCrawl), for any app, any      *)
(* device behaviour, any bar and any budgets: its books hold, what a       *)
(* section costs is bounded, it implements CrawlMap as the plain crawl     *)
(* does, and the first tap in a section hits its root.  Whatever it shares *)
(* with the plain crawl is a step of Crawler, and the lemmas above are     *)
(* used.                                                                   *)
(***************************************************************************)

\* The steps _explore_tabs takes itself, beside those of the walk.
OwnStep ==
  \/ SeeBar \/ TabLost \/ TabAgain \/ TabShows \/ RootDone \/ RootsEnd
  \/ ToSection \/ Returned \/ NotReturned \/ SectionEnds \/ TabsEnd \/ OutOfTime

\* The steps of the walk, in a section or on the way to the bar.
WalkStep == AtHome \/ RootForm \/ Inside \/ TabError \/ UNCHANGED tabVars

LEMMA WalkIsOfCrawler ==
  ASSUME WalkStep
  PROVE  /\ [Next]_vars /\ UNCHANGED tabs
         /\ stage = "return" => steps' = steps
<1>1. CASE AtHome \/ RootForm \/ Inside
  BY <1>1 DEF AtHome, RootForm, Inside, Next, Step, Loop
<1>2. CASE TabError
  BY <1>2 DEF TabError, DriverError, Next
<1>3. CASE UNCHANGED tabVars
  BY <1>3 DEF tabVars, vars
<1> QED
  BY <1>1, <1>2, <1>3 DEF WalkStep

LEMMA OwnOrWalk ==
  ASSUME [TabNext]_tabVars
  PROVE  OwnStep \/ WalkStep
BY DEF TabNext, TabStep, OwnStep, WalkStep

-----------------------------------------------------------------------------
(* Types *)

\* The stack of a section that begins, and that of one that ends.
LEMMA SectionStacks ==
  ASSUME TypeOK, NEW p \in Place
  PROVE  /\ <<NewFrame(p, Shown[p])>> \in Seq(Frames)
         /\ <<>> \in Seq(Frames)
         /\ [q \in Place |-> {}] \in [Place -> SUBSET Element]
<1>1. NewFrame(p, Shown[p]) \in Frames
  BY ControlsAreKnown, NewFrameType
<1>2. Append(<<>>, NewFrame(p, Shown[p])) \in Seq(Frames)
  BY <1>1, EmptySeq, AppendProperties
<1> QED
  BY <1>1, <1>2, EmptySeq

LEMMA TabTypeStep ==
  ASSUME TypeOK, TabTypeOK, Returning, [TabNext]_tabVars
  PROVE  (TypeOK /\ TabTypeOK)'
<1> USE DEF result, gating, budget
<1>1. CASE WalkStep
  BY <1>1, WalkIsOfCrawler, TypeStep DEF TabTypeOK, tabs
<1>2. CASE SeeBar
  BY <1>2 DEF SeeBar, TypeOK, TabTypeOK, Phase
<1>3. ASSUME TapTab
      PROVE  /\ left' \in Nat /\ counted' \subseteq Place /\ anchor' \in Nat /\ steps' \in Nat
             /\ stack' \in Seq(Frames) /\ pending' \in [Place -> SUBSET Element]
             /\ entry' \in Place /\ backs' \subseteq Place \X Place
             /\ findings' \subseteq Finding /\ fires' \in [Place -> Nat]
             /\ gate' \in Place /\ chain' \in Nat /\ passed' \in BOOLEAN
             /\ probed' \subseteq Place /\ UNCHANGED <<stage, home, target, tries>>
  <2>1. /\ left' = left - 1 /\ left > 0 /\ steps' = steps + 1
        /\ counted' = mapped /\ anchor' \in {steps, anchor}
        /\ UNCHANGED <<stage, home, target, tries, stack, pending, entry, backs, findings,
                       fires, gate, chain, passed, probed>>
    BY <1>3 DEF TapTab, Anchor
  <2>2. left \in Nat /\ steps \in Nat /\ anchor \in Nat
    BY DEF TypeOK, TabTypeOK
  <2>3. left' \in Nat /\ steps' \in Nat /\ anchor' \in Nat
    BY <2>1, <2>2
  <2> QED
    BY <2>1, <2>3 DEF TypeOK
<1>4. CASE TabLost
  <2>1. screen' \in Place
    BY <1>4, LiveIsPlace, ReadsArePlaces DEF TabLost, Place
  <2>2. TapTab /\ UNCHANGED <<phase, new, mapped, edges, gated, roots>>
    BY <1>4 DEF TabLost
  <2> QED
    BY <1>3, <2>1, <2>2 DEF TypeOK, TabTypeOK
<1>5. CASE TabAgain
  <2>1. screen' \in Place
    BY <1>5 DEF TabAgain, TabTypeOK
  <2>2. edges' \subseteq Edge
    BY <1>5, <2>1, RecordType DEF TabAgain, TabSource, TabTypeOK
  <2>3. TapTab /\ UNCHANGED <<phase, new, mapped, gated, roots>>
    BY <1>5 DEF TabAgain
  <2> QED
    BY <1>3, <2>1, <2>2, <2>3 DEF TypeOK, TabTypeOK
<1>6. CASE TabShows
  <2>1. screen' \in Place
    BY <1>6, LiveIsPlace DEF TabShows
  <2>2. edges' \subseteq Edge
    BY <1>6, <2>1, RecordType DEF TabShows, TabSource, TabTypeOK
  <2>3. TapTab /\ new' = screen' /\ phase' = "form"
    BY <1>6 DEF TabShows
  <2>4. mapped' \subseteq Place /\ gated' \subseteq Place /\ roots' \subseteq Place
    BY <1>6, <2>1 DEF TabShows, Chart, NoteScreen, TypeOK, TabTypeOK
  <2> QED
    BY <1>3, <2>1, <2>2, <2>3, <2>4 DEF TypeOK, TabTypeOK, Phase
<1>7. CASE RootDone \/ TabsEnd \/ OutOfTime
  BY <1>7 DEF RootDone, TabsEnd, OutOfTime, tabs, TypeOK, TabTypeOK, Phase
<1>8. CASE RootsEnd
  BY <1>8 DEF RootsEnd, vars, TypeOK, TabTypeOK
<1>9. CASE ToSection
  <2>1. tries' \in Nat /\ anchor' \in Nat /\ counted' \subseteq Place
    BY <1>9, BarIsABar DEF ToSection, TypeOK, Anchor
  <2>2. target' \in Place /\ roots' \subseteq Place
    BY <1>9 DEF ToSection, TabTypeOK
  <2> QED
    BY <1>9, <2>1, <2>2 DEF ToSection, TypeOK, TabTypeOK
<1>10. CASE Returned
  <2>1. screen' \in Place /\ steps' \in Nat /\ Blank \in Place
    BY <1>10, LiveIsPlace DEF Returned, Confirmed, TypeOK, Place
  <2>2. stack' \in Seq(Frames) /\ pending' \in [Place -> SUBSET Element]
    BY <1>10, SectionStacks DEF Returned, TabTypeOK
  <2> QED
    BY <1>10, <2>1, <2>2 DEF Returned, TypeOK, TabTypeOK
<1>11. CASE NotReturned
  <2>1. screen' \in Place /\ steps' \in Nat /\ Blank \in Place
    BY <1>11, LiveIsPlace DEF NotReturned, Failed, TypeOK, Place
  <2>2. tries' \in Nat
    BY <1>11 DEF NotReturned, Failed, Returning, TabTypeOK
  <2>3. target' \in Place
    BY <1>11, <2>1 DEF NotReturned, TabTypeOK
  <2> QED
    BY <1>11, <2>1, <2>2, <2>3 DEF NotReturned, TypeOK, TabTypeOK
<1>12. CASE SectionEnds
  <2>1. stack' \in Seq(Frames)
    BY <1>12, EmptySeq DEF SectionEnds
  <2> QED
    BY <1>12, <2>1 DEF SectionEnds, TypeOK, TabTypeOK
<1> QED
  BY OwnOrWalk, <1>1, <1>2, <1>4, <1>5, <1>6, <1>7, <1>8, <1>9, <1>10, <1>11, <1>12 DEF OwnStep

-----------------------------------------------------------------------------
(* Books *)

\* With no frame, nothing can be on one.
LEMMA NoFrames ==
  ASSUME stack = <<>>
  PROVE  Len(stack) = 0 /\ \A i \in 1..Len(stack) : FALSE
OBVIOUS

\* A step that leaves the walk where it was leaves its books alone.
LEMMA BooksUntouched ==
  ASSUME BooksInv, UNCHANGED <<stack, pending, findings, edges>>, mapped \subseteq mapped',
         phase' \in {"loop", "done"}
  PROVE  BooksInv'
<1>1. (OneFramePerScreen /\ WorkIsMapped)'
  BY DEF BooksInv, OneFramePerScreen, WorkIsMapped
<1> QED
  BY <1>1, AtRest DEF BooksInv

(***************************************************************************)
(* Pass 1, the return to a section and the end of one keep the books that  *)
(* the walk of Crawler keeps.                                              *)
(***************************************************************************)
LEMMA TabBooksStep ==
  ASSUME TypeOK, TypeOK', TabTypeOK, BooksInv, Sections, Returning, [TabNext]_tabVars
  PROVE  BooksInv'
<1>1. CASE WalkStep
  BY <1>1, WalkIsOfCrawler, BooksStep, PlaceStep DEF BooksInv
<1>2. CASE SeeBar \/ RootDone \/ TabsEnd \/ OutOfTime
  BY <1>2, BooksUntouched DEF SeeBar, RootDone, TabsEnd, OutOfTime, result
<1>3. CASE ToSection \/ NotReturned
  BY <1>3, BooksUntouched DEF ToSection, NotReturned, result
<1>4. CASE RootsEnd
  BY <1>4, BooksUntouched DEF RootsEnd, vars, result
<1>5. ASSUME TapTab
      PROVE  /\ stack = <<>> /\ stack' = <<>> /\ phase = "loop"
             /\ UNCHANGED <<pending, findings>>
  BY <1>5 DEF TapTab, Sections
<1>6. CASE TabLost \/ TabAgain \/ TabShows
  <2>1. TabShows \/ (TapTab /\ mapped \subseteq mapped' /\ UNCHANGED phase)
    BY <1>6 DEF TabLost, TabAgain
  <2>2. TapTab /\ mapped \subseteq mapped'
    BY <2>1 DEF TabShows, Chart
  <2>3. /\ stack = <<>> /\ stack' = <<>> /\ phase = "loop"
        /\ UNCHANGED <<pending, findings>>
    BY <1>5, <2>2
  <2>4. \A i \in 1..Len(stack') : FALSE
    BY <2>3
  <2>5. (OneFramePerScreen /\ WorkIsMapped)'
    BY <2>2, <2>3, <2>4 DEF BooksInv, OneFramePerScreen, WorkIsMapped
  <2>6. phase' = "loop" \/ (phase' = "form" /\ new' \in mapped')
    BY <2>1, <2>3 DEF TabShows, Chart
  <2>7. (BeforeTheMap /\ NewIsLinked /\ NewIsFree /\ LeftIsIdle)'
    BY <2>3, <2>4, <2>6
       DEF BeforeTheMap, NewIsLinked, NewIsFree, LeftIsIdle, AtTapped, AtEntry, AtForm
  <2> QED
    BY <2>5, <2>7 DEF BooksInv
<1>7. CASE Returned
  <2>1. /\ phase' = "loop" /\ UNCHANGED <<mapped, findings>> /\ target \in mapped
        /\ stack' = <<NewFrame(target, Shown[target])>>
        /\ pending' = [p \in Place |-> {}] /\ target \in Place
    BY <1>7 DEF Returned, Returning, TabTypeOK, result
  <2>2. /\ \A i \in 1..Len(stack') : i = 1 /\ stack'[i].fp = target
        /\ \A p \in Place : pending'[p] = {}
    BY <2>1 DEF NewFrame
  <2>3. OneFramePerScreen'
    BY <2>1, <2>2 DEF OneFramePerScreen
  <2>4. WorkIsMapped'
    BY <2>1, <2>2 DEF BooksInv, WorkIsMapped
  <2> QED
    BY <2>1, <2>3, <2>4, AtRest DEF BooksInv
<1>8. CASE SectionEnds
  <2>1. phase' = "loop" /\ stack' = <<>> /\ UNCHANGED <<pending, mapped, findings>>
    BY <1>8 DEF SectionEnds, result
  <2>2. \A i \in 1..Len(stack') : FALSE
    BY <2>1
  <2>3. (OneFramePerScreen /\ WorkIsMapped)'
    BY <2>1, <2>2 DEF BooksInv, OneFramePerScreen, WorkIsMapped
  <2> QED
    BY <2>1, <2>3, AtRest DEF BooksInv
<1> QED
  BY OwnOrWalk, <1>1, <1>2, <1>3, <1>4, <1>6, <1>7, <1>8 DEF OwnStep

-----------------------------------------------------------------------------
(* Bounds *)

\* The map only grows.
LEMMA MapGrows ==
  ASSUME TypeOK, TypeOK', BooksInv, [Next]_vars
  PROVE  mapped \subseteq mapped'
<1>1. [Map!Next]_(Map!vars)
  BY MapStep
<1> QED
  BY <1>1 DEF Map!Next, Map!vars, Map!Enter, Map!Extend

\* What overshoots the budget most is the last section's taps and Backs.
LEMMA TabBoundsStep ==
  ASSUME TypeOK, TypeOK', TabTypeOK, BooksInv, RoomLeft, TabsWithinBounds, Sections, Returning,
         [TabNext]_tabVars
  PROVE  (RoomLeft /\ TabsWithinBounds /\ Returning)'
<1>1. /\ steps \in Nat /\ steps' \in Nat /\ MaxSteps \in Nat /\ MaxDepth \in Nat \ {0}
      /\ tries \in Nat /\ Tries \in Nat \ {0}
      /\ steps <= MaxSteps + 2 * Tries - 1 /\ Len(stack) <= MaxDepth
  BY BudgetsAreNumbers, BarIsABar DEF TypeOK, TabTypeOK, TabsWithinBounds
<1>2. CASE WalkStep
  <2>1. /\ RoomLeft' /\ Len(stack') <= MaxDepth
        /\ steps' <= MaxSteps + 1 \/ steps' = steps
    BY <1>1, <1>2, WalkIsOfCrawler, BoundsStep
  <2>2. TabsWithinBounds'
    BY <1>1, <2>1 DEF TabsWithinBounds
  <2>3. Returning'
    BY <1>2, WalkIsOfCrawler, MapGrows DEF Returning, tabs
  <2> QED
    BY <2>1, <2>2, <2>3
<1>3. ASSUME phase' \in {"loop", "done"}, UNCHANGED <<steps, stack>>
      PROVE  (RoomLeft /\ TabsWithinBounds)'
  BY <1>1, <1>3, AtRest DEF TabsWithinBounds
<1>4. CASE SeeBar \/ RootDone \/ TabsEnd \/ OutOfTime
  <2>1. phase' \in {"loop", "done"} /\ UNCHANGED <<steps, stack, target>>
        /\ (target = Blank \/ stage # "return")
    BY <1>4 DEF SeeBar, RootDone, TabsEnd, OutOfTime, tabs
  <2>2. target = Blank
    BY <2>1 DEF Returning
  <2> QED
    BY <1>3, <2>1, <2>2 DEF Returning
<1>5. CASE RootsEnd
  <2>1. phase' = "loop" /\ UNCHANGED <<steps, stack, target>> /\ stage = "roots"
    BY <1>5 DEF RootsEnd, vars
  <2> QED
    BY <1>3, <2>1 DEF Returning
<1>6. CASE TabLost \/ TabAgain \/ TabShows
  <2>1. TapTab
    BY <1>6 DEF TabLost, TabAgain, TabShows
  <2>2. /\ steps < MaxSteps /\ steps' = steps + 1 /\ stack' = stack /\ stack = <<>>
        /\ stage = "roots" /\ target' = target
    BY <2>1 DEF TapTab, WithinBudget, Sections
  <2>3. Len(stack') = 0
    BY <2>2
  <2> QED
    BY <1>1, <2>2, <2>3 DEF RoomLeft, AtForm, TabsWithinBounds, Returning
<1>7. CASE ToSection
  <2>1. /\ phase' = "loop" /\ UNCHANGED <<steps, stack, stage>> /\ stage = "return"
        /\ steps < MaxSteps /\ tries' = Tries /\ \E r \in roots : target' = r
        /\ roots \subseteq mapped /\ mapped' = mapped
    BY <1>7 DEF ToSection, RoomForSection, WithinBudget, Sections, result
  <2> QED
    BY <1>1, <1>3, <2>1 DEF Returning
<1>8. CASE Returned
  <2>1. /\ phase' = "loop" /\ steps' = steps + 1 /\ target' = Blank
        /\ stack' = <<NewFrame(target, Shown[target])>>
        /\ tries > 0 /\ steps + 2 * tries <= MaxSteps + 2 * Tries - 1
    BY <1>8 DEF Returned, Returning
  <2>2. Len(stack') = 1
    BY <2>1
  <2> QED
    BY <1>1, <2>1, <2>2, AtRest DEF TabsWithinBounds, Returning
<1>9. CASE NotReturned
  <2>1. /\ phase' = "loop" /\ steps' = steps + 2 /\ tries' = tries - 1
        /\ UNCHANGED <<stack, stage, mapped>>
        /\ target' = IF tries' = 0 THEN Blank ELSE target
        /\ stage = "return" /\ target \in mapped
        /\ tries > 0 /\ steps + 2 * tries <= MaxSteps + 2 * Tries - 1
    BY <1>9 DEF NotReturned, Failed, Returning, result
  <2>2. /\ steps' <= MaxSteps + 2 * Tries - 1
        /\ steps' + 2 * tries' <= MaxSteps + 2 * Tries - 1
        /\ tries' # 0 => tries' > 0
    BY <1>1, <2>1
  <2>3. TabsWithinBounds' /\ RoomLeft'
    BY <1>1, <2>1, <2>2, AtRest DEF TabsWithinBounds
  <2>4. Returning'
    BY <2>1, <2>2 DEF Returning
  <2> QED
    BY <2>3, <2>4
<1>10. CASE SectionEnds
  <2>1. phase' = "loop" /\ stack' = <<>> /\ UNCHANGED <<steps, target>> /\ stage = "inside"
    BY <1>10 DEF SectionEnds
  <2>2. Len(stack') = 0
    BY <2>1
  <2> QED
    BY <1>1, <2>1, <2>2, AtRest DEF TabsWithinBounds, Returning
<1> QED
  BY OwnOrWalk, <1>2, <1>4, <1>5, <1>6, <1>7, <1>8, <1>9, <1>10 DEF OwnStep

-----------------------------------------------------------------------------
(* Sections *)

\* On the way to the bar and at a root's form there is no frame; in a section
\* there is one until its walk is at the head of the loop again.
LEMMA WalkInSections ==
  ASSUME TypeOK, TypeOK', TabTypeOK, BooksInv, Sections,
         WalkStep
  PROVE  /\ stage # "inside" => stack' = <<>>
         /\ stage = "inside" /\ phase' \notin {"loop", "done", "failed"} => stack' # <<>>
<1>1. /\ stage # "inside" => stack = <<>>
      /\ stage = "inside" /\ phase \notin {"loop", "done", "failed"} => stack # <<>>
      /\ phase = "land" => stack # <<>>
  BY DEF Sections, BooksInv, NewIsLinked
<1>2. CASE TabError
  BY <1>1, <1>2 DEF TabError, DriverError
<1>3. CASE UNCHANGED tabVars
  BY <1>1, <1>3 DEF tabVars, vars
<1>4. CASE AtHome \/ RootForm
  <2>1. /\ stage # "inside" /\ phase # "push"
        /\ GiveUp \/ ReadEntry \/ PassGates \/ HandleForm
    BY <1>4 DEF AtHome, RootForm
  <2>2. UNCHANGED stack
    BY <2>1 DEF GiveUp, ReadEntry, PassGates, FireWaypoint, StopAtGate, CrossEntryGate,
                CrossGate, HandleForm, SkipProbe, ProbeNothing, ProbeStrays, ProbeRaises,
                ProbeRejected, ProbeAdvances, FillValid, PushFrame
  <2> QED
    BY <1>1, <2>1, <2>2
<1>5. CASE Inside
  <2>1. stage = "inside"
    BY <1>5 DEF Inside
  <2>2. CASE PassGates
    BY <1>1, <2>1, <2>2 DEF PassGates, FireWaypoint, StopAtGate, CrossEntryGate, CrossGate
  <2>3. CASE HandleForm
    BY <1>1, <2>1, <2>3
       DEF HandleForm, SkipProbe, ProbeNothing, ProbeStrays, ProbeRaises,
           ProbeRejected, ProbeAdvances, FillValid, PushFrame
  <2>4. CASE Land
    BY <1>1, <2>1, <2>4 DEF Land, ChartScreen, ChartTerminal, Resume, ReturnToParent
  <2>5. CASE Abandon \/ Refill \/ SkipBlocked
    BY <2>1, <2>5 DEF Abandon, Refill, SkipBlocked, Ready
  <2>6. CASE ScrollInVain
    <3>1. Ready /\ stack' = WithTop(Scrolled)
      BY <2>6 DEF ScrollInVain
    <3>2. SameScreens /\ Len(stack) \in Nat \ {0}
      BY <3>1, ReadyType, StackType, ScrolledType, TopReplaced
    <3>3. Len(stack') # 0
      BY <3>2 DEF SameScreens
    <3> QED
      BY <2>1, <3>3
  <2>7. CASE Finish
    BY <2>1, <2>7, FinishDrops
  <2>8. CASE TapControl
    <3>1. PICK x \in Element :
            TapLeavesApp(x) \/ TapUnread(x) \/ TapStays(x) \/ TapNavigates(x)
      BY <2>8 DEF TapControl
    <3>2. Ready /\ stack' = WithTop(Tapped(x))
      BY <3>1 DEF TapLeavesApp, TapUnread, TapStays, TapNavigates, Tap
    <3>3. SameScreens /\ Len(stack) \in Nat \ {0}
      BY <3>2, ReadyType, StackType, WithoutType, TopReplaced
    <3>4. Len(stack') # 0
      BY <3>3 DEF SameScreens
    <3> QED
      BY <2>1, <3>4
  <2> QED
    BY <1>5, <2>2, <2>3, <2>4, <2>5, <2>6, <2>7, <2>8 DEF Inside
<1> QED
  BY <1>2, <1>3, <1>4, <1>5 DEF WalkStep

LEMMA SectionsStep ==
  ASSUME TypeOK, TypeOK', TabTypeOK, BooksInv, Sections, Returning, [TabNext]_tabVars
  PROVE  Sections'
<1>1. CASE WalkStep
  <2>1. mapped \subseteq mapped' /\ UNCHANGED tabs
    BY <1>1, WalkIsOfCrawler, MapGrows
  <2> QED
    BY <1>1, <2>1, WalkInSections DEF Sections, tabs
<1>2. CASE SeeBar
  BY <1>2 DEF SeeBar, Sections, BooksInv, NewIsFree, AtForm, result
<1>3. CASE TabLost \/ TabAgain
  BY <1>3 DEF TabLost, TabAgain, TapTab, Sections
<1>4. CASE TabShows
  BY <1>4 DEF TabShows, TapTab, Chart, Sections
<1>5. CASE RootDone \/ TabsEnd \/ OutOfTime
  BY <1>5 DEF RootDone, TabsEnd, OutOfTime, Sections, tabs, result
<1>6. CASE RootsEnd
  BY <1>6 DEF RootsEnd, Sections, vars, result
<1>7. CASE ToSection
  BY <1>7 DEF ToSection, Sections, result
<1>8. CASE Returned
  BY <1>8 DEF Returned, Sections, result
<1>9. CASE NotReturned
  BY <1>9 DEF NotReturned, Sections, result
<1>10. CASE SectionEnds
  BY <1>10 DEF SectionEnds, Sections, result
<1> QED
  BY OwnOrWalk, <1>1, <1>2, <1>3, <1>4, <1>5, <1>6, <1>7, <1>8, <1>9, <1>10 DEF OwnStep

(***************************************************************************)
(* The books of the tab crawl hold, for every bar and every budget.        *)
(***************************************************************************)
THEOREM TabCrawlIsSafe == TabSpec => []TabInv
<1>1. ASSUME TabInit PROVE TabInv
  <2>1. Init /\ stage = "home" /\ home = Blank /\ left = Tabs
        /\ roots = {} /\ target = Blank /\ tries = 0
    BY <1>1 DEF TabInit
  <2>2. stack = <<>> /\ mapped = {} /\ steps = 0 /\ phase = "start"
    BY <2>1 DEF Init
  <2>3. TypeOK /\ WalkInv
    BY <2>1, InitIsTyped, InitKeepsBooks
  <2>4. TabTypeOK
    BY <2>1, BarIsABar DEF TabTypeOK, Place
  <2>5. TabsWithinBounds
    BY <2>2, BudgetsAreNumbers, BarIsABar DEF TabsWithinBounds
  <2>6. Sections /\ Returning
    BY <2>1, <2>2 DEF Sections, Returning
  <2> QED
    BY <2>3, <2>4, <2>5, <2>6 DEF TabInv, WalkInv
<1>2. ASSUME TabInv, [TabNext]_tabVars PROVE TabInv'
  <2>1. (TypeOK /\ TabTypeOK)'
    BY <1>2, TabTypeStep DEF TabInv
  <2> QED
    BY <1>2, <2>1, TabBooksStep, TabBoundsStep, SectionsStep DEF TabInv
<1> QED
  BY <1>1, <1>2, PTL DEF TabSpec

(***************************************************************************)
(* A crawl through a bottom bar overshoots max_steps by what the last      *)
(* section costs to return to, and no walk goes deeper than max_depth.     *)
(***************************************************************************)
COROLLARY TabBudgetsHold == TabSpec => []TabsWithinBounds
<1>1. TabInv => TabsWithinBounds
  BY DEF TabInv
<1> QED
  BY <1>1, TabCrawlIsSafe, PTL

-----------------------------------------------------------------------------
(***************************************************************************)
(* The tab crawl implements the abstract map too: a tab's transition is    *)
(* drawn from the home screen, which is on it.                             *)
(***************************************************************************)
LEMMA TabMapStep ==
  ASSUME TabInv, TabInv', [TabNext]_tabVars
  PROVE  [Map!Next]_(Map!vars)
<1>1. CASE WalkStep
  BY <1>1, WalkIsOfCrawler, MapStep DEF TabInv
<1>2. ASSUME UNCHANGED <<entry, mapped, edges>> PROVE [Map!Next]_(Map!vars)
  BY <1>2 DEF Map!vars
<1>3. CASE TabAgain \/ TabShows
  <2>1. /\ home \in mapped /\ roots \subseteq mapped
    BY <1>3 DEF TabAgain, TabShows, TapTab, TabInv, Sections
  <2>2. UNCHANGED entry /\ Record(home, screen', "tap")
    BY <1>3 DEF TabAgain, TabShows, TapTab, TabSource
  <2>3. mapped \subseteq mapped' /\ mapped' \subseteq mapped \cup {screen'}
    BY <1>3 DEF TabAgain, TabShows, Chart
  <2>4. Map!Extend
    BY <2>1, <2>2, <2>3, OneMoreEdge DEF TabInv
  <2> QED
    BY <2>4 DEF Map!Next
<1>4. CASE TabLost
  BY <1>2, <1>4 DEF TabLost, TapTab
<1>5. CASE RootsEnd
  BY <1>2, <1>5 DEF RootsEnd, vars, result
<1>6. CASE SeeBar \/ RootDone \/ ToSection \/ Returned \/ NotReturned \/ SectionEnds
           \/ TabsEnd \/ OutOfTime
  BY <1>2, <1>6 DEF SeeBar, RootDone, ToSection, Returned, NotReturned, SectionEnds,
                    TabsEnd, OutOfTime, result
<1> QED
  BY OwnOrWalk, <1>1, <1>3, <1>4, <1>5, <1>6 DEF OwnStep

(***************************************************************************)
(* Through the bar as without one, CrawlResult only grows along recorded   *)
(* transitions from its entry: so its map is connected (MapIsConnected).   *)
(***************************************************************************)
THEOREM TabCrawlImplementsMap == TabSpec => MapSpec
<1>1. TabInit => Map!Init
  BY DEF TabInit, Init, Map!Init, Place
<1>2. TabInv /\ TabInv' /\ [TabNext]_tabVars => [Map!Next]_(Map!vars)
  BY TabMapStep
<1> QED
  BY <1>1, <1>2, TabCrawlIsSafe, PTL DEF TabSpec, MapSpec, Map!Spec

-----------------------------------------------------------------------------
(* The first tap in a section *)

\* The root's queue holds every control it shows, and there is one.
Whole(f) == Shown[f.fp] \subseteq f.todo /\ Shown[f.fp] # {}

LEMMA RootKept ==
  ASSUME Shown[Root.fp] \subseteq Root.seen, ~Whole(Root),
         stack'[1].fp = stack[1].fp, stack'[1].todo = stack[1].todo,
         stack[1].seen \subseteq stack'[1].seen
  PROVE  RootIsFresh'
BY DEF RootIsFresh, Whole, Root

(***************************************************************************)
(* A control taken from the root's queue is a control it shows, and what a *)
(* scroll brings is not: so the queue is never whole again.                *)
(***************************************************************************)
LEMMA RootPopped ==
  ASSUME TypeOK, RootIsFresh, stage = "inside", Ready, NEW x \in Top.todo,
         NEW f \in {Without(x), Tapped(x)}, stack' = WithTop(f)
  PROVE  RootIsFresh'
<1>1. /\ stack \in Seq(Frames) /\ stack # <<>> /\ x \in Element
      /\ Frame \in Frames /\ Top \in Frames
  BY ReadyType
<1>2. /\ f \in Frames /\ f.fp = Top.fp /\ f.seen = Top.seen
      /\ f.todo = Top.todo \ {x}
  BY <1>1, WithoutType
<1>3. /\ Len(stack) \in Nat \ {0} /\ Len(stack') = Len(stack)
      /\ \A i \in 1..Len(stack) :
            stack'[i] = IF i = Len(stack) THEN f ELSE stack[i]
  BY <1>1, <1>2, StackType
<1>4. 1 \in 1..Len(stack) /\ Shown[Root.fp] \subseteq Root.seen
  BY <1>1, <1>3 DEF RootIsFresh
<1>5. CASE Len(stack) = 1
  <2>1. Root = Top /\ Root' = f
    BY <1>3, <1>4, <1>5 DEF Root, Top
  <2>2. ~Whole(f)
    BY <1>1, <1>2, <2>1 DEF RootIsFresh, Whole
  <2> QED
    BY <1>2, <1>4, <2>1, <2>2 DEF RootIsFresh, Whole
<1>6. CASE Len(stack) # 1
  <2>1. stack'[1] = stack[1]
    BY <1>3, <1>4, <1>6
  <2>2. ~Whole(Root)
    BY <1>1, <1>6 DEF RootIsFresh, Whole
  <2> QED
    BY <1>4, <2>1, <2>2, RootKept
<1> QED
  BY <1>5, <1>6

\* A scroll that brings nothing new is made when the top frame's queue is empty.
LEMMA RootScrolled ==
  ASSUME TypeOK, RootIsFresh, stage = "inside", ScrollInVain
  PROVE  RootIsFresh'
<1>1. Ready /\ Top.todo = {} /\ stack' = WithTop(Scrolled)
  BY DEF ScrollInVain
<1>2. /\ stack \in Seq(Frames) /\ stack # <<>> /\ Scrolled \in Frames
      /\ Scrolled.fp = Top.fp /\ Scrolled.todo = Top.todo /\ Scrolled.seen = Top.seen
  BY <1>1, ReadyType, ScrolledType
<1>3. /\ Len(stack) \in Nat \ {0} /\ Len(stack') = Len(stack)
      /\ \A i \in 1..Len(stack) :
            stack'[i] = IF i = Len(stack) THEN Scrolled ELSE stack[i]
  BY <1>1, <1>2, StackType
<1>4. 1 \in 1..Len(stack) /\ Shown[Root.fp] \subseteq Root.seen
  BY <1>2, <1>3 DEF RootIsFresh
<1>5. /\ stack'[1].fp = stack[1].fp /\ stack'[1].todo = stack[1].todo
      /\ stack'[1].seen = stack[1].seen
  <2>1. CASE Len(stack) = 1
    BY <1>2, <1>3, <1>4, <2>1 DEF Top
  <2>2. CASE Len(stack) # 1
    BY <1>3, <1>4, <2>2
  <2> QED
    BY <2>1, <2>2
<1>6. ~Whole(Root)
  <2>1. CASE Len(stack) = 1
    BY <1>1, <2>1 DEF Root, Top, Whole
  <2>2. CASE Len(stack) # 1
    BY <1>2, <2>2 DEF RootIsFresh, Whole
  <2> QED
    BY <2>1, <2>2
<1> QED
  BY <1>4, <1>5, <1>6, RootKept

LEMMA RootRefilled ==
  ASSUME TypeOK, BooksInv, RootIsFresh, stage = "inside", Refill
  PROVE  RootIsFresh'
<1>1. Ready
  BY DEF Refill
<1>2. PICK f \in Frames : /\ f.fp = Top.fp /\ stack' = WithTop(f)
                          /\ Top.seen \subseteq f.seen
                          /\ f.todo \cap Top.seen \subseteq pending[Top.fp]
  BY RefillFrame
<1>3. /\ stack \in Seq(Frames) /\ stack # <<>>
  BY <1>1, ReadyType
<1>4. /\ Len(stack) \in Nat \ {0} /\ Len(stack') = Len(stack)
      /\ \A i \in 1..Len(stack) :
            stack'[i] = IF i = Len(stack) THEN f ELSE stack[i]
  BY <1>2, <1>3, StackType
<1>5. /\ 1 \in 1..Len(stack) /\ Len(stack) \in 1..Len(stack)
      /\ Shown[Root.fp] \subseteq Root.seen
  BY <1>3, <1>4 DEF RootIsFresh
<1>6. pending[Top.fp] = {}
  BY <1>5 DEF BooksInv, OneFramePerScreen, Top
<1>7. CASE Len(stack) = 1
  <2>1. Root = Top /\ Root' = f
    BY <1>4, <1>5, <1>7 DEF Root, Top
  <2> QED
    BY <1>2, <1>5, <1>6, <2>1 DEF RootIsFresh
<1>8. CASE Len(stack) # 1
  <2>1. stack'[1] = stack[1]
    BY <1>4, <1>5, <1>8
  <2>2. ~Whole(Root)
    BY <1>3, <1>8 DEF RootIsFresh, Whole
  <2> QED
    BY <1>5, <2>1, <2>2, RootKept
<1> QED
  BY <1>7, <1>8

\* Dropping the frame above the root leaves the root.
LEMMA RootLeft ==
  ASSUME TypeOK, RootIsFresh, stage = "inside", Ready \/ Leaving,
         stack' = Marked(Rest, screen')
  PROVE  RootIsFresh'
<1>1. stack \in Seq(Frames) /\ stack # <<>>
  BY ReadyType
<1>2. /\ Len(stack) \in Nat \ {0} /\ Rest \in Seq(Frames) /\ Len(Rest) = Len(stack) - 1
      /\ \A i \in 1..Len(Rest) : Rest[i] = stack[i]
  BY <1>1, StackType
<1>3. /\ stack' \in Seq(Frames) /\ Len(stack') = Len(Rest)
      /\ \A i \in 1..Len(Rest) : /\ stack'[i].fp = Rest[i].fp
                                 /\ stack'[i].todo = Rest[i].todo
                                 /\ stack'[i].seen = Rest[i].seen
  BY <1>2, MarkedType
<1>4. CASE stack' = <<>>
  BY <1>4 DEF RootIsFresh
<1>5. CASE stack' # <<>>
  <2>1. Len(stack') # 0
    BY <1>3, <1>5, EmptySeq
  <2>2. 1 \in 1..Len(Rest) /\ Len(stack) # 1
    BY <1>2, <1>3, <2>1
  <2>3. /\ stack'[1].fp = stack[1].fp /\ stack'[1].todo = stack[1].todo
        /\ stack'[1].seen = stack[1].seen
    BY <1>2, <1>3, <2>2
  <2>4. Shown[Root.fp] \subseteq Root.seen /\ ~Whole(Root)
    BY <1>1, <2>2 DEF RootIsFresh, Whole
  <2> QED
    BY <2>3, <2>4, RootKept
<1> QED
  BY <1>4, <1>5

LEMMA RootStep ==
  ASSUME TabInv, RootIsFresh, [TabNext]_tabVars
  PROVE  RootIsFresh'
<1>1. TypeOK /\ TabTypeOK /\ BooksInv /\ Sections /\ stack \in Seq(Frames)
  BY DEF TabInv, TypeOK
<1>2. ASSUME stage' # "inside" PROVE RootIsFresh'
  BY <1>2 DEF RootIsFresh
<1>3. CASE AtHome \/ RootForm \/ SeeBar \/ TabLost \/ TabAgain \/ TabShows \/ RootDone
           \/ RootsEnd \/ ToSection \/ NotReturned \/ SectionEnds \/ TabsEnd
  BY <1>2, <1>3 DEF AtHome, RootForm, SeeBar, TabLost, TabAgain, TabShows, TapTab, RootDone,
                    RootsEnd, ToSection, NotReturned, SectionEnds, TabsEnd, tabs
<1>4. CASE Returned
  <2>1. /\ stack' = <<NewFrame(target, Shown[target])>> /\ phase' = "loop"
        /\ screen' = target
    BY <1>4 DEF Returned, Confirmed
  <2>2. Len(stack') = 1 /\ Root' = NewFrame(target, Shown[target])
    BY <2>1 DEF Root
  <2> QED
    BY <2>1, <2>2 DEF RootIsFresh, NewFrame
<1>5. CASE OutOfTime \/ TabError \/ UNCHANGED tabVars
  <2>1. /\ UNCHANGED <<stage, screen, stack>>
        /\ phase' = phase \/ phase' \in {"loop", "done", "failed"}
    BY <1>5 DEF OutOfTime, TabError, DriverError, tabVars, vars, tabs
  <2> QED
    BY <2>1 DEF RootIsFresh, Root
<1>6. CASE Inside
  <2>1. stage = "inside"
    BY <1>6 DEF Inside
  <2>2. ASSUME phase \notin {"loop", "done", "failed"}
        PROVE  /\ stack # <<>> /\ Len(stack) \in Nat \ {0}
               /\ Shown[Root.fp] \subseteq Root.seen /\ ~Whole(Root)
    BY <1>1, <2>1, <2>2, EmptySeq, LenProperties DEF Sections, RootIsFresh, Whole
  <2>3. CASE PassGates
    <3>1. phase \notin {"loop", "done", "failed"} /\ UNCHANGED stack
      BY <2>3 DEF PassGates, FireWaypoint, StopAtGate, CrossEntryGate, CrossGate
    <3> QED
      BY <2>2, <3>1, RootKept
  <2>4. CASE HandleForm \/ Land
    <3>1. phase \in {"form", "fill", "push", "land"}
      BY <2>4 DEF HandleForm, SkipProbe, ProbeNothing, ProbeStrays, ProbeRaises,
                  ProbeRejected, ProbeAdvances, FillValid, PushFrame,
                  Land, ChartScreen, ChartTerminal, Resume, ReturnToParent
    <3>2. \/ stack' = stack
          \/ \E todo \in SUBSET Element : stack' = Append(stack, NewFrame(new, todo))
          \/ stack' = Marked(stack, screen')
      BY <1>1, <2>4, ControlsAreKnown
         DEF HandleForm, SkipProbe, ProbeNothing, ProbeStrays, ProbeRaises,
             ProbeRejected, ProbeAdvances, FillValid, PushFrame,
             Land, ChartScreen, ChartTerminal, Resume, ReturnToParent, TypeOK
    <3>3. 1 \in 1..Len(stack)
      BY <2>2, <3>1
    <3>4. /\ stack'[1].fp = stack[1].fp /\ stack'[1].todo = stack[1].todo
          /\ stack'[1].seen = stack[1].seen
      <4>1. CASE \E todo \in SUBSET Element : stack' = Append(stack, NewFrame(new, todo))
        <5>1. PICK todo \in SUBSET Element : stack' = Append(stack, NewFrame(new, todo))
          BY <4>1
        <5>2. NewFrame(new, todo) \in Frames
          BY <1>1, NewFrameType DEF TypeOK
        <5> QED
          BY <1>1, <3>3, <5>1, <5>2, AppendProperties
      <4>2. CASE stack' = Marked(stack, screen')
        BY <1>1, <3>3, <4>2, MarkedType
      <4> QED
        BY <3>2, <4>1, <4>2
    <3> QED
      BY <2>2, <3>1, <3>4, RootKept
  <2>5. CASE Abandon \/ Finish
    BY <1>1, <2>1, <2>5, RootLeft, FinishDrops DEF Abandon
  <2>6. CASE Refill
    BY <1>1, <2>1, <2>6, RootRefilled
  <2>7. CASE SkipBlocked
    BY <1>1, <2>1, <2>7, RootPopped DEF SkipBlocked
  <2>8. CASE TapControl
    <3>1. PICK x \in Element :
            TapLeavesApp(x) \/ TapUnread(x) \/ TapStays(x) \/ TapNavigates(x)
      BY <2>8 DEF TapControl
    <3>2. Ready /\ x \in Top.todo /\ stack' = WithTop(Tapped(x))
      BY <3>1 DEF TapLeavesApp, TapUnread, TapStays, TapNavigates, Tap
    <3> QED
      BY <1>1, <2>1, <3>2, RootPopped
  <2>9. CASE ScrollInVain
    BY <1>1, <2>1, <2>9, RootScrolled
  <2> QED
    BY <1>6, <2>3, <2>4, <2>5, <2>6, <2>7, <2>8, <2>9 DEF Inside
<1> QED
  BY OwnOrWalk, <1>3, <1>4, <1>5, <1>6 DEF OwnStep, WalkStep

(***************************************************************************)
(* Whatever forms, other tabs and the section walked before have left on   *)
(* the device, _reanchor puts it on the root before the root's first tap,  *)
(* and no blocked control, scroll or Back comes between unnoticed.         *)
(***************************************************************************)
THEOREM FirstTapsHitTheirRoot == TabSpec => FirstTapOnRoot
<1>1. TabInit => RootIsFresh
  BY DEF TabInit, RootIsFresh
<1>2. TabInv /\ RootIsFresh /\ [TabNext]_tabVars => RootIsFresh'
  BY RootStep
<1>3. TabInv /\ RootIsFresh /\ [TabNext]_tabVars
        => [stage = "inside" /\ TapControl /\ Len(stack) = 1 /\ Top.todo = Shown[Top.fp]
              => screen = Top.fp]_tabVars
  <2> SUFFICES ASSUME TabInv, RootIsFresh, stage = "inside", TapControl, Len(stack) = 1,
                      Top.todo = Shown[Top.fp]
               PROVE  screen = Top.fp
    OBVIOUS
  <2>1. PICK x \in Element :
          TapLeavesApp(x) \/ TapUnread(x) \/ TapStays(x) \/ TapNavigates(x)
    BY DEF TapControl
  <2>2. stack # <<>> /\ x \in Top.todo
    BY <2>1 DEF TapLeavesApp, TapUnread, TapStays, TapNavigates, Tap, Ready
  <2>3. Root = Top
    BY DEF Root, Top
  <2> QED
    BY <2>2, <2>3 DEF RootIsFresh
<1> QED
  BY <1>1, <1>2, <1>3, TabCrawlIsSafe, PTL DEF TabSpec, FirstTapOnRoot

=============================================================================
