------------------------------ MODULE Crawler ------------------------------
(***************************************************************************)
(* The depth-first crawl of framework/crawler/app_crawler.py (AppCrawler): *)
(* _explore, _dfs and the handlers they call, for an app without a bottom  *)
(* navigation bar.  The crawler is one sequential program; what makes it   *)
(* hard is the device under it, which may show any screen after any        *)
(* gesture.  The device is the variable screen, and every tap, Back, swipe *)
(* and scroll lets it end anywhere in Live; so may typing, on the screens  *)
(* that submit by themselves.                                              *)
(*                                                                         *)
(* A screen stands for its fingerprint, a control for its element key.     *)
(* The queues of controls are sets: the order _prioritize puts them in     *)
(* only spends the budget well, and here any order may happen.             *)
(***************************************************************************)
EXTENDS Naturals, Sequences, FiniteSets

CONSTANTS
  App,        \* screens of the app under test
  Foreign,    \* screens of other apps: launcher, browser, chooser
  Blank,      \* an unreadable or empty dump: the empty fingerprint
  Element,    \* controls
  Shown,      \* per screen, the app's own tappable controls on it
  Lower,      \* per screen, the same when it shows after a scroll down
  Blocked,    \* controls the blocklist always names
  MoneyVerb,  \* controls blocked only beside a money field (send, confirm)
  Money,      \* screens that show a money field at once
  MoneyLower, \* screens that show one after a scroll down
  Gates,      \* screens some waypoint matches
  Forms,      \* screens with an input and a submit control
  AutoSubmit, \* screens where a typed value submits itself (an OTP, a search)
  Terminal,   \* paywalls, update walls, CAPTCHAs
  Unsettled,  \* screens a read changes: an obstacle, a dialog, a retry
  Errors,     \* screens showing a generic error text
  CrashSites, \* foreign screens that read as a crash: home, "has stopped"
  Flaky,      \* whether a dump may come back empty and a tap raise
  TimeLimit,  \* whether max_seconds is set
  MaxSteps, MaxDepth, MaxNoveltyGap,              \* the crawl's budgets
  MaxScrolls, MaxWaypointFires, MaxGateChain      \* the class's bounds

Place == App \cup Foreign \cup {Blank}
Live  == App \cup Foreign \cup (IF Flaky THEN {Blank} ELSE {})

ASSUME PlacesDiffer ==
  /\ App # {}
  /\ Blank \notin App \cup Foreign
  /\ App \cap Foreign = {}

ASSUME ScreensAreOfTheApp ==
  /\ Money \cup MoneyLower \cup Gates \cup Forms \cup Terminal \cup Unsettled
       \cup AutoSubmit \cup Errors \subseteq App
  /\ CrashSites \subseteq Foreign

ASSUME ControlsAreKnown ==
  /\ Shown \in [Place -> SUBSET Element] /\ Lower \in [Place -> SUBSET Element]
  /\ Blocked \cup MoneyVerb \subseteq Element
  /\ \A p \in Place \ App : Shown[p] = {} /\ Lower[p] = {}

ASSUME BudgetsAreNumbers ==
  /\ {Flaky, TimeLimit} \subseteq BOOLEAN
  /\ {MaxSteps, MaxNoveltyGap, MaxScrolls, MaxWaypointFires} \subseteq Nat
  /\ {MaxDepth, MaxGateChain} \subseteq Nat \ {0}

VARIABLES
  phase,   \* where the crawler is: see Phase
  screen,  \* what the device shows
  stack,   \* the depth-first stack of frames
  pending, \* per screen, the controls parked when the crawl was forced off it
  new,     \* the screen just read (new_screen)
  gate,    \* the screen _pass_gates looks at (current)
  chain,   \* waypoints fired by this call of _pass_gates
  entry, mapped, edges, gated, backs, findings,   \* the CrawlResult
  fires,   \* waypoints fired per screen (_waypointed)
  passed,  \* whether any gate was passed (_passed_gate)
  probed,  \* forms already probed with invalid input (_neg_probed)
  steps,   \* result.steps
  counted, \* the screens mapped when _within_budget last looked
  anchor   \* the step at which the map last grew (_step_at_last_new)

result == <<entry, mapped, edges, gated, backs, findings>>
gating == <<gate, chain, fires, passed>>
budget == <<counted, anchor>>
vars == <<phase, screen, stack, pending, new, result, gating, probed, steps,
          budget>>

Phase == {"start", "gate", "crossed", "land", "form", "fill", "push", "loop",
          "leave", "done", "failed"}

Edge == [src : Place, dst : Place, kind : {"tap", "gate", "probe"}]
Finding == [kind : {"crash", "error_screen"}, src : Place, dst : Place]

\* A frame, and a history of it: whether the last gesture made on it was a scroll.
Frames == [fp : Place, todo : SUBSET Element, seen : SUBSET Element,
           scrolls : Nat, money : BOOLEAN, synced : BOOLEAN, scrolled : BOOLEAN]

TypeOK ==
  /\ phase \in Phase
  /\ {screen, new, gate, entry} \subseteq Place
  /\ stack \in Seq(Frames)
  /\ pending \in [Place -> SUBSET Element]
  /\ mapped \subseteq Place /\ gated \subseteq Place /\ probed \subseteq Place
  /\ counted \subseteq Place
  /\ edges \subseteq Edge /\ findings \subseteq Finding
  /\ backs \subseteq Place \X Place
  /\ fires \in [Place -> Nat]
  /\ passed \in BOOLEAN
  /\ {chain, steps, anchor} \subseteq Nat
-----------------------------------------------------------------------------
OnApp(p) == p \notin Foreign

\* _read_content_screen: a blank dump is re-read, an obstacle is tapped away.
Reads(p) ==
  IF p = Blank THEN App \cup {Blank}
  ELSE IF p \in Unsettled THEN Live ELSE {p}

\* _recover: on the app nothing is done; off it Back, a dialog tap or a launch
\* may end anywhere, the foreign app included.
Recovers(p) == IF OnApp(p) THEN {p} ELSE Live

Top == stack[Len(stack)]
Rest == SubSeq(stack, 1, Len(stack) - 1)
WithTop(f) == [stack EXCEPT ![Len(stack)] = f]

NewFrame(p, todo) ==
  [fp |-> p, todo |-> todo, seen |-> todo, scrolls |-> 0,
   money |-> p \in Money, synced |-> TRUE, scrolled |-> FALSE]

(***************************************************************************)
(* _go_back(parent): Back, else a Close control, else a swipe.  The device *)
(* ends on q; synced says whether that is the parent, plain whether Back   *)
(* alone got there.                                                        *)
(***************************************************************************)
GoBack(parent, q, plain) ==
  /\ q \in Live /\ screen' = q
  /\ plain \in BOOLEAN /\ (plain => q = parent)

\* The frame gone back to, and whether it is taken to be on screen.
Back(f, shown) == [f EXCEPT !.synced = shown, !.scrolled = FALSE]

\* Mutant: what _go_back answers is not looked at.
AlwaysMarked(stk, q) ==
  IF stk = <<>> THEN <<>> ELSE [stk EXCEPT ![Len(stk)] = Back(@, TRUE)]

\* The frame gone back to is marked by whether the device shows it.
Marked(stk, q) ==
  IF stk = <<>> THEN <<>> ELSE [stk EXCEPT ![Len(stk)] = Back(@, @.fp = q)]

\* _note_back: only a plain Back that returned is recorded.
NoteBack(child, parent, plain) ==
  backs' = IF plain /\ child # parent
             THEN backs \cup {<<child, parent>>} ELSE backs

\* Mutant: the tag is forgotten.
ForgetScreen(p) == UNCHANGED gated

\* _note_screen: a screen recorded once a gate was passed is behind auth.
NoteScreen(p) == gated' = IF passed THEN gated \cup {p} ELSE gated

\* Mutant: the screen is not stored.
ChartNothing(p) == UNCHANGED mapped

\* result.screens.setdefault: the first reading of a screen is kept.
Chart(p) == mapped' = mapped \cup {p}

\* Mutant: the ends of a transition are swapped.
RecordBackwards(src, dst, kind) ==
  edges' = edges \cup {[src |-> dst, dst |-> src, kind |-> kind]}

\* result.transitions: how the crawl got from one screen to the next.
Record(src, dst, kind) ==
  edges' = edges \cup {[src |-> src, dst |-> dst, kind |-> kind]}

\* _within_budget: the plateau counter is re-anchored when the map grew.
Anchor == IF counted # mapped THEN steps ELSE anchor

\* Mutant: off by one at the cap.
WithinBudgetInclusive ==
  /\ steps <= MaxSteps
  /\ MaxNoveltyGap > 0 => steps - Anchor < MaxNoveltyGap

\* The rest of _within_budget: the step cap and the novelty plateau.  The wall
\* clock is Stop's.
WithinBudget ==
  /\ steps < MaxSteps
  /\ MaxNoveltyGap > 0 => steps - Anchor < MaxNoveltyGap

\* _blocked, with the frame's money context.
IsBlocked(e, money) == e \in Blocked \/ (money /\ e \in MoneyVerb)
-----------------------------------------------------------------------------
Init ==
  /\ phase = "start" /\ screen \in Live
  /\ stack = <<>> /\ pending = [p \in Place |-> {}]
  /\ new = Blank /\ gate = Blank /\ chain = 0
  /\ entry = Blank /\ mapped = {} /\ edges = {} /\ gated = {}
  /\ backs = {} /\ findings = {}
  /\ fires = [p \in Place |-> 0] /\ passed = FALSE /\ probed = {}
  /\ steps = 0 /\ counted = {} /\ anchor = 0

\* _explore, opening: the app cannot be brought up, or its screen not read.
GiveUp ==
  /\ phase = "start"
  /\ screen' \in IF OnApp(screen) THEN Live \cap {Blank} ELSE Live \ App
  /\ phase' = "done"
  /\ UNCHANGED <<stack, pending, new, result, gating, probed, steps, budget>>

\* _explore, opening: the entry screen is read, past any dialog or obstacle.
ReadEntry ==
  /\ phase = "start"
  /\ \E q \in Recovers(screen) : OnApp(q) /\ screen' \in Reads(q) \ {Blank}
  /\ entry' = screen' /\ new' = screen' /\ gate' = screen' /\ chain' = 0
  /\ mapped' = {screen'}
  /\ phase' = "gate"
  /\ UNCHANGED <<stack, pending, edges, gated, backs, findings, fires, passed,
                 probed, steps, budget>>

(***************************************************************************)
(* _pass_gates: waypoints fire on the screen looked at and on the screens  *)
(* they reveal, until one does not move the app or the chain is full.      *)
(***************************************************************************)
FireWaypoint ==
  /\ phase = "gate" /\ gate \in Gates
  /\ fires[gate] < MaxWaypointFires
  /\ screen' \in Live
  /\ fires' = [fires EXCEPT ![gate] = @ + 1]
  /\ passed' = TRUE
  /\ chain' = chain + 1
  /\ IF screen' \in {Blank, gate} \/ chain' = MaxGateChain
       THEN phase' = "crossed" /\ UNCHANGED gate
       ELSE gate' = screen' /\ UNCHANGED phase
  /\ UNCHANGED <<stack, pending, new, result, probed, steps, budget>>

\* No waypoint matches, this screen's fires are spent, or apply did nothing.
StopAtGate ==
  /\ phase = "gate"
  /\ phase' = IF chain > 0 THEN "crossed"
              ELSE IF stack = <<>> THEN "form" ELSE "land"
  /\ UNCHANGED <<screen, stack, pending, new, result, gating, probed, steps,
                 budget>>

\* _explore after a gate: the screen behind it becomes the one explored.
CrossEntryGate ==
  /\ phase = "crossed" /\ stack = <<>>
  /\ IF screen = Blank THEN UNCHANGED <<new, mapped, gated, edges>>
     ELSE /\ new' = screen
          /\ Chart(screen)
          /\ NoteScreen(screen)
          /\ IF screen = new THEN UNCHANGED edges
             ELSE Record(new, screen, "gate")
  /\ phase' = "form"
  /\ UNCHANGED <<screen, stack, pending, entry, backs, findings, gating,
                 probed, steps, budget>>

\* _dfs after a gate: the gate and the crossing are recorded, and the screen
\* behind takes the place of the gate.
CrossGate ==
  /\ phase = "crossed" /\ stack # <<>>
  /\ screen' \in Reads(screen)
  /\ IF screen' \in {Blank, new} THEN UNCHANGED <<new, mapped, edges>>
     ELSE /\ Chart(new)
          /\ Record(new, screen', "gate")
          /\ new' = screen'
  /\ phase' = "land"
  /\ UNCHANGED <<stack, pending, entry, gated, backs, findings, gating, probed,
                 steps, budget>>
-----------------------------------------------------------------------------
(***************************************************************************)
(* _handle_form on the screen just charted: submit invalid data once, then *)
(* fill valid data if the form is still there.                             *)
(***************************************************************************)

\* Mutant: the positive fill follows whatever _go_back answered.
FillAnyway(q) == "fill"

\* The positive branch needs the form on screen again.
AfterProbe(q) == IF q = new THEN "fill" ELSE "push"

\* Not a submittable form, or one already probed.
SkipProbe ==
  /\ phase = "form" /\ new \notin Forms \ probed
  /\ phase' = "fill"
  /\ UNCHANGED <<screen, stack, pending, new, result, gating, probed, steps,
                 budget>>

\* No field takes invalid data: the form is marked, nothing is submitted.
ProbeNothing ==
  /\ phase = "form" /\ new \in Forms \ probed
  /\ probed' = probed \cup {new}
  /\ phase' = "fill"
  /\ UNCHANGED <<screen, stack, pending, new, result, gating, steps, budget>>

\* The submit left the app, or its outcome could not be read.
ProbeStrays ==
  /\ phase = "form" /\ new \in Forms \ probed
  /\ probed' = probed \cup {new}
  /\ steps' = steps + 1
  /\ \/ \E p \in Live \cap Foreign : screen' \in Recovers(p)
     \/ Flaky /\ screen' = Blank
  /\ phase' = "push"
  /\ UNCHANGED <<stack, pending, new, result, gating, budget>>

\* The submit tap itself raised: the position is unknown, the step uncounted.
ProbeRaises ==
  /\ phase = "form" /\ new \in Forms \ probed
  /\ probed' = probed \cup {new}
  /\ Flaky /\ screen' \in Live
  /\ phase' = "push"
  /\ UNCHANGED <<stack, pending, new, result, gating, steps, budget>>

\* The form rejects the data and stays.
ProbeRejected ==
  /\ phase = "form" /\ new \in Forms \ probed
  /\ probed' = probed \cup {new}
  /\ steps' = steps + 1
  /\ screen' = new
  /\ Record(new, new, "probe")
  /\ phase' = "fill"
  /\ UNCHANGED <<stack, pending, new, entry, mapped, gated, backs, findings,
                 gating, budget>>

\* The form lets the data through, or shows an error screen: back out.
ProbeAdvances ==
  /\ phase = "form" /\ new \in Forms \ probed
  /\ probed' = probed \cup {new}
  /\ steps' = steps + 1
  /\ \E p \in Live \ {Blank, new} :
        /\ Record(new, p, "probe")
        /\ Chart(p)
        /\ NoteScreen(p)
  /\ \E q \in Live, plain \in BOOLEAN : GoBack(new, q, plain)
  /\ phase' = AfterProbe(screen')
  /\ UNCHANGED <<stack, pending, new, entry, backs, findings, gating, budget>>

\* _fill_inputs: a field that submits itself may carry the app anywhere.
FillValid ==
  /\ phase = "fill"
  /\ screen' \in IF new \in AutoSubmit THEN Live ELSE {screen}
  /\ phase' = "push"
  /\ UNCHANGED <<stack, pending, new, result, gating, probed, steps, budget>>

\* The screen's frame goes on the stack, with what was parked for it.
PushFrame ==
  /\ phase = "push"
  /\ stack' = Append(stack, NewFrame(new, Shown[new] \cup pending[new]))
  /\ pending' = [pending EXCEPT ![new] = {}]
  /\ phase' = "loop"
  /\ UNCHANGED <<screen, new, result, gating, probed, steps, budget>>
-----------------------------------------------------------------------------
(***************************************************************************)
(* One turn of the loop of _dfs.  Ready is the head of the loop: a frame   *)
(* and a budget to work it with.  An unsynced frame is worked only when    *)
(* the device turns out to show its screen (_resync), which syncs it.      *)
(***************************************************************************)
Ready ==
  /\ phase = "loop" /\ stack # <<>> /\ WithinBudget
  /\ counted' = mapped /\ anchor' = Anchor

\* Mutant: the unsynced mark is never checked.
HereAssumed == TRUE

\* The head of _dfs: a synced frame is trusted, another is checked by _resync.
Here == Top.synced \/ screen = Top.fp
Frame == [Top EXCEPT !.synced = TRUE]
Parent == stack[Len(stack) - 1].fp

\* Mutant: a dropped frame takes its queue with it.
ParkNothing == UNCHANGED pending

\* _resync: what a dropped frame still owed stays for a later visit.
Park == pending' = [pending EXCEPT ![Top.fp] = @ \cup Top.todo]

\* _resync fails: what the frame still owed is parked, the frame dropped.
Abandon ==
  /\ Ready /\ ~Here
  /\ Park
  /\ IF Rest = <<>> THEN UNCHANGED <<screen, steps>>
     ELSE /\ steps' = steps + 1
          /\ \E q \in Live, plain \in BOOLEAN : GoBack(Parent, q, plain)
  /\ stack' = Marked(Rest, screen')
  /\ UNCHANGED <<phase, new, result, gating, probed>>

(***************************************************************************)
(* _refill: parked work first, else a scroll.  _reveal_more reads whatever *)
(* the device shows then, without a look at whether it is still the        *)
(* frame's screen; the money mark of the frame only ever rises.            *)
(***************************************************************************)
Scrolled == [Frame EXCEPT !.scrolls = @ + 1, !.scrolled = TRUE]

Refill ==
  /\ Ready /\ Here /\ Top.todo = {}
  /\ IF pending[Top.fp] # {}
       THEN /\ stack' = WithTop([Frame EXCEPT !.todo = pending[Top.fp]])
            /\ pending' = [pending EXCEPT ![Top.fp] = {}]
            /\ UNCHANGED <<screen, steps>>
       ELSE /\ Top.scrolls < MaxScrolls
            /\ screen' \in Live /\ Lower[screen'] \ Top.seen # {}
            /\ stack' = WithTop([Scrolled EXCEPT
                            !.todo = Lower[screen'] \ Top.seen,
                            !.seen = @ \cup Lower[screen'],
                            !.money = @ \/ screen' \in MoneyLower])
            /\ steps' = steps + 1
            /\ UNCHANGED pending
  /\ UNCHANGED <<phase, new, result, gating, probed>>

\* The scroll brings nothing new: the driver cannot scroll or raised, the app was
\* left, or all that shows was seen.
ScrollInVain ==
  /\ Ready /\ Here /\ Top.todo = {} /\ pending[Top.fp] = {}
  /\ Top.scrolls < MaxScrolls
  /\ screen' \in Live
  /\ Lower[screen'] \subseteq Top.seen \/ Flaky \/ screen' = screen
  /\ stack' = WithTop(Scrolled)
  /\ steps' = steps + 1
  /\ phase' = "leave"
  /\ UNCHANGED <<pending, new, result, gating, probed>>

\* After a scroll in vain the frame is left in the same turn of the loop.
Leaving == phase = "leave" /\ stack # <<>> /\ UNCHANGED budget

\* Nothing left to do here, with or without a last scroll.
NothingLeft ==
  \/ Leaving
  \/ /\ Ready /\ Here /\ Top.todo = {} /\ pending[Top.fp] = {}
     /\ Top.scrolls >= MaxScrolls

\* The frame is dropped: back to the parent.
Finish ==
  /\ NothingLeft
  /\ IF Rest = <<>> THEN UNCHANGED <<screen, backs, steps>>
     ELSE /\ steps' = steps + 1
          /\ \E q \in Live, plain \in BOOLEAN :
                GoBack(Parent, q, plain) /\ NoteBack(Top.fp, Parent, plain)
  /\ stack' = Marked(Rest, screen')
  /\ phase' = "loop"
  /\ UNCHANGED <<pending, new, entry, mapped, edges, gated, findings, gating, probed>>

\* Mutant: the queue is peeked at, not popped.
Peeked(e) == Frame

\* The frame once control e has left its queue.
Without(e) == [Frame EXCEPT !.todo = @ \ {e}]

\* A blocked control is dropped untapped.
SkipBlocked ==
  /\ Ready /\ Here
  /\ \E e \in Top.todo :
        IsBlocked(e, Top.money) /\ stack' = WithTop(Without(e))
  /\ UNCHANGED <<phase, screen, pending, new, result, gating, probed, steps>>

\* The frame once control e was tapped: what the scroll showed may be gone.
Tapped(e) == [Without(e) EXCEPT !.scrolled = FALSE]

\* A control of the frame is tapped.
Tap(e) ==
  /\ Ready /\ Here
  /\ e \in Top.todo /\ ~IsBlocked(e, Top.money)
  /\ stack' = WithTop(Tapped(e))
  /\ steps' = steps + 1

\* The tap left the app: recover, and abandon the branch.
TapLeavesApp(e) ==
  /\ Tap(e)
  /\ \E p \in Live \cap Foreign :
        /\ screen' \in Recovers(p)
        /\ findings' = IF p \in CrashSites
             THEN findings \cup {[kind |-> "crash", src |-> Top.fp, dst |-> Blank]}
             ELSE findings
  /\ UNCHANGED <<phase, pending, new, entry, mapped, edges, gated, backs,
                 gating, probed>>

\* The screen after the tap cannot be read.
TapUnread(e) ==
  /\ Tap(e)
  /\ Flaky /\ screen' = Blank
  /\ UNCHANGED <<phase, pending, new, result, gating, probed>>

\* The tap did not navigate.
TapStays(e) ==
  /\ Tap(e)
  /\ screen' = Top.fp
  /\ Record(Top.fp, Top.fp, "tap")
  /\ UNCHANGED <<phase, pending, new, entry, mapped, gated, backs, findings,
                 gating, probed>>

\* The tap navigated; a generic error there that was not here is a finding.
TapNavigates(e) ==
  /\ Tap(e)
  /\ \E p \in Live \cap App : screen' \in Reads(p) \ {Blank, Top.fp}
  /\ Record(Top.fp, screen', "tap")
  /\ findings' = IF screen' \in Errors \ {Top.fp}
       THEN findings \cup {[kind |-> "error_screen", src |-> Top.fp,
                            dst |-> screen']}
       ELSE findings
  /\ new' = screen' /\ gate' = screen' /\ chain' = 0
  /\ phase' = "gate"
  /\ UNCHANGED <<pending, entry, mapped, gated, backs, fires, passed, probed>>
-----------------------------------------------------------------------------
(***************************************************************************)
(* The screen a tap led to, any gate on it passed.  A screen not mapped    *)
(* yet is charted and, unless it is a dead end, explored; a mapped one (or *)
(* any at the depth limit) is left again unless it has parked work.        *)
(***************************************************************************)

\* Mutant: the map is not consulted.
AlwaysFresh == Len(stack) < MaxDepth

\* Mutant: the depth limit is off by one.
FreshShallow == new \notin mapped /\ Len(stack) + 1 < MaxDepth

\* A screen not mapped yet, and room below it.
Fresh == new \notin mapped /\ Len(stack) < MaxDepth

ChartScreen ==
  /\ phase = "land" /\ Fresh /\ new \notin Terminal
  /\ Chart(new)
  /\ NoteScreen(new)
  /\ phase' = "form"
  /\ UNCHANGED <<screen, stack, pending, new, entry, edges, backs, findings,
                 gating, probed, steps, budget>>

ChartTerminal ==
  /\ phase = "land" /\ Fresh /\ new \in Terminal
  /\ Chart(new)
  /\ NoteScreen(new)
  /\ steps' = steps + 1
  /\ \E q \in Live, plain \in BOOLEAN : GoBack(Top.fp, q, plain)
  /\ stack' = Marked(stack, screen')
  /\ phase' = "loop"
  /\ UNCHANGED <<pending, new, entry, edges, backs, findings, gating, probed,
                 budget>>

\* _resume_parked takes the parked work out before it looks at the depth.
Resume ==
  /\ phase = "land" /\ ~Fresh
  /\ pending[new] # {} /\ Len(stack) < MaxDepth
  /\ stack' = Append(stack, NewFrame(new, pending[new]))
  /\ pending' = [pending EXCEPT ![new] = {}]
  /\ phase' = "loop"
  /\ UNCHANGED <<screen, new, result, gating, probed, steps, budget>>

ReturnToParent ==
  /\ phase = "land" /\ ~Fresh
  /\ pending[new] = {} \/ Len(stack) >= MaxDepth
  /\ pending' = [pending EXCEPT ![new] = {}]
  /\ steps' = steps + 1
  /\ \E q \in Live, plain \in BOOLEAN :
        GoBack(Top.fp, q, plain) /\ NoteBack(new, Top.fp, plain)
  /\ stack' = Marked(stack, screen')
  /\ phase' = "loop"
  /\ UNCHANGED <<new, entry, mapped, edges, gated, findings, gating, probed,
                 budget>>
-----------------------------------------------------------------------------
\* The walk is over: nothing left, or one of the three budgets is spent.
Stop ==
  /\ phase = "loop"
  /\ stack = <<>> \/ ~WithinBudget \/ TimeLimit
  /\ phase' = "done"
  /\ UNCHANGED <<screen, stack, pending, new, result, gating, probed, steps,
                 budget>>

\* crawl(): a driver error anywhere ends the crawl with the map so far.
DriverError ==
  /\ phase \notin {"done", "failed"}
  /\ phase' = "failed"
  /\ UNCHANGED <<screen, stack, pending, new, result, gating, probed, steps,
                 budget>>

TapControl ==
  \E e \in Element :
    TapLeavesApp(e) \/ TapUnread(e) \/ TapStays(e) \/ TapNavigates(e)

HandleForm ==
  \/ SkipProbe \/ ProbeNothing \/ ProbeStrays \/ ProbeRaises
  \/ ProbeRejected \/ ProbeAdvances \/ FillValid \/ PushFrame

PassGates == FireWaypoint \/ StopAtGate \/ CrossEntryGate \/ CrossGate

Land == ChartScreen \/ ChartTerminal \/ Resume \/ ReturnToParent

Loop ==
  Abandon \/ Refill \/ ScrollInVain \/ Finish \/ SkipBlocked \/ TapControl \/ Stop

Step == GiveUp \/ ReadEntry \/ PassGates \/ HandleForm \/ Loop \/ Land

Next == Step \/ DriverError

Spec == Init /\ [][Next]_vars

(***************************************************************************)
(* The crawler is one thread that always takes its next step; the device   *)
(* is never obliged to fail.                                               *)
(***************************************************************************)
FairSpec == Spec /\ WF_vars(Step)
-----------------------------------------------------------------------------
(***************************************************************************)
(* A screen is on the stack at most once, and what is parked for a screen  *)
(* belongs to no frame on it: so the resync that parks a frame's queue     *)
(* never mixes two visits, and a resumed frame owns its screen alone.      *)
(***************************************************************************)
OneFramePerScreen ==
  /\ \A i, j \in 1..Len(stack) : stack[i].fp = stack[j].fp => i = j
  /\ \A i \in 1..Len(stack) : pending[stack[i].fp] = {}

(***************************************************************************)
(* Whatever the crawl works on or reports a defect of is on the map: the   *)
(* frames of _dfs, the parked work and the source of every finding, which  *)
(* defect_cases needs to navigate to.                                      *)
(***************************************************************************)
WorkIsMapped ==
  /\ \A i \in 1..Len(stack) : stack[i].fp \in mapped
  /\ \A p \in Place : pending[p] # {} => p \in mapped
  /\ \A f \in findings : f.src \in mapped

(***************************************************************************)
(* The step budget is checked at the head of the loop only, and no turn of *)
(* it overshoots by more than one step; the stack respects max_depth.      *)
(***************************************************************************)
WithinBounds == steps <= MaxSteps + 1 /\ Len(stack) <= MaxDepth

(***************************************************************************)
(* At every head of the loop both ends of every recorded transition are on *)
(* the map: build_graph drops a transition whose end is missing, and with  *)
(* it every path of the generated tests through it.                        *)
(***************************************************************************)
EdgesEndInMap ==
  phase = "loop" => \A e \in edges : {e.src, e.dst} \subseteq mapped

\* Screens of other apps are never recorded ("Never crawl a foreign screen").
\* A gate that opens another app refutes it.
OnlyAppMapped == mapped \cap Foreign = {}

(***************************************************************************)
(* A screen charted once a gate was passed is tagged as behind auth, in    *)
(* the step that charts it, unless it is the gate itself being crossed.    *)
(***************************************************************************)
GatedTagged ==
  [][\A p \in mapped' \ mapped : passed =>
        p \in gated' \/ (phase = "crossed" /\ p = new)]_vars

(***************************************************************************)
(* A control is tapped only while the device shows the frame's screen, or  *)
(* the very screen a scroll has just found the control on: whatever else   *)
(* moved the device, the crawler looked before it taps.                    *)
(***************************************************************************)
Aimed(e) == screen = Top.fp \/ (Top.scrolled /\ e \in Lower[screen])

TapsHitTheirScreen == [][\A e \in Element : Tap(e) => Aimed(e)]_vars

\* A control is tapped only while the device shows the screen of its frame.  A
\* scroll that changes the screen refutes it, and so do the transition recorded
\* for the tap and the frame's mark, which is left as it is.
TapsHitTheirFrame == [][TapControl => screen = Top.fp]_vars

\* No tap ever lands on another app (_own, "after any drift").  A recovery that
\* fails refutes it.
NeverTapsForeign == [][TapControl => OnApp(screen)]_vars

(***************************************************************************)
(* A pair recorded in back_returns was observed: Back was pressed while    *)
(* the device showed the child, or whatever the last scroll of the child   *)
(* has left it on.                                                         *)
(***************************************************************************)
BacksObserved ==
  [][\A b \in backs' \ backs : screen = b[1] \/ (Top.fp = b[1] /\ Top.scrolled)]_vars

\* A pair recorded in back_returns was observed on the child itself ("observed
\* behaviour a test can pin").  The fruitless scroll before Back refutes it.
BacksOfTheChild == [][\A b \in backs' \ backs : screen = b[1]]_vars

(***************************************************************************)
(* Work is never lost: a control that was queued or parked leaves the      *)
(* books of the walk only one at a time, by being tapped (a step) or by    *)
(* being found blocked, from the frame at work.                            *)
(***************************************************************************)
Owed ==
  {o \in Place \X Element :
     \/ o[2] \in pending[o[1]]
     \/ \E i \in 1..Len(stack) : stack[i].fp = o[1] /\ o[2] \in stack[i].todo}

WorkKept ==
  [][\A o \in Owed \ Owed' :
        /\ phase = "loop" /\ o[1] = Top.fp /\ Owed \ Owed' = {o}
        /\ steps' > steps \/ IsBlocked(o[2], Top.money)]_vars

(***************************************************************************)
(* Valid data is typed into a form only while the device shows that form,  *)
(* or shows nothing readable (_handle_form: anything else types blind).    *)
(***************************************************************************)
FillsOnlyTheForm == [][FillValid /\ screen # Blank => screen = new]_vars

(***************************************************************************)
(* A money verb below the fold of a screen whose money field is below the  *)
(* fold too is never tapped from a frame that has not scrolled: the one    *)
(* that found the verb saw the field.  A resumed frame refutes it.         *)
(***************************************************************************)
MoneyVerbsGated ==
  [][\A e \in MoneyVerb :
        Tap(e) => ~(Top.fp \in MoneyLower /\ e \notin Shown[Top.fp] /\ Top.scrolls = 0)]_vars

(***************************************************************************)
(* Whatever the device does, the crawl ends: even with the wall clock and  *)
(* the novelty budget off, the step budget and the queues run out.         *)
(***************************************************************************)
Terminates == <>(phase \in {"done", "failed"})

(***************************************************************************)
(* What makes the books above hold from step to step, by the place of the  *)
(* crawler: before the entry is read there is no map; the screen a tap led *)
(* to is linked to the map until it is charted; the screen about to be     *)
(* pushed is charted, on no frame, and has room above the stack; a screen  *)
(* is left again, or a form probed, only with a step of the budget spare;  *)
(* and the frame a scroll in vain leaves has nothing queued.               *)
(***************************************************************************)
AtEntry == phase \in {"gate", "crossed"} /\ stack = <<>>
AtTapped == phase \in {"gate", "crossed", "land"} /\ stack # <<>>
AtForm == phase \in {"form", "fill", "push"}

BeforeTheMap == phase = "start" => stack = <<>> /\ mapped = {} /\ edges = {}

NewIsLinked ==
  /\ AtTapped => \E e \in edges : e.dst = new /\ e.src \in mapped
  /\ phase = "land" => stack # <<>>

NewIsFree ==
  AtEntry \/ AtForm =>
    new \in mapped /\ \A i \in 1..Len(stack) : stack[i].fp # new

RoomLeft ==
  /\ phase \in {"start", "gate", "crossed", "land", "form", "leave"} => steps <= MaxSteps
  /\ AtForm => Len(stack) < MaxDepth

LeftIsIdle == phase = "leave" => stack # <<>> /\ Top.todo = {}

BooksInv ==
  /\ OneFramePerScreen /\ WorkIsMapped
  /\ BeforeTheMap /\ NewIsLinked /\ NewIsFree /\ LeftIsIdle

WalkInv == BooksInv /\ WithinBounds /\ RoomLeft

(***************************************************************************)
(* What the crawler knows of the screen it handles: it was read, and the   *)
(* device shows it, or nothing, until a form is dealt with; both ends of a *)
(* transition are on the map but for the one being followed, which is      *)
(* charted yet if there is room for every screen of the device.            *)
(***************************************************************************)
Screens == App \cup Foreign

MappedIsRead ==
  /\ mapped \subseteq Screens
  /\ AtTapped => new \in Screens

NewIsShown ==
  /\ phase = "gate" /\ chain = 0 => screen = new
  /\ phase \in {"land", "form", "fill"} => screen \in {new, Blank}

NoGateYet == phase = "start" => ~passed

ReadInv == MappedIsRead /\ NewIsShown /\ NoGateYet

EndsFollow ==
  phase # "failed" =>
    \A e \in edges : /\ e.src \in mapped
                     /\ e.dst \in mapped \/ (AtTapped /\ e.dst = new)

(***************************************************************************)
(* On an app that keeps the foreground and always answers, a synced frame  *)
(* is the screen on the device, unless it was scrolled since, or is one of *)
(* the forms _handle_form may leave behind; what a scroll has queued is on *)
(* the screen it revealed; and the screen just reached is shown until a    *)
(* gate moves on.                                                          *)
(***************************************************************************)
FormLike == Forms \cup AutoSubmit

SyncInv ==
  /\ phase \in {"loop", "leave"} /\ stack # <<>> /\ Top.synced =>
       screen = Top.fp \/ Top.scrolled \/ Top.fp \in FormLike
  /\ phase = "loop" /\ stack # <<>> /\ Top.scrolled => Top.todo \subseteq Lower[screen]
  /\ phase \in {"land", "form"} => screen = new
  /\ phase \in {"fill", "push"} => screen = new \/ new \in FormLike
  /\ phase = "gate" /\ chain = 0 => screen = new
  /\ phase = "leave" => Top.scrolled
  /\ screen \in App

(***************************************************************************)
(* The crawl implements the abstract map: it grows only from charted       *)
(* screens along recorded transitions, so all of it is reachable.          *)
(***************************************************************************)
Map == INSTANCE CrawlMap WITH Kind <- {"tap", "gate", "probe"}
MapSpec == Map!Spec

\* Every screen of the map can be walked to from the entry screen.
MapConnected == Map!Connected
=============================================================================
