------------------------------ MODULE TabCrawl ------------------------------
(***************************************************************************)
(* The crawl of an app with a bottom bar (_explore_tabs of                 *)
(* framework/crawler/app_crawler.py): every tab is tapped once and what it *)
(* shows is a section root; then each section is returned to through its   *)
(* tab and walked by _dfs, the walk of Crawler, with the bar left out.     *)
(* Shown and Lower are the controls beside the bar.                        *)
(***************************************************************************)
EXTENDS Crawler

CONSTANTS
  Tabs,  \* entries of the bar
  Tries  \* taps _reanchor spends on a section

ASSUME BarIsABar == Tabs \in Nat \ {0, 1} /\ Tries \in Nat \ {0}

VARIABLES
  stage,  \* "home", pass 1 "roots", pass 2 "return" and "inside"
  home,   \* the screen the bar was seen on
  left,   \* tabs not tapped yet
  roots,  \* section roots not walked yet
  target, \* the section _reanchor returns to
  tries   \* its taps left

tabs == <<stage, home, left, roots, target, tries>>
tabVars == <<vars, tabs>>

TabInit ==
  /\ Init
  /\ stage = "home" /\ home = Blank /\ left = Tabs
  /\ roots = {} /\ target = Blank /\ tries = 0

\* _explore up to the bar: the entry, its gates and its form.
AtHome ==
  /\ stage = "home"
  /\ GiveUp \/ ReadEntry \/ PassGates \/ HandleForm
  /\ phase # "push"
  /\ UNCHANGED tabs

\* _explore: the screen has a bar.
SeeBar ==
  /\ stage = "home" /\ phase = "push"
  /\ phase' = "loop" /\ stage' = "roots" /\ home' = new
  /\ UNCHANGED <<screen, stack, pending, new, result, gating, probed, steps, budget,
                 left, roots, target, tries>>
-----------------------------------------------------------------------------
(* Pass 1: every tab once *)

\* Mutant: the edge is drawn from what the device showed.
FromScreen == screen

\* The screen a tab's transition starts from, wherever it was tapped.
TabSource == home

TapTab ==
  /\ stage = "roots" /\ phase = "loop" /\ left > 0 /\ WithinBudget
  /\ counted' = mapped /\ anchor' = Anchor
  /\ left' = left - 1 /\ steps' = steps + 1
  /\ UNCHANGED <<stage, home, target, tries, stack, pending, entry, backs, findings,
                 gating, probed>>

\* The tap left the app, or what it shows cannot be read.
TabLost ==
  /\ TapTab
  /\ \/ \E p \in Live \cap Foreign : screen' \in Recovers(p)
     \/ Flaky /\ screen' = Blank
  /\ UNCHANGED <<phase, new, mapped, edges, gated, roots>>

\* A section two tabs lead to is registered once.
TabAgain ==
  /\ TapTab
  /\ screen' \in roots
  /\ Record(TabSource, screen', "tap")
  /\ UNCHANGED <<phase, new, mapped, gated, roots>>

\* A section root is charted, and its form exercised.
TabShows ==
  /\ TapTab
  /\ screen' \in (Live \cap App) \ roots
  /\ Record(TabSource, screen', "tap")
  /\ Chart(screen') /\ NoteScreen(screen')
  /\ roots' = roots \cup {screen'} /\ new' = screen'
  /\ phase' = "form"

RootForm ==
  /\ stage = "roots" /\ phase \in {"form", "fill"}
  /\ HandleForm
  /\ UNCHANGED tabs

RootDone ==
  /\ stage = "roots" /\ phase = "push"
  /\ phase' = "loop"
  /\ UNCHANGED <<screen, stack, pending, new, result, gating, probed, steps, budget, tabs>>

\* Every tab was tapped, or a budget is spent.
RootsEnd ==
  /\ stage = "roots" /\ phase = "loop"
  /\ left = 0 \/ ~WithinBudget
  /\ stage' = "return"
  /\ UNCHANGED <<vars, home, left, roots, target, tries>>
-----------------------------------------------------------------------------
(* Pass 2: return to each section, and walk it *)

\* Mutant: the budget is not asked before a section is returned to.
AlwaysInBudget == TRUE

RoomForSection == WithinBudget

ToSection ==
  /\ phase = "loop" /\ stage = "return" /\ target = Blank /\ RoomForSection
  /\ counted' = mapped /\ anchor' = Anchor
  /\ \E r \in roots : target' = r /\ roots' = roots \ {r}
  /\ tries' = Tries
  /\ UNCHANGED <<phase, screen, stack, pending, new, result, gating, probed, steps,
                 stage, home, left>>

\* Mutant: the bar is taken at its word.
Trusted == Live

\* What the device must show before a section is walked.
Confirmed == Live \cap {target}

\* _reanchor: the tap shows the section, and its walk begins, with queues of its
\* own.
Returned ==
  /\ phase = "loop" /\ stage = "return" /\ target # Blank
  /\ screen' \in Confirmed
  /\ steps' = steps + 1
  /\ stack' = <<NewFrame(target, Shown[target])>>
  /\ pending' = [p \in Place |-> {}]
  /\ stage' = "inside" /\ target' = Blank
  /\ UNCHANGED <<phase, new, result, gating, probed, budget, home, left, roots, tries>>

\* Mutant: the section is tried for until it shows, off the books.
UntilItShows == [steps |-> steps, tries |-> tries]

\* A failed attempt is a tap and a Back, and one try.
Failed == [steps |-> steps + 2, tries |-> tries - 1]

\* _reanchor: the tap shows something else, Back is pressed, and tried again; a
\* section that cannot be returned to is left out.
NotReturned ==
  /\ phase = "loop" /\ stage = "return" /\ target # Blank
  /\ screen' \in Live
  /\ steps' = Failed.steps /\ tries' = Failed.tries
  /\ target' = IF tries' = 0 THEN Blank ELSE target
  /\ UNCHANGED <<phase, stack, pending, new, result, gating, probed, budget,
                 stage, home, left, roots>>

\* _dfs, but for its end.
Inside ==
  /\ stage = "inside"
  /\ \/ PassGates \/ HandleForm \/ Land
     \/ Abandon \/ Refill \/ ScrollInVain \/ Finish \/ SkipBlocked \/ TapControl
  /\ UNCHANGED tabs

SectionEnds ==
  /\ stage = "inside" /\ phase = "loop"
  /\ stack = <<>> \/ ~WithinBudget
  /\ stage' = "return"
  /\ stack' = <<>>
  /\ UNCHANGED <<phase, screen, pending, new, result, gating, probed, steps, budget,
                 home, left, roots, target, tries>>

TabsEnd ==
  /\ stage = "return" /\ phase = "loop" /\ target = Blank
  /\ roots = {} \/ ~WithinBudget
  /\ phase' = "done"
  /\ UNCHANGED <<screen, stack, pending, new, result, gating, probed, steps, budget, tabs>>

\* The wall clock ends the walk of a section, and then every loop after it.
OutOfTime ==
  /\ TimeLimit /\ phase = "loop" /\ target = Blank
  /\ phase' = "done"
  /\ UNCHANGED <<screen, stack, pending, new, result, gating, probed, steps, budget, tabs>>

TabError == DriverError /\ UNCHANGED tabs

TabStep ==
  \/ AtHome \/ SeeBar
  \/ TabLost \/ TabAgain \/ TabShows \/ RootForm \/ RootDone \/ RootsEnd
  \/ ToSection \/ Returned \/ NotReturned
  \/ Inside \/ SectionEnds \/ TabsEnd \/ OutOfTime

TabNext == TabStep \/ TabError

\* The crawler is one thread, as in Crawler.
TabSpec == TabInit /\ [][TabNext]_tabVars /\ WF_tabVars(TabStep)
-----------------------------------------------------------------------------
(***************************************************************************)
(* The budget is asked before a tab, before a section and at the head of   *)
(* _dfs: what overshoots it most is one section's taps and Backs.          *)
(***************************************************************************)
TabsWithinBounds == steps <= MaxSteps + 2 * Tries - 1 /\ Len(stack) <= MaxDepth

(***************************************************************************)
(* Wherever forms, other tabs and the walk before have left the device,    *)
(* the first tap in a section hits its root: a control of a frame nothing  *)
(* was tapped on yet, under which there is no other.                       *)
(***************************************************************************)
FirstTapOnRoot ==
  [][stage = "inside" /\ TapControl /\ Len(stack) = 1 /\ Top.todo = Shown[Top.fp]
       => screen = Top.fp]_tabVars

\* A tab is tapped while the bar is on screen.  A form that leads on refutes it:
\* the next tab is tapped on another screen, and its edge drawn from the home
\* screen all the same (app_crawler.py:684).
TabsAreTapped ==
  [][TabLost \/ TabAgain \/ TabShows => screen \in roots \cup {home}]_tabVars

\* Work parked in one section is there for the next.  It is not: every walk has
\* its own queues, whatever screens they share (app_crawler.py:1000).
ParkedIsKept == [][\A p \in Place : pending[p] # {} => stage' = stage \/ pending'[p] # {}]_tabVars
-----------------------------------------------------------------------------
(***************************************************************************)
(* What makes the budget, the map and the first taps above hold from step  *)
(* to step: outside a section no frame is left; a tab's transition starts  *)
(* on the map; a section to return to is on the map too, its taps were     *)
(* paid for when it was chosen; and the root's queue is whole only before  *)
(* its first control is taken, while the device still shows the root.      *)
(***************************************************************************)
TabTypeOK ==
  /\ stage \in {"home", "roots", "return", "inside"}
  /\ {home, target} \subseteq Place /\ roots \subseteq Place
  /\ {left, tries} \subseteq Nat

Sections ==
  /\ stage # "inside" => stack = <<>>
  /\ stage = "inside" /\ phase \notin {"loop", "done", "failed"} => stack # <<>>
  /\ stage # "home" => home \in mapped
  /\ roots \subseteq mapped

Returning ==
  target # Blank => /\ stage = "return" /\ target \in mapped /\ tries > 0
                    /\ steps + 2 * tries <= MaxSteps + 2 * Tries - 1

TabInv ==
  /\ TypeOK /\ TabTypeOK
  /\ BooksInv /\ RoomLeft /\ TabsWithinBounds
  /\ Sections /\ Returning

Root == stack[1]

RootIsFresh ==
  stage = "inside" /\ stack # <<>> =>
    /\ Shown[Root.fp] \subseteq Root.seen
    /\ Shown[Root.fp] \subseteq Root.todo /\ Shown[Root.fp] # {} =>
         /\ Len(stack) = 1 /\ phase \in {"loop", "done", "failed"}
         /\ Root.todo = Shown[Root.fp] /\ screen = Root.fp
=============================================================================
