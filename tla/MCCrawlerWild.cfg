\* Every hazard at once on a small app: other apps, blank dumps, gates, forms,
\* dead ends, findings, parked work.
SPECIFICATION FairSpec
CONSTANTS
  e1 = e1
  e2 = e2
  App = {a, b, c}
  Foreign = {x}
  Blank = Blank
  Element = {e1, e2}
  Shown <- MoreOnForms
  Lower <- BothAfterScroll
  Blocked = {}
  MoneyVerb = {e2}
  Money = {b, c}
  MoneyLower = {a}
  Gates = {a, b}
  Forms = {b}
  AutoSubmit = {a}
  Terminal = {c}
  Unsettled = {}
  Errors = {b}
  CrashSites = {x}
  Flaky = TRUE
  TimeLimit = FALSE
  MaxSteps = 6
  MaxDepth = 3
  MaxNoveltyGap = 4
  MaxScrolls = 1
  MaxWaypointFires = 1
  MaxGateChain = 2
INVARIANTS OneFramePerScreen WorkIsMapped WithinBounds
PROPERTIES GatedTagged MapSpec FillsOnlyTheForm Terminates
CHECK_DEADLOCK FALSE
