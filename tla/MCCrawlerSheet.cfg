\* An app that keeps the foreground and always answers, but whose Back may end
\* anywhere (modals, tabs): what the synced mark and the parked work are for.
SPECIFICATION Spec
CONSTANTS
  e1 = e1
  e2 = e2
  App = {a, b, c}
  Foreign = {}
  Blank = Blank
  Element = {e1, e2}
  Shown <- LessOnObstacles
  Lower <- BothAfterScroll
  Blocked = {}
  MoneyVerb = {}
  Money = {}
  MoneyLower = {}
  Gates = {b}
  Forms = {}
  AutoSubmit = {}
  Terminal = {}
  Unsettled = {c}
  Errors = {}
  CrashSites = {}
  Flaky = FALSE
  TimeLimit = TRUE
  MaxSteps = 8
  MaxDepth = 3
  MaxNoveltyGap = 0
  MaxScrolls = 1
  MaxWaypointFires = 1
  MaxGateChain = 2
INVARIANTS EdgesEndInMap
PROPERTIES TapsHitTheirScreen BacksObserved WorkKept
CHECK_DEADLOCK FALSE
