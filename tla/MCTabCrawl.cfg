SPECIFICATION TabSpec
CONSTANTS
  App = {a, b, c}
  Foreign = {x}
  Blank = Blank
  Element = {e1}
  Shown <- EveryControl
  Lower <- EveryControl
  Blocked = {}
  MoneyVerb = {}
  Money = {}
  MoneyLower = {}
  Gates = {a}
  Forms = {b}
  AutoSubmit = {}
  Terminal = {}
  Unsettled = {}
  Errors = {}
  CrashSites = {}
  Flaky = TRUE
  TimeLimit = TRUE
  MaxSteps = 8
  MaxDepth = 2
  MaxNoveltyGap = 4
  MaxScrolls = 0
  MaxWaypointFires = 1
  MaxGateChain = 1
  Tabs = 3
  Tries = 3
INVARIANTS TabsWithinBounds
PROPERTIES MapSpec FirstTapOnRoot Terminates
CHECK_DEADLOCK FALSE
