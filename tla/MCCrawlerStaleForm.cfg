\* Forms on an app that keeps the foreground and always answers.
SPECIFICATION Spec
CONSTANTS
  e1 = e1
  e2 = e2
  App = {a, b, c}
  Foreign = {}
  Blank = Blank
  Element = {e1, e2}
  Shown <- OneControl
  Lower <- OneControl
  Blocked = {}
  MoneyVerb = {}
  Money = {}
  MoneyLower = {}
  Gates = {}
  Forms = {a, b}
  AutoSubmit = {}
  Terminal = {}
  Unsettled = {}
  Errors = {}
  CrashSites = {}
  Flaky = FALSE
  TimeLimit = FALSE
  MaxSteps = 8
  MaxDepth = 3
  MaxNoveltyGap = 0
  MaxScrolls = 1
  MaxWaypointFires = 1
  MaxGateChain = 2
PROPERTIES TapsHitTheirScreen
CHECK_DEADLOCK FALSE
