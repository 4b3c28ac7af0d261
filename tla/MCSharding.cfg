SPECIFICATION Spec
CONSTANTS
  t1 = t1
  t2 = t2
  t3 = t3
  Test = {t1, t2, t3}
  FileOf <- Files
  Selects <- Names
  Duration = {2, 3, 5}
  MaxShards = 3
  MaxWorkers = 2
  Cap = 100
INVARIANTS TestsAccounted LightestFirst
CHECK_DEADLOCK FALSE
