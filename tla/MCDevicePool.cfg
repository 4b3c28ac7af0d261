SPECIFICATION Spec
CONSTANTS
  d1 = d1
  d2 = d2
  d3 = d3
  Device = {d1, d2, d3}
  Client = {c1, c2}
  Filters <- SomeFilters
  Strategy = "round_robin"
INVARIANTS OneHolder
PROPERTIES TakesTurns
