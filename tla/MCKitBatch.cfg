\* Batches of up to three configs, three devices, a pool of two threads.
SPECIFICATION FairSpec
CONSTANTS
  d1 = d1
  d2 = d2
  d3 = d3
  kit = kit
  app = app
  web = web
  None = None
  Android = {d1}
  Ios = {d2, d3}
  Name = {kit, app, web}
  BatchSize = 3
  Batches <- AnyBatch
  PoolSize = 2
INVARIANTS NamedOnePerDevice CapturesItsOwn CleanedUp OutputsApart ReturnsInOrder
PROPERTIES BatchEnds
CHECK_DEADLOCK FALSE
