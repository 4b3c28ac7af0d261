SPECIFICATION Spec
CONSTANTS
  Node = {1, 2, 3, 4}
  Wide = 3
  Long = 5
  Crawls <- SmallCrawls
INVARIANTS DepthsAreDistances WalksCover CyclesAreFound
