\* Two projects press Start and Stop at will, close, lose the engine.
SPECIFICATION LogsFairSpec
CONSTANTS
  Client = {ide}
  Asker = {ide, 1, 2, 3}
  Stream = {s1, s2}
  None = None
  Stdio = TRUE
  MaxAsks = 3
  MaxLines = 0
  Panel = {p1, p2}
  SpawnMayFail = TRUE
  OneAtATime = FALSE
  MaxPresses = 3
  MaxAtOnce = 1
  MaxTimeOuts = 1
  MaxDeaths = 1
INVARIANTS NoOrphanStream
PROPERTIES CallsEnd
CHECK_DEADLOCK FALSE
