\* Two clients, one after the other, and two streams over TCP; the engine may
\* be killed.
SPECIFICATION FairSpec
CONSTANTS
  Client = {c1, c2}
  Asker = {c1, c2}
  Stream = {s1, s2}
  None = None
  Stdio = FALSE
  MaxAsks = 2
  MaxLines = 1
INVARIANTS OneToolRuns ObituariesAreTrue StreamHasItsClient
PROPERTIES Reaped
CHECK_DEADLOCK FALSE
