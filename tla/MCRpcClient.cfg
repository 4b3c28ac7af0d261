\* Two calls, an engine that may hang or die, and a close.
SPECIFICATION FairSpec
CONSTANTS
  Call = {a, b}
  None = None
INVARIANTS NoParkedCall PendingIsUnderway
PROPERTIES FailsFast CloseEnds
CHECK_DEADLOCK FALSE
