CONSTANTS
  Threads = {t1, t2}
  Strings = {shared}
  Chunks <- MCChunks
  Limits <- MCLimits
  FirstRoom = 2
  GvlThreshold = 3
  MaxCalls = 3
  MaxAccepted = 5
  None = None
SPECIFICATION Spec
INVARIANTS
  ReturnedExact
  InputStable
PROPERTY
  CallsReturn
