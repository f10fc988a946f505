SPECIFICATION Spec
CONSTANTS
  Key = {k1}
  Elsewhere = {}
  None = None
  Torn = Torn
  MaxMessages = 1
  MaxRuns = 2
  MaxStarts = 1
INVARIANT FirstSessionCatchesUp
CHECK_DEADLOCK FALSE
