SPECIFICATION Spec
CONSTANTS
  MaxSeq = 2
  History = 1
  NonMessage = {}
  PageSize = 2
  MaxEvents = 10
  DedupeCap = 1
  ReceivedCap = 1
  MaxStarts = 2
  DetailFails = TRUE
INVARIANT MarkersAreHeld
CHECK_DEADLOCK FALSE
