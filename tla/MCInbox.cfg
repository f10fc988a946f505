SPECIFICATION Spec
CONSTANTS
  MaxSeq = 3
  History = 1
  NonMessage = {2}
  PageSize = 2
  MaxEvents = 10
  DedupeCap = 1
  ReceivedCap = 1
  MaxStarts = 2
  DetailFails = TRUE
INVARIANTS TypeOK LossHasOneCause
PROPERTY KeepsPromise
CHECK_DEADLOCK FALSE
