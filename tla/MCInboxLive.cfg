SPECIFICATION OneStartSpec
CONSTANTS
  MaxSeq = 4
  History = 1
  NonMessage = {1, 2}
  PageSize = 1
  MaxEvents = 4
  DedupeCap = 1
  ReceivedCap = 4
  MaxStarts = 1
  DetailFails = TRUE
INVARIANT NoSecondDelivery
PROPERTY GapsAreFilled
CHECK_DEADLOCK FALSE
