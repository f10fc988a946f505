SPECIFICATION SplitFairSpec
CONSTANTS
  w1 = w1
  w2 = w2
  w3 = w3
  w4 = w4
  NoWake = none
  Wake <- MCWake
  Malformed = {w4}
  Blank = {w3}
  MessageOf <- MCMessageOf
  Debounce = TRUE
  MaxBatch = 2
  MaxSessions = 2
INVARIANTS TypeOK SplitTypeOK ResultIsPushFate PushedOkMeansNoticed BridgeOkMeansNoticed ShownAgainOnlyIfUnanswered
PROPERTY EveryAttemptSettles
CHECK_DEADLOCK FALSE
