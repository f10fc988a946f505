SPECIFICATION FairSpec
CONSTANTS
  p1 = p1
  p2 = p2
  p3 = p3
  p4 = p4
  p5 = p5
  Proc = {p1, p2, p3, p5}
  PidOf <- MCPidOf
  StartOf <- MCStartOf
  Unknown = Unknown
  NoPid = NoPid
  Nobody = Nobody
  KnowsBoot = TRUE
  MaxBoot = 1
  MaxAttempts = 2
  MutexAges = TRUE
PROPERTIES AcquireEnds LoneAcquirerSucceeds
CHECK_DEADLOCK FALSE
