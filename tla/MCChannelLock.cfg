SPECIFICATION Spec
CONSTANTS
  p1 = p1
  p2 = p2
  p3 = p3
  p4 = p4
  p5 = p5
  Proc = {p1, p2, p3, p4}
  PidOf <- MCPidOf
  StartOf <- MCStartOf
  Unknown = Unknown
  NoPid = NoPid
  Nobody = Nobody
  KnowsBoot = TRUE
  MaxBoot = 1
  MaxAttempts = 2
  MutexAges = FALSE
INVARIANTS TypeOK MutualExclusion NoAbandonedLiveLock
PROPERTY LiveLockUntouched
CHECK_DEADLOCK FALSE
