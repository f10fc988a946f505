SPECIFICATION ShortSpec
CONSTANTS
  Key = {k1, k2}
  Elsewhere = {k1, k2}
  None = None
  Torn = Torn
  MaxMessages = 1
  MaxRuns = 1
  MaxStarts = 3
SYMMETRY KeySymmetry
INVARIANTS
  TypeOK
  CursorIsOurs
  MarkedSessionCatchesUp
  OneIdentityPerRun
  OnboardedKeyStays
PROPERTY NoReplay
CHECK_DEADLOCK FALSE
