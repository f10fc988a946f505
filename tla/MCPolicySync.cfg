SPECIFICATION Spec
CONSTANTS
  Field = {"g1"}
  Group = {"g1"}
  Pass = {r1, r2}
  MaxUI = 1
  MaxLocal = 1
  Interrupted = TRUE
  LateWrites = TRUE
  Rejoins = TRUE
INVARIANT TypeOK
PROPERTY ErasureOnlyInWindow
SYMMETRY PassSymmetry
CHECK_DEADLOCK FALSE
