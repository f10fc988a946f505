SPECIFICATION FairSpec
CONSTANTS
  Field = {"g1", "g2"}
  Group = {"g1", "g2"}
  Pass = {r1}
  MaxUI = 1
  MaxLocal = 2
  Interrupted = TRUE
  LateWrites = FALSE
  Rejoins = FALSE
PROPERTIES ConvergesUnlessRaced Quiesces
CHECK_DEADLOCK FALSE
