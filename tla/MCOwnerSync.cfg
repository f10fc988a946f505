SPECIFICATION FairSpec
CONSTANTS
  Member = {m1, m2}
  Nobody = Nobody
  Pass = {r1, r2}
  MaxMoves = 2
  MaxDMs = 1
INVARIANTS TypeOK NameBelongsToOwner
PROPERTIES OnlyCoreRebinds OwnerFollowsCore OwnerGetsItsName
CHECK_DEADLOCK FALSE
