SPECIFICATION Spec
CONSTANT
  Call = {c1, c2, c3}
INVARIANTS
  ClaimIsReleased
  TurnEndsWatches
  FirstInLineHearsEnd
CHECK_DEADLOCK FALSE
SYMMETRY CallSymmetry
