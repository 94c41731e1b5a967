CONSTANTS
  N = 3
  Own = {1, 2}
  MaxLimit = 2
SPECIFICATION Spec
INVARIANTS
  TypeOK
  WalkMissesNothing
  NewestFirst
  OwnThreadShown
CHECK_DEADLOCK FALSE
