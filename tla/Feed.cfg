SPECIFICATION FairSpec
CONSTANTS
  MaxEvents = 3
  MaxJoins = 2
  MaxDrops = 1
  ReplayCap = 1
INVARIANTS
  TypeOK
  ReplayMeetsLive
PROPERTIES
  Delivered
  JoinEnds
\* Every event is published and the mounts are used up: nothing is left to do.
CHECK_DEADLOCK FALSE
