CONSTANTS
  People = {p1, p2}
  Creator = p1
  MaxRequests = 2
  MaxMounts = 2
SPECIFICATION FairSpec
INVARIANTS
  TypeOK
  SettledViewIsTrue
  MembershipAnswers
PROPERTIES
  ViewMovesForward
  ChangesAreShown
CHECK_DEADLOCK FALSE
