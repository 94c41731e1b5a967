CONSTANTS
  org = org
  team = team
  project = project
  A = A
  B = B
  Bad = Bad
  NamespaceKeys <- MCKeys
  OtherKeys = {project}
  Values = {A, B, Bad}
  Legal = {A, B}
  Actors = {a1, a2}
  Sockets = {s1}
  Bodies <- MCBodies
  Identities <- MCIdentities
  Addresses <- MCAddresses
  MaxMoves = 2
  MaxEvents = 2
SPECIFICATION Spec
SYMMETRY Symmetry
INVARIANTS
  TypeOK
  NoCrossing
  SameTenancyMeets
  CacheFits
  MovesAnnounced
CHECK_DEADLOCK FALSE
