SPECIFICATION Spec
CONSTANTS
  Streams = {s1, s2}
  NoStream = NoStream
  MaxDeltas = 1
  MaxYields = 1
  MaxInterrupts = 2
  YieldsInside = TRUE
SYMMETRY StreamSymmetry
INVARIANTS
  TypeOK
  FewOrphans
  WholeUnlessInterrupted
PROPERTIES
  ContractSpec
\* The run is over and its generator closed: nothing is left to do.
CHECK_DEADLOCK FALSE
