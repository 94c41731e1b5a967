SPECIFICATION Spec
CONSTANTS
  Streams = {s1, s2}
  NoStream = NoStream
  MaxDeltas = 1
  MaxYields = 0
  MaxInterrupts = 1
  YieldsInside = FALSE
SYMMETRY StreamSymmetry
INVARIANTS
  ClosedBeforeTerminal
\* The run is over and its generator closed: nothing is left to do.
CHECK_DEADLOCK FALSE
