SPECIFICATION FairSpec
CONSTANTS
  Calls = {c1, c2}
  Runs = {r1, r2}
  Assistants = {a}
  Keys = {k}
  NoKey = NoKey
  NoRun = NoRun
  NoAssistant = NoAssistant
  MaxChainDepth = 1
  Budget <- NoFault
PROPERTIES
  DriverEnds
  ExecuteEnds
  RunEnds
CHECK_DEADLOCK FALSE
