SPECIFICATION Spec
CONSTANTS
  Calls = {c1}
  Runs = {r1, r2}
  Assistants = {a}
  Keys = {k}
  NoKey = NoKey
  NoRun = NoRun
  NoAssistant = NoAssistant
  MaxChainDepth = 1
  Budget <- OneCancel
INVARIANTS
  DoneMeansEnded
CHECK_DEADLOCK FALSE
