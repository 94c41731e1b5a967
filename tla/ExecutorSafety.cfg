SPECIFICATION Spec
CONSTANTS
  Calls = {c1, c2}
  Runs = {r1, r2}
  Assistants = {a, b}
  Keys = {k}
  NoKey = NoKey
  NoRun = NoRun
  NoAssistant = NoAssistant
  MaxChainDepth = 1
  Budget <- OneEach
SYMMETRY RunSymmetry
INVARIANTS
  TypeOK
  HandlerExclusion
  FinishedMeansFree
  LogShape
  OneRunPerKey
  AnswerServes
  LiveDriverCancellable
PROPERTIES
  RecordSpec
  SlotSpec
CHECK_DEADLOCK FALSE
