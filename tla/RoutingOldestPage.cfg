SPECIFICATION Spec
CONSTANTS
  ann = ann
  ops = ops
  law = law
  People = {ann}
  Assistants = {ops, law}
  NoOne = NoOne
  Drafts <- ChainDrafts
  Invitations <- MCInvitations
  Keys = {}
  NoKey = NoKey
  MaxMessages = 2
  MaxRequests = 0
  MaxRuns = 2
  MaxChanges = 0
  ChainDepthCap = 2
  Lookback = 1
INVARIANTS
  QueryWalksFromLatest
\* Messages and runs are used up: nothing is left to do.
CHECK_DEADLOCK FALSE
