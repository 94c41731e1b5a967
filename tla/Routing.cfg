SPECIFICATION Spec
CONSTANTS
  ann = ann
  ops = ops
  law = law
  People = {ann}
  Assistants = {ops, law}
  NoOne = NoOne
  Drafts <- MCDrafts
  Invitations <- MCInvitations
  Keys = {key}
  NoKey = NoKey
  MaxMessages = 2
  MaxRequests = 1
  MaxRuns = 2
  MaxChanges = 1
  ChainDepthCap = 1
  Lookback = 2
INVARIANTS
  TypeOK
  CalledOnce
  TriggerIsFound
  AddresseeHasRun
  InviteeHasRun
  ChainBounded
\* Messages and runs are used up: nothing is left to do.
CHECK_DEADLOCK FALSE
